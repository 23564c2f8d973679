------------------------------ MODULE PageLists ------------------------------
(***************************************************************************)
(* The lists of the page, each with variables of its own: the log, the     *)
(* folders of connections and the servers.  They meet nowhere.             *)
(***************************************************************************)
CONSTANTS
    MAX_LOG_ENTRIES, MaxLines,                                              \* LogView
    ConnectionIds, HostOf, ProcessOf, MULTIPART_SUFFIXES, Before, MaxBytes, \* Connections
    Links, NoLink, Lists, SubIds, NameOf, TypeOf, Found, MaxLatency, MaxAsked \* ServerList

VARIABLES
    logsArray, logView, logOpen, domStale, logFilter, typed, searchTimer, notice, arrived,
    conSort, conDrawn, lastDrawn, dom, signature, openFolders, members, expanded,
    subscriptions, currentActiveSubId, favoriteLinks, pingData, currentSortMode, searching,
    activeServerLink, cards, cardsUpdateTimer, pings, rounds, searchingBest

logVars == <<logsArray, logView, logOpen, domStale, logFilter, typed, searchTimer, notice,
             arrived>>
conVars == <<conSort, conDrawn, lastDrawn, dom, signature, openFolders, members, expanded>>
srvVars == <<subscriptions, currentActiveSubId, favoriteLinks, pingData, currentSortMode,
             searching, activeServerLink, cards, cardsUpdateTimer, pings, rounds,
             searchingBest>>

Log == INSTANCE LogView WITH shown <- logView, open <- logOpen, filter <- logFilter
Con == INSTANCE Connections WITH
       Ids <- ConnectionIds, sort <- conSort, drawn <- conDrawn, last <- lastDrawn,
       open <- openFolders
Srv == INSTANCE ServerList WITH asked <- pings

ASSUME PageListsAssumption ==
    Log!LogViewAssumption /\ Con!ConnectionsAssumption /\ Srv!ServerListAssumption

(* Log and server list show what they would if they were built anew        *)
(* (addLogEntries, renderCards), the servers in their order (sortServers), *)
(* and folders of connections keep their order and the user's choice of    *)
(* those that are open (renderGroupSection).                               *)
ListsAreCurrent ==
    /\ Log!TypeOK /\ Srv!TypeOK /\ Con!TypeOK
    /\ Log!ViewIsLog
    /\ Srv!ListIsCurrent /\ Srv!FastestFirst
    /\ Con!FoldersInOrder /\ Con!FoldersStayOpen
=============================================================================
