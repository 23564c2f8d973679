----------------------------- MODULE ServerList -----------------------------
(***************************************************************************)
(* The tab of servers (renderer.ts, server-manager.ts): which servers are  *)
(* listed, in which order, and the latency each card shows while answers   *)
(* to pings come in one by one.  A card's latency is written in place,     *)
(* except when the list is sorted by latency: then the list is built anew, *)
(* 250 ms after the first of a row of answers.                             *)
(*                                                                         *)
(* A server is its link; its name, protocol and whether the text the user  *)
(* searches for is in it are constants.                                    *)
(***************************************************************************)
EXTENDS Enumeration, SequencesExt

CONSTANTS
    Links, NoLink,
    Lists,       \* what the file of subscriptions may hold: [SubIds -> links]
    SubIds,      \* its entries, in this order
    NameOf, TypeOf,  \* ranks of a link's name and protocol
    Found,       \* the links a search finds
    MaxLatency,  \* latencies are 0..MaxLatency
    MaxAsked     \* bound: rounds of pings

ServerListAssumption ==
    /\ IsFiniteSet(Links) /\ SubIds \in Seq(Range(SubIds))
    /\ Lists \subseteq [Range(SubIds) -> Seq(Links)] /\ Found \subseteq Links
    /\ NoLink \notin Links /\ NameOf \in [Links -> Nat] /\ TypeOf \in [Links -> Nat]
    /\ MaxLatency \in 0..9999   \* pings end after three seconds (PingServer)
    /\ MaxAsked \in Nat

VARIABLES
    subscriptions,      \* allSubscriptions
    currentActiveSubId,
    favoriteLinks,
    pingData,
    currentSortMode,
    searching,          \* serverSearchQuery is not empty
    activeServerLink,
    cards,              \* serversGrid's children
    cardsUpdateTimer,   \* it is set
    asked,              \* calls of PingServer under way, by link
    rounds,             \* rounds of pings so far
    searchingBest       \* the links bestServer has asked, {} when it has not

vars == <<subscriptions, currentActiveSubId, favoriteLinks, pingData, currentSortMode,
          searching, activeServerLink, cards, cardsUpdateTimer, asked, rounds, searchingBest>>

Unmeasured == -3
Pinging == -2
Failed == -1
PingValues == {Unmeasured, Pinging, Failed} \cup 0..MaxLatency
SortModes == {"default", "ping", "name", "protocol"}
Tabs == {"all", "favorites"} \cup Range(SubIds)
Card == [link: Links, latency: PingValues, selected: BOOLEAN, starred: BOOLEAN]

TypeOK ==
    /\ subscriptions \in Lists /\ currentActiveSubId \in Tabs
    /\ favoriteLinks \in SUBSET Links /\ pingData \in [Links -> PingValues]
    /\ currentSortMode \in SortModes /\ searching \in BOOLEAN
    /\ activeServerLink \in Links \cup {NoLink} /\ cards \in Seq(Card)
    /\ cardsUpdateTimer \in BOOLEAN
    /\ asked \in [Links -> 0..MaxAsked] /\ rounds \in 0..MaxAsked
    /\ searchingBest \in SUBSET Links

(* latencyRank, sortServers: a stable sort of some places of a list.      *)
latencyRank(value) ==
    IF value = Failed THEN 20000 ELSE IF value < 0 THEN 10000 ELSE value
RankIn(mode, pings, l) ==
    CASE mode = "ping" -> latencyRank(pings[l])
      [] mode = "name" -> NameOf[l]
      [] mode = "protocol" -> TypeOf[l]
      [] OTHER -> 0
Sooner(list, places, mode, pings) ==
    LET rank == [i \in places |-> RankIn(mode, pings, list[i])]
    IN  {p \in places \X places :
            rank[p[1]] < rank[p[2]] \/ (rank[p[1]] = rank[p[2]] /\ p[1] < p[2])}
sortServers(list, places, mode, pings) == Ranked(places, Sooner(list, places, mode, pings))

(* What updateCards and renderCards make of a page's state p.  The links   *)
(* of favorites stand in the order of the set, which no property needs.    *)
AllLinks(subs) == Joined([i \in DOMAIN SubIds |-> subs[SubIds[i]]])
Listed(p) ==
    CASE p.tab = "all" -> AllLinks(p.subs)
      [] p.tab = "favorites" -> SetToSeq(p.favorites)
      [] OTHER -> p.subs[p.tab]
(* Every link has one card, however many subscriptions hold it.            *)
Places(list, p) ==
    {i \in DOMAIN list : /\ \A j \in 1..(i - 1) : list[j] # list[i]
                         /\ p.searching => list[i] \in Found}
CardOf(link, p) == [link |-> link, latency |-> p.pings[link],
                    selected |-> link = p.active, starred |-> link \in p.favorites]
renderCards(p) ==
    LET list == Listed(p)
        sorted == sortServers(list, Places(list, p), p.mode, p.pings)
    IN  [k \in 1..Cardinality(Places(list, p)) |-> CardOf(list[sorted[k]], p)]
Page == [subs |-> subscriptions, tab |-> currentActiveSubId, favorites |-> favoriteLinks,
         pings |-> pingData, mode |-> currentSortMode, searching |-> searching,
         active |-> activeServerLink]
updateCards ==
    cards' = renderCards([subs |-> subscriptions', tab |-> currentActiveSubId',
        favorites |-> favoriteLinks', pings |-> pingData', mode |-> currentSortMode',
        searching |-> searching', active |-> activeServerLink'])

Init ==
    /\ subscriptions \in Lists /\ currentActiveSubId = "all"
    /\ favoriteLinks \in {{}, Links} /\ pingData = [l \in Links |-> Unmeasured]
    /\ currentSortMode = "default" /\ searching = FALSE
    /\ activeServerLink \in Links \cup {NoLink} /\ cards = renderCards(Page)
    /\ cardsUpdateTimer = FALSE /\ asked = [l \in Links |-> 0] /\ rounds = 0 /\ searchingBest = {}

PingsKeep == UNCHANGED <<pingData, asked, rounds, searchingBest>>
TimerKeeps == UNCHANGED cardsUpdateTimer

(* loadSubscriptions: the file may have become anything; the window has    *)
(* gone back to all servers when it deleted the entry it showed.           *)
loadSubscriptions ==
    /\ subscriptions' \in Lists /\ currentActiveSubId' \in {currentActiveSubId, "all"}
    /\ UNCHANGED <<favoriteLinks, currentSortMode, searching, activeServerLink>>
    /\ PingsKeep /\ TimerKeeps /\ updateCards
ShowTab(tab) ==
    /\ currentActiveSubId' = tab
    /\ UNCHANGED <<subscriptions, favoriteLinks, currentSortMode, searching, activeServerLink>>
    /\ PingsKeep /\ TimerKeeps /\ updateCards
onToggleFavorite(link) ==
    /\ \E i \in 1..Len(cards) : cards[i].link = link
    /\ favoriteLinks' = IF link \in favoriteLinks THEN favoriteLinks \ {link}
                        ELSE favoriteLinks \cup {link}
    /\ UNCHANGED <<subscriptions, currentActiveSubId, currentSortMode, searching, activeServerLink>>
    /\ PingsKeep /\ TimerKeeps /\ updateCards
setSortMode(mode) ==
    /\ currentSortMode' = mode
    /\ UNCHANGED <<subscriptions, currentActiveSubId, favoriteLinks, searching, activeServerLink>>
    /\ PingsKeep /\ TimerKeeps /\ updateCards
Search ==
    /\ searching' = ~searching
    /\ UNCHANGED <<subscriptions, currentActiveSubId, favoriteLinks, currentSortMode, activeServerLink>>
    /\ PingsKeep /\ TimerKeeps /\ updateCards
(* A server is chosen on its card, in the tray, or by the watchdog.        *)
Choose(link) ==
    /\ activeServerLink' = link
    /\ UNCHANGED <<subscriptions, currentActiveSubId, favoriteLinks, currentSortMode, searching>>
    /\ PingsKeep /\ TimerKeeps /\ updateCards
(* All servers of all subscriptions are asked; favorites of none are not.  *)
Ask(links) ==
    /\ rounds < MaxAsked /\ rounds' = rounds + 1
    /\ pingData' = [l \in Links |-> IF l \in links THEN Pinging ELSE pingData[l]]
    /\ asked' = [l \in Links |-> IF l \in links THEN asked[l] + 1 ELSE asked[l]]
    /\ UNCHANGED <<subscriptions, currentActiveSubId, favoriteLinks, currentSortMode, searching,
                   activeServerLink>> /\ TimerKeeps /\ updateCards
pingAll == Ask(Range(AllLinks(subscriptions))) /\ UNCHANGED searchingBest
bestServer ==
    /\ searchingBest = {} /\ AllLinks(subscriptions) # <<>>
    /\ Ask(Range(AllLinks(subscriptions))) /\ searchingBest' = Range(AllLinks(subscriptions))
(* Two seconds later, whatever has answered: the fastest above 0 ms, if    *)
(* the user agrees and it is not the one in use.  Window has the rest.     *)
TakeBest ==
    /\ searchingBest # {} /\ searchingBest' = {}
    /\ \/ \E l \in searchingBest :
             /\ pingData[l] > 0
             /\ \A k \in searchingBest : pingData[k] > 0 => pingData[l] <= pingData[k]
             /\ activeServerLink' = l
             /\ UNCHANGED <<subscriptions, currentActiveSubId, favoriteLinks, currentSortMode, searching>>
             /\ UNCHANGED <<pingData, asked, rounds, cardsUpdateTimer>> /\ updateCards
       \/ UNCHANGED <<subscriptions, currentActiveSubId, favoriteLinks, pingData, currentSortMode,
                      searching, activeServerLink, cards, cardsUpdateTimer, asked, rounds>>

(* onPingResult: of two rounds, the answers to the first end the second.   *)
updateCardPing(link, value) ==
    cards' = [i \in 1..Len(cards) |->
                 IF cards[i].link = link THEN [cards[i] EXCEPT !.latency = value] ELSE cards[i]]
(* Mutant: the list is rebuilt by nobody when it is sorted by latency.     *)
ShownInPlace(link, value) == updateCardPing(link, value) /\ UNCHANGED cardsUpdateTimer
Shown(link, value) ==
    IF currentSortMode = "ping" THEN cardsUpdateTimer' = TRUE /\ UNCHANGED cards
    ELSE updateCardPing(link, value) /\ UNCHANGED cardsUpdateTimer
onPingResult(link) ==
    /\ asked[link] > 0 /\ asked' = [asked EXCEPT ![link] = @ - 1]
    /\ \E value \in {Failed} \cup 0..MaxLatency :
          /\ pingData' = [pingData EXCEPT ![link] = value]
          /\ Shown(link, value)
    /\ UNCHANGED <<subscriptions, currentActiveSubId, favoriteLinks, currentSortMode, searching,
                   activeServerLink, rounds, searchingBest>>
cardsUpdateDue ==
    /\ cardsUpdateTimer /\ cardsUpdateTimer' = FALSE
    /\ UNCHANGED <<subscriptions, currentActiveSubId, favoriteLinks, currentSortMode, searching,
                   activeServerLink>> /\ PingsKeep /\ updateCards

Next ==
    \/ loadSubscriptions \/ Search \/ pingAll \/ bestServer
    \/ TakeBest \/ cardsUpdateDue
    \/ \E tab \in Tabs : ShowTab(tab)
    \/ \E link \in Links : onToggleFavorite(link) \/ Choose(link) \/ onPingResult(link)
    \/ \E mode \in SortModes : setSortMode(mode)

Spec == Init /\ [][Next]_vars

(* The list is what it would be if it were built now, whatever came in     *)
(* between; while a redraw is due it may lag behind the answers, but has   *)
(* the same servers, and marks the same ones.                              *)
Marks(c) == {[link |-> c[i].link, selected |-> c[i].selected, starred |-> c[i].starred] :
                 i \in 1..Len(c)}
ListIsCurrent ==
    LET now == renderCards(Page)
    IN  \/ cards = now
        \/ cardsUpdateTimer /\ Len(cards) = Len(now) /\ Marks(cards) = Marks(now)
(* Sorted by latency, a measured server never stands below one that is     *)
(* not, nor one that answered below one that did not; and no card shows    *)
(* that it waits unless somebody has still to answer.                      *)
FastestFirst ==
    ~cardsUpdateTimer =>
        /\ currentSortMode = "ping" =>
              \A i, j \in 1..Len(cards) : i < j /\ cards[j].latency >= 0 =>
                  cards[i].latency \in 0..cards[j].latency
        /\ \A i \in 1..Len(cards) :
              cards[i].latency = Pinging => asked[cards[i].link] > 0
=============================================================================
