----------------------------- MODULE Connections -----------------------------
(***************************************************************************)
(* The folders of the connections tab: how the rows of a snapshot are      *)
(* grouped by site and by program (grouping.ts), and how the tab brings    *)
(* the folders it already has up to date instead of building them anew     *)
(* (renderer.ts), so that a folder the user opened stays open.  When       *)
(* snapshots arrive is Screen's.                                           *)
(*                                                                         *)
(* A name is a sequence of labels, an address has none.  The key of a      *)
(* folder is a sequence of words: one for a site, and those of a program's *)
(* name, which may have spaces in it.                                      *)
(***************************************************************************)
EXTENDS Enumeration, SequencesExt

CONSTANTS
    Ids,                 \* connections the core may have
    HostOf,              \* the labels of a connection's host
    ProcessOf,           \* the words of its program's name, <<>>: not known
    MULTIPART_SUFFIXES,  \* pairs of labels under which sites are registered
    Before,              \* localeCompare: the pairs of keys of which the first is less
    MaxBytes             \* bound: traffic of a connection

VARIABLES
    sort,       \* connectionsSort
    drawn,      \* the snapshot that is drawn: the traffic of its connections
    last,       \* lastConnectionsSnapshot, which outlives the drawing
    dom,        \* for each kind the folders in the order they are displayed
    signature,  \* groupOrderSignature, <<>> when there is none
    open,       \* folders displayed open
    members,    \* the connections displayed in each folder
    expanded    \* expandedGroups: folders the user opened

vars == <<sort, drawn, last, dom, signature, open, members, expanded>>

GroupKinds == {"site", "process"}

(***************************************************************************)
(* grouping.ts                                                             *)
(***************************************************************************)
siteKey(host) ==
    LET lastTwo == SubSeq(host, Len(host) - 1, Len(host))
    IN CASE Len(host) < 2 -> <<>>
         [] Len(host) >= 3 /\ lastTwo \in MULTIPART_SUFFIXES ->
              <<SubSeq(host, Len(host) - 2, Len(host))>>
         [] OTHER -> <<lastTwo>>
KeyOf(kind, id) == IF kind = "site" THEN siteKey(HostOf[id]) ELSE ProcessOf[id]
Keys(kind) == {KeyOf(kind, id) : id \in Ids} \ {<<>>}
GroupIds == UNION {{kind} \X Keys(kind) : kind \in GroupKinds}

ConnectionsAssumption ==
    /\ IsFiniteSet(Ids) /\ MaxBytes \in Nat
    /\ \A kind \in GroupKinds : StrictlyOrders(Before, Keys(kind))

RowsOf(kind, key, snapshot) == {id \in DOMAIN snapshot : KeyOf(kind, id) = key}
Traffic(kind, key, snapshot) ==
    Cardinality({b \in RowsOf(kind, key, snapshot) \X (1..MaxBytes) : b[2] <= snapshot[b[1]]})
groupConnections(kind, snapshot, order) ==
    LET keys == {KeyOf(kind, id) : id \in DOMAIN snapshot} \ {<<>>}
        groups == {[key |-> key, traffic |-> Traffic(kind, key, snapshot)] : key \in keys}
        byKey(a, b) == <<a.key, b.key>> \in Before
        first(a, b) == IF order = "traffic" /\ a.traffic # b.traffic
                       THEN a.traffic > b.traffic ELSE byKey(a, b)
        sorted == Ranked(groups, {p \in groups \X groups : first(p[1], p[2])})
    IN [n \in 1..Cardinality(keys) |-> sorted[n].key]

Snapshots == UNION {[ids -> 0..MaxBytes] : ids \in SUBSET Ids}
Displayed(lists) == UNION {{kind} \X ToSet(lists[kind]) : kind \in GroupKinds}
TypeOK ==
    /\ sort \in {"name", "traffic"}
    /\ \A s \in {drawn, last} : DOMAIN s \subseteq Ids /\ s \in [DOMAIN s -> 0..MaxBytes]
    /\ DOMAIN dom = GroupKinds /\ \A kind \in GroupKinds : dom[kind] \in Seq(ToSet(dom[kind]))
    /\ DOMAIN members = Displayed(dom) /\ \A g \in DOMAIN members : members[g] \subseteq Ids
    /\ \A g \in DOMAIN members \cup open \cup expanded : g \in GroupIds

Nothing == [id \in {} |-> 0]
NoFolders == [kind \in GroupKinds |-> <<>>]
Init ==
    /\ sort = "name" /\ drawn = Nothing /\ last = Nothing /\ expanded = {} /\ open = {}
    /\ dom = NoFolders /\ signature = NoFolders /\ members = Nothing

(***************************************************************************)
(* renderGroupSection: new folders at the end, those without connections   *)
(* away, and when the keys joined with spaces differ from the last time    *)
(* all folders are put in order.                                           *)
(***************************************************************************)
Kept(list, keys) == Picked(list, {i \in DOMAIN list : list[i] \in ToSet(keys)})
New(list, keys) == Picked(keys, {i \in DOMAIN keys : keys[i] \notin ToSet(list)})
Placed(list, keys, changed) ==
    IF changed THEN keys ELSE Kept(list, keys) \o New(list, keys)
(* Open folders are those open before and those built now that the user    *)
(* had opened; their members are brought up to date, others emptied.       *)
renderConnectionsGrouped(snapshot, order) ==
    LET sites == groupConnections("site", snapshot, order)
        programs == groupConnections("process", snapshot, order)
        keys(kind) == IF kind = "site" THEN sites ELSE programs
    IN /\ drawn' = snapshot /\ last' = snapshot
       /\ signature' = [kind \in GroupKinds |-> Joined(keys(kind))]
       /\ dom' = [kind \in GroupKinds |->
                     Placed(dom[kind], keys(kind), signature'[kind] # signature[kind])]
       /\ open' = Displayed(dom') \cap (open \cup (expanded \ Displayed(dom)))
       /\ members' = [g \in Displayed(dom') |->
                         IF g \in open' THEN RowsOf(g[1], g[2], snapshot) ELSE {}]

Poll ==
    /\ \E snapshot \in Snapshots : renderConnectionsGrouped(snapshot, sort)
    /\ UNCHANGED <<sort, expanded>>
setConnectionsSort ==
    /\ sort' = (IF sort = "name" THEN "traffic" ELSE "name")
    /\ renderConnectionsGrouped(last, sort')
    /\ UNCHANGED expanded

(* A click on a folder opens it, empty until the next snapshot, or closes  *)
(* it over the members it has.                                             *)
setGroupExpanded(g) ==
    /\ open' = (IF g \in open THEN open \ {g} ELSE open \cup {g})
    /\ expanded' = (IF g \in open THEN expanded \ {g} ELSE expanded \cup {g})
    /\ UNCHANGED <<sort, drawn, last, dom, signature, members>>

(* The tab is left, or the connection ends.                                *)
resetConnectionsView ==
    /\ drawn' = Nothing /\ dom' = NoFolders /\ signature' = NoFolders
    /\ open' = {} /\ members' = Nothing
    /\ UNCHANGED <<sort, last, expanded>>

Next ==
    \/ Poll \/ setConnectionsSort \/ resetConnectionsView
    \/ \E g \in Displayed(dom) : setGroupExpanded(g)
Spec == Init /\ [][Next]_vars

(* Folders are displayed in the order that is chosen, none is missing and  *)
(* none stays behind, however the tab got there.                           *)
FoldersInOrder ==
    \A kind \in GroupKinds : dom[kind] = groupConnections(kind, drawn, sort)
(* A folder the user opened is open whenever it is displayed, and no other *)
(* is; what is displayed in a folder is in the snapshot that is drawn.     *)
FoldersStayOpen ==
    /\ open = expanded \cap Displayed(dom)
    /\ \A g \in DOMAIN members : members[g] \in {{}, RowsOf(g[1], g[2], drawn)}
=============================================================================
