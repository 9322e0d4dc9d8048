----------------------------- MODULE ActivityView -----------------------------
(***************************************************************************)
(* What is open on a Channel's page, and what its keys do. The tab, the    *)
(* structure of the Activity view, the open Endpoint groups and the open   *)
(* Broadcast are in the URL; the open Deliveries are the rows' own. Rows   *)
(* nest: a row is named by its path, from the outermost list to itself,    *)
(* and the list below an open row by the path of that row.                 *)
(***************************************************************************)
EXTENDS Integers, Sequences, FiniteSets

CONSTANTS
    Endpoints,    \* numbers: in the order of their groups and of their Deliveries
    Broadcasts,   \* numbers, the newest first
    Top,          \* the group that is open as long as none has been chosen
    MaxPolls,     \* bound on the polls that change a list
    Absent,       \* no ?endpoint=
    None

ViewAssumption ==
    /\ Top \in Endpoints /\ None \notin Broadcasts
    /\ None \notin [row : Seq(Endpoints \cup Broadcasts), inside : BOOLEAN]
    /\ MaxPolls \in Nat

VARIABLES
    url,          \* what the address carries
    feed,         \* the Broadcasts in the flat list
    failing,      \* failing[e]: the Broadcasts in the group of e
    opened,       \* the paths of the open Delivery rows
    focus,        \* None, or a row's path, and whether it is in its well
    polls

view == <<url, feed, failing, opened>>
vars == <<url, feed, failing, opened, focus, polls>>

Tabs == {"activity", "endpoints", "settings"}

Plain(tab) == [tab |-> tab, at |-> None, filter |-> "all", endpoint |-> Absent]

\* channelActivityHref: from the directory, or by a link to a Broadcast.
Init ==
    /\ \E f \in {"all", "failed"}, b \in Broadcasts \cup {None} :
          url = [Plain("activity") EXCEPT !.filter = f, !.at = b]
    /\ feed = Broadcasts /\ failing = [e \in Endpoints |-> Broadcasts]
    /\ opened = {} /\ focus = None /\ polls = 0

Kind(p) ==
    IF url.filter = "all" THEN <<"broadcast", "delivery">>[Len(p)]
    ELSE <<"group", "broadcast", "delivery">>[Len(p)]

Depth == IF url.filter = "all" THEN 2 ELSE 3

Groups == IF url.endpoint = Absent THEN {Top} ELSE url.endpoint

IsOpen(p) ==
    CASE Kind(p) = "group" -> p[1] \in Groups
      [] Kind(p) = "broadcast" -> p[Len(p)] = url.at
      [] OTHER -> p \in opened

\* The list at a path: the groups, the Broadcasts of all or of one group, the
\* Deliveries of a Broadcast. A group with nothing in it has left the roll-up.
Members(q) ==
    IF Len(q) = Depth - 1 THEN Endpoints
    ELSE IF Len(q) = Depth - 2 /\ url.filter = "all" THEN feed
    ELSE IF Len(q) = Depth - 2 THEN failing[q[1]]
    ELSE {e \in Endpoints : failing[e] # {} \/ e \in Groups}

Prefix(p, i) == SubSeq(p, 1, i)

\* The list a row is in.
ListOf(p) == Prefix(p, Len(p) - 1)

IsShown(p) ==
    /\ url.tab = "activity" /\ Len(p) \in 1..Depth
    /\ \A i \in DOMAIN p :
          p[i] \in Members(Prefix(p, i - 1)) /\ (i < Len(p) => IsOpen(Prefix(p, i)))

Paths == UNION {[1..n -> Endpoints \cup Broadcasts] : n \in 1..3}
Shown == {p \in Paths : IsShown(p)}

\* What has left the screen is unmounted: its own state is lost, and focus.
Settled(open, at) ==
    /\ opened' = {p \in open : IsShown(p)'}
    /\ \E f \in {at} : focus' = IF f # None /\ IsShown(f.row)' THEN f ELSE None

OnRow(p) == [row |-> p, inside |-> FALSE]

\* Mutant: the query string is left behind.
Toggled_Bare(b) == [Plain("activity") EXCEPT !.at = IF url.at = b THEN None ELSE b]

\* toggleBroadcast carries the view's query string along.
Toggled(b) == [url EXCEPT !.tab = "activity", !.at = IF @ = b THEN None ELSE b]

ClickBroadcast(p) ==
    /\ Kind(p) = "broadcast" /\ p \in Shown
    /\ url' = Toggled(p[Len(p)])
    /\ UNCHANGED <<feed, failing, polls>>
    /\ Settled(opened, OnRow(p))

ClickDelivery(p) ==
    /\ Kind(p) = "delivery" /\ p \in Shown
    /\ opened' = (opened \ {p}) \cup ({p} \ opened)
    /\ focus' = OnRow(p)
    /\ UNCHANGED <<url, feed, failing, polls>>

\* toggleGroup: whatever was open is written out, with the change.
ClickGroup(p) ==
    /\ Kind(p) = "group" /\ p \in Shown
    /\ url' = [url EXCEPT !.endpoint = (Groups \ {p[1]}) \cup ({p[1]} \ Groups)]
    /\ UNCHANGED <<feed, failing, polls>>
    /\ Settled(opened, OnRow(p))

\* Tab, or a click on what an open row holds: a Retry, an Attempt.
Enter(p) ==
    /\ p \in Shown /\ IsOpen(p) /\ Kind(p) # "group"
    /\ focus' = [row |-> p, inside |-> TRUE]
    /\ UNCHANGED <<view, polls>>

\* setFilter keeps the rest of the address; the other structure is another list.
SetFilter(f) ==
    /\ url.tab = "activity"
    /\ url' = [url EXCEPT !.filter = f]
    /\ opened' = IF f = url.filter THEN opened ELSE {}
    /\ focus' = None
    /\ UNCHANGED <<feed, failing, polls>>

\* The links of the tab strip carry nothing along.
ClickTab(tab) ==
    /\ url' = Plain(tab) /\ opened' = {} /\ focus' = None
    /\ UNCHANGED <<feed, failing, polls>>

\* The address is all that a reload keeps.
Reload ==
    /\ opened' = {} /\ focus' = None
    /\ UNCHANGED <<url, feed, failing, polls>>

Poll ==
    /\ polls < MaxPolls /\ polls' = polls + 1
    /\ \/ /\ \E b \in Broadcasts : feed' = (feed \ {b}) \cup ({b} \ feed)
          /\ UNCHANGED failing
       \/ /\ \E e \in Endpoints, b \in Broadcasts :
                failing' = [failing EXCEPT ![e] = (@ \ {b}) \cup ({b} \ @)]
          /\ UNCHANGED feed
    /\ UNCHANGED url
    /\ Settled(opened, focus)
-----------------------------------------------------------------------------
(* The keys.                                                               *)

\* The open rows around the focus whose Escape handler the key would reach.
Around ==
    IF focus = None THEN {}
    ELSE {i \in DOMAIN focus.row :
             IsOpen(Prefix(focus.row, i)) /\ Kind(Prefix(focus.row, i)) # "group"}

\* Mutant: the Delivery's handler lets the key through to the Broadcast's.
Handlers_All == Around

\* The innermost open row handles Escape and stops it there.
Handlers == {i \in Around : \A j \in Around : j <= i}

\* Escape collapses the row and hands the focus back to it.
Escape ==
    /\ Handlers # {}
    /\ LET rows == {Prefix(focus.row, i) : i \in Handlers}
           outer == CHOOSE p \in rows : \A q \in rows : Len(p) <= Len(q)
       IN /\ url' = [url EXCEPT !.at =
                        IF \E p \in rows : Kind(p) = "broadcast" THEN None ELSE @]
          /\ UNCHANGED <<feed, failing, polls>>
          /\ Settled(opened \ rows, OnRow(outer))

\* Document order: a row before what is in its well, and a list from the top.
PathBefore(p, q) ==
    \E i \in 1..Len(q) :
        /\ i - 1 <= Len(p) /\ Prefix(p, i - 1) = Prefix(q, i - 1)
        /\ i - 1 = Len(p) \/ p[i] < q[i]

\* Mutant: every row button below the list, those of nested lists too.
OwnRows_Nested(q) == {p \in Shown : Len(p) > Len(q) /\ Prefix(p, Len(q)) = q}

\* The row buttons whose nearest list is the one at q.
OwnRows(q) == {p \in Shown : Len(p) = Len(q) + 1 /\ Prefix(p, Len(q)) = q}

\* handleRowListKeyDown: with the focus on a row button, to the next one or the
\* one before, and no further than the ends.
Arrow(down) ==
    /\ focus # None /\ ~focus.inside
    /\ UNCHANGED <<view, polls>>
    /\ LET p == focus.row
           precedes(q, r) == IF down THEN PathBefore(q, r) ELSE PathBefore(r, q)
           beyond == {q \in OwnRows(ListOf(p)) : precedes(p, q)}
       IN focus' \in IF beyond = {} THEN {focus}
                     ELSE {OnRow(q) : q \in {q \in beyond : \A r \in beyond : ~precedes(r, q)}}

\* Home and End.
Jump ==
    /\ focus # None /\ ~focus.inside
    /\ UNCHANGED <<view, polls>>
    /\ LET rows == OwnRows(ListOf(focus.row)) IN
       \E q \in rows :
          /\ (\A r \in rows : ~PathBefore(r, q)) \/ (\A r \in rows : ~PathBefore(q, r))
          /\ focus' = OnRow(q)

Next ==
    \/ \E p \in Shown : ClickBroadcast(p) \/ ClickDelivery(p) \/ ClickGroup(p) \/ Enter(p)
    \/ \E f \in {"all", "failed"} : SetFilter(f)
    \/ \E tab \in Tabs : ClickTab(tab)
    \/ Reload \/ Poll \/ Escape \/ Arrow(TRUE) \/ Arrow(FALSE) \/ Jump

Spec == Init /\ [][Next]_vars
-----------------------------------------------------------------------------
(* Properties.                                                             *)

TypeOK ==
    /\ url \in [tab : Tabs, at : Broadcasts \cup {None}, filter : {"all", "failed"},
                endpoint : (SUBSET Endpoints) \cup {Absent}]
    /\ feed \subseteq Broadcasts /\ failing \in [Endpoints -> SUBSET Broadcasts]
    /\ opened \subseteq Paths /\ polls \in 0..MaxPolls
    /\ focus # None => focus \in [row : Paths, inside : BOOLEAN]

EscapeClosesOneStep ==
    Escape => /\ focus' # None
              /\ Cardinality(Around') = Cardinality(Around) - 1
              /\ \A i \in Around : i <= Len(focus'.row)

\* One Escape closes one well, the innermost around the focus, and leaves the
\* focus on the row it closed: a Delivery's Escape does not close its Broadcast.
EscapeClosesOne == [][EscapeClosesOneStep]_vars

DrillDownStaysStep ==
    \A p \in Shown : ClickBroadcast(p) =>
       /\ IsShown(p)' /\ IsOpen(p)' # IsOpen(p)
       /\ url'.filter = url.filter

\* Opening a Broadcast, or closing it, leaves the reader in the list and at the
\* row it was clicked in: the drill-down never drops back to the other view.
DrillDownStays == [][DrillDownStaysStep]_vars

KeysStayInListStep ==
    (Arrow(TRUE) \/ Arrow(FALSE) \/ Jump) =>
       /\ ListOf(focus'.row) = ListOf(focus.row)
       /\ ~focus'.inside

\* The arrow keys, Home and End move in the list the focus is in, whatever is
\* open inside its rows.
KeysStayInList == [][KeysStayInListStep]_vars
=============================================================================
