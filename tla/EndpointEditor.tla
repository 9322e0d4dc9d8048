---------------------------- MODULE EndpointEditor ----------------------------
(***************************************************************************)
(* The Endpoints tab: the polled list, the one editor that may be open in  *)
(* it, the question put before an edit is discarded for another row, and   *)
(* the saves under way, while other operators change and delete the same   *)
(* Endpoints. A save's request may outlive the form it was pressed in.     *)
(*                                                                         *)
(* All fields of an Endpoint are one value.                                *)
(***************************************************************************)
EXTENDS Integers, FiniteSets

CONSTANTS
    Endpoints, Values,
    Malformed,   \* what a form may hold and the contract's schemas refuse
    None,        \* null, or nothing under way
    Gone,        \* a deleted Endpoint
    MaxChanges,  \* bound on what other operators change
    MaxTyped,    \* bound on the edits
    MaxSaves     \* bound on the saves

EditorAssumption ==
    /\ None \notin Endpoints /\ None \notin Values /\ None \notin Malformed
    /\ MaxChanges \in Nat /\ MaxTyped \in Nat /\ MaxSaves \in Nat

VARIABLES
    server,          \* the Endpoints' rows
    list,            \* the query's data
    poll,            \* the list on its way
    editingId, dirty, pendingSwitchId,
    form,            \* EndpointForm's fields
    submitted,       \* `saving` of the form that is open
    saves,           \* the PATCHes under way
    changes, typed, pressed

vars == <<server, list, poll, editingId, dirty, pendingSwitchId, form, submitted, saves, changes, typed, pressed>>
tab == <<editingId, dirty, pendingSwitchId, form, submitted>>

Init ==
    /\ server \in [Endpoints -> Values] /\ list = server
    /\ poll = None
    /\ editingId = None /\ dirty = FALSE /\ pendingSwitchId = None
    /\ form = None /\ submitted = FALSE
    /\ saves = {}
    /\ changes = 0 /\ typed = 0 /\ pressed = 0

Listed(e) == list[e] # Gone

\* The form is mounted in the row of the Endpoint edited, while that is listed.
Mounted == editingId # None /\ Listed(editingId)

\* pendingSwitchTarget: the question is put in the row that is being edited.
Asking == Mounted /\ pendingSwitchId # None /\ Listed(pendingSwitchId)

-----------------------------------------------------------------------------
(* The API and the other operators.                                        *)

OthersChange(e) ==
    /\ server[e] # Gone /\ changes < MaxChanges
    /\ \E v \in Values \ {server[e]} : server' = [server EXCEPT ![e] = v]
    /\ changes' = changes + 1
    /\ UNCHANGED <<list, poll, tab, saves, typed, pressed>>

OthersDelete(e) ==
    /\ server[e] # Gone /\ changes < MaxChanges
    /\ server' = [server EXCEPT ![e] = Gone]
    /\ changes' = changes + 1
    /\ UNCHANGED <<list, poll, tab, saves, typed, pressed>>

\* PATCH /channels/:channelId/endpoints/:endpointId sets every field given.
Commit(s) ==
    /\ s.reply = None
    /\ IF server[s.of] = Gone
       THEN saves' = (saves \ {s}) \cup {[s EXCEPT !.reply = "failed"]} /\ UNCHANGED server
       ELSE /\ server' = [server EXCEPT ![s.of] = s.value]
            /\ saves' = (saves \ {s}) \cup {[s EXCEPT !.reply = "ok"]}
    /\ UNCHANGED <<list, poll, tab, changes, typed, pressed>>

-----------------------------------------------------------------------------
(* The tab.                                                                *)

Poll ==
    /\ poll = None /\ poll' = [rows |-> server]
    /\ UNCHANGED <<server, list, tab, saves, changes, typed, pressed>>

\* Mutant: the effect watches the fields alone.
DirtyAfterPoll_Kept == dirty

\* The form's effect on its fields and on `initial`, which polls refresh.
DirtyAfterPoll == IF editingId # None /\ list'[editingId] # Gone THEN form # list'[editingId] ELSE dirty

\* A row that is not listed any more takes its form with it; the tab's own
\* state stays.
PollLands ==
    /\ poll # None /\ poll' = None
    /\ list' = poll.rows
    /\ dirty' = DirtyAfterPoll
    /\ IF editingId # None /\ list'[editingId] = Gone
       THEN form' = None /\ submitted' = FALSE
       ELSE UNCHANGED <<form, submitted>>
    /\ UNCHANGED <<server, editingId, pendingSwitchId, saves, changes, typed, pressed>>

OpenEditor(e) ==
    /\ editingId' = e /\ dirty' = FALSE /\ pendingSwitchId' = None
    /\ form' = IF e = None THEN None ELSE list[e]
    /\ submitted' = FALSE

CloseEditing == OpenEditor(None)

\* Mutant: the row that is clicked opens.
MustAsk_Never == FALSE

MustAsk == editingId # None /\ dirty

\* handleRowClick
RowClick(e) ==
    /\ Listed(e)
    /\ \/ /\ editingId = e /\ pendingSwitchId # None
          /\ pendingSwitchId' = None
          /\ UNCHANGED <<editingId, dirty, form, submitted>>
       \/ /\ editingId # e /\ MustAsk
          /\ pendingSwitchId' = e
          /\ UNCHANGED <<editingId, dirty, form, submitted>>
       \/ editingId # e /\ ~MustAsk /\ OpenEditor(e)
    /\ UNCHANGED <<server, list, poll, saves, changes, typed, pressed>>

Type ==
    /\ Mounted /\ typed < MaxTyped /\ typed' = typed + 1
    /\ form' \in (Values \cup Malformed) \ {form}
    /\ dirty' = (form' # list[editingId])
    /\ UNCHANGED <<server, list, poll, editingId, pendingSwitchId, submitted, saves, changes, pressed>>

\* The form's Cancel, or Escape when nothing is asked.
Cancel ==
    /\ Mounted
    /\ CloseEditing
    /\ UNCHANGED <<server, list, poll, saves, changes, typed, pressed>>

DiscardAndSwitch ==
    /\ Asking
    /\ OpenEditor(pendingSwitchId)
    /\ UNCHANGED <<server, list, poll, saves, changes, typed, pressed>>

KeepEditing ==
    /\ Asking
    /\ pendingSwitchId' = None
    /\ UNCHANGED <<server, list, poll, editingId, dirty, form, submitted, saves, changes, typed, pressed>>

\* validateUrl, validateTimeoutMs and parseHeaders
Accepted(value) == value \notin Malformed

\* A malformed form gets the focus and sends nothing.
Submit ==
    /\ Mounted /\ ~submitted /\ pressed < MaxSaves /\ Accepted(form)
    /\ saves' = saves \cup {[of |-> editingId, value |-> form, press |-> pressed, reply |-> None]}
    /\ submitted' = TRUE /\ pressed' = pressed + 1
    /\ UNCHANGED <<server, list, poll, editingId, dirty, pendingSwitchId, form, changes, typed>>

\* onSave closes whatever editor is open by then, then fetches the list.
SaveAnswered(s) ==
    /\ s.reply = "ok"
    /\ CloseEditing
    /\ poll' = [rows |-> server]
    /\ saves' = saves \ {s}
    /\ UNCHANGED <<server, list, changes, typed, pressed>>

\* The form it was pressed in, if it is still there, says so.
SaveFailed(s) ==
    /\ s.reply = "failed"
    /\ submitted' = (submitted /\ editingId # s.of)
    /\ saves' = saves \ {s}
    /\ UNCHANGED <<server, list, poll, editingId, dirty, pendingSwitchId, form, changes, typed, pressed>>

Saved == \E s \in saves : SaveAnswered(s)

Next ==
    \/ \E e \in Endpoints : OthersChange(e) \/ OthersDelete(e) \/ RowClick(e)
    \/ \E s \in saves : Commit(s) \/ SaveAnswered(s) \/ SaveFailed(s)
    \/ Poll \/ PollLands \/ Type \/ Cancel \/ DiscardAndSwitch \/ KeepEditing \/ Submit

Spec == Init /\ [][Next]_vars
-----------------------------------------------------------------------------
(* Properties.                                                             *)

TypeOK ==
    /\ server \in [Endpoints -> Values \cup {Gone}]
    /\ list \in [Endpoints -> Values \cup {Gone}]
    /\ editingId \in Endpoints \cup {None} /\ pendingSwitchId \in Endpoints \cup {None}
    /\ dirty \in BOOLEAN /\ submitted \in BOOLEAN
    /\ (form # None) = Mounted
    /\ changes \in 0..MaxChanges /\ typed \in 0..MaxTyped /\ pressed \in 0..MaxSaves

Unsaved == Mounted /\ form # list[editingId]

EditsGuardedStep ==
    Unsaved => \/ editingId' = editingId /\ (form' = form \/ Type \/ list'[editingId] = Gone)
               \/ Cancel \/ DiscardAndSwitch \/ Saved

\* An edit that differs from the row leaves the screen only by Cancel, by
\* "Discard and switch", with its Endpoint, or when a save is answered,
\* whatever rows are clicked and polled meanwhile.
EditsGuarded == [][EditsGuardedStep]_vars

\* While its form is open, "unsaved changes" is said exactly of the fields
\* that differ from the row as last polled.
DirtyExact == Mounted => dirty = (form # list[editingId])

=============================================================================
