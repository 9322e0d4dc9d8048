------------------------------ MODULE NewChannel ------------------------------
(***************************************************************************)
(* The Channel directory's New Channel form above its polled list: a slug  *)
(* whose error stays silent until the field is left or submitted, a create *)
(* that is awaited with the form still open to typing, and the refetch     *)
(* that is to show the result.                                             *)
(***************************************************************************)
EXTENDS Integers

CONSTANTS
    Slugs,        \* slugs the contract's schema accepts
    Wrong,        \* a slug it refuses
    Blank,        \* the empty field
    MaxPresses,   \* bound on the presses of Create Channel
    MaxOthers,    \* bound on what others create and delete
    None

VARIABLES
    slug, touched,
    creating,     \* the button is disabled
    request,      \* None, or the create under way and how far it got
    banner,       \* createError is shown
    list,         \* the slugs the directory shows, or None before the first answer
    fetch,        \* None, or the list's fetch: what it read, and whether a create awaits it
    taken,        \* the slugs of the live Channels at the API
    presses, others,
    left,         \* history: the field was left or submitted since it was last cleared
    outcome       \* history: how the last create ended, and whether its Channel is still there

vars == <<slug, touched, creating, request, banner, list, fetch, taken, presses, others, left, outcome>>
form == <<slug, touched, creating, banner>>
past == <<left, outcome>>

Init ==
    /\ slug = Blank /\ touched = FALSE /\ creating = FALSE /\ request = None /\ banner = FALSE
    /\ list = None /\ fetch = None /\ taken = {}
    /\ presses = 0 /\ others = 0 /\ left = FALSE
    /\ outcome = [how |-> "none", slug |-> Blank, stands |-> FALSE, listed |-> FALSE]

\* validateSlug
Invalid(value) == value \in {Blank, Wrong}

\* The message under the field.
FieldError == touched /\ Invalid(slug)

Type(value) ==
    /\ value # slug /\ slug' = value
    /\ UNCHANGED <<touched, creating, request, banner, list, fetch, taken, presses, others, past>>

Blur ==
    /\ touched' = TRUE /\ left' = TRUE
    /\ UNCHANGED <<slug, creating, request, banner, list, fetch, taken, presses, others, outcome>>

\* Mutant: gated on the error as rendered, before the press has marked the field.
Gated_OnError == FieldError

Gated == Invalid(slug)

\* Mutant: the last error stays until the next one.
BannerAtPress_Stays == banner

BannerAtPress == FALSE

\* handleCreate, to the request: an invalid slug only gets the focus.
Press ==
    /\ ~creating /\ presses < MaxPresses /\ presses' = presses + 1
    /\ touched' = TRUE /\ left' = TRUE
    /\ IF Gated
       THEN UNCHANGED <<creating, request, banner>>
       ELSE /\ creating' = TRUE /\ banner' = BannerAtPress
            /\ request' = [slug |-> slug, at |-> "sent"]
    /\ UNCHANGED <<slug, list, fetch, taken, others, outcome>>

\* POST /channels: 201, or 409 for a slug that is taken.
Serve ==
    /\ request # None /\ request.at = "sent"
    /\ IF request.slug \in taken \/ Invalid(request.slug)
       THEN request' = [request EXCEPT !.at = "refused"] /\ UNCHANGED taken
       ELSE request' = [request EXCEPT !.at = "made"] /\ taken' = taken \cup {request.slug}
    /\ UNCHANGED <<form, list, fetch, presses, others, past>>

\* The request or its answer is lost.
Lose ==
    /\ request # None /\ request.at \in {"sent", "made"}
    /\ request' = [request EXCEPT !.at = "refused"]
    /\ UNCHANGED <<form, list, fetch, taken, presses, others, past>>

\* Mutant: the refetch is joined to a fetch that is already under way.
Refetch_Joins == IF fetch = None THEN [read |-> None, awaited |-> TRUE] ELSE [fetch EXCEPT !.awaited = TRUE]

\* invalidateQueries drops the fetch under way for another, but joins it as
\* long as the list has never been answered.
Refetch ==
    IF fetch # None /\ list = None THEN [fetch EXCEPT !.awaited = TRUE]
    ELSE [read |-> None, awaited |-> TRUE]

\* Mutant: the emptied field stays marked.
TouchedAfter_Kept == touched

TouchedAfter == FALSE

\* The form is cleared, whatever has been typed meanwhile, and the list asked
\* for again; the button waits for it.
Created ==
    /\ request # None /\ request.at = "made"
    /\ slug' = Blank /\ touched' = TouchedAfter /\ left' = FALSE
    /\ fetch' = Refetch
    /\ request' = [request EXCEPT !.at = "listing"]
    /\ outcome' = [how |-> "made", slug |-> request.slug, stands |-> request.slug \in taken, listed |-> FALSE]
    /\ UNCHANGED <<creating, banner, list, taken, presses, others>>

CreateFails ==
    /\ request # None /\ request.at = "refused"
    /\ banner' = TRUE /\ creating' = FALSE /\ request' = None
    /\ outcome' = [outcome EXCEPT !.how = "failed"]
    /\ UNCHANGED <<slug, touched, list, fetch, taken, presses, others, left>>

\* The list's interval, and the tab's becoming visible.
Poll ==
    /\ fetch = None /\ fetch' = [read |-> None, awaited |-> FALSE]
    /\ UNCHANGED <<form, request, list, taken, presses, others, past>>

\* GET /channels
FetchReads ==
    /\ fetch # None /\ fetch.read = None
    /\ fetch' = [fetch EXCEPT !.read = taken]
    /\ UNCHANGED <<form, request, list, taken, presses, others, past>>

\* The query settles; a failed fetch keeps the list, and rejects nothing.
FetchSettles(lands) ==
    /\ fetch # None /\ (lands => fetch.read # None)
    /\ list' = IF lands THEN fetch.read ELSE list
    /\ fetch' = None
    /\ IF fetch.awaited
       THEN /\ creating' = FALSE /\ request' = None
            /\ outcome' = [outcome EXCEPT !.listed = lands]
       ELSE UNCHANGED <<creating, request, outcome>>
    /\ UNCHANGED <<slug, touched, banner, taken, presses, others, left>>

OthersChange(s) ==
    /\ others < MaxOthers /\ others' = others + 1
    /\ taken' = (taken \ {s}) \cup ({s} \ taken)
    /\ outcome' = [outcome EXCEPT !.stands = @ /\ outcome.slug # s]
    /\ UNCHANGED <<form, request, list, fetch, presses, left>>

Next ==
    \/ \E value \in Slugs \cup {Wrong, Blank} : Type(value)
    \/ Blur \/ Press \/ Serve \/ Lose \/ Created \/ CreateFails
    \/ Poll \/ FetchReads \/ FetchSettles(TRUE) \/ FetchSettles(FALSE)
    \/ \E s \in Slugs : OthersChange(s)

Spec == Init /\ [][Next]_vars
-----------------------------------------------------------------------------
(* Properties.                                                             *)

Fields == Slugs \cup {Wrong, Blank}

TypeOK ==
    /\ slug \in Fields /\ touched \in BOOLEAN /\ creating \in BOOLEAN /\ banner \in BOOLEAN
    /\ request # None =>
          request \in [slug : Fields, at : {"sent", "made", "refused", "listing"}]
    /\ list # None => list \subseteq Slugs
    /\ fetch # None => (fetch.read # None => fetch.read \subseteq Slugs) /\ fetch.awaited \in BOOLEAN
    /\ taken \subseteq Slugs /\ left \in BOOLEAN
    /\ outcome \in [how : {"none", "failed", "made"}, slug : Fields, stands : BOOLEAN, listed : BOOLEAN]

\* Nothing the schema refuses is ever sent, not even by a first press on a
\* field that has not been left yet and shows no error.
NothingWrongSent == request # None => ~Invalid(request.slug)

\* The field says nothing before it is left or submitted, and a create that
\* succeeded starts it over: the cleared form never complains of being empty.
SilentUntilLeft == FieldError => left

\* The line under the button is about the last create: it is gone as soon as
\* the next one is under way, and never stands beside a Channel just created.
BannerIsOfLast == banner => ~creating /\ outcome.how = "failed"

CreatedIsListedStep ==
    list # None /\ creating /\ ~creating' /\ outcome'.how = "made" /\ outcome'.stands
        /\ outcome'.listed
       => outcome'.slug \in list'

\* When the button comes back after a create above a list on show, the list
\* has the new Channel, unless the refetch failed or someone has deleted it,
\* whatever poll was under way when it was created. (Before the list's first
\* answer the fetch joined may have been read before the create: the button
\* then comes back over a list without the Channel, and the next poll brings it.)
CreatedIsListed == [][CreatedIsListedStep]_vars
=============================================================================
