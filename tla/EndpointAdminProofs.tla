------------------------- MODULE EndpointAdminProofs -------------------------
(***************************************************************************)
(* Proofs about EndpointAdmin, for any Channels, Endpoints and requests    *)
(* under way, in whatever order their writes and the worker's come.        *)
(***************************************************************************)
EXTENDS EndpointAdmin, PagingProofs

Calling == [channel : Channels, body : Bodies]

Types ==
    /\ row \in [Endpoints -> Endpoint \cup {None}]
    /\ call \in [Calls -> Calling \cup {None}]

\* An id that has not been given out has no row.
MintedFirst == \A e \in Endpoints \ minted : row[e] = None

\* The mark of the auto-disable is on what is switched off.
MarkedIsOff == \A e \in Endpoints : row[e] # None => ~(row[e].enabled /\ row[e].auto)

IInv == Types /\ MintedFirst /\ MarkedIsOff

LEMMA InitIInv == ASSUME AdminAssumption, Init PROVE IInv
  BY DEF AdminAssumption, Init, IInv, Types, MintedFirst, MarkedIsOff

\* What a call asks for, by its operation.
LEMMA BodyTypes ==
    ASSUME IInv, NEW k \in Calls, call[k] # None
    PROVE  /\ call[k].channel \in Channels /\ call[k].body \in Bodies
           /\ Asks(k, "create") => /\ call[k].body.url \in Urls
                                   /\ call[k].body.enabled \in BOOLEAN
           /\ Asks(k, "patch") => /\ call[k].body.url \in Urls \cup {None}
                                  /\ call[k].body.enabled \in BOOLEAN \cup {None}
                                  /\ call[k].body.endpoint \in Endpoints
           /\ Asks(k, "delete") => call[k].body.endpoint \in Endpoints
  <1>1. call[k] \in Calling
    BY DEF IInv, Types
  <1>2. call[k].channel \in Channels /\ call[k].body \in Bodies
    BY <1>1 DEF Calling
  <1>. QED BY <1>2 DEF Bodies, Asks

LEMMA AnswerTypes ==
    ASSUME IInv, NEW k \in Calls, Answer(k)
    PROVE  call' \in [Calls -> Calling \cup {None}] /\ call'[k] = None
  BY DEF IInv, Types, Answer

\* A row that is written keeps an invariant of rows.
LEMMA OneRow ==
    ASSUME IInv, NEW e \in Endpoints, NEW r \in Endpoint \cup {None},
           r # None => ~(r.enabled /\ r.auto),
           row' = [row EXCEPT ![e] = r], call' \in [Calls -> Calling \cup {None}],
           minted \subseteq minted', e \in minted'
    PROVE  IInv'
  <1>1. \A d \in Endpoints : row'[d] = IF d = e THEN r ELSE row[d]
    BY DEF IInv, Types
  <1>2. Types'
    BY DEF IInv, Types
  <1>3. MintedFirst'
    BY <1>1 DEF IInv, MintedFirst
  <1>4. MarkedIsOff'
    <2> SUFFICES ASSUME NEW d \in Endpoints, row'[d] # None PROVE ~(row'[d].enabled /\ row'[d].auto)
      BY DEF MarkedIsOff
    <2>1. CASE d = e
      BY <1>1, <2>1
    <2>2. CASE d # e
      BY <1>1, <2>2 DEF IInv, MarkedIsOff
    <2>. QED BY <2>1, <2>2
  <1>. QED BY <1>2, <1>3, <1>4 DEF IInv

LEMMA RequestKeeps ==
    ASSUME IInv, NEW k \in Calls, NEW c \in Channels, NEW body \in Bodies, Request(k, c, body)
    PROVE  IInv'
  <1>1. [channel |-> c, body |-> body] \in Calling
    BY DEF Calling
  <1>2. call' \in [Calls -> Calling \cup {None}]
    BY <1>1 DEF IInv, Types, Request
  <1>. QED BY <1>2 DEF IInv, Types, MintedFirst, MarkedIsOff, Request

LEMMA CreateKeeps == ASSUME IInv, NEW k \in Calls, Create(k) PROVE IInv'
  <1>1. call' \in [Calls -> Calling \cup {None}]
    BY AnswerTypes DEF Create
  <1>2. CASE UNCHANGED <<row, minted>>
    BY <1>1, <1>2 DEF IInv, Types, MintedFirst, MarkedIsOff
  <1>3. CASE ~UNCHANGED <<row, minted>>
    <2>. DEFINE r == [channel |-> call[k].channel, url |-> call[k].body.url,
                      enabled |-> call[k].body.enabled, auto |-> FALSE]
    <2>1. PICK e \in Endpoints \ minted : minted' = minted \cup {e} /\ row' = [row EXCEPT ![e] = r]
      BY <1>3 DEF Create
    <2>2. r \in Endpoint
      BY BodyTypes DEF Create, Asks, Endpoint
    <2>3. ~(r.enabled /\ r.auto)
      OBVIOUS
    <2>. HIDE DEF r
    <2>. QED BY <1>1, <2>1, <2>2, <2>3, OneRow
  <1>. QED BY <1>2, <1>3

\* Switching on takes the mark away; nothing a PATCH says puts it there.
LEMMA PatchedIsSound ==
    ASSUME NEW r \in Endpoint, ~(r.enabled /\ r.auto), NEW body,
           body.url \in Urls \cup {None}, body.enabled \in BOOLEAN \cup {None}
    PROVE  Patched(r, body) \in Endpoint /\ ~(Patched(r, body).enabled /\ Patched(r, body).auto)
  <1>1. /\ Patched(r, body).channel = r.channel
        /\ Patched(r, body).url = IF body.url = None THEN r.url ELSE body.url
        /\ Patched(r, body).enabled = IF body.enabled = None THEN r.enabled ELSE body.enabled
        /\ Patched(r, body).auto = (r.auto /\ body.enabled # TRUE)
    BY DEF Patched, Endpoint
  <1>2. Patched(r, body) \in Endpoint
    BY DEF Patched, Endpoint
  <1>3. ~(Patched(r, body).enabled /\ Patched(r, body).auto)
    <2>1. CASE body.enabled = None
      BY <1>1, <2>1
    <2>2. CASE body.enabled = TRUE
      BY <1>1, <2>2
    <2>3. CASE body.enabled = FALSE /\ body.enabled # None
      BY <1>1, <2>3
    <2>. QED BY <2>1, <2>2, <2>3
  <1>. QED BY <1>2, <1>3

LEMMA PatchKeeps == ASSUME IInv, NEW k \in Calls, Patch(k) PROVE IInv'
  <1>. DEFINE e == call[k].body.endpoint
  <1>1. call' \in [Calls -> Calling \cup {None}] /\ minted' = minted
    BY AnswerTypes DEF Patch
  <1>2. CASE row' = row
    BY <1>1, <1>2 DEF IInv, Types, MintedFirst, MarkedIsOff
  <1>3. CASE row' # row
    <2>1. /\ e \in Endpoints /\ call[k].body.url \in Urls \cup {None}
          /\ call[k].body.enabled \in BOOLEAN \cup {None}
      BY BodyTypes DEF Patch, Asks
    <2>2. row[e] # None /\ row' = [row EXCEPT ![e] = Patched(row[e], call[k].body)]
      BY <1>3 DEF Patch, Addressed
    <2>. HIDE DEF e
    <2>3. row[e] \in Endpoint /\ ~(row[e].enabled /\ row[e].auto) /\ e \in minted
      BY <2>1, <2>2 DEF IInv, Types, MarkedIsOff, MintedFirst
    <2>. DEFINE r == Patched(row[e], call[k].body)
    <2>4. r \in Endpoint /\ ~(r.enabled /\ r.auto)
      BY <2>1, <2>3, PatchedIsSound
    <2>. HIDE DEF r
    <2>. QED BY <1>1, <2>1, <2>2, <2>3, <2>4, OneRow DEF r
  <1>. QED BY <1>2, <1>3

LEMMA DeleteKeeps == ASSUME IInv, NEW k \in Calls, Delete(k) PROVE IInv'
  <1>. DEFINE e == call[k].body.endpoint
  <1>1. call' \in [Calls -> Calling \cup {None}] /\ minted' = minted
    BY AnswerTypes DEF Delete
  <1>2. CASE row' = row
    BY <1>1, <1>2 DEF IInv, Types, MintedFirst, MarkedIsOff
  <1>3. CASE row' # row
    <2>1. e \in Endpoints
      BY BodyTypes DEF Delete, Asks
    <2>2. row[e] # None /\ row' = [row EXCEPT ![e] = None]
      BY <1>3 DEF Delete, Addressed
    <2>. HIDE DEF e
    <2>3. e \in minted
      BY <2>1, <2>2 DEF IInv, MintedFirst
    <2>. QED BY <1>1, <2>1, <2>2, <2>3, OneRow
  <1>. QED BY <1>2, <1>3

\* The worker's UPDATE sets the mark and the switch together.
LEMMA AutoDisableKeeps == ASSUME IInv, NEW e \in Endpoints, AutoDisable(e) PROVE IInv'
  <1>. DEFINE r == [row[e] EXCEPT !.enabled = FALSE, !.auto = TRUE]
  <1>1. row[e] \in Endpoint /\ e \in minted
    BY DEF AutoDisable, IInv, Types, MintedFirst
  <1>2. r \in Endpoint /\ ~(r.enabled /\ r.auto)
    BY <1>1 DEF Endpoint
  <1>3. row' = [row EXCEPT ![e] = r] /\ call' = call /\ minted' = minted
    BY DEF AutoDisable
  <1>4. call' \in [Calls -> Calling \cup {None}]
    BY <1>3 DEF IInv, Types
  <1>. HIDE DEF r
  <1>. QED BY <1>1, <1>2, <1>3, <1>4, OneRow

\* The other steps write no row.
LEMMA OthersKeep == ASSUME IInv, UNCHANGED <<row, minted, call>> PROVE IInv'
  BY DEF IInv, Types, MintedFirst, MarkedIsOff

\* The steps that write, and the others, which leave rows and calls alone.
Writes ==
    \/ \E k \in Calls :
          \/ \E c \in Channels, body \in Bodies : Request(k, c, body)
          \/ Create(k) \/ Patch(k) \/ Delete(k)
    \/ \E e \in Endpoints : AutoDisable(e)
Reads == UNCHANGED <<row, minted, call>>

LEMMA NextWritesOrReads == ASSUME [Next]_vars PROVE Writes \/ Reads
  <1>1. CASE (\E c \in Channels : DeleteChannel(c) \/ Begin(c)) \/ Page \/ Close \/ UNCHANGED vars
    BY <1>1 DEF Reads, DeleteChannel, Begin, Page, Close, vars
  <1>. QED BY <1>1 DEF Next, Writes

\* The invariant is inductive.
LEMMA StepIInv == ASSUME IInv, Writes \/ Reads PROVE IInv'
  <1>1. CASE \E k \in Calls, c \in Channels, body \in Bodies : Request(k, c, body)
    BY <1>1, RequestKeeps
  <1>2. CASE \E k \in Calls : Create(k)
    BY <1>2, CreateKeeps
  <1>3. CASE \E k \in Calls : Patch(k)
    BY <1>3, PatchKeeps
  <1>4. CASE \E k \in Calls : Delete(k)
    BY <1>4, DeleteKeeps
  <1>5. CASE \E e \in Endpoints : AutoDisable(e)
    BY <1>5, AutoDisableKeeps
  <1>6. CASE Reads
    BY <1>6, OthersKeep DEF Reads
  <1>. QED BY <1>1, <1>2, <1>3, <1>4, <1>5, <1>6 DEF Writes

\* The rows, the calls and the minted ids agree in every reachable state.
THEOREM Invariance == ASSUME AdminAssumption PROVE Spec => []IInv
  <1>1. Init => IInv
    BY InitIInv
  <1>2. IInv /\ [Next]_vars => IInv'
    BY StepIInv, NextWritesOrReads
  <1>. QED BY <1>1, <1>2, PTL DEF Spec

\* A row that is switched on carries no mark that would exclude it.
LEMMA SwitchIsAll == ASSUME IInv PROVE SwitchDecides
  <1> SUFFICES ASSUME NEW e \in Endpoints, row[e] # None
               PROVE  row[e].enabled <=> e \in Targets(row[e].channel)
    BY DEF SwitchDecides
  <1>1. ~(row[e].enabled /\ row[e].auto)
    BY DEF IInv, MarkedIsOff
  <1>. QED BY <1>1 DEF Targets

\* The switch alone says whether an Endpoint is fanned out to.
THEOREM TheSwitchDecides == ASSUME AdminAssumption PROVE Spec => []SwitchDecides
  BY SwitchIsAll, Invariance, PTL

\* A row that changes is one of the Channel in the path of the request that
\* ends with it, or takes the worker's mark.
LEMMA StepOwnChannelOnly ==
    ASSUME AdminAssumption, IInv, Writes \/ Reads PROVE OwnChannelOnlyStep
  <1> SUFFICES ASSUME NEW e \in Endpoints, row[e] # None, row'[e] # row[e]
               PROVE  \/ \E k \in Calls : /\ call[k] # None /\ call'[k] = None
                                          /\ call[k].channel = row[e].channel
                      \/ row'[e] # None /\ row'[e].auto /\ ~row[e].auto
    BY DEF OwnChannelOnlyStep
  <1>1. CASE \E k \in Calls, c \in Channels, body \in Bodies : Request(k, c, body)
    BY <1>1 DEF Request
  <1>2. ASSUME NEW k \in Calls, Create(k) PROVE FALSE
    <2>1. PICK d \in Endpoints \ minted : \E r : row' = [row EXCEPT ![d] = r]
      BY <1>2 DEF Create
    <2>2. row[d] = None
      BY <2>1 DEF IInv, MintedFirst
    <2>. QED BY <2>1, <2>2 DEF IInv, Types
  <1>3. ASSUME NEW k \in Calls, Patch(k) \/ Delete(k)
        PROVE  call[k] # None /\ call'[k] = None /\ call[k].channel = row[e].channel
    <2>1. call[k] # None /\ call'[k] = None
      BY <1>3, AnswerTypes DEF Patch, Delete, Asks
    <2>2. PICK r : row' = [row EXCEPT ![call[k].body.endpoint] = r]
      BY <1>3 DEF Patch, Delete
    <2>3. e = call[k].body.endpoint
      BY <2>2 DEF IInv, Types
    <2>4. Addressed(call[k].channel, e)
      BY <1>3, <2>3 DEF Patch, Delete
    <2>. QED BY <2>1, <2>4 DEF Addressed
  <1>4. ASSUME NEW d \in Endpoints, AutoDisable(d)
        PROVE  row'[e] # None /\ row'[e].auto /\ ~row[e].auto
    <2>1. d = e /\ ~row[e].auto /\ row'[e] = [row[e] EXCEPT !.enabled = FALSE, !.auto = TRUE]
      BY <1>4 DEF AutoDisable, IInv, Types
    <2>2. row[e] \in Endpoint
      BY DEF IInv, Types
    <2>3. row'[e].auto = TRUE
      BY <2>1, <2>2 DEF Endpoint
    <2>4. row'[e] # None
      BY <2>1, <2>2 DEF AdminAssumption, Endpoint
    <2>. QED BY <2>1, <2>3, <2>4
  <1>5. CASE Reads
    BY <1>5 DEF Reads
  <1>. QED BY <1>1, <1>2, <1>3, <1>4, <1>5 DEF Writes

\* A write reaches rows of its own Channel only, but for the worker's mark.
THEOREM WritesStayInTheChannel == ASSUME AdminAssumption PROVE Spec => OwnChannelOnly
  <1>1. IInv /\ [Next]_vars => [OwnChannelOnlyStep]_vars
    BY StepOwnChannelOnly, NextWritesOrReads
  <1>. QED BY <1>1, Invariance, PTL DEF Spec, OwnChannelOnly

-----------------------------------------------------------------------------
(* The walk through the list of a Channel.                                 *)

\* The walk has come past an Endpoint, or it has not come to it yet.
Reached(e) ==
    walk.done \/ (walk.cursor # None /\ ~KeyBefore(walk.cursor, Key(e)))

WalkTyped ==
    /\ walk = [channel |-> walk.channel, cursor |-> walk.cursor, listed |-> walk.listed,
               done |-> walk.done, stayers |-> walk.stayers]
    /\ walk.cursor \in (Urls \X Endpoints) \cup {None}
    /\ walk.listed \in Seq(Endpoints) /\ walk.done \in BOOLEAN
    /\ walk.stayers \subseteq Endpoints

StayersAreThere ==
    \A e \in walk.stayers : row[e] # None /\ row[e].channel = walk.channel

\* Those it came past are listed once, the others nowhere.
ReachedAreListed ==
    \A e \in walk.stayers :
        IF Reached(e) THEN Once(walk.listed, e) ELSE Nowhere(walk.listed, e)

WalkInv == walk # None => WalkTyped /\ StayersAreThere /\ ReachedAreListed

LEMMA KeyTypes ==
    ASSUME AdminAssumption, IInv, NEW e \in Endpoints, row[e] # None
    PROVE  /\ Key(e) \in Urls \X Endpoints /\ Key(e) # None
           /\ Key(e)[1] = row[e].url /\ Key(e)[2] = e /\ row[e].url \in Int /\ e \in Int
  <1>1. row[e].url \in Urls
    BY DEF IInv, Types, Endpoint
  <1>2. Key(e) \in Urls \X Endpoints
    BY <1>1 DEF Key
  <1>. QED BY <1>1, <1>2 DEF Key, AdminAssumption

\* The keys are in an order, and no two Endpoints have the same.
LEMMA KeyOrder ==
    ASSUME AdminAssumption, NEW k \in Urls \X Endpoints, NEW l \in Urls \X Endpoints
    PROVE  /\ ~KeyBefore(k, k)
           /\ KeyBefore(k, l) => ~KeyBefore(l, k)
           /\ k # l => KeyBefore(k, l) \/ KeyBefore(l, k)
           /\ \A m \in Urls \X Endpoints : KeyBefore(k, l) /\ KeyBefore(l, m) => KeyBefore(k, m)
  <1>1. \A m \in Urls \X Endpoints : m[1] \in Int /\ m[2] \in Int /\ m = <<m[1], m[2]>>
    <2>1. \A m \in Urls \X Endpoints : m[1] \in Urls /\ m[2] \in Endpoints /\ m = <<m[1], m[2]>>
      OBVIOUS
    <2>2. \A x : (x \in Urls => x \in Int) /\ (x \in Endpoints => x \in Int)
      BY DEF AdminAssumption
    <2>. QED BY <2>1, <2>2
  <1>2. ~KeyBefore(k, k) /\ (KeyBefore(k, l) => ~KeyBefore(l, k))
    BY <1>1 DEF KeyBefore
  <1>3. k # l => KeyBefore(k, l) \/ KeyBefore(l, k)
    BY <1>1 DEF KeyBefore
  <1>4. ASSUME NEW m \in Urls \X Endpoints, KeyBefore(k, l), KeyBefore(l, m)
        PROVE  KeyBefore(k, m)
    BY <1>1, <1>4 DEF KeyBefore
  <1>. QED BY <1>2, <1>3, <1>4

\* The rows of the list, with what is before each of them.
Preceding(c, cursor) ==
    [e \in After(c, cursor) |-> {d \in After(c, cursor) : KeyBefore(Key(d), Key(e))}]

LEMMA RowsAreOrdered ==
    ASSUME AdminAssumption, IInv, NEW c, NEW cursor
    PROVE  /\ IsFiniteSet(After(c, cursor)) /\ After(c, cursor) \subseteq Endpoints
           /\ Orders(Preceding(c, cursor), After(c, cursor))
           /\ Placed(Rows(c, cursor), Preceding(c, cursor), After(c, cursor))
  <1>. DEFINE S == After(c, cursor)
              Pre == Preceding(c, cursor)
              rows == Rows(c, cursor)
  <1>1. IsFiniteSet(S) /\ S \subseteq Endpoints /\ \A e \in S : row[e] # None
    BY FS_Subset DEF After, AdminAssumption
  <1>2. \A e \in S : Pre[e] = {d \in S : KeyBefore(Key(d), Key(e))}
    BY DEF Preceding
  <1>3. Pre \in [S -> SUBSET S]
    BY DEF Preceding
  <1>4. rows = [i \in 1..Cardinality(S) |->
                  CHOOSE e \in S : Cardinality({d \in S : KeyBefore(Key(d), Key(e))}) = i - 1]
    BY DEF Rows, InOrder
  <1>5. \A e \in S : Key(e) \in Urls \X Endpoints /\ Key(e)[2] = e
    BY <1>1, KeyTypes
  <1>. HIDE DEF S, Pre, rows
  <1>6. Orders(Pre, S)
    <2>1. \A x \in S : x \notin Pre[x]
      BY <1>2, <1>5, KeyOrder
    <2>2. \A x, y \in S : x # y => x \in Pre[y] \/ y \in Pre[x]
      BY <1>2, <1>5, KeyOrder
    <2>3. \A x, y, z \in S : x \in Pre[y] /\ y \in Pre[z] => x \in Pre[z]
      BY <1>2, <1>5, KeyOrder
    <2>. QED BY <1>3, <2>1, <2>2, <2>3 DEF Orders
  <1>7. Placed(rows, Pre, S)
    <2>1. ASSUME NEW i \in 1..Cardinality(S)
          PROVE  \E e \in S : Cardinality({d \in S : KeyBefore(Key(d), Key(e))}) = i - 1
      <3>1. PICK e \in S : Cardinality(Pre[e]) = i - 1
        BY <1>1, <1>6, EveryPlaceIsTaken
      <3>. QED BY <1>2, <3>1
    <2>2. ASSUME NEW i \in 1..Cardinality(S)
          PROVE  rows[i] \in S
                 /\ Cardinality({d \in S : KeyBefore(Key(d), Key(rows[i]))}) = i - 1
      BY <1>4, <2>1
    <2>3. rows \in [1..Cardinality(S) -> S]
      BY <1>4, <2>2
    <2>. QED BY <1>2, <2>2, <2>3 DEF Placed
  <1>. QED BY <1>1, <1>6, <1>7 DEF S, Pre, rows

\* A write leaves an Endpoint in its Channel.
LEMMA ChannelsStay ==
    ASSUME IInv, Writes,
           NEW e \in Endpoints, row[e] # None, row'[e] # None
    PROVE  row'[e].channel = row[e].channel
  <1>1. CASE row' = row
    BY <1>1
  <1>2. ASSUME NEW k \in Calls, Create(k), row' # row PROVE row'[e] = row[e]
    <2>1. PICK d \in Endpoints \ minted : \E r : row' = [row EXCEPT ![d] = r]
      BY <1>2 DEF Create
    <2>2. row[d] = None
      BY <2>1 DEF IInv, MintedFirst
    <2>. QED BY <2>1, <2>2 DEF IInv, Types
  <1>3. ASSUME NEW k \in Calls, Patch(k), row' # row
        PROVE  row'[e].channel = row[e].channel
    <2>1. PICK d : d = call[k].body.endpoint
      OBVIOUS
    <2>2. row' = [row EXCEPT ![d] = Patched(row[d], call[k].body)]
      BY <1>3, <2>1 DEF Patch
    <2>3. row[e] \in Endpoint
      BY DEF IInv, Types
    <2>4. Patched(row[e], call[k].body).channel = row[e].channel
      BY <2>3 DEF Patched, Endpoint
    <2>5. row'[e] = row[e] \/ row'[e] = Patched(row[e], call[k].body)
      BY <2>2 DEF IInv, Types
    <2>. QED BY <2>4, <2>5
  <1>4. ASSUME NEW k \in Calls, Delete(k), row' # row PROVE row'[e] = row[e]
    <2>1. PICK d : row' = [row EXCEPT ![d] = None]
      BY <1>4 DEF Delete
    <2>. QED BY <2>1 DEF IInv, Types
  <1>5. ASSUME NEW d \in Endpoints, AutoDisable(d) PROVE row'[e].channel = row[e].channel
    <2>1. row'[e] = row[e] \/ row'[e] = [row[e] EXCEPT !.enabled = FALSE, !.auto = TRUE]
      BY <1>5 DEF AutoDisable, IInv, Types
    <2>2. row[e] \in Endpoint
      BY DEF IInv, Types
    <2>. QED BY <2>1, <2>2 DEF Endpoint
  <1>. QED BY <1>1, <1>2, <1>3, <1>4, <1>5 DEF Writes, Request

\* A walk that keeps those of its stayers that kept their url.
LEMMA StayersKept ==
    ASSUME AdminAssumption, IInv, IInv', WalkInv, Writes, Stayers PROVE WalkInv'
  <1>1. CASE walk = None
    BY <1>1 DEF Stayers, WalkInv
  <1>2. CASE walk # None
    <2>. DEFINE kept == {e \in walk.stayers : row'[e] # None /\ row'[e].url = row[e].url}
    <2>1. walk' = [walk EXCEPT !.stayers = kept]
      BY <1>2 DEF Stayers
    <2>2. WalkTyped /\ StayersAreThere /\ ReachedAreListed
      BY <1>2 DEF WalkInv
    <2>. HIDE DEF kept
    <2>3. /\ walk'.channel = walk.channel /\ walk'.cursor = walk.cursor
          /\ walk'.listed = walk.listed /\ walk'.done = walk.done /\ walk'.stayers = kept
          /\ walk' = [channel |-> walk.channel, cursor |-> walk.cursor,
                      listed |-> walk.listed, done |-> walk.done, stayers |-> kept]
      BY <2>1, <2>2 DEF WalkTyped
    <2>4. \A e \in kept : /\ e \in walk.stayers /\ e \in Endpoints /\ row[e] # None
                          /\ row'[e] # None /\ row'[e].url = row[e].url
                          /\ row'[e].channel = walk.channel
      BY <2>2, ChannelsStay DEF kept, WalkTyped, StayersAreThere
    <2>5. ASSUME NEW e \in kept PROVE Reached(e)' <=> Reached(e)
      <3>1. Key(e)' = Key(e)
        BY <2>4 DEF Key
      <3>. QED BY <2>3, <3>1 DEF Reached, KeyBefore
    <2>6. WalkTyped'
      BY <2>2, <2>3, <2>4 DEF WalkTyped
    <2>7. StayersAreThere'
      BY <2>3, <2>4 DEF StayersAreThere
    <2>8. ReachedAreListed'
      BY <2>2, <2>3, <2>4, <2>5 DEF ReachedAreListed
    <2>. QED BY <2>6, <2>7, <2>8 DEF WalkInv
  <1>. QED BY <1>1, <1>2

LEMMA PageKeeps ==
    ASSUME AdminAssumption, IInv, WalkInv, Page PROVE WalkInv'
  <1>. DEFINE S == After(walk.channel, walk.cursor)
              Pre == Preceding(walk.channel, walk.cursor)
              rows == Rows(walk.channel, walk.cursor)
              page == PageOf(rows, Limit)
              cursor == NextCursor(rows)
  <1>1. /\ walk # None /\ ~walk.done /\ row' = row
        /\ walk' = [walk EXCEPT !.listed = walk.listed \o page, !.cursor = cursor,
                                !.done = (cursor = None)]
    BY DEF Page
  <1>2. WalkTyped /\ StayersAreThere /\ ReachedAreListed
    BY <1>1 DEF WalkInv
  <1>3. /\ IsFiniteSet(S) /\ S \subseteq Endpoints /\ Orders(Pre, S) /\ Placed(rows, Pre, S)
        /\ Limit \in Nat \ {0}
    BY RowsAreOrdered DEF AdminAssumption
  <1>4. \A e \in Endpoints : e \in S <=>
           /\ row[e] # None /\ row[e].channel = walk.channel
           /\ walk.cursor # None => KeyBefore(walk.cursor, Key(e))
    BY DEF After
  <1>5. \A d, e \in S : d \in Pre[e] <=> KeyBefore(Key(d), Key(e))
    BY DEF Preceding
  <1>6. cursor = IF Len(rows) > Limit THEN Key(rows[Limit]) ELSE None
    BY DEF NextCursor
  <1>. HIDE DEF S, Pre, rows, cursor
  <1>7. /\ rows \in Seq(S) /\ page \in Seq(S)
        /\ \A i \in DOMAIN page : page[i] \in S
        /\ ~(Len(rows) > Limit) => \A x \in S : Once(page, x)
        /\ Len(rows) > Limit =>
              /\ rows[Limit] \in S
              /\ \A x \in S : x = rows[Limit] \/ x \in Pre[rows[Limit]] => Once(page, x)
              /\ \A x \in S : rows[Limit] \in Pre[x] => Nowhere(page, x)
    <2>1. rows \in Seq(S) /\ page \in Seq(S)
      BY <1>3, PageHasItsRows
    <2>2. \A i \in DOMAIN page : page[i] \in S
      BY <2>1
    <2>. QED BY <1>3, <2>1, <2>2, PageHasItsRows
  <1>. HIDE DEF page
  <1>8. page \in Seq(Endpoints) /\ walk.listed \in Seq(Endpoints)
    BY <1>2, <1>3, <1>7 DEF WalkTyped
  <1>9. /\ walk'.channel = walk.channel /\ walk'.cursor = cursor
        /\ walk'.listed = walk.listed \o page /\ walk'.done = (cursor = None)
        /\ walk'.stayers = walk.stayers
        /\ walk' = [channel |-> walk.channel, cursor |-> cursor,
                    listed |-> walk.listed \o page, done |-> (cursor = None),
                    stayers |-> walk.stayers]
    BY <1>1, <1>2 DEF WalkTyped
  <1>10. \A e \in S : Key(e) \in Urls \X Endpoints /\ Key(e) # None /\ Key(e)[2] = e
    BY <1>3, <1>4, KeyTypes
  <1>11. cursor \in (Urls \X Endpoints) \cup {None} /\ (cursor = None <=> ~(Len(rows) > Limit))
    BY <1>6, <1>7, <1>10
  <1>12. WalkTyped'
    <2>1. walk.listed \o page \in Seq(Endpoints)
      BY <1>8
    <2>. QED BY <1>2, <1>9, <1>11, <2>1 DEF WalkTyped
  <1>13. StayersAreThere'
    BY <1>1, <1>2, <1>9 DEF StayersAreThere
  <1>14. ASSUME NEW e \in walk.stayers
         PROVE  IF Reached(e)' THEN Once(walk.listed \o page, e)
                ELSE Nowhere(walk.listed \o page, e)
    <2>1. /\ e \in Endpoints /\ row[e] # None /\ row[e].channel = walk.channel
          /\ IF Reached(e) THEN Once(walk.listed, e) ELSE Nowhere(walk.listed, e)
          /\ Key(e) \in Urls \X Endpoints
      BY <1>2, KeyTypes DEF WalkTyped, StayersAreThere, ReachedAreListed
    <2>2. Reached(e)' <=> (cursor = None \/ ~KeyBefore(cursor, Key(e)))
      <3>1. Key(e)' = Key(e)
        BY <1>1 DEF Key
      <3>. QED BY <1>9, <3>1 DEF Reached, KeyBefore
    <2>3. CASE Reached(e)
      <3>1. walk.cursor # None /\ ~KeyBefore(walk.cursor, Key(e)) /\ e \notin S
            /\ walk.cursor \in Urls \X Endpoints
        BY <1>1, <1>2, <1>4, <2>1, <2>3 DEF Reached, WalkTyped
      <3>2. Nowhere(page, e)
        BY <1>7, <3>1 DEF Nowhere
      <3>3. Reached(e)'
        <4>1. ASSUME cursor # None PROVE ~KeyBefore(cursor, Key(e))
          <5>1. cursor \in Urls \X Endpoints /\ KeyBefore(walk.cursor, cursor)
            BY <1>3, <1>4, <1>6, <1>7, <1>11, <3>1, <4>1
          <5>. QED BY <2>1, <3>1, <5>1, KeyOrder
        <4>. QED BY <2>2, <4>1
      <3>. QED BY <1>8, <2>1, <2>3, <3>2, <3>3, OnceBefore
    <2>4. CASE ~Reached(e)
      <3>1. e \in S /\ Nowhere(walk.listed, e)
        BY <1>1, <1>4, <2>1, <2>4 DEF Reached
      <3>2. CASE ~(Len(rows) > Limit)
        <4>1. Once(page, e) /\ Reached(e)'
          BY <1>7, <1>11, <2>2, <3>1, <3>2
        <4>. QED BY <1>8, <3>1, <4>1, OnceBehind
      <3>3. CASE Len(rows) > Limit
        <4>. DEFINE last == rows[Limit]
        <4>1. last \in S /\ cursor = Key(last) /\ cursor # None
          BY <1>6, <1>7, <1>11, <3>3
        <4>2. Reached(e)' <=> ~KeyBefore(Key(last), Key(e))
          BY <2>2, <4>1
        <4>. HIDE DEF last
        <4>3. CASE KeyBefore(Key(last), Key(e))
          <5>1. Nowhere(page, e)
            BY <1>5, <1>7, <3>1, <3>3, <4>1, <4>3 DEF last
          <5>. QED BY <1>8, <3>1, <4>2, <4>3, <5>1, NowhereBoth
        <4>4. CASE ~KeyBefore(Key(last), Key(e))
          <5>1. e = last \/ KeyBefore(Key(e), Key(last))
            <6>1. Key(last) # Key(e) => KeyBefore(Key(e), Key(last))
              BY <1>10, <3>1, <4>1, <4>4, KeyOrder
            <6>. QED BY <1>10, <3>1, <4>1, <6>1
          <5>2. Once(page, e)
            BY <1>5, <1>7, <3>1, <3>3, <4>1, <5>1 DEF last
          <5>. QED BY <1>8, <3>1, <4>2, <4>4, <5>2, OnceBehind
        <4>. QED BY <4>3, <4>4
      <3>. QED BY <3>2, <3>3
    <2>. QED BY <2>3, <2>4
  <1>15. ReachedAreListed'
    BY <1>9, <1>14 DEF ReachedAreListed
  <1>. QED BY <1>12, <1>13, <1>15 DEF WalkInv

LEMMA BeginKeeps == ASSUME IInv, NEW c \in Channels, Begin(c) PROVE WalkInv'
  <1>1. /\ walk' = [channel |-> c, cursor |-> None, listed |-> <<>>, done |-> FALSE,
                    stayers |-> After(c, None)]
        /\ row' = row
    BY DEF Begin
  <1>2. After(c, None) = {e \in Endpoints : row[e] # None /\ row[e].channel = c}
    BY DEF After
  <1>3. WalkTyped'
    <2>1. <<>> \in Seq(Endpoints)
      OBVIOUS
    <2>. QED BY <1>1, <1>2, <2>1 DEF WalkTyped
  <1>4. StayersAreThere'
    BY <1>1, <1>2 DEF StayersAreThere
  <1>5. ReachedAreListed'
    BY <1>1 DEF ReachedAreListed, Reached, Nowhere
  <1>. QED BY <1>3, <1>4, <1>5 DEF WalkInv

LEMMA WalkGoesOn ==
    ASSUME AdminAssumption, IInv, IInv', WalkInv, [Next]_vars PROVE WalkInv'
  <1>1. CASE UNCHANGED <<row, walk>>
    BY <1>1 DEF WalkInv, WalkTyped, StayersAreThere, ReachedAreListed, Reached, Key
  <1>2. ASSUME NEW k \in Calls, Create(k) \/ Patch(k) \/ Delete(k) PROVE WalkInv'
    BY <1>2, StayersKept DEF Writes, Create, Patch, Delete
  <1>3. ASSUME NEW e \in Endpoints, AutoDisable(e) PROVE WalkInv'
    <2>1. walk' = walk /\ Writes
      BY <1>3 DEF AutoDisable, Writes
    <2>2. \A d \in Endpoints : row[d] # None => row'[d] # None /\ row'[d].url = row[d].url
      <3>1. \A d \in Endpoints : row[d] # None => row[d] \in Endpoint
        BY DEF IInv, Types
      <3>2. \A d \in Endpoints : row'[d] = IF d = e THEN [row[e] EXCEPT !.enabled = FALSE, !.auto = TRUE]
                                           ELSE row[d]
        BY <1>3 DEF AutoDisable, IInv, Types
      <3>3. row[e] # None => /\ [row[e] EXCEPT !.enabled = FALSE, !.auto = TRUE] \in Endpoint
                             /\ [row[e] EXCEPT !.enabled = FALSE, !.auto = TRUE].url = row[e].url
        BY <3>1 DEF Endpoint
      <3>4. None \notin Endpoint
        BY DEF AdminAssumption
      <3>. QED BY <3>1, <3>2, <3>3, <3>4
    <2>3. CASE walk = None
      BY <2>1, <2>3 DEF WalkInv
    <2>4. CASE walk # None
      <3>1. WalkTyped /\ StayersAreThere /\ ReachedAreListed
        BY <2>4 DEF WalkInv
      <3>2. \A d \in walk.stayers : /\ d \in Endpoints /\ row'[d] # None
                                    /\ row'[d].channel = walk.channel
                                    /\ row'[d].url = row[d].url
        BY <2>1, <2>2, <3>1, ChannelsStay DEF WalkTyped, StayersAreThere
      <3>3. ASSUME NEW d \in walk.stayers PROVE Reached(d)' <=> Reached(d)
        <4>1. Key(d)' = Key(d)
          BY <3>2 DEF Key
        <4>. QED BY <2>1, <4>1 DEF Reached, KeyBefore
      <3>. QED BY <2>1, <3>1, <3>2, <3>3
               DEF WalkInv, WalkTyped, StayersAreThere, ReachedAreListed
    <2>. QED BY <2>3, <2>4
  <1>4. ASSUME NEW c \in Channels, Begin(c) PROVE WalkInv'
    BY <1>4, BeginKeeps
  <1>5. CASE Page
    BY <1>5, PageKeeps
  <1>6. CASE Close
    BY <1>6 DEF Close, WalkInv
  <1>. QED BY <1>1, <1>2, <1>3, <1>4, <1>5, <1>6
       DEF Next, Request, DeleteChannel, vars

\* What a walk lists of those that stay.
LEMMA StayersAreListedOnce == ASSUME WalkInv PROVE KeptListedOnce
  <1>. SUFFICES ASSUME walk # None, NEW e \in walk.stayers
                PROVE  Times(e) <= 1 /\ (walk.done => Times(e) = 1)
    BY DEF KeptListedOnce
  <1>1. /\ Once(walk.listed, e) \/ Nowhere(walk.listed, e)
        /\ walk.done => Once(walk.listed, e)
    BY DEF WalkInv, ReachedAreListed, Reached
  <1>. QED BY <1>1, OnceIsOne DEF Times

\* The rows and the walk together.
RowsAndWalk == IInv /\ WalkInv

LEMMA RowsAndWalkBegin == ASSUME AdminAssumption, Init PROVE RowsAndWalk
  BY InitIInv DEF Init, WalkInv, RowsAndWalk

LEMMA RowsAndWalkGoOn == ASSUME AdminAssumption, RowsAndWalk, [Next]_vars PROVE RowsAndWalk'
  BY StepIInv, NextWritesOrReads, WalkGoesOn DEF RowsAndWalk

\* An Endpoint that keeps its url while a client reads the list page by page is
\* on exactly one page, whatever is written between two of them.
THEOREM KeptAreListedOnce == ASSUME AdminAssumption PROVE Spec => []KeptListedOnce
  <1>1. Init => RowsAndWalk
    BY RowsAndWalkBegin
  <1>2. RowsAndWalk /\ [Next]_vars => RowsAndWalk'
    BY RowsAndWalkGoOn
  <1>3. RowsAndWalk => KeptListedOnce
    BY StayersAreListedOnce DEF RowsAndWalk
  <1>. QED BY <1>1, <1>2, <1>3, PTL DEF Spec
=============================================================================
