----------------------------- MODULE OperatorAuth -----------------------------
(***************************************************************************)
(* The credentials of the admin surface: the bootstrap key, by bearer or   *)
(* by session cookie, and the minted operator tokens, by bearer alone,     *)
(* looked up on every request while others mint and revoke them, with a    *)
(* lastUsedAt that is written without the request waiting for it.          *)
(***************************************************************************)
EXTENDS Integers

CONSTANTS
    Tokens,       \* every operator token that is ever minted
    Key,          \* OPERATOR_API_KEY
    None,
    Calls,        \* requests that may be under way at once
    MaxTime       \* bound on the requests made

AuthAssumption ==
    /\ Key \notin Tokens /\ None \notin Tokens \cup {Key} \cup Int
    /\ MaxTime \in Nat

VARIABLES
    rows,         \* rows[t]: the lastUsedAt of t's row, 0 for null; or None without a row
    unminted,
    call,         \* call[c]: None, or a request: credential, what it asks for, how far it got
    touches,      \* the lastUsedAt updates on their way
    clock,        \* the requests made so far
    gone          \* history: tokens whose revocation has been answered with 204

vars == <<rows, unminted, call, touches, clock, gone>>

Asks == [what : {"read", "mint"}] \cup [what : {"revoke"}, token : Tokens]

Init ==
    /\ rows = [t \in Tokens |-> None] /\ unminted = Tokens
    /\ call = [c \in Calls |-> None] /\ touches = {}
    /\ clock = 0 /\ gone = {}

\* A bearer with nothing, the key, or a token that has been minted; or a
\* session cookie that carries any of them.
Request(c, by, credential, ask) ==
    /\ call[c] = None /\ clock < MaxTime /\ clock' = clock + 1
    /\ credential \in {None, Key} \cup (Tokens \ unminted)
    /\ call' = [call EXCEPT ![c] =
          [at |-> "guard", by |-> by, credential |-> credential, ask |-> ask, time |-> clock',
           late |-> credential \in gone]]
    /\ UNCHANGED <<rows, unminted, touches, gone>>

\* Mutant: a revoked row is kept, and still found.
Found_Revoked(token) == token \notin unminted

\* findOperatorTokenByHash
Found(token) == rows[token] # None

\* Mutant: the cookie is looked up as a bearer is.
LookedUp_Either(r) == r.credential \in Tokens

\* The cookie is compared with the key only.
LookedUp(r) == r.by = "bearer" /\ r.credential \in Tokens

\* The middleware: the key is let in, a token when its row is found.
Admit(c) ==
    LET r == call[c] IN
    /\ r # None /\ r.at = "guard"
    /\ \/ /\ r.credential = Key
          /\ call' = [call EXCEPT ![c].at = "admitted"] /\ UNCHANGED touches
       \/ /\ LookedUp(r) /\ Found(r.credential)
          /\ call' = [call EXCEPT ![c].at = "admitted"]
          /\ touches' = touches \cup {[token |-> r.credential, time |-> r.time]}
    /\ UNCHANGED <<rows, unminted, clock, gone>>

Refuse(c) ==
    LET r == call[c] IN
    /\ r # None /\ r.at = "guard"
    /\ r.credential # Key /\ ~(LookedUp(r) /\ Found(r.credential))
    /\ call' = [call EXCEPT ![c] = None]
    /\ UNCHANGED <<rows, unminted, touches, clock, gone>>

Serves(c, what) == call[c] # None /\ call[c].at = "admitted" /\ call[c].ask.what = what

\* GET /operator-tokens, or any other route of the admin surface.
Read(c) ==
    /\ Serves(c, "read")
    /\ call' = [call EXCEPT ![c] = None]
    /\ UNCHANGED <<rows, unminted, touches, clock, gone>>

Mint(c, t) ==
    /\ Serves(c, "mint") /\ t \in unminted
    /\ rows' = [rows EXCEPT ![t] = 0] /\ unminted' = unminted \ {t}
    /\ call' = [call EXCEPT ![c] = None]
    /\ UNCHANGED <<touches, clock, gone>>

\* DELETE /operator-tokens/:tokenId, 204 or 404.
Revoke(c) ==
    /\ Serves(c, "revoke")
    /\ LET t == call[c].ask.token IN
       /\ rows' = [rows EXCEPT ![t] = None]
       /\ gone' = IF rows[t] # None THEN gone \cup {t} ELSE gone
    /\ call' = [call EXCEPT ![c] = None]
    /\ UNCHANGED <<unminted, touches, clock>>

\* Mutant: the update inserts the row it misses.
Touched_Upsert(touch) == [rows EXCEPT ![touch.token] = touch.time]

\* touchOperatorTokenLastUsed: an UPDATE, of a row that may be gone.
Touched(touch) ==
    IF rows[touch.token] = None THEN rows ELSE [rows EXCEPT ![touch.token] = touch.time]

\* The update lands, late and in any order, or fails and is only logged.
Touch(touch) ==
    /\ touch \in touches /\ touches' = touches \ {touch}
    /\ rows' = Touched(touch) \/ UNCHANGED rows
    /\ UNCHANGED <<unminted, call, clock, gone>>

Next ==
    \/ \E c \in Calls :
          \/ \E by \in {"bearer", "cookie"}, credential \in {None, Key} \cup Tokens, ask \in Asks :
                Request(c, by, credential, ask)
          \/ Admit(c) \/ Refuse(c) \/ Read(c) \/ Revoke(c)
          \/ \E t \in Tokens : Mint(c, t)
    \/ \E touch \in touches : Touch(touch)

Spec == Init /\ [][Next]_vars
-----------------------------------------------------------------------------
(* Properties.                                                             *)

Requests ==
    [at : {"guard", "admitted"}, by : {"bearer", "cookie"}, credential : {None, Key} \cup Tokens,
     ask : Asks, time : 1..MaxTime, late : BOOLEAN]

TypeOK ==
    /\ rows \in [Tokens -> {None} \cup 0..MaxTime] /\ unminted \subseteq Tokens
    /\ call \in [Calls -> {None} \cup Requests]
    /\ touches \subseteq [token : Tokens, time : 1..MaxTime]
    /\ clock \in 0..MaxTime /\ gone \subseteq Tokens

\* A request made after a token's revocation was answered is never served
\* with that token, however many were served before and however late their
\* lastUsedAt is written.
RevokedIsRefused ==
    \A c \in Calls : call[c] # None /\ call[c].at = "admitted" => ~call[c].late

\* A revoked token never comes back: a lastUsedAt written late finds no row.
RevokedStaysGone == \A t \in gone : rows[t] = None

\* A minted token never signs in to the dashboard: whoever is let in by cookie
\* carries the key itself.
CookieIsTheKey ==
    \A c \in Calls :
        call[c] # None /\ call[c].at = "admitted" /\ call[c].by = "cookie" => call[c].credential = Key
=============================================================================
