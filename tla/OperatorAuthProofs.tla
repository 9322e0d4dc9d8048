-------------------------- MODULE OperatorAuthProofs --------------------------
(***************************************************************************)
(* Proofs about OperatorAuth, for every set of tokens and any number of    *)
(* requests under way, whatever is minted and revoked meanwhile.           *)
(***************************************************************************)
EXTENDS OperatorAuth, TLAPS

\* A token has a row only once it is minted, and what is gone was minted.
MintedOnce ==
    /\ \A t \in unminted : rows[t] = None
    /\ gone \cap unminted = {}

\* What a request was made with, if it was too late, is a token that is gone.
LateIsGone == \A c \in Calls : call[c] # None /\ call[c].late => call[c].credential \in gone

IInv ==
    TypeOK /\ MintedOnce /\ LateIsGone /\ RevokedIsRefused /\ RevokedStaysGone /\ CookieIsTheKey

\* The parts that speak of the requests under way.
CallInv == LateIsGone /\ RevokedIsRefused /\ CookieIsTheKey

LEMMA InitIInv == ASSUME AuthAssumption, Init PROVE IInv
  BY DEF AuthAssumption, Init, IInv, TypeOK, MintedOnce, LateIsGone, RevokedIsRefused,
         RevokedStaysGone, CookieIsTheKey

\* A request that is answered takes nothing with it.
LEMMA AnswerKeeps ==
    ASSUME IInv, NEW c \in Calls, call' = [call EXCEPT ![c] = None], gone \subseteq gone'
    PROVE  call' \in [Calls -> {None} \cup Requests] /\ CallInv'
  <1>1. /\ \A d \in Calls : call'[d] = None \/ call'[d] = call[d]
        /\ call' \in [Calls -> {None} \cup Requests]
    BY DEF IInv, TypeOK
  <1>. QED BY <1>1 DEF IInv, CallInv, LateIsGone, RevokedIsRefused, CookieIsTheKey

LEMMA RequestKeeps ==
    ASSUME AuthAssumption, IInv, NEW c \in Calls, NEW by \in {"bearer", "cookie"},
           NEW credential \in {None, Key} \cup Tokens, NEW ask \in Asks,
           Request(c, by, credential, ask)
    PROVE  IInv'
  <1>. DEFINE r == [at |-> "guard", by |-> by, credential |-> credential, ask |-> ask,
                    time |-> clock', late |-> credential \in gone]
  <1>1. call' = [call EXCEPT ![c] = r]
    BY DEF Request
  <1>2. clock' \in 1..MaxTime
    BY DEF IInv, TypeOK, Request, AuthAssumption
  <1>3. r \in Requests
    BY <1>2 DEF Requests
  <1>4. call' \in [Calls -> {None} \cup Requests]
    BY <1>1, <1>3 DEF IInv, TypeOK
  <1>5. TypeOK'
    BY <1>2, <1>4 DEF IInv, TypeOK, Request
  <1>6. /\ r.at = "guard" /\ r.late = (credential \in gone) /\ r.credential = credential
        /\ \A d \in Calls : call'[d] = IF d = c THEN r ELSE call[d]
    BY <1>1 DEF IInv, TypeOK
  <1>. HIDE DEF r
  <1>7. LateIsGone'
    <2>1. gone' = gone /\ (r.late => r.credential \in gone)
      BY <1>6 DEF Request
    <2> SUFFICES ASSUME NEW d \in Calls, call'[d] # None, call'[d].late
                 PROVE  call'[d].credential \in gone
      BY <2>1 DEF LateIsGone
    <2>2. CASE d = c
      BY <1>6, <2>1, <2>2
    <2>3. CASE d # c
      BY <1>6, <2>3 DEF IInv, LateIsGone
    <2>. QED BY <2>2, <2>3
  <1>8. RevokedIsRefused' /\ CookieIsTheKey'
    BY <1>6 DEF IInv, RevokedIsRefused, CookieIsTheKey
  <1>. QED BY <1>5, <1>7, <1>8 DEF IInv, MintedOnce, RevokedStaysGone, Request

\* The middleware finds no row of a token that is gone, and none by a cookie.
LEMMA AdmitKeeps == ASSUME AuthAssumption, IInv, NEW c \in Calls, Admit(c) PROVE IInv'
  <1>. DEFINE r == call[c]
  <1>1. r # None /\ r \in Requests /\ call' = [call EXCEPT ![c].at = "admitted"]
    BY DEF Admit, IInv, TypeOK
  <1>2. r.credential = Key \/ (r.by = "bearer" /\ r.credential \in Tokens /\ rows[r.credential] # None)
    BY DEF Admit, LookedUp, Found
  <1>3. touches' = touches \/ touches' = touches \cup {[token |-> r.credential, time |-> r.time]}
    BY DEF Admit
  <1>4. /\ r.by \in {"bearer", "cookie"} /\ r.late \in BOOLEAN /\ r.time \in 1..MaxTime
        /\ r.credential \in {None, Key} \cup Tokens
    BY <1>1 DEF Requests
  <1>5. ~r.late
    <2>1. SUFFICES ASSUME r.late PROVE r.credential \notin gone
      BY <1>1 DEF IInv, LateIsGone
    <2>2. gone \subseteq Tokens /\ \A t \in gone : rows[t] = None
      BY DEF IInv, TypeOK, RevokedStaysGone
    <2>. QED BY <1>2, <2>2 DEF AuthAssumption
  <1>6. [r EXCEPT !.at = "admitted"] \in Requests
    BY <1>1 DEF Requests
  <1>7. call' \in [Calls -> {None} \cup Requests]
    BY <1>1, <1>6 DEF IInv, TypeOK
  <1>8. \A d \in Calls : call'[d] = IF d = c THEN [r EXCEPT !.at = "admitted"] ELSE call[d]
    BY <1>1 DEF IInv, TypeOK
  <1>9. LateIsGone' /\ RevokedIsRefused' /\ CookieIsTheKey'
    <2>1. /\ [r EXCEPT !.at = "admitted"].late = r.late
          /\ [r EXCEPT !.at = "admitted"].by = r.by
          /\ [r EXCEPT !.at = "admitted"].credential = r.credential
      BY <1>1 DEF Requests
    <2>2. gone' = gone
      BY DEF Admit
    <2>. HIDE DEF r
    <2>3. LateIsGone' /\ RevokedIsRefused'
      BY <1>5, <1>8, <2>1, <2>2 DEF IInv, LateIsGone, RevokedIsRefused
    <2>4. CookieIsTheKey'
      BY <1>2, <1>8, <2>1 DEF IInv, CookieIsTheKey
    <2>. QED BY <2>3, <2>4
  <1>10. TypeOK'
    <2>1. touches' \subseteq [token : Tokens, time : 1..MaxTime]
      <3>1. CASE r.credential = Key
        BY <3>1, <1>4 DEF Admit, AuthAssumption, LookedUp, IInv, TypeOK
      <3>2. CASE r.credential # Key
        BY <3>2, <1>2, <1>3, <1>4 DEF IInv, TypeOK
      <3>. QED BY <3>1, <3>2
    <2>. QED BY <2>1, <1>7 DEF IInv, TypeOK, Admit
  <1>. QED BY <1>9, <1>10 DEF IInv, MintedOnce, RevokedStaysGone, Admit

LEMMA RefuseKeeps == ASSUME IInv, NEW c \in Calls, Refuse(c) \/ Read(c) PROVE IInv'
  <1>1. call' = [call EXCEPT ![c] = None] /\ UNCHANGED <<rows, unminted, touches, clock, gone>>
    BY DEF Refuse, Read
  <1>2. call' \in [Calls -> {None} \cup Requests] /\ CallInv'
    BY <1>1, AnswerKeeps
  <1>. QED BY <1>1, <1>2 DEF IInv, CallInv, TypeOK, MintedOnce, RevokedStaysGone

\* Only what has never been minted is, so that nothing that is gone comes back.
LEMMA MintKeeps ==
    ASSUME AuthAssumption, IInv, NEW c \in Calls, NEW t \in Tokens, Mint(c, t)
    PROVE  IInv'
  <1>1. call' \in [Calls -> {None} \cup Requests] /\ CallInv'
    BY AnswerKeeps DEF Mint
  <1>2. t \notin gone
    BY DEF Mint, IInv, MintedOnce
  <1>3. rows' \in [Tokens -> {None} \cup 0..MaxTime]
    BY DEF Mint, IInv, TypeOK, AuthAssumption
  <1>4. RevokedStaysGone' /\ MintedOnce'
    BY <1>2 DEF Mint, IInv, TypeOK, RevokedStaysGone, MintedOnce
  <1>. QED BY <1>1, <1>3, <1>4 DEF Mint, IInv, CallInv, TypeOK

LEMMA RevokeKeeps == ASSUME AuthAssumption, IInv, NEW c \in Calls, Revoke(c) PROVE IInv'
  <1>. DEFINE t == call[c].ask.token
  <1>1. /\ rows' = [rows EXCEPT ![t] = None]
        /\ gone' = (IF rows[t] # None THEN gone \cup {t} ELSE gone)
        /\ call' = [call EXCEPT ![c] = None]
        /\ UNCHANGED <<unminted, touches, clock>>
    BY DEF Revoke
  <1>2. t \in Tokens
    <2>1. call[c] \in Requests /\ call[c].ask.what = "revoke"
      BY DEF Revoke, Serves, IInv, TypeOK
    <2>2. call[c].ask \in Asks
      BY <2>1 DEF Requests
    <2>. QED BY <2>1, <2>2 DEF Asks
  <1>. HIDE DEF t
  <1>3. call' \in [Calls -> {None} \cup Requests] /\ CallInv'
    BY <1>1, AnswerKeeps
  <1>4. TypeOK'
    BY <1>1, <1>2, <1>3 DEF IInv, TypeOK
  <1>5. RevokedStaysGone' /\ MintedOnce'
    BY <1>1, <1>2 DEF IInv, TypeOK, RevokedStaysGone, MintedOnce
  <1>. QED BY <1>3, <1>4, <1>5 DEF IInv, CallInv

\* A lastUsedAt that lands late is written to a row that is there, or nowhere.
LEMMA TouchKeeps == ASSUME AuthAssumption, IInv, NEW touch \in touches, Touch(touch) PROVE IInv'
  <1>1. touch.token \in Tokens /\ touch.time \in 1..MaxTime
    BY DEF IInv, TypeOK
  <1>2. /\ rows' \in [Tokens -> {None} \cup 0..MaxTime]
        /\ \A t \in Tokens : rows[t] = None => rows'[t] = None
    BY <1>1 DEF Touch, Touched, IInv, TypeOK, AuthAssumption
  <1>3. UNCHANGED <<unminted, call, clock, gone>> /\ touches' \subseteq touches
    BY DEF Touch
  <1>. QED BY <1>2, <1>3 DEF IInv, TypeOK, MintedOnce, LateIsGone, RevokedIsRefused,
                             RevokedStaysGone, CookieIsTheKey

\* The invariant is inductive.
LEMMA StepIInv == ASSUME AuthAssumption, IInv, [Next]_vars PROVE IInv'
  <1>1. CASE \E c \in Calls, by \in {"bearer", "cookie"}, credential \in {None, Key} \cup Tokens,
                ask \in Asks : Request(c, by, credential, ask)
    BY <1>1, RequestKeeps
  <1>2. CASE \E c \in Calls : Admit(c)
    BY <1>2, AdmitKeeps
  <1>3. CASE \E c \in Calls : Refuse(c) \/ Read(c)
    BY <1>3, RefuseKeeps
  <1>4. CASE \E c \in Calls : Revoke(c)
    BY <1>4, RevokeKeeps
  <1>5. CASE \E c \in Calls, t \in Tokens : Mint(c, t)
    BY <1>5, MintKeeps
  <1>6. CASE \E touch \in touches : Touch(touch)
    BY <1>6, TouchKeeps
  <1>7. CASE UNCHANGED vars
    BY <1>7 DEF vars, IInv, TypeOK, MintedOnce, LateIsGone, RevokedIsRefused, RevokedStaysGone,
                CookieIsTheKey
  <1>. QED BY <1>1, <1>2, <1>3, <1>4, <1>5, <1>6, <1>7 DEF Next

\* Rows, calls and the touches nobody awaits agree in every reachable state.
THEOREM Invariance == ASSUME AuthAssumption PROVE Spec => []IInv
  <1>1. Init => IInv
    BY InitIInv
  <1>2. IInv /\ [Next]_vars => IInv'
    BY StepIInv
  <1>. QED BY <1>1, <1>2, PTL DEF Spec

\* Whoever comes with a token after its revocation was answered is refused.
THEOREM RevokedTokenIsRefused == ASSUME AuthAssumption PROVE Spec => []RevokedIsRefused
  <1>1. IInv => RevokedIsRefused
    BY DEF IInv
  <1>. QED BY <1>1, Invariance, PTL

\* No late lastUsedAt brings a revoked token's row back.
THEOREM RevokedRowStaysGone == ASSUME AuthAssumption PROVE Spec => []RevokedStaysGone
  <1>1. IInv => RevokedStaysGone
    BY DEF IInv
  <1>. QED BY <1>1, Invariance, PTL

\* The session cookie admits the bootstrap key and nothing else.
THEOREM CookieCarriesTheKey == ASSUME AuthAssumption PROVE Spec => []CookieIsTheKey
  <1>1. IInv => CookieIsTheKey
    BY DEF IInv
  <1>. QED BY <1>1, Invariance, PTL
=============================================================================
