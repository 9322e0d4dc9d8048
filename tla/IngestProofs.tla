----------------------------- MODULE IngestProofs -----------------------------
(***************************************************************************)
(* Proofs about Ingest, for every set of Channels, tokens and Endpoints,   *)
(* any number of requests under way and any sequence of an operator's      *)
(* changes and of failures: calls refused, replies lost, rollbacks that    *)
(* fail and processes that die.                                            *)
(***************************************************************************)
EXTENDS Ingest, TLAPS

Request ==
    [at : Stages, token : Tokens \cup {None}, declared : Nat, channel : Channels \cup {None},
     read : Nat, snapshot : SUBSET Endpoints, reply : Replies,
     barred : SUBSET (Channels \cup Tokens), clean : BOOLEAN]
Broadcast ==
    [present : BOOLEAN, channel : Channels \cup {None}, deliveries : SUBSET Endpoints]

\* A request between its lookup and its answer is for a Channel that was live
\* when it came, and so is the Broadcast it has left.
Admitted(r) ==
    /\ request[r].at \notin {None, "answered"} => request[r].channel \in Channels \ request[r].barred
    /\ broadcast[r].present => broadcast[r].channel \notin request[r].barred

\* What was revoked before it came stays revoked.
RevokedForGood(r) == \A t \in Tokens \cap request[r].barred : owner[t] = Revoked

\* It is within the limit until it is answered, and refused for its size only
\* beyond it.
Measured(r) ==
    /\ ~At(r, "answered") => request[r].reply = None /\ request[r].read <= MaxBody
    /\ request[r].reply = "payload_too_large" =>
          request[r].declared > MaxBody \/ request[r].read > MaxBody

\* The Endpoints its transaction has read are those of its Channel.
Owned(r) ==
    request[r].at \in {"insert", "enqueue"} =>
        \A e \in request[r].snapshot : OwnerOf[e] = request[r].channel

\* Its rows are whole, and there from the commit to the rollback; its jobs from
\* their addition on. What a fault may have left is not said of a request that
\* is answered, unless it is accepted or no fault had an effect on it.
Booked(r) ==
    /\ broadcast[r].present =>
          broadcast[r].deliveries = {e \in request[r].snapshot : endpoint[e] # "gone"}
    /\ request[r].at \in {"enqueue", "rollback"} => broadcast[r].present
    /\ request[r].at \notin {"enqueue", "rollback", "answered"} => ~broadcast[r].present
    /\ request[r].at \notin {"rollback", "answered"} => queued[r] = {}
    /\ At(r, "rollback") /\ request[r].clean => queued[r] = {}
    /\ At(r, "answered") =>
          IF request[r].reply = "accepted"
          THEN broadcast[r].present /\ queued[r] = request[r].snapshot
          ELSE request[r].clean => ~broadcast[r].present /\ queued[r] = {}

Good(r) == Admitted(r) /\ RevokedForGood(r) /\ Measured(r) /\ Owned(r) /\ Booked(r)

IInv == TypeOK /\ \A r \in Requests : Good(r)

LEMMA InitIInv == ASSUME IngestAssumption, Init PROVE IInv
  <1>1. /\ Waiting \in Request /\ NoBroadcast \in Broadcast
        /\ Waiting.at = None /\ Waiting.reply = None /\ Waiting.barred = {} /\ Waiting.read = 0
        /\ ~NoBroadcast.present
    BY DEF Request, Waiting, NoBroadcast, Broadcast, Stages, Replies
  <1>2. channel \in [Channels -> [slug : Slugs, live : BOOLEAN, enabled : BOOLEAN, open : BOOLEAN]]
    BY DEF Init
  <1>3. owner \in [Tokens -> Channels \cup {None, Revoked}]
    BY DEF Init
  <1>. /\ endpoint = [e \in Endpoints |-> "enabled"] /\ request = [r \in Requests |-> Waiting]
       /\ broadcast = [r \in Requests |-> NoBroadcast] /\ queued = [r \in Requests |-> {}]
       /\ changes = 0 /\ failures = 0
    BY DEF Init
  <1>. HIDE DEF Init
  <1>4. TypeOK
    BY <1>1, <1>2, <1>3 DEF TypeOK, Request, Broadcast, IngestAssumption
  <1>5. ASSUME NEW r \in Requests PROVE Good(r)
    BY <1>1 DEF IngestAssumption, Good, Admitted, RevokedForGood, Measured, Owned, Booked, At, None
  <1>. QED BY <1>4, <1>5 DEF IInv

\* A step of one request leaves what is said of the others.
LEMMA OthersStay ==
    ASSUME NEW s \in Requests, Good(s), UNCHANGED adminVars,
           request'[s] = request[s], broadcast'[s] = broadcast[s], queued'[s] = queued[s]
    PROVE  Good(s)'
  BY DEF Good, Admitted, RevokedForGood, Measured, Owned, Booked, At, adminVars

\* So that a step of a request need only be followed where it goes.
LEMMA OneMoves ==
    ASSUME IInv, NEW r \in Requests, UNCHANGED adminVars, NEW q \in Request,
           NEW b \in Broadcast, NEW jobs \in SUBSET Endpoints,
           request' = [request EXCEPT ![r] = q],
           broadcast' = [broadcast EXCEPT ![r] = b],
           queued' = [queued EXCEPT ![r] = jobs],
           failures' \in 0..MaxFaults,
           request'[r] = q /\ broadcast'[r] = b /\ queued'[r] = jobs => Good(r)'
    PROVE  IInv'
  <1>1. /\ request'[r] = q /\ broadcast'[r] = b /\ queued'[r] = jobs
        /\ \A s \in Requests \ {r} :
              request'[s] = request[s] /\ broadcast'[s] = broadcast[s] /\ queued'[s] = queued[s]
    BY DEF IInv, TypeOK
  <1>2. /\ request' \in [Requests -> Request] /\ broadcast' \in [Requests -> Broadcast]
        /\ queued' \in [Requests -> SUBSET Endpoints]
    BY DEF IInv, TypeOK, Request, Broadcast
  <1>3. TypeOK'
    BY <1>2 DEF IInv, TypeOK, Request, Broadcast, adminVars
  <1>4. ASSUME NEW s \in Requests PROVE Good(s)'
    <2>1. CASE s = r
      BY <1>1, <2>1
    <2>2. CASE s # r
      BY <1>1, <2>2, OthersStay DEF IInv
    <2>. QED BY <2>1, <2>2
  <1>. QED BY <1>3, <1>4 DEF IInv

\* A request comes with what is barred at that moment, and finds its Channel
\* live or is answered.
LEMMA ArrivalKeeps ==
    ASSUME IngestAssumption, IInv, NEW r \in Requests, At(r, None), NEW q \in Request,
           request' = [request EXCEPT ![r] = q],
           UNCHANGED <<broadcast, queued, failures>>, UNCHANGED adminVars,
           q.barred = Barred, q.read = 0, q.snapshot = {},
           \/ /\ q.at \in {"token", "length", "guard"} /\ q.reply = None
              /\ q.channel \in Channels /\ Live(q.channel)
           \/ q.at = "answered" /\ q.reply \in {"unauthorized", "not_found"}
    PROVE  IInv'
  <1>1. /\ ~broadcast[r].present /\ queued[r] = {} /\ broadcast[r] \in Broadcast
        /\ request \in [Requests -> Request]
    BY DEF IInv, Good, Booked, At, None, TypeOK, Broadcast, Request
  <1>2. /\ q.channel \in Channels /\ Live(q.channel) => q.channel \notin q.barred
        /\ \A t \in Tokens \cap q.barred : owner[t] = Revoked
    BY DEF Barred, IngestAssumption
  <1>3. ASSUME request'[r] = q PROVE Good(r)'
    BY <1>1, <1>2, <1>3 DEF IngestAssumption, Good, Admitted, RevokedForGood, Measured, Owned,
       Booked, At, adminVars, None
  <1>4. /\ broadcast' = [broadcast EXCEPT ![r] = broadcast[r]]
        /\ queued' = [queued EXCEPT ![r] = queued[r]]
        /\ broadcast[r] \in Broadcast /\ queued[r] \in SUBSET Endpoints
        /\ failures' \in 0..MaxFaults
    BY DEF IInv, TypeOK, Broadcast
  <1>. QED BY <1>3, <1>4, OneMoves

LEMMA LookupKeeps == ASSUME IngestAssumption, IInv, NEW r \in Requests, Lookup(r) PROVE IInv'
  <1>0. At(r, None) /\ UNCHANGED <<broadcast, queued, failures>> /\ UNCHANGED adminVars
    BY DEF Lookup
  <1>1. PICK slug \in Slugs, token \in Tokens \cup {None}, declared \in {0, MaxBody + 1} :
          LET arrived == [Waiting EXCEPT !.token = token, !.declared = declared,
                                         !.barred = Barred]
          IN
          \/ \E c \in Channels :
                /\ Holds(c, slug)
                /\ request' = [request EXCEPT ![r] =
                      [arrived EXCEPT !.channel = c,
                                      !.at = IF channel[c].open THEN "length" ELSE "token"]]
          \/ request' = [request EXCEPT ![r] =
                   [arrived EXCEPT !.at = "answered", !.reply = "unauthorized"]]
    BY DEF Lookup
  <1>. DEFINE arrived == [Waiting EXCEPT !.token = token, !.declared = declared, !.barred = Barred]
  <1>2. /\ arrived \in Request /\ arrived.barred = Barred /\ arrived.read = 0
        /\ arrived.snapshot = {} /\ arrived.reply = None
    <2>1. Barred \in SUBSET (Channels \cup Tokens)
      BY DEF Barred
    <2>2. declared \in Nat
      BY DEF IngestAssumption
    <2>. QED BY <2>1, <2>2 DEF Request, Waiting, Stages, Replies
  <1>. HIDE DEF arrived
  <1>3. CASE \E c \in Channels :
                /\ Holds(c, slug)
                /\ request' = [request EXCEPT ![r] =
                      [arrived EXCEPT !.channel = c,
                                      !.at = IF channel[c].open THEN "length" ELSE "token"]]
    <2>1. PICK c \in Channels : Holds(c, slug) /\
            request' = [request EXCEPT ![r] =
                      [arrived EXCEPT !.channel = c,
                                      !.at = IF channel[c].open THEN "length" ELSE "token"]]
      BY <1>3
    <2>. DEFINE q == [arrived EXCEPT !.channel = c, !.at = IF channel[c].open THEN "length" ELSE "token"]
    <2>2. /\ q \in Request /\ q.barred = Barred /\ q.read = 0 /\ q.snapshot = {} /\ q.reply = None
          /\ q.channel = c /\ q.at \in {"token", "length"}
      BY <1>2 DEF Request, Stages
    <2>3. Live(c) /\ request' = [request EXCEPT ![r] = q]
      BY <2>1 DEF Holds
    <2>. HIDE DEF q
    <2>. QED BY <1>0, <2>2, <2>3, ArrivalKeeps
  <1>4. CASE request' = [request EXCEPT ![r] =
                   [arrived EXCEPT !.at = "answered", !.reply = "unauthorized"]]
    <2>. DEFINE q == [arrived EXCEPT !.at = "answered", !.reply = "unauthorized"]
    <2>1. /\ q \in Request /\ q.barred = Barred /\ q.read = 0 /\ q.snapshot = {}
          /\ q.at = "answered" /\ q.reply = "unauthorized"
      BY <1>2 DEF Request, Stages, Replies
    <2>2. request' = [request EXCEPT ![r] = q]
      BY <1>4
    <2>. HIDE DEF q
    <2>. QED BY <1>0, <2>1, <2>2, ArrivalKeeps
  <1>. QED BY <1>1, <1>3, <1>4 DEF arrived

LEMMA GuardKeeps == ASSUME IngestAssumption, IInv, NEW r \in Requests, Guard(r) PROVE IInv'
  <1>1. PICK c \in Channels :
          request' = [request EXCEPT ![r] =
             IF Live(c) THEN [[Waiting EXCEPT !.channel = c, !.barred = Barred] EXCEPT !.at = "guard"]
             ELSE [[Waiting EXCEPT !.channel = c, !.barred = Barred]
                      EXCEPT !.at = "answered", !.reply = "not_found"]]
    BY DEF Guard
  <1>. DEFINE q == IF Live(c)
                   THEN [[Waiting EXCEPT !.channel = c, !.barred = Barred] EXCEPT !.at = "guard"]
                   ELSE [[Waiting EXCEPT !.channel = c, !.barred = Barred]
                            EXCEPT !.at = "answered", !.reply = "not_found"]
  <1>2. /\ q \in Request /\ q.barred = Barred /\ q.read = 0 /\ q.snapshot = {} /\ q.channel = c
        /\ Live(c) => q.at = "guard" /\ q.reply = None
        /\ ~Live(c) => q.at = "answered" /\ q.reply = "not_found"
    BY DEF Request, Waiting, Stages, Replies, Barred
  <1>. HIDE DEF q
  <1>3. request' = [request EXCEPT ![r] = q]
    BY <1>1 DEF q
  <1>. QED BY <1>2, <1>3, ArrivalKeeps DEF Guard

LEMMA CountStands == ASSUME IInv, UNCHANGED failures PROVE failures' \in 0..MaxFaults
  BY DEF IInv, TypeOK

LEMMA CountGoesOn == ASSUME IngestAssumption, IInv, Fault PROVE failures' \in 0..MaxFaults
  BY DEF IInv, TypeOK, Fault, IngestAssumption

\* A request that goes on, or is answered with an error, and writes nothing.
LEMMA AdvanceKeeps ==
    ASSUME IngestAssumption, IInv, NEW r \in Requests, NEW q \in Request,
           request[r].at \notin {"enqueue", "rollback", "answered"},
           request[r].at = None => q.at = "answered",
           request' = [request EXCEPT ![r] = q],
           UNCHANGED <<broadcast, queued>>, UNCHANGED adminVars, failures' \in 0..MaxFaults,
           q.barred = request[r].barred, q.channel = request[r].channel,
           q.at \notin {None, "enqueue", "rollback"},
           q.at # "answered" => q.reply = None /\ q.read <= MaxBody,
           q.at = "answered" => q.reply # "accepted",
           q.reply = "payload_too_large" => q.declared > MaxBody \/ q.read > MaxBody,
           q.at = "insert" => \A e \in q.snapshot : OwnerOf[e] = q.channel
    PROVE  IInv'
  <1>1. /\ ~broadcast[r].present /\ queued[r] = {} /\ broadcast[r] \in Broadcast
        /\ request[r].at # None => request[r].channel \in Channels \ request[r].barred
        /\ \A t \in Tokens \cap q.barred : owner[t] = Revoked
    BY DEF IInv, Good, Booked, Admitted, RevokedForGood, At, None, TypeOK, Broadcast
  <1>2. ASSUME request'[r] = q PROVE Good(r)'
    BY <1>1, <1>2 DEF IngestAssumption, Good, Admitted, RevokedForGood, Measured, Owned,
       Booked, At, adminVars, None
  <1>3. /\ broadcast' = [broadcast EXCEPT ![r] = broadcast[r]]
        /\ queued' = [queued EXCEPT ![r] = queued[r]]
        /\ broadcast[r] \in Broadcast /\ queued[r] \in SUBSET Endpoints
    BY DEF IInv, TypeOK, Broadcast
  <1>. QED BY <1>2, <1>3, OneMoves

LEMMA AnswerKeeps ==
    ASSUME IngestAssumption, IInv, NEW r \in Requests, NEW reply \in Replies \ {"accepted"},
           request[r].at \notin {"enqueue", "rollback", "answered"}, Answer(r, reply),
           UNCHANGED <<broadcast, queued>>, UNCHANGED adminVars, failures' \in 0..MaxFaults,
           reply = "payload_too_large" =>
              request[r].declared > MaxBody \/ request[r].read > MaxBody
    PROVE  IInv'
  <1>. DEFINE q == [request[r] EXCEPT !.at = "answered", !.reply = reply]
  <1>1. request[r] \in Request
    BY DEF IInv, TypeOK, Request
  <1>2. /\ q \in Request /\ q.at = "answered" /\ q.reply = reply /\ q.barred = request[r].barred
        /\ q.channel = request[r].channel /\ q.declared = request[r].declared
        /\ q.read = request[r].read /\ request' = [request EXCEPT ![r] = q]
    BY <1>1 DEF Request, Stages, Answer, IInv, TypeOK
  <1>. HIDE DEF q
  <1>. QED BY <1>2, AdvanceKeeps, CountStands DEF None

\* A request that passes a check and goes on.
LEMMA PassKeeps ==
    ASSUME IngestAssumption, IInv, NEW r \in Requests,
           NEW at \in {"length", "body", "begin"},
           request[r].at \notin {None, "enqueue", "rollback", "answered"},
           request' = [request EXCEPT ![r].at = at],
           UNCHANGED <<broadcast, queued, failures>>, UNCHANGED adminVars
    PROVE  IInv'
  <1>. DEFINE q == [request[r] EXCEPT !.at = at]
  <1>1. request[r] \in Request /\ request[r].reply = None /\ request[r].read <= MaxBody
    BY DEF IInv, TypeOK, Request, Good, Measured, At
  <1>2. /\ q \in Request /\ q.at = at /\ q.reply = None /\ q.barred = request[r].barred
        /\ q.channel = request[r].channel /\ q.read <= MaxBody
        /\ request' = [request EXCEPT ![r] = q]
    BY <1>1 DEF Request, Stages, IInv, TypeOK
  <1>. HIDE DEF q
  <1>. QED BY <1>2, AdvanceKeeps, CountStands DEF None

LEMMA CheckTokenKeeps ==
    ASSUME IngestAssumption, IInv, NEW r \in Requests, CheckToken(r) PROVE IInv'
  <1>1. request[r].at \notin {None, "enqueue", "rollback", "answered"}
    BY DEF CheckToken, At, None
  <1>2. CASE Answer(r, "unauthorized")
    BY <1>1, <1>2, AnswerKeeps, CountStands DEF CheckToken, Replies
  <1>3. CASE request' = [request EXCEPT ![r].at = "length"]
    BY <1>1, <1>3, PassKeeps DEF CheckToken
  <1>. QED BY <1>2, <1>3 DEF CheckToken

LEMMA CheckLengthKeeps ==
    ASSUME IngestAssumption, IInv, NEW r \in Requests, CheckLength(r) PROVE IInv'
  <1>1. request[r].at \notin {None, "enqueue", "rollback", "answered"}
    BY DEF CheckLength, At, None
  <1>2. CASE request[r].declared > MaxBody /\ Answer(r, "payload_too_large")
    BY <1>1, <1>2, AnswerKeeps, CountStands DEF CheckLength, Replies
  <1>3. CASE request' = [request EXCEPT ![r].at = "body"]
    BY <1>1, <1>3, PassKeeps DEF CheckLength
  <1>. QED BY <1>2, <1>3 DEF CheckLength

\* The chunk that is too many is read, and the request answered with it.
LEMMA DataKeeps == ASSUME IngestAssumption, IInv, NEW r \in Requests, Data(r) PROVE IInv'
  <1>1. PICK chunk \in 1..MaxChunk :
          IF TooLarge(r, chunk)
          THEN request' = [request EXCEPT ![r].at = "answered", ![r].reply = "payload_too_large",
                                          ![r].read = @ + chunk]
          ELSE request' = [request EXCEPT ![r].read = @ + chunk]
    BY DEF Data
  <1>2. /\ request \in [Requests -> Request] /\ request[r] \in Request /\ request[r].at = "body"
        /\ request[r].reply = None /\ chunk \in Nat /\ MaxBody \in Nat
        /\ request[r].read + chunk \in Nat
    BY DEF IInv, TypeOK, Request, Good, Measured, Data, At, IngestAssumption
  <1>. DEFINE read == request[r].read + chunk
              big == [request[r] EXCEPT !.at = "answered", !.reply = "payload_too_large", !.read = read]
              fits == [request[r] EXCEPT !.read = read]
  <1>3. /\ big \in Request /\ big.at = "answered" /\ big.reply = "payload_too_large"
        /\ big.barred = request[r].barred /\ big.channel = request[r].channel
        /\ big.read = read
    BY <1>2 DEF Request, Stages, Replies
  <1>4. /\ fits \in Request /\ fits.at = "body" /\ fits.reply = None
        /\ fits.barred = request[r].barred /\ fits.channel = request[r].channel
        /\ fits.read = read
    BY <1>2 DEF Request
  <1>5. /\ TooLarge(r, chunk) => request' = [request EXCEPT ![r] = big] /\ big.read > MaxBody
        /\ ~TooLarge(r, chunk) => request' = [request EXCEPT ![r] = fits] /\ fits.read <= MaxBody
    BY <1>1, <1>2, <1>3, <1>4 DEF TooLarge, Request
  <1>6. /\ request[r].at \notin {None, "enqueue", "rollback", "answered"}
        /\ UNCHANGED <<broadcast, queued, failures>> /\ UNCHANGED adminVars
    BY <1>2 DEF None, Data
  <1>. HIDE DEF big, fits
  <1>7. CASE TooLarge(r, chunk)
    BY <1>3, <1>5, <1>6, <1>7, AdvanceKeeps, CountStands DEF None
  <1>8. CASE ~TooLarge(r, chunk)
    BY <1>4, <1>5, <1>6, <1>8, AdvanceKeeps, CountStands DEF None
  <1>. QED BY <1>7, <1>8

LEMMA BodyEndsKeeps ==
    ASSUME IngestAssumption, IInv, NEW r \in Requests, BodyEnds(r) PROVE IInv'
  <1>1. request[r].at \notin {None, "enqueue", "rollback", "answered"}
    BY DEF BodyEnds, At, None
  <1>2. CASE Answer(r, "error")
    BY <1>1, <1>2, AnswerKeeps, CountStands DEF BodyEnds, Replies
  <1>3. CASE request' = [request EXCEPT ![r].at = "begin"]
    BY <1>1, <1>3, PassKeeps DEF BodyEnds
  <1>. QED BY <1>2, <1>3 DEF BodyEnds

LEMMA ReadOriginalKeeps ==
    ASSUME IngestAssumption, IInv, NEW r \in Requests, ReadOriginal(r) PROVE IInv'
  <1>1. request[r].at \notin {None, "enqueue", "rollback", "answered"}
    BY DEF ReadOriginal, At, None
  <1>2. CASE Answer(r, "not_found")
    BY <1>1, <1>2, AnswerKeeps, CountStands DEF ReadOriginal, Replies
  <1>3. CASE request' = [request EXCEPT ![r].at = "begin"]
    BY <1>1, <1>3, PassKeeps DEF ReadOriginal
  <1>. QED BY <1>2, <1>3 DEF ReadOriginal

LEMMA ReadEndpointsKeeps ==
    ASSUME IngestAssumption, IInv, NEW r \in Requests, ReadEndpoints(r) PROVE IInv'
  <1>. DEFINE seen == {e \in Endpoints : OwnerOf[e] = request[r].channel /\ endpoint[e] = "enabled"}
              q == [request[r] EXCEPT !.at = "insert", !.snapshot = seen]
  <1>1. request[r] \in Request /\ request[r].reply = None /\ request[r].read <= MaxBody
    BY DEF IInv, TypeOK, Request, Good, Measured, At, ReadEndpoints
  <1>2. /\ q \in Request /\ q.at = "insert" /\ q.reply = None /\ q.barred = request[r].barred
        /\ q.channel = request[r].channel /\ q.read <= MaxBody
        /\ \A e \in q.snapshot : OwnerOf[e] = q.channel
    BY <1>1 DEF Request, Stages
  <1>3. request' = [request EXCEPT ![r] = q]
    BY DEF ReadEndpoints, IInv, TypeOK
  <1>4. /\ request[r].at \notin {None, "enqueue", "rollback", "answered"}
        /\ UNCHANGED <<broadcast, queued, failures>> /\ UNCHANGED adminVars
    BY DEF None, ReadEndpoints, At
  <1>. HIDE DEF q
  <1>. QED BY <1>2, <1>3, <1>4, AdvanceKeeps, CountStands DEF None

\* The rows are those of the snapshot, or the request is answered without any.
LEMMA CommitKeeps == ASSUME IngestAssumption, IInv, NEW r \in Requests, Commit(r) PROVE IInv'
  <1>1. /\ request \in [Requests -> Request] /\ request[r] \in Request /\ request[r].at = "insert"
        /\ request[r].reply = None /\ request[r].read <= MaxBody /\ queued[r] = {}
        /\ request[r].channel \in Channels \ request[r].barred
        /\ \A e \in request[r].snapshot : OwnerOf[e] = request[r].channel
        /\ \A t \in Tokens \cap request[r].barred : owner[t] = Revoked
        /\ request[r].snapshot \subseteq Endpoints
    BY DEF IInv, TypeOK, Request, Good, Measured, Booked, Admitted, Owned, RevokedForGood, Commit,
           At, None
  <1>2. UNCHANGED <<queued, failures>> /\ UNCHANGED adminVars /\ queued \in [Requests -> SUBSET Endpoints]
        /\ broadcast \in [Requests -> Broadcast] /\ failures' \in 0..MaxFaults
    BY DEF Commit, IInv, TypeOK, Broadcast
  <1>. DEFINE snapshot == request[r].snapshot
              rows == {e \in snapshot : endpoint[e] # "gone"}
              b == [present |-> TRUE, channel |-> request[r].channel, deliveries |-> rows]
              done == [request[r] EXCEPT !.at = "answered", !.reply = "accepted"]
              goes == [request[r] EXCEPT !.at = "enqueue"]
  <1>3. CASE Insertable(r)
    <2>1. broadcast' = [broadcast EXCEPT ![r] = b] /\ b \in Broadcast
      BY <1>1, <1>3 DEF Commit, Committed, Broadcast
    <2>2. queued' = [queued EXCEPT ![r] = {}] /\ {} \in SUBSET Endpoints
      BY <1>1, <1>2
    <2>3. CASE snapshot = {}
      <3>1. done \in Request /\ request' = [request EXCEPT ![r] = done]
        BY <1>1, <1>3, <2>3 DEF Commit, Answer, Request, Stages, Replies
      <3>2. ASSUME request'[r] = done, broadcast'[r] = b, queued'[r] = {} PROVE Good(r)'
        <4>1. /\ done.at = "answered" /\ done.reply = "accepted" /\ done.barred = request[r].barred
              /\ done.channel = request[r].channel /\ done.snapshot = {}
          BY <1>1, <2>3 DEF Request
        <4>2. b.present /\ b.channel = request[r].channel /\ b.deliveries = {}
          BY <2>3
        <4>. HIDE DEF done, b
        <4>. QED BY <1>1, <1>2, <3>2, <4>1, <4>2 DEF Good, Admitted, RevokedForGood, Measured,
                 Owned, Booked, At, adminVars, None
      <3>. HIDE DEF done, b
      <3>. QED BY <1>2, <2>1, <2>2, <3>1, <3>2, OneMoves
    <2>4. CASE snapshot # {}
      <3>1. goes \in Request /\ request' = [request EXCEPT ![r] = goes]
        BY <1>1, <1>3, <2>4 DEF Commit, Request, Stages
      <3>2. ASSUME request'[r] = goes, broadcast'[r] = b, queued'[r] = {} PROVE Good(r)'
        <4>1. /\ goes.at = "enqueue" /\ goes.reply = None /\ goes.barred = request[r].barred
              /\ goes.channel = request[r].channel /\ goes.snapshot = snapshot
              /\ goes.read <= MaxBody
          BY <1>1 DEF Request
        <4>2. b.present /\ b.channel = request[r].channel /\ b.deliveries = rows
          OBVIOUS
        <4>. HIDE DEF goes, b
        <4>. QED BY <1>1, <1>2, <3>2, <4>1, <4>2 DEF Good, Admitted, RevokedForGood, Measured,
                 Owned, Booked, At, adminVars, None
      <3>. HIDE DEF goes, b
      <3>. QED BY <1>2, <2>1, <2>2, <3>1, <3>2, OneMoves
    <2>. QED BY <2>3, <2>4
  <1>4. CASE ~Insertable(r)
    <2>1. Answer(r, "error") /\ UNCHANGED broadcast
      BY <1>4 DEF Commit
    <2>. QED BY <1>1, <1>2, <2>1, AnswerKeeps, CountStands DEF None, Replies
  <1>. QED BY <1>3, <1>4

\* A request in error, with whatever a fault has left of it.
LEMMA LeftKeeps ==
    ASSUME IngestAssumption, IInv, NEW r \in Requests, NEW q \in Request, NEW b \in Broadcast,
           request' = [request EXCEPT ![r] = q],
           broadcast' = [broadcast EXCEPT ![r] = b],
           UNCHANGED queued, UNCHANGED adminVars, failures' \in 0..MaxFaults,
           q.at = "answered", q.reply = "error", ~q.clean, q.barred = request[r].barred,
           b.present => /\ b.channel \notin q.barred
                        /\ b.deliveries = {e \in q.snapshot : endpoint[e] # "gone"}
    PROVE  IInv'
  <1>1. /\ queued' = [queued EXCEPT ![r] = queued[r]] /\ queued[r] \in SUBSET Endpoints
        /\ \A t \in Tokens \cap q.barred : owner[t] = Revoked
    BY DEF IInv, TypeOK, Good, RevokedForGood
  <1>2. ASSUME request'[r] = q, broadcast'[r] = b PROVE Good(r)'
    BY <1>1, <1>2 DEF Good, Admitted, RevokedForGood, Measured, Owned, Booked, At, adminVars, None
  <1>. QED BY <1>1, <1>2, OneMoves

\* The rows are committed and the request told that they are not.
LEMMA CommitReplyLostKeeps ==
    ASSUME IngestAssumption, IInv, NEW r \in Requests, CommitReplyLost(r) PROVE IInv'
  <1>1. /\ request \in [Requests -> Request] /\ request[r] \in Request /\ request[r].at = "insert"
        /\ request[r].channel \in Channels \ request[r].barred
        /\ request[r].snapshot \subseteq Endpoints
    BY DEF IInv, TypeOK, Request, Good, Admitted, CommitReplyLost, At, None
  <1>. DEFINE b == [present |-> TRUE, channel |-> request[r].channel,
                    deliveries |-> {e \in request[r].snapshot : endpoint[e] # "gone"}]
              q == [request[r] EXCEPT !.at = "answered", !.reply = "error", !.clean = FALSE]
  <1>2. /\ q \in Request /\ q.at = "answered" /\ q.reply = "error" /\ ~q.clean
        /\ q.barred = request[r].barred /\ q.snapshot = request[r].snapshot
        /\ request' = [request EXCEPT ![r] = q]
    BY <1>1 DEF CommitReplyLost, Request, Stages, Replies
  <1>3. /\ broadcast' = [broadcast EXCEPT ![r] = b] /\ b \in Broadcast
        /\ b.channel = request[r].channel
        /\ b.deliveries = {e \in request[r].snapshot : endpoint[e] # "gone"}
    BY <1>1 DEF CommitReplyLost, Committed, Broadcast
  <1>4. UNCHANGED queued /\ UNCHANGED adminVars /\ failures' \in 0..MaxFaults
    BY CountGoesOn DEF CommitReplyLost
  <1>. HIDE DEF b, q
  <1>. QED BY <1>1, <1>2, <1>3, <1>4, LeftKeeps

LEMMA RefusedKeeps == ASSUME IngestAssumption, IInv, NEW r \in Requests, Refused(r) PROVE IInv'
  <1>1. request[r].at \notin {"enqueue", "rollback", "answered"}
    BY DEF Refused, None
  <1>. QED BY <1>1, AnswerKeeps, CountGoesOn DEF Refused, Replies

LEMMA EnqueueKeeps ==
    ASSUME IngestAssumption, IInv, NEW r \in Requests, EnqueueBulk(r) \/ EnqueueFails(r)
    PROVE  IInv'
  <1>1. /\ request \in [Requests -> Request] /\ request[r] \in Request /\ request[r].at = "enqueue"
        /\ request[r].channel \in Channels \ request[r].barred
        /\ request[r].reply = None /\ request[r].read <= MaxBody
        /\ \A t \in Tokens \cap request[r].barred : owner[t] = Revoked
        /\ request[r].snapshot \subseteq Endpoints /\ queued[r] = {}
        /\ broadcast[r].present /\ broadcast[r].channel \notin request[r].barred
        /\ broadcast[r].deliveries = {e \in request[r].snapshot : endpoint[e] # "gone"}
    <2>1. request[r].at = "enqueue"
      BY DEF EnqueueBulk, EnqueueFails, At
    <2>2. /\ request \in [Requests -> Request] /\ request[r] \in Request
          /\ request[r].snapshot \subseteq Endpoints
      BY DEF IInv, TypeOK, Request
    <2>3. Good(r)
      BY DEF IInv
    <2>. QED BY <2>1, <2>2, <2>3
             DEF Good, Booked, Admitted, Measured, RevokedForGood, At, None
  <1>2. /\ queued \in [Requests -> SUBSET Endpoints] /\ broadcast \in [Requests -> Broadcast]
        /\ broadcast[r] \in Broadcast /\ UNCHANGED adminVars
        /\ broadcast' = [broadcast EXCEPT ![r] = broadcast[r]]
    BY DEF IInv, TypeOK, Broadcast, EnqueueBulk, EnqueueFails
  <1>3. CASE EnqueueBulk(r)
    <2>. DEFINE q == [request[r] EXCEPT !.at = "answered", !.reply = "accepted"]
                jobs == request[r].snapshot
    <2>1. /\ q \in Request /\ request' = [request EXCEPT ![r] = q]
          /\ queued' = [queued EXCEPT ![r] = jobs] /\ jobs \in SUBSET Endpoints
      BY <1>1, <1>2, <1>3 DEF EnqueueBulk, Answer, Request, Stages, Replies
    <2>2. failures' \in 0..MaxFaults
      BY <1>3, CountStands DEF EnqueueBulk
    <2>3. /\ q.at = "answered" /\ q.reply = "accepted" /\ q.barred = request[r].barred
          /\ q.channel = request[r].channel /\ q.snapshot = request[r].snapshot
      BY <1>1 DEF Request
    <2>. HIDE DEF q, jobs
    <2>4. ASSUME request'[r] = q, broadcast'[r] = broadcast[r], queued'[r] = jobs PROVE Good(r)'
      BY <1>1, <1>2, <2>3, <2>4 DEF jobs, Good, Admitted, RevokedForGood, Measured, Owned, Booked,
         At, adminVars, None
    <2>. QED BY <1>2, <2>1, <2>2, <2>4, OneMoves
  <1>4. CASE EnqueueFails(r)
    <2>. DEFINE refused == [request[r] EXCEPT !.at = "rollback"]
                added == [request[r] EXCEPT !.at = "rollback", !.clean = FALSE]
                jobs == request[r].snapshot
    <2>1. /\ refused \in Request /\ added \in Request /\ ~added.clean
          /\ jobs \in SUBSET Endpoints /\ {} \in SUBSET Endpoints
      BY <1>1 DEF Request, Stages
    <2>2. \A q \in {refused, added} :
             /\ q.at = "rollback" /\ q.reply = None /\ q.read <= MaxBody
             /\ q.barred = request[r].barred /\ q.channel = request[r].channel
             /\ q.snapshot = request[r].snapshot
      BY <1>1 DEF Request
    <2>3. \/ request' = [request EXCEPT ![r] = refused] /\ queued' = [queued EXCEPT ![r] = {}]
          \/ request' = [request EXCEPT ![r] = added] /\ queued' = [queued EXCEPT ![r] = jobs]
      <3>1. CASE request' = [request EXCEPT ![r].at = "rollback"] /\ UNCHANGED queued
        <4>1. request' = [request EXCEPT ![r] = refused]
          BY <3>1
        <4>2. queued' = [queued EXCEPT ![r] = {}]
          BY <1>1, <1>2, <3>1
        <4>. QED BY <4>1, <4>2
      <3>2. CASE /\ request' = [request EXCEPT ![r].at = "rollback", ![r].clean = FALSE]
                 /\ queued' = [queued EXCEPT ![r] = request[r].snapshot]
        <4>1. request' = [request EXCEPT ![r] = added]
          BY <1>1, <3>2
        <4>. QED BY <3>2, <4>1
      <3>. QED BY <1>4, <3>1, <3>2 DEF EnqueueFails
    <2>4. failures' \in 0..MaxFaults
      BY <1>4, CountGoesOn DEF EnqueueFails
    <2>. HIDE DEF refused, added, jobs
    <2>5. ASSUME request'[r] = refused, broadcast'[r] = broadcast[r], queued'[r] = {}
          PROVE  Good(r)'
      BY <1>1, <1>2, <2>2, <2>5 DEF Good, Admitted, RevokedForGood, Measured, Owned, Booked,
         At, adminVars, None
    <2>6. ASSUME request'[r] = added, broadcast'[r] = broadcast[r], queued'[r] = jobs
          PROVE  Good(r)'
      BY <1>1, <1>2, <2>1, <2>2, <2>6 DEF Good, Admitted, RevokedForGood, Measured, Owned,
         Booked, At, adminVars, None
    <2>7. CASE request' = [request EXCEPT ![r] = refused] /\ queued' = [queued EXCEPT ![r] = {}]
      BY <1>2, <2>1, <2>4, <2>5, <2>7, OneMoves
    <2>8. CASE request' = [request EXCEPT ![r] = added] /\ queued' = [queued EXCEPT ![r] = jobs]
      BY <1>2, <2>1, <2>4, <2>6, <2>8, OneMoves
    <2>. QED BY <2>3, <2>7, <2>8
  <1>. QED BY <1>3, <1>4

\* The rows go, and a request no fault had an effect on has no jobs either; or
\* they stay behind one that is told of an error.
LEMMA RollBackKeeps == ASSUME IngestAssumption, IInv, NEW r \in Requests, RollBack(r) PROVE IInv'
  <1>1. /\ request \in [Requests -> Request] /\ request[r] \in Request
        /\ request[r].at = "rollback"
        /\ request[r].clean => queued[r] = {}
        /\ \A t \in Tokens \cap request[r].barred : owner[t] = Revoked
        /\ broadcast[r].present /\ broadcast[r].channel \notin request[r].barred
        /\ broadcast[r].deliveries = {e \in request[r].snapshot : endpoint[e] # "gone"}
        /\ broadcast \in [Requests -> Broadcast] /\ broadcast[r] \in Broadcast
        /\ queued[r] \in SUBSET Endpoints /\ queued \in [Requests -> SUBSET Endpoints]
    <2>1. request[r].at = "rollback" /\ Good(r)
      BY DEF IInv, RollBack, At
    <2>2. /\ request \in [Requests -> Request] /\ request[r] \in Request
          /\ broadcast \in [Requests -> Broadcast] /\ broadcast[r] \in Broadcast
          /\ queued[r] \in SUBSET Endpoints /\ queued \in [Requests -> SUBSET Endpoints]
      BY DEF IInv, TypeOK, Request, Broadcast
    <2>. QED BY <2>1, <2>2 DEF Good, Booked, Admitted, RevokedForGood, At, None
  <1>2. UNCHANGED queued /\ UNCHANGED adminVars /\ UNCHANGED failures
    BY DEF RollBack
  <1>3. CASE /\ broadcast' = [broadcast EXCEPT ![r] = RolledBack(r)]
             /\ Answer(r, "error")
    <2>. DEFINE q == [request[r] EXCEPT !.at = "answered", !.reply = "error"]
    <2>1. /\ q \in Request /\ request' = [request EXCEPT ![r] = q]
          /\ broadcast' = [broadcast EXCEPT ![r] = NoBroadcast] /\ NoBroadcast \in Broadcast
          /\ queued' = [queued EXCEPT ![r] = queued[r]]
      BY <1>1, <1>2, <1>3 DEF RolledBack, NoBroadcast, Broadcast, Answer, Request, Stages, Replies
    <2>2. /\ q.at = "answered" /\ q.reply = "error" /\ q.barred = request[r].barred
          /\ q.clean = request[r].clean /\ ~NoBroadcast.present
      BY <1>1 DEF Request, NoBroadcast
    <2>. HIDE DEF q
    <2>3. ASSUME request'[r] = q, broadcast'[r] = NoBroadcast, queued'[r] = queued[r]
          PROVE  Good(r)'
      BY <1>1, <1>2, <2>2, <2>3 DEF Good, Admitted, RevokedForGood, Measured, Owned, Booked,
         At, adminVars, None
    <2>4. failures' \in 0..MaxFaults
      BY <1>2, CountStands
    <2>. QED BY <1>1, <1>2, <2>1, <2>3, <2>4, OneMoves
  <1>4. CASE /\ request' = [request EXCEPT ![r].at = "answered", ![r].reply = "error",
                                           ![r].clean = FALSE]
             /\ UNCHANGED broadcast
    <2>. DEFINE q == [request[r] EXCEPT !.at = "answered", !.reply = "error", !.clean = FALSE]
    <2>1. /\ q \in Request /\ q.at = "answered" /\ q.reply = "error" /\ ~q.clean
          /\ q.barred = request[r].barred /\ q.snapshot = request[r].snapshot
          /\ request' = [request EXCEPT ![r] = q]
          /\ broadcast' = [broadcast EXCEPT ![r] = broadcast[r]]
      BY <1>1, <1>4 DEF Request, Stages, Replies
    <2>2. failures' \in 0..MaxFaults
      BY <1>2, CountStands
    <2>. HIDE DEF q
    <2>. QED BY <1>1, <1>2, <2>1, <2>2, LeftKeeps
  <1>. QED BY <1>3, <1>4 DEF RollBack

\* Whatever it was doing, a request cut off leaves rows that are whole.
LEMMA ApiDiesKeeps == ASSUME IngestAssumption, IInv, ApiDies PROVE IInv'
  <1>1. /\ UNCHANGED <<broadcast, queued>> /\ UNCHANGED adminVars
        /\ request \in [Requests -> Request] /\ failures' \in 0..MaxFaults
    BY CountGoesOn DEF ApiDies, IInv, TypeOK, Request
  <1>2. ASSUME NEW r \in Requests PROVE request'[r] \in Request /\ Good(r)'
    <2>. DEFINE q == [request[r] EXCEPT !.at = "answered", !.reply = "lost", !.clean = FALSE]
    <2>1. CASE ~UnderWay(r)
      <3>1. request'[r] = request[r]
        BY <2>1 DEF ApiDies
      <3>. QED BY <1>1, <3>1, OthersStay DEF IInv
    <2>2. CASE UnderWay(r)
      <3>1. request'[r] = q /\ request[r] \in Request
        BY <1>1, <2>2 DEF ApiDies
      <3>2. /\ q \in Request /\ q.at = "answered" /\ q.reply = "lost" /\ ~q.clean
            /\ q.barred = request[r].barred /\ q.snapshot = request[r].snapshot
        BY <3>1 DEF Request, Stages, Replies
      <3>. HIDE DEF q
      <3>. QED BY <1>1, <3>1, <3>2 DEF IInv, Good, Admitted, RevokedForGood, Measured, Owned,
               Booked, At, adminVars, None
    <2>. QED BY <2>1, <2>2
  <1>3. request' \in [Requests -> Request]
    BY <1>2 DEF ApiDies
  <1>4. TypeOK'
    BY <1>1, <1>3 DEF IInv, TypeOK, Request, adminVars
  <1>. QED BY <1>2, <1>4 DEF IInv

\* An operator who leaves the Endpoints alone, and revokes for good.
LEMMA RowsChangeKeeps ==
    ASSUME IInv, UNCHANGED <<endpoint, request, broadcast, queued, failures>>,
           channel' \in [Channels -> [slug : Slugs, live : BOOLEAN, enabled : BOOLEAN, open : BOOLEAN]],
           owner' \in [Tokens -> Channels \cup {None, Revoked}], changes' \in 0..MaxChanges,
           \A t \in Tokens : owner[t] = Revoked => owner'[t] = Revoked
    PROVE  IInv'
  <1>1. TypeOK'
    BY DEF IInv, TypeOK
  <1>2. ASSUME NEW r \in Requests PROVE Good(r)'
    BY DEF IInv, Good, Admitted, RevokedForGood, Measured, Owned, Booked, At
  <1>. QED BY <1>1, <1>2 DEF IInv

LEMMA OperateKeeps == ASSUME IngestAssumption, IInv, Operate PROVE IInv'
  <1>. DEFINE Row == [slug : Slugs, live : BOOLEAN, enabled : BOOLEAN, open : BOOLEAN]
  <1>1. /\ channel \in [Channels -> Row] /\ owner \in [Tokens -> Channels \cup {None, Revoked}]
        /\ endpoint \in [Endpoints -> {"enabled", "disabled", "gone"}]
        /\ broadcast \in [Requests -> Broadcast]
    BY DEF IInv, TypeOK, Broadcast
  <1>2. Change => changes' \in 0..MaxChanges
    BY DEF IInv, TypeOK, Change, IngestAssumption
  <1>3. ASSUME NEW c \in Channels, DeleteChannel(c) \/ PatchChannel(c) PROVE IInv'
    <2>1. channel' \in [Channels -> Row]
      <3>1. channel[c] \in Row
        BY <1>1
      <3>2. CASE DeleteChannel(c)
        <4>1. [channel[c] EXCEPT !.live = FALSE] \in Row
          BY <3>1
        <4>. QED BY <1>1, <3>2, <4>1 DEF DeleteChannel
      <3>3. CASE PatchChannel(c)
        <4>1. /\ [channel[c] EXCEPT !.enabled = ~@] \in Row
              /\ [channel[c] EXCEPT !.open = ~@] \in Row
          BY <3>1
        <4>. QED BY <1>1, <3>3, <4>1 DEF PatchChannel
      <3>. QED BY <1>3, <3>2, <3>3
    <2>. QED BY <1>1, <1>2, <1>3, <2>1, RowsChangeKeeps DEF DeleteChannel, PatchChannel
  <1>4. ASSUME NEW c \in Channels, CreateChannel(c) PROVE IInv'
    <2>1. channel' \in [Channels -> Row]
      BY <1>1, <1>4 DEF CreateChannel
    <2>. QED BY <1>1, <1>2, <1>4, <2>1, RowsChangeKeeps DEF CreateChannel
  <1>5. ASSUME NEW t \in Tokens, MintToken(t) \/ RevokeToken(t) PROVE IInv'
    <2>1. owner' \in [Tokens -> Channels \cup {None, Revoked}]
      BY <1>1, <1>5 DEF MintToken, RevokeToken
    <2>2. \A u \in Tokens : owner[u] = Revoked => owner'[u] = Revoked
      BY <1>1, <1>5 DEF MintToken, RevokeToken, None, Revoked, IngestAssumption
    <2>. QED BY <1>1, <1>2, <1>5, <2>1, <2>2, RowsChangeKeeps DEF MintToken, RevokeToken
  <1>6. ASSUME NEW e \in Endpoints, SwitchEndpoint(e) PROVE IInv'
    <2>1. /\ endpoint' \in [Endpoints -> {"enabled", "disabled", "gone"}]
          /\ \A d \in Endpoints : endpoint'[d] = "gone" <=> endpoint[d] = "gone"
      BY <1>1, <1>6 DEF SwitchEndpoint
    <2>2. TypeOK'
      BY <1>2, <1>6, <2>1 DEF SwitchEndpoint, IInv, TypeOK
    <2>3. ASSUME NEW r \in Requests PROVE Good(r)'
      <3>1. request[r].snapshot \subseteq Endpoints
        BY DEF IInv, TypeOK
      <3>. QED BY <1>6, <2>1, <3>1 DEF SwitchEndpoint, IInv, Good, Admitted, RevokedForGood,
               Measured, Owned, Booked, At
    <2>. QED BY <2>2, <2>3 DEF IInv
  <1>7. ASSUME NEW e \in Endpoints, DeleteEndpoint(e) PROVE IInv'
    <2>1. /\ endpoint' \in [Endpoints -> {"enabled", "disabled", "gone"}]
          /\ \A d \in Endpoints : endpoint'[d] = "gone" <=> d = e \/ endpoint[d] = "gone"
      BY <1>1, <1>7 DEF DeleteEndpoint
    <2>2. /\ broadcast' \in [Requests -> Broadcast]
          /\ \A r \in Requests : /\ broadcast'[r].present = broadcast[r].present
                                 /\ broadcast'[r].channel = broadcast[r].channel
                                 /\ broadcast'[r].deliveries = broadcast[r].deliveries \ {e}
      BY <1>1, <1>7 DEF DeleteEndpoint, Broadcast
    <2>3. TypeOK'
      BY <1>2, <1>7, <2>1, <2>2 DEF DeleteEndpoint, IInv, TypeOK, Broadcast
    <2>4. ASSUME NEW r \in Requests PROVE Good(r)'
      <3>1. request[r].snapshot \subseteq Endpoints
        BY DEF IInv, TypeOK
      <3>2. broadcast[r].deliveries = {d \in request[r].snapshot : endpoint[d] # "gone"}
            => broadcast'[r].deliveries = {d \in request'[r].snapshot : endpoint'[d] # "gone"}
        BY <1>7, <2>1, <2>2, <3>1 DEF DeleteEndpoint
      <3>. QED BY <1>7, <2>2, <3>2 DEF DeleteEndpoint, IInv, Good, Admitted, RevokedForGood,
               Measured, Owned, Booked, At
    <2>. QED BY <2>3, <2>4 DEF IInv
  <1>. QED BY <1>3, <1>4, <1>5, <1>6, <1>7 DEF Operate

\* The invariant is inductive.
LEMMA StepIInv == ASSUME IngestAssumption, IInv, [Next]_vars PROVE IInv'
  <1>1. CASE Operate
    BY <1>1, OperateKeeps
  <1>2. ASSUME NEW r \in Requests, Step(r) PROVE IInv'
    BY <1>2, LookupKeeps, CheckTokenKeeps, CheckLengthKeeps, DataKeeps, BodyEndsKeeps, GuardKeeps,
       ReadOriginalKeeps, ReadEndpointsKeeps, CommitKeeps, CommitReplyLostKeeps, RefusedKeeps,
       EnqueueKeeps, RollBackKeeps DEF Step
  <1>3. CASE UNCHANGED vars
    <2>1. TypeOK'
      BY <1>3 DEF vars, IInv, TypeOK
    <2>2. ASSUME NEW r \in Requests PROVE Good(r)'
      BY <1>3, OthersStay DEF vars, adminVars, IInv
    <2>. QED BY <2>1, <2>2 DEF IInv
  <1>4. CASE ApiDies
    BY <1>4, ApiDiesKeeps
  <1>. QED BY <1>1, <1>2, <1>3, <1>4 DEF Next
-----------------------------------------------------------------------------
(* What it implies, of every state and of every step.                      *)

LEMMA IInvImplies == ASSUME IInv PROVE DeletedTakesNothingNew /\ BodyBounded /\ AllOrNothing
  <1>1. DeletedTakesNothingNew
    BY DEF IInv, Good, Admitted, DeletedTakesNothingNew
  <1>2. BodyBounded
    BY DEF IInv, Good, Measured, At, BodyBounded
  <1>3. AllOrNothing
    BY DEF IInv, Good, Booked, At, AllOrNothing
  <1>. QED BY <1>1, <1>2, <1>3

\* Whose row it is that a step writes.
LEMMA OnlyItsOwnRow ==
    ASSUME IInv, NEW r \in Requests, [Next]_vars, ~Step(r)
    PROVE  /\ request'[r] = request[r] \/ request'[r].at = "answered"
           /\ broadcast'[r].present = broadcast[r].present
  <1>1. request \in [Requests -> Request] /\ broadcast \in [Requests -> Broadcast]
    BY DEF IInv, TypeOK, Request, Broadcast
  <1>2. ASSUME NEW s \in Requests, Step(s)
        PROVE  request'[r] = request[r] /\ broadcast'[r].present = broadcast[r].present
    <2>1. s # r
      BY <1>2
    <2>2. \/ Lookup(s) \/ CheckToken(s) \/ CheckLength(s) \/ Data(s) \/ BodyEnds(s)
          \/ Guard(s) \/ ReadOriginal(s) \/ ReadEndpoints(s)
          => request'[r] = request[r] /\ broadcast' = broadcast
      BY <1>1, <2>1 DEF Lookup, CheckToken, CheckLength, Data, BodyEnds, Guard, ReadOriginal,
                        ReadEndpoints, Answer
    <2>3. \/ Commit(s) \/ CommitReplyLost(s) \/ Refused(s) \/ EnqueueBulk(s)
          \/ EnqueueFails(s) \/ RollBack(s)
          => request'[r] = request[r] /\ broadcast'[r] = broadcast[r]
      BY <1>1, <2>1 DEF Commit, CommitReplyLost, Committed, Refused, EnqueueBulk, EnqueueFails,
                        RollBack, Answer
    <2>. QED BY <1>2, <2>2, <2>3 DEF Step
  <1>3. ASSUME Operate
        PROVE  request'[r] = request[r] /\ broadcast'[r].present = broadcast[r].present
    <2>1. ASSUME NEW e \in Endpoints, DeleteEndpoint(e)
          PROVE  request'[r] = request[r] /\ broadcast'[r].present = broadcast[r].present
      BY <1>1, <2>1 DEF DeleteEndpoint, Broadcast
    <2>2. \/ \E c \in Channels : DeleteChannel(c) \/ PatchChannel(c) \/ CreateChannel(c)
          \/ \E t \in Tokens : MintToken(t) \/ RevokeToken(t)
          \/ \E e \in Endpoints : SwitchEndpoint(e)
          => UNCHANGED <<request, broadcast>>
      BY DEF DeleteChannel, PatchChannel, CreateChannel, MintToken, RevokeToken, SwitchEndpoint
    <2>. QED BY <1>3, <2>1, <2>2 DEF Operate
  <1>4. ASSUME ApiDies
        PROVE  /\ request'[r] = request[r] \/ request'[r].at = "answered"
               /\ broadcast'[r].present = broadcast[r].present
    <2>1. request[r] \in Request /\ UNCHANGED broadcast
      BY <1>1, <1>4 DEF ApiDies
    <2>2. [request[r] EXCEPT !.at = "answered", !.reply = "lost", !.clean = FALSE].at = "answered"
      BY <2>1 DEF Request
    <2>. QED BY <1>4, <2>1, <2>2 DEF ApiDies
  <1>. QED BY <1>2, <1>3, <1>4 DEF Next, vars

LEMMA StepTokenScoped == ASSUME IngestAssumption, IInv, [Next]_vars PROVE TokenScopedStep
  <1>. SUFFICES ASSUME NEW r \in Requests, At(r, "token"), At(r, "length")'
                PROVE  /\ owner[request[r].token] = request[r].channel
                       /\ request[r].token \notin request[r].barred
    BY DEF TokenScopedStep
  <1>1. /\ request[r] \in Request /\ request \in [Requests -> Request]
        /\ Admitted(r) /\ RevokedForGood(r)
    BY DEF IInv, TypeOK, Request, Good
  <1>2. Step(r)
    BY OnlyItsOwnRow DEF At
  <1>3. CheckToken(r)
    <2>1. ~Refused(r)
      <3>1. SUFFICES ASSUME Refused(r) PROVE FALSE
        OBVIOUS
      <3>2. request' = [request EXCEPT ![r].at = "answered", ![r].reply = "error"]
        BY <3>1 DEF Refused, Answer
      <3>3. request'[r].at = "answered"
        BY <1>1, <3>2 DEF Request
      <3>. QED BY <3>3 DEF At
    <2>. QED BY <1>2, <2>1 DEF Step, Lookup, CheckLength, Data, BodyEnds, Guard, ReadOriginal, ReadEndpoints,
                Commit, CommitReplyLost, EnqueueBulk, EnqueueFails, RollBack, At, None
  <1>4. Entitles(request[r].token, request[r].channel)
    <2>1. request'[r].at = "length"
      BY DEF At
    <2>2. SUFFICES ASSUME ~Entitles(request[r].token, request[r].channel) PROVE FALSE
      OBVIOUS
    <2>3. request' = [request EXCEPT ![r].at = "answered", ![r].reply = "unauthorized"]
      BY <1>3, <2>2 DEF CheckToken, Answer
    <2>4. request'[r].at = "answered"
      BY <1>1, <2>3 DEF Request
    <2>. QED BY <2>1, <2>4
  <1>5. request[r].token \in Tokens /\ request[r].channel \in Channels
    BY <1>1, <1>4 DEF Entitles, Request, Admitted, At, None
  <1>. QED BY <1>1, <1>4, <1>5 DEF Entitles, RevokedForGood, IngestAssumption

LEMMA StepSnapshotWhole == ASSUME IngestAssumption, IInv, [Next]_vars PROVE SnapshotWholeStep
  <1>. SUFFICES ASSUME NEW r \in Requests, ~broadcast[r].present, broadcast'[r].present
                PROVE  /\ broadcast'[r].deliveries = request[r].snapshot
                       /\ \A e \in request[r].snapshot :
                             OwnerOf[e] = request[r].channel /\ endpoint[e] # "gone"
    BY DEF SnapshotWholeStep
  <1>1. /\ broadcast \in [Requests -> Broadcast] /\ request[r].snapshot \subseteq Endpoints
        /\ Owned(r)
    BY DEF IInv, TypeOK, Broadcast, Good
  <1>2. Step(r)
    BY OnlyItsOwnRow
  <1>3. broadcast' # broadcast
    OBVIOUS
  <1>4. Commit(r) \/ CommitReplyLost(r) \/ RollBack(r)
    BY <1>2, <1>3 DEF Step, Lookup, CheckToken, CheckLength, Data, BodyEnds, Guard, ReadOriginal,
                ReadEndpoints, Refused, EnqueueBulk, EnqueueFails
  <1>5. ~RollBack(r)
    BY <1>1 DEF RollBack, RolledBack, NoBroadcast
  <1>6. Commit(r) \/ CommitReplyLost(r)
    BY <1>4, <1>5
  <1>7. Insertable(r) /\ At(r, "insert") /\ Committed(r)
    BY <1>3, <1>6 DEF Commit, CommitReplyLost
  <1>8. broadcast'[r].deliveries = {e \in request[r].snapshot : endpoint[e] # "gone"}
    BY <1>1, <1>7 DEF Committed
  <1>. QED BY <1>1, <1>7, <1>8 DEF Insertable, Owned, At
-----------------------------------------------------------------------------

\* What a request has looked up, read and written agrees with the rows, at
\* every step of its handler and whatever the operator does meanwhile.
THEOREM Invariance == ASSUME IngestAssumption PROVE Spec => []IInv
  <1>1. Init => IInv
    BY InitIInv
  <1>2. IInv /\ [Next]_vars => IInv'
    BY StepIInv
  <1>. QED BY <1>1, <1>2, PTL DEF Spec

\* A request that comes after its Channel was deleted never leaves a Broadcast
\* in it, though the row is looked up once and everything after it is written
\* on the word of that lookup (handlePost, fanOutBroadcast).
THEOREM NoBroadcastIntoADeletedChannel ==
    ASSUME IngestAssumption PROVE Spec => []DeletedTakesNothingNew
  <1>1. IInv => DeletedTakesNothingNew
    BY IInvImplies
  <1>. QED BY <1>1, Invariance, PTL

\* The limit holds of what is fanned out, however the body arrives and
\* whatever length was declared, and no smaller body is refused (readBody).
THEOREM BodyIsBounded == ASSUME IngestAssumption PROVE Spec => []BodyBounded
  <1>1. IInv => BodyBounded
    BY IInvImplies
  <1>. QED BY <1>1, Invariance, PTL

\* The rows of a request are whole whatever fails. "Accepted" means all of them
\* and every job; anything else means none, unless a reply was lost, the rollback
\* failed or the process died (fanOutBroadcast's transaction and its one catch).
THEOREM AnswersAreTrue == ASSUME IngestAssumption PROVE Spec => []AllOrNothing
  <1>1. IInv => AllOrNothing
    BY IInvImplies
  <1>. QED BY <1>1, Invariance, PTL

\* A token admits to the Channel it was minted for, and never after it was
\* revoked before the request came (findChannelTokenByHash).
THEOREM TokensAreScoped == ASSUME IngestAssumption PROVE Spec => TokenScoped
  <1>1. IInv /\ [Next]_vars => [TokenScopedStep]_vars
    BY StepTokenScoped
  <1>. QED BY <1>1, Invariance, PTL DEF Spec, TokenScoped

\* The transaction commits the Deliveries of the whole snapshot, each for an
\* Endpoint of the Channel that still exists, or nothing
\* (listEnabledEndpointsByChannel, createDeliveriesForBroadcast).
THEOREM SnapshotsAreWhole == ASSUME IngestAssumption PROVE Spec => SnapshotWhole
  <1>1. IInv /\ [Next]_vars => [SnapshotWholeStep]_vars
    BY StepSnapshotWhole
  <1>. QED BY <1>1, Invariance, PTL DEF Spec, SnapshotWhole
=============================================================================
