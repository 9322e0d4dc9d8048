------------------------------ MODULE HeaderRelay ------------------------------
(***************************************************************************)
(* The way of a header from the producer to an Endpoint: filtered when the *)
(* Broadcast is accepted, by the lists the process was started with;       *)
(* picked when it is delivered or looked at, by the list its Channel has   *)
(* by then; merged with the Endpoint's own headers as they are by then.    *)
(*                                                                         *)
(* Node hands over the producer's names in lower case; everybody else      *)
(* spells them as they like.                                               *)
(***************************************************************************)
EXTENDS Integers, FiniteSets

CONSTANTS
    Names,        \* header names, "content-type" among them
    Denied,       \* DEFAULT_INGEST_HEADER_DENYLIST
    Blank,        \* an entry of a list that is only white space
    MaxEntries,   \* bound on the entries of a Channel's and an Endpoint's lists
    None

Type == "content-type"

HeaderAssumption ==
    /\ Denied \subseteq Names \ {Type} /\ Type \in Names
    /\ \A names \in SUBSET Names : names # None

VARIABLES
    allow, deny,  \* INGEST_HEADER_ALLOWLIST and INGEST_HEADER_DENYLIST
    forward,      \* channel.forwardHeaders
    own,          \* the keys of endpoint.headers
    stored        \* None, or a Broadcast: its headers, its content type, and
                  \* (history) what was denied when it came

vars == <<allow, deny, forward, own, stored>>

Spelled == [name : Names, upper : BOOLEAN]
Lists(entries) == {list \in SUBSET entries : Cardinality(list) <= MaxEntries}

Init == allow = {} /\ deny = Denied /\ forward = {} /\ own = {} /\ stored = None

\* The API is restarted with other lists: the default stays denied.
Restart(a, d) ==
    /\ allow' = a /\ deny' = Denied \cup d
    /\ UNCHANGED <<forward, own, stored>>

\* Mutant: the allow-list lets a header back in.
Kept_AllowWins(name) == name \in allow \/ (allow = {} /\ name \notin deny)

\* filterHeaders: an empty allow-list keeps everything, and the denied win.
Kept(name) == name \notin deny /\ (allow # {} => name \in allow)

Accept(sent) ==
    /\ stored' = [headers |-> {name \in sent : Kept(name)},
                  type |-> IF Type \in sent THEN "producer" ELSE "default",
                  denied |-> deny]
    /\ UNCHANGED <<allow, deny, forward, own>>

\* The contract refuses "authorization" here, and takes a blank entry.
SetForward(list) == forward' = list /\ UNCHANGED <<allow, deny, own, stored>>

SetOwn(keys) == own' = keys /\ UNCHANGED <<allow, deny, forward, stored>>

Next ==
    \/ \E a, d \in SUBSET (Names \ {Type}) : Restart(a, d)
    \/ \E sent \in SUBSET Names : Accept(sent)
    \/ \E list \in Lists(Spelled \cup {Blank}) : SetForward(list)
    \/ \E keys \in Lists(Spelled) : SetOwn(keys)

Spec == Init /\ [][Next]_vars
-----------------------------------------------------------------------------
(* What a Delivery carries. An object is a set of entries.                 *)

Entry(key, value) == [key |-> key, value |-> value]
Lower(name) == [name |-> name, upper |-> FALSE]

\* Mutant: a blank entry asks for something.
Asked_Raw == {IF key = Blank THEN Blank ELSE key.name : key \in forward}

\* normalizeForwardAllowlist
Asked == {key.name : key \in forward \ {Blank}}

\* selectForwardableHeaders
Forwarded == {Entry(Lower(name), "producer") : name \in stored.headers \cap Asked}

\* Mutant: the names are merged as they are spelled.
ByLowercaseName_Not(object) == object

ByLowercaseName(object) == {Entry(Lower(entry.key.name), entry.value) : entry \in object}

\* Object spread: a later entry replaces one with the very same key.
Spread(object, over) ==
    over \cup {entry \in object : \A other \in over : other.key # entry.key}

\* The headers of the request of processDelivery.
Request ==
    Spread(Spread(ByLowercaseName(Forwarded),
                  ByLowercaseName({Entry(key, "endpoint") : key \in own})),
           {Entry(Lower(Type), stored.type)})

\* fetch joins the values of entries whose names differ only in case.
OnWire(name) == {entry.value : entry \in {e \in Request : e.key.name = name}}

\* fingerprintForwardedHeaders: absent, or the names that have a digest.
Fingerprints == IF Asked = {} THEN None ELSE {entry.key.name : entry \in Forwarded}
-----------------------------------------------------------------------------
(* Properties, of every Delivery and every look at any moment.             *)

TypeOK ==
    /\ allow \subseteq Names /\ Denied \subseteq deny /\ deny \subseteq Names
    /\ forward \subseteq Spelled \cup {Blank} /\ own \subseteq Spelled
    /\ stored # None => /\ stored.headers \subseteq Names /\ stored.denied \subseteq Names
                        /\ stored.type \in {"producer", "default"}

\* What the producer sent under a name that was denied when the Broadcast was
\* accepted never reaches an Endpoint, whatever the lists have become since.
DeniedStaysHere ==
    stored # None => \A name \in (Denied \cup stored.denied) \ {Type} : "producer" \notin OnWire(name)

\* However the Channel, the Endpoint and the producer spell a name, it goes out
\* once: with the Endpoint's value if the Endpoint sets it, and the content
\* type is always the Broadcast's.
EndpointWins ==
    stored # None =>
        /\ OnWire(Type) = {stored.type}
        /\ \A name \in Names \ {Type} :
              /\ Cardinality(OnWire(name)) <= 1
              /\ (\E key \in own : key.name = name) => OnWire(name) = {"endpoint"}

\* The fingerprints are absent if the list asks for nothing, blank entries or
\* not. Otherwise they are of the very headers that a Delivery would carry,
\* but for the names the Endpoint sets itself.
FingerprintsMatch ==
    stored # None =>
        /\ Fingerprints = None <=> forward \subseteq {Blank}
        /\ Fingerprints # None =>
              \A name \in Names \ {key.name : key \in own} :
                  name \in Fingerprints =>  OnWire(name) = {"producer"}
        /\ \A name \in Names \ {Type} :
              "producer" \in OnWire(name) => Fingerprints # None /\ name \in Fingerprints
=============================================================================
