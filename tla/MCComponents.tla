---------------------------- MODULE MCComponents -----------------------------
(*****************************************************************************)
(* Small instances of the components for TLC. Those that do not run wait in  *)
(* one and the same initial state.                                           *)
(*****************************************************************************)
EXTENDS Components

FirstSlug == [c \in {"A", "B"} |-> IF c = "A" THEN "a" ELSE "b"]
FirstRow ==
    [e \in 1..4 |->
        IF e = 4 THEN NoValue
        ELSE [channel |-> IF e = 3 THEN "B" ELSE "A", url |-> IF e = 3 THEN 1 ELSE e,
              enabled |-> TRUE, auto |-> FALSE]]
OneIp == [b \in {"b1", "b2"} |-> "ip"]
OneOwner == [e \in {"e"} |-> "c1"]
OneHome == [e \in {1, 2} |-> "A"]
SomeSeconds == {-1, 1, 3}

MCInit ==
    /\ part \in Parts
    /\ Ingesting!Init /\ ~ingestChannel["c2"].live /\ ingestOwner["t"] # "c2"
    /\ part # "ingest" =>
          \A c \in IngestChannels : ~ingestChannel[c].live /\ ingestOwner["t"] = "none"
    /\ Page!Init /\ pageRoute.form = "slug"
    /\ Fresh!Init /\ (part # "fresh" => freshVisible)
    /\ Pending!Init /\ (part # "pend" => ~pendPending)
    /\ Rollup!Init
    /\ part # "roll" =>
          rollFailing = [e \in RollEndpoints |-> Rollup!Severities[1]] /\ rollParam = Absent
    /\ Bulk!Init /\ (part # "bulk" => bulkDead = {})
    /\ Replay!Init /\ (part # "replay" => replayEnabled = {} /\ replayEndpoints = NoValue)
    /\ Editor!Init /\ (part # "edit" => \A e \in EditEndpoints : editServer[e] = 1)
    /\ TokensTab!Init /\ (part # "token" => \A c \in TokenChannels : tokenStored[c] = {})
    /\ Clock!Init /\ (part # "clock" => clockVisible)
    /\ View!Init /\ (part # "view" => viewUrl = View!Plain("activity"))
    /\ Sweeper!Init /\ (part # "sweep" => sweepWindow = 1)
    /\ Init

MCSpec == MCInit /\ [][Next]_vars
=============================================================================
