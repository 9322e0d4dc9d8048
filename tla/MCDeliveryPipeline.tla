------------------------- MODULE MCDeliveryPipeline -------------------------
(* Small instances of DeliveryPipeline for TLC. *)
EXTENDS DeliveryPipeline, TLC

CONSTANTS d1, d2, w1, w2, p1, p2

OneDelivery == {d1}
TwoDeliveries == {d1, d2}
TwoProcessors == {p1, p2}

TwoWorkers == {w1, w2}
OneWorker == {w1}

\* Two processes of one slot each, or one process of two slots.
OneSlotEach == p1 :> w1 @@ p2 :> w2
TwoSlots == p1 :> w1 @@ p2 :> w1
=============================================================================
