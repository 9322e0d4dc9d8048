----------------------- MODULE MCEndpointAutoDisable -----------------------
(* Small instances of EndpointAutoDisable for TLC. *)
EXTENDS EndpointAutoDisable, TLC

CONSTANTS d1, d2, d3, p1, p2

TwoDeliveries == {d1, d2}
ThreeDeliveries == {d1, d2, d3}
TwoProcessors == {p1, p2}

\* The sweeper takes unfinished and failed Deliveries; MCComponents takes all.
Unsuccessful == {"open"} \cup Failures

\* Deliveries are interchangeable, and so are processors.
Symmetry == Permutations(Deliveries) \cup Permutations(Processors)
=============================================================================
