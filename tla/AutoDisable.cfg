SPECIFICATION Spec
CONSTANTS
    d1 = d1
    d2 = d2
    d3 = d3
    p1 = p1
    p2 = p2
    Deliveries <- ThreeDeliveries
    Processors <- TwoProcessors
    Window = 2
    Prunable <- Unsuccessful
    MaxTime = 4
    NoDelivery = NoDelivery
SYMMETRY Symmetry
CHECK_DEADLOCK FALSE
INVARIANTS NoInterveningSuccess EvidenceStands AutoDisabledIsOff
PROPERTIES NoMissedDisable
