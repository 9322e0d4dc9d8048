SPECIFICATION FairSpec
CONSTANTS
    NoValue = NoValue
    Missing = Missing
CHECK_DEADLOCK FALSE
PROPERTIES
    CooldownEnds
    PageCatchesUp
    
    ListCatchesUp
