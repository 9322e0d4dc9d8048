SPECIFICATION Spec
CONSTANTS
    d1 = d1
    d2 = d2
    w1 = w1
    w2 = w2
    p1 = p1
    p2 = p2
    Deliveries <- OneDelivery
    MaxAttempts = 2
    JobAttempts = 2
    MaxStalledCount = 1
    NoLock = NoLock
    Workers <- TwoWorkers
    Processors <- TwoProcessors
    WorkerOf <- OneSlotEach
    Requests = {r1}
    NoDelivery = NoDelivery
    FaultKinds = {"database", "redis", "crash", "lock", "api", "shutdown", "delete"}
    MaxFaults = 3
    MaxRetries = 2
CHECK_DEADLOCK FALSE
INVARIANTS TypeOK AttemptsNumbered StatusExplained NoStaleWrite AttemptBudget DuplicatesBounded
PROPERTIES FinishedStaysFinished LifecycleSpec
