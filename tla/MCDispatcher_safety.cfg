CONSTANTS
    e1 = e1  e2 = e2  d1 = d1  d2 = d2  w1 = w1  w2 = w2  h1 = h1  h2 = h2
    Events = {e1}
    Deliveries = {d1, d2}
    EventOf <- OneEvent
    HandlerOf <- Keys
    Workers = {w1, w2}
    Registry <- FullReplica
    Bound = {}
    BatchSize = 2
    MaxAttempts = 2
    NoDelivery = NoDelivery
    MaxLeases = 3
    MaxRetries = 1
    MaxFaults = 0
SPECIFICATION Spec
SYMMETRY ReplicaSymmetry
INVARIANTS OneHolder
PROPERTIES OnlyHolderEnds
