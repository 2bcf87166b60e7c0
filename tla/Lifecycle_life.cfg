SPECIFICATION FairLifecycleSpec
CONSTANTS
    p1 = p1  e1 = e1  e2 = e2  e3 = e3
    NoEvent = NoEvent
    Partitions = {p1}
    HubEvents = {e1, e2, e3}
    PartitionOf <- MCPartitionOf
    Valid = {e1, e2}
    Failing = {e1}
    EnableEventHub = TRUE
    Failures = {"hub", "link", "env", "mongo", "redis", "port", "crash"}
    Requests = {q1}
INVARIANTS
    HubInv
    AtMostTwice
    ShutdownInv
PROPERTIES
    RefinesDelivery
    InOrder
    ShutdownDrains
    ShutdownEnds
    EventsSettle
