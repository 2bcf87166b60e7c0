SPECIFICATION LifecycleSpec
CONSTANTS
    p1 = p1  e1 = e1  e2 = e2  e3 = e3
    NoEvent = NoEvent
    Partitions = {p1}
    HubEvents = {e1, e2, e3}
    PartitionOf <- MCPartitionOf
    Valid = {e1, e2}
    Failing = {}
    EnableEventHub = TRUE
    Failures = {}
    Requests = {q1}
PROPERTY
    CleanExitKeepsEvents
