SPECIFICATION Spec
CONSTANTS
    t1 = t1
    t2 = t2
    h1 = h1
    h2 = h2
    h3 = h3
    Threads <- TwoThreads
    Handles <- ThreeHandles
    Idle_seconds = 2
    Absolute_seconds = 3
    Capacity = 1
    MaxClock = 3
    ClockSteps <- Stepped
    Outages <- AnyOutage
    Absent = Absent
    Denied = Denied
SYMMETRY Symmetry
INVARIANTS OneHandlePerLogin
PROPERTIES NoOrphans NeverEvicted Implements
