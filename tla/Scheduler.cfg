SPECIFICATION MCSpec
CONSTANTS
    client1 = client1
    client2 = client2
    worker1 = worker1
    worker2 = worker2
    nobody = nobody
    Clients <- TwoClients
    Workers <- TwoWorkers
    SharedClients <- OnlyFirst
    MaxGeneration = 2
    NoClient <- nobody
CHECK_DEADLOCK FALSE
INVARIANTS
    OneExecutionPerClient
    StaleWorkStopped
    QuietAfterWait
    NoLostWakeup
PROPERTIES
    WaitersReturn
    ShutdownCompletes
