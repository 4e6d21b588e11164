CONSTANTS
    network = network
    scheduler = scheduler
    Threads = {network, scheduler}
    MaxTasks = 5
SPECIFICATION FairSpec
INVARIANTS
    Conservation
    NoLostWakeup
    NothingLeftBehind
PROPERTIES
    ExecutorSpec
    EventuallyDone
    ServerEnds
