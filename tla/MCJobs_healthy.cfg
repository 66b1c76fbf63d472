SPECIFICATION FairSpec
CONSTANTS
    a = a
    b = b
    r1 = r1
    r2 = r2
    Instances = {a, b}
    Mortal = {a}
    Requests <- TwoRequests
    HomeOf <- TwoHomes
    MaxBatch = 1
    Threads = 2
    Threshold = 2
    Interval = 2
    Faults = {"crash", "store", "reject"}
INVARIANT TypeOK
INVARIANT NoVerdictOnRunningJob
INVARIANT RunningIsCounted
PROPERTY ImplementsLifecycle
