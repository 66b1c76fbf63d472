SPECIFICATION FairSpec
CONSTANTS
    a = a
    b = b
    r1 = r1
    r2 = r2
    Instances = {a, b}
    Mortal = {a}
    Requests <- OneRequest
    HomeOf <- OneHome
    MaxBatch = 2
    Threads = 1
    Threshold = 2
    Interval = 1
    Faults = {"crash", "pause", "beat", "store", "reject"}
INVARIANT CompletedMeansIngested
PROPERTY NeverReopened
PROPERTY EventuallySettled
