SPECIFICATION Spec
SYMMETRY Alike
CONSTANTS
    i1 = i1
    i2 = i2
    w1 = w1
    w2 = w2
    w3 = w3
    s1 = s1
    s2 = s2
    Instances = {i1, i2}
    Workers = {w1, w2, w3}
    HomeOf <- Homes
    Sources = {s1, s2}
    Sizes = {1}
    MaxIngests = 1
    Faults = {"raise", "unheard", "refresh", "crash"}
INVARIANT TypeOK
INVARIANT SourcesAreWhole
INVARIANT OwnContentMatches
INVARIANT NoCircleOfLocks
PROPERTY SnapshotsAdvance
PROPERTY ImplementsAtomicIndex
