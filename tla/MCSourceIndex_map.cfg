SPECIFICATION Spec
CONSTANTS
    i1 = i1
    i2 = i2
    w1 = w1
    w2 = w2
    w3 = w3
    s1 = s1
    s2 = s2
    Instances = {i1, i2}
    Workers = {w1, w2, w3}
    HomeOf <- Homes
    Sources = {s1, s2}
    Sizes = {0, 1}
    MaxIngests = 1
    Faults = {}
INVARIANT ReplacementsFindTheirContent
