CHECK_DEADLOCK FALSE
CONSTANTS
    m1 = m1
    m2 = m2
    m3 = m3
    Instances = {a, b, c}
    Models = {m1, m2, m3}
    Width <- Widths3
    MaxFaults = 1
SPECIFICATION FairSpec
INVARIANT TypeOK
INVARIANT RunningFits
PROPERTY RecordIsFinal
PROPERTY SomeoneRuns
PROPERTY ItsInstancesRun
