SPECIFICATION FairSpec
CONSTANTS
    a = a
    b = b
    typo = typo
    Instances = {a, b}
    Mortal = {a}
    CorpusSize = 2
    StaleAfter = 2
    Poll = 1
    Interval = 1
    Misnamed = {typo}
    Faults = {"crash", "restart", "read"}
INVARIANT TypeOK
INVARIANT OneLoader
PROPERTY WaitEnds
