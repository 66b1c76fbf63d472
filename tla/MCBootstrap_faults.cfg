SPECIFICATION Spec
CONSTANTS
    a = a
    b = b
    typo = typo
    Instances = {a, b}
    Mortal = {a}
    CorpusSize = 2
    StaleAfter = 1
    Poll = 1
    Interval = 1
    Misnamed = {}
    Faults = {"crash", "restart", "pause", "beat", "store", "read"}
INVARIANT CompleteIsTrue
PROPERTY ClaimMovesWithItsOwner
