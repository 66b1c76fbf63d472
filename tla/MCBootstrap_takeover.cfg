SPECIFICATION Spec
CONSTANTS
    a = a
    b = b
    typo = typo
    Instances = {a, b}
    Mortal = {a}
    CorpusSize = 1
    StaleAfter = 3
    Poll = 1
    Interval = 2
    Misnamed = {}
    Faults = {"crash"}
INVARIANT DeadHolderIsReplaced
