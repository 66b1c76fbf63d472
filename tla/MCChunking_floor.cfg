SPECIFICATION Spec
CONSTANTS
    h1 = h1
    h2 = h2
    small = small
    large = large
    Headings = {h1, h2}
    Contents = {small, large}
    Cost <- Costs
    Special = 1
    Pieces <- Splits
    Floor = 5
    Cap = 5
    Ceiling = 7
    MaxSections = 3
    MaxUnits = 2
INVARIANT TypeOK
INVARIANT ContentIsKept
INVARIANT WithinCeiling
INVARIANT FloorIsReached
PROPERTY ChunkingEnds
CHECK_DEADLOCK FALSE
