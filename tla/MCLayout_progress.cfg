SPECIFICATION Spec
CONSTANTS
    h = h
    tight = tight
    title = title
    p = p
    wide = wide
    fence = fence
    blank = blank
    r = r
    broad = broad
    rule = rule
    Documents <- MCDocuments
    MaxLines = 5
    Headings = {h, tight, title}
    Fences = {fence}
    Blanks = {blank}
    Rows = {r, broad}
    Rules = {rule}
    Words <- MCWords
    Special = 2
    Overlap = 3
    Cap = 9
INVARIANT CuttingMakesProgress
CHECK_DEADLOCK FALSE
