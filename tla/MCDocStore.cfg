SPECIFICATION Spec
CONSTANTS
    Callers = {c1, c2}
    Checksums = {x, y}
    Columns = {category, path}
    Values = {v0, v1}
    Blank = v0
    None = none
    MaxId = 2
    MaxFaults = 1
SYMMETRY Symmetry
INVARIANTS EntryBelongs SettledAgrees
PROPERTY OtherColumnsKeptAlone
