SPECIFICATION Spec
CONSTANTS
    Callers = {c1, c2}
    Docs = {d1, d2}
    Folders = {bank, tax}
    Raws = raws
    Bases = {a, b}
    NoDoc = NoDoc
    NoRow = NoRow
    NoPath = NoPath
    Nobody = Nobody
    MaxFaults = 1
SYMMETRY Symmetry
INVARIANTS RowHasFile FileHasRow
