\* The page and trees of up to five leaves.
CONSTANTS
    w1 = w1
    w2 = w2
    w3 = w3
    w4 = w4
    w5 = w5
    Wallet = {w1, w2, w3, w4, w5}
    MaxU64 = 7
    TokenUnit = 1
    MaxTreeNodes = 6
    CsvEntries <- PlainRows
    MaxRows = 5
    NoFile = NoFile

SPECIFICATION Spec

SYMMETRY Symmetry
CONSTRAINT FileIsFresh

INVARIANT PageProvesEveryLeaf
