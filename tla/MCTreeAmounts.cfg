\* Amounts in all categories, up to the end of the word.
CONSTANTS
    w1 = w1
    w2 = w2
    w3 = w3
    Wallet = {w1, w2, w3}
    MaxU64 = 15
    TokenUnit = 2
    MaxTreeNodes = 2
    CsvEntries <- MixedRows
    MaxRows = 3
    NoFile = NoFile

SPECIFICATION Spec

SYMMETRY Symmetry
CONSTRAINT FileIsFresh

INVARIANTS
    TypeOK
    TreeGrantsItsRows
    OnlyOversizedCsvIsRefused
