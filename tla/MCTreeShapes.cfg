\* Trees of up to six leaves, alike but for their claimants.
CONSTANTS
    w1 = w1
    w2 = w2
    w3 = w3
    w4 = w4
    w5 = w5
    w6 = w6
    Wallet = {w1, w2, w3, w4, w5, w6}
    MaxU64 = 7
    TokenUnit = 1
    MaxTreeNodes = 6
    CsvEntries <- PlainRows
    MaxRows = 6
    NoFile = NoFile

SPECIFICATION Spec

SYMMETRY Symmetry
CONSTRAINT FileIsFresh

INVARIANTS
    RootCommitsToItsLeaves
    OnlyOversizedCsvIsRefused
    RootDeterminesTheTree
