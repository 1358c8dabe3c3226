\* An amount whose tokens do not fit a word.
CONSTANTS
    w1 = w1
    Wallet = {w1}
    MaxU64 = 15
    TokenUnit = 4
    MaxTreeNodes = 3
    CsvEntries <- LargeRows
    MaxRows = 2
    NoFile = NoFile

SPECIFICATION Spec

CONSTRAINT FileIsFresh

INVARIANT GrantsAreWorthTheirRows
