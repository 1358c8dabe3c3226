\* Five-bit words.
CONSTANTS
    MaxU64 = 31
    MaxI64 = 15

SPECIFICATION Spec

INVARIANTS
    VestsInProportion
    NoArithmeticError

\* The clock stops at the end of its word.
CHECK_DEADLOCK FALSE
