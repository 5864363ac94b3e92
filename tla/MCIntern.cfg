CONSTANTS
    T1 = T1
    T2 = T2
    T3 = T3
    Threads <- MCThreads
    Strs <- MCStrs
SPECIFICATION Spec
SYMMETRY Symmetry
INVARIANTS
    TypeOK
    InternCanonical
