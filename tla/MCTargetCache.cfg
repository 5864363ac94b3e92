CONSTANTS
    T1 = T1
    T2 = T2
    Threads <- MCThreads
    ClsNames <- MCClsNames
    CnsNames <- MCCnsNames
    InitFrontier <- MCInitFrontier
    InitNextBit <- MCInitNextBit
    InitBitsToGo <- MCInitBitsToGo
    InitAllocs <- MCInitAllocs
    InitDirty <- MCInitDirty
    PageBytes <- MCPageBytes
    MaxStatics = 0
SPECIFICATION Spec
SYMMETRY Symmetry
INVARIANTS
    TypeOK
    HandlesDisjoint
    RequestStartsClean
    BitAddressingAgrees
PROPERTIES
    NamedHandleStable
