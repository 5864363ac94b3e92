CONSTANTS
    T1 = T1
    T2 = T2
    Threads <- MCSoloThread
    ClsNames <- MCClsNames
    CnsNames <- MCCnsNames
    InitFrontier <- MCInitFrontier
    InitNextBit <- MCInitNextBit
    InitBitsToGo <- MCInitBitsToGo
    InitAllocs <- MCInitAllocs
    InitDirty <- MCInitDirty
    PageBytes <- MCPageBytes
    MaxStatics = 1
SPECIFICATION Spec
INVARIANTS
    HandlesDisjoint
