CONSTANTS
    T1 = T1
    T2 = T2
    C1 = C1
    C2 = C2
    C3 = C3
    Null = Null
    Threads <- MCThreads
    Classes <- MCClasses

SPECIFICATION Spec

INVARIANTS TypeOK NoUseAfterFree ListIntact

PROPERTIES ReleasedEventuallyFreed LifecycleRefined
