CONSTANTS
    NoName = NoName
    None = NoName
    NonScalar = NonScalar
    ClassNames <- MCClassNames
    MethNames <- MCMethNames
    SpecialMeths <- MCSpecialMeths
    MethOrder <- MCMethOrder
    ConstNames = {}
    Values <- MCValues
    PreClass <- MCPreClass
    Linked <- MCLinked
    Sites <- MCSitesA
    MagicName = "__call"
SPECIFICATION Spec
INVARIANT MethodCacheAgrees
