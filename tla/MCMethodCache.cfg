CONSTANTS
    NoName = NoName
    None = NoName
    NonScalar = NonScalar
    ClassNames <- MCClassNames
    MethNames <- MCMethNames
    SpecialMeths <- MCSpecialMeths
    MethOrder <- MCMethOrder
    ConstNames = {}
    Values <- MCValues
    PreClass <- MCPreClassApart
    Linked <- MCLinked
    Sites <- MCSites
    MagicName = "__call"
SPECIFICATION Spec
INVARIANT
    MethodCacheAgrees
