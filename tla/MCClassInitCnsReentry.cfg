CONSTANTS
    NoName = NoName
    None = NoName
    NonScalar = NonScalar
    ClassNames <- MCClassNames
    MethNames <- MCMethNames
    SpecialMeths <- MCSpecialMeths
    MethOrder <- MCMethOrder
    ConstNames <- MCConstNames
    FooUndef = FooUndef
    FooDef = FooDef
    Values <- MCValues
    PreClass <- MCPreClass
    Linked <- MCLinked
    UserReentry = TRUE
    MaxDepth = 4
SPECIFICATION Spec
INVARIANT ConstantStable
