CONSTANTS
    R1 = R1
    R2 = R2
    NoName = NoName
    NonScalar = NonScalar
    None <- NoName
    Requests <- MCRequests
    ClassNames <- MCClassNames
    MethNames <- MCMethNames
    SpecialMeths <- MCSpecialMeths
    MethOrder <- MCMethOrder
    ConstNames = {}
    Values <- MCValues
    PreClass <- PropsPreClass
    MaxClasses <- MCMaxClasses

SPECIFICATION Spec
SYMMETRY Symmetry

INVARIANT StaticAlias
INVARIANT NoKindFlip
INVARIANT PropNoNarrowing
INVARIANT GetDeclPropIndexSound
