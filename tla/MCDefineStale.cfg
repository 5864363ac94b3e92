CONSTANTS
    R1 = R1
    R2 = R2
    NoName = NoName
    NonScalar = NonScalar
    None <- NoName
    Requests <- MCRequests
    ClassNames <- MCClassNames
    MethNames <- MCMethNames
    SpecialMeths = {}
    MethOrder <- MCMethOrder
    ConstNames = {}
    Values = {NonScalar}
    PreClass <- StalePreClass
    MaxClasses <- MCMaxClasses

SPECIFICATION Spec
SYMMETRY Symmetry

INVARIANT ReuseSound
