CONSTANTS
    R1 = R1
    R2 = R2
    NoName = NoName
    NonScalar = NonScalar
    None <- NoName
    Requests <- MCRequests
    ClassNames <- MCClassNames
    MethNames <- MCMethNames
    SpecialMeths <- MCSpecialMeths
    MethOrder <- MCMethOrder
    ConstNames <- MCConstNames
    Values <- MCValues
    PreClass <- MCPreClass
    MaxClasses <- MCMaxClasses

SPECIFICATION Spec
SYMMETRY Symmetry

INVARIANT TypeOK
INVARIANT AncestryLaw
INVARIANT NoNarrowing
INVARIANT TraitPrecedence
INVARIANT ReuseSound
INVARIANT LinkNeverCrashes
