CONSTANTS
    NoName = NoName
    None = NoName
    NonScalar = NonScalar
    oA = oA
    oB = oB
    oM = oM
    ClassNames <- MCClassNames
    MethNames <- MCMethNames
    SpecialMeths <- MCSpecialMeths
    MethOrder <- MCMethOrder
    ConstNames = {}
    Values <- MCValues
    PreClass <- MCPreClass
    Linked <- MCLinked
    Objs <- MCObjsMagic
    ObjClass <- MCObjClass
    PNames <- MCPNames
    PSites <- MCPSites
SPECIFICATION PSpec
INVARIANTS
    PropCacheAgrees
