CONSTANTS
    NoName = NoName
    None = NoName
    NonScalar = NonScalar
    oA = oA
    oB = oB
    oM = oM
    ClassNames <- MCClassNames
    MethNames <- MCMethNames
    SpecialMeths <- MCSpecialMeths
    MethOrder <- MCMethOrder
    ConstNames = {}
    Values <- MCValues
    PreClass <- MCPreClass
    Linked <- MCLinked
    Objs <- MCObjs
    ObjClass <- MCObjClass
    PNames <- MCPNames
    PSites <- MCPSites
SPECIFICATION PSpec
INVARIANTS
    PropTypeOK
    PropCacheAgrees
