CONSTANTS
    Names <- MCNames
    Vals <- MCVals
    Null = "null"
    Undef = "undef"
    MaxRefs = 2
SPECIFICATION Spec
PROPERTY
    GlobalsRefined
