CONSTANTS
    T1 = T1
    T2 = T2
    Threads <- MCThreads
    Strs <- MCStrs
    Chars <- MCChars
    Digits <- MCDigits
    MaxLen = 2
    OffsetLimit = 1
    SvContent <- MCSvContent
    MaxSvRefs = 3
SPECIFICATION StrSpec
SYMMETRY Symmetry
INVARIANTS
    StringTypeOK
    InternCanonical
    HashCacheSound
    NumericWithValAgrees
    SharedSafe
