CONSTANTS
    Strs <- MCStrs
    Text <- MCText
    HashOf <- MCHashOf
    Ent <- MCEnt
    Decl <- MCDecl
    Kind <- MCKind
    FuncDecl <- MCFuncDecl
    FuncName <- MCFuncName
    NLines = 2
    MaxDepth = 1
SPECIFICATION Spec
INVARIANTS
    TypeOK
    LookupsAgree
    KeyRefsAgree
    KnownCheckSound
