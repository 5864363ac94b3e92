------------------------------ MODULE ClassInit ------------------------------
(***************************************************************************)
(* Per-request initialization of a linked class's property data           *)
(* (class.cpp): Class::initialize, initProps, initSProps, getSProp and the *)
(* target-cache slots getPropData/setPropData, getSPropData/setSPropData,  *)
(* and the class-constant side: clsCnsGet and initClsCnsData.             *)
(*                                                                         *)
(* One request thread runs; its calls are a stack of frames.  The          *)
(* initializers 86pinit and 86sinit are user code (invokeFunc): an         *)
(* initializer evaluates constant expressions, and a class constant of a   *)
(* class not yet defined runs the autoloader, which may create objects of *)
(* or read static properties of any class.  A static-property array is    *)
(* modelled by the storage cell each name refers to: <<array, name>> for  *)
(* a value embedded in the array, the declaring class's cell for an alias. *)
(***************************************************************************)
EXTENDS ClassLink

CONSTANTS
    Linked,         \* the linked classes, ids 1..Len(Linked)
    UserReentry,    \* user code may touch a class being initialized
    FooUndef,       \* what the constant expression FOO gives before define()
    FooDef,         \*   and after
    MaxDepth        \* bound on the call stack

ClassIds == DOMAIN Linked

VARIABLES
    propData,       \* getPropData(): a PropInitVec id, 0 for NULL
    sPropData,      \* getSPropData(): a static array id, 0 for NULL
    arrays,         \* static arrays made by initSProps: [cls, cells]
    nVecs,          \* PropInitVecs made by initProps
    stack,          \* the call stack, innermost last
    asserted,       \* history: an ASSERT of setPropData/setSPropData failed
    cnsData,        \* getClsCnsData(): a constant array id, 0 for NULL
    cnsArrays,      \* constant arrays made by initClsCnsData: name -> value
    fooDefined,     \* the global constant FOO has been define()d
    cnsSeen         \* history: values clsCnsGet returned, per class and name

cnsVars == <<cnsData, cnsArrays, fooDefined, cnsSeen>>
vars == <<propData, sPropData, arrays, nVecs, stack, asserted, cnsData, cnsArrays, fooDefined, cnsSeen>>

NoCell == <<0, "">>

Frame(fn, c, pc, n) == [fn |-> fn, cls |-> c, pc |-> pc, i |-> 0, obj |-> 0, name |-> n, ret |-> NoCell]

(* The innermost frame; a frame of no function when the stack is empty.   *)
Top == IF stack = <<>> THEN Frame("none", 0, "", "") ELSE stack[Len(stack)]

(* Replace the innermost frame by f and call g.                           *)
Call(f, g) == stack' = Append([stack EXCEPT ![Len(stack)] = f], g)

(* Replace the innermost frame by f.                                      *)
Goto(f) == stack' = [stack EXCEPT ![Len(stack)] = f]

(* Return v to the caller.                                                *)
Return(v) ==
    stack' = IF Len(stack) = 1 THEN <<>>
             ELSE [Front(stack) EXCEPT ![Len(stack) - 1].ret = v]

NumStatic(c) == Len(Linked[c].sprops)

(* lookupSProp: the slot of the static property n, 0 for kInvalidSlot.    *)
LookupSProp(c, n) == SelectInSeq(Linked[c].sprops, LAMBDA sp : sp.name = n)

(* Classes whose initialize() is on the stack.                            *)
InProgress == {stack[k].cls : k \in {k \in DOMAIN stack : stack[k].fn = "init"}}

(* The classes user code may reach: all of them, or with UserReentry      *)
(* false none that is, or descends from, a class being initialized.       *)
Reachable == IF UserReentry THEN ClassIds
             ELSE {d \in ClassIds : \A p \in InProgress : ~Classof(Linked, d, p)}

StaticNames == UNION {{sp.name : sp \in ToSet(Linked[c].sprops)} : c \in ClassIds}

-----------------------------------------------------------------------------
(* The request calls initialize() (an object is created) or getSProp()    *)
(* (a static property is read) on a class.                                *)
Enter(c) ==
    /\ stack = <<>>
    /\ stack' = <<Frame("init", c, "props", "")>>
    /\ UNCHANGED <<propData, sPropData, arrays, nVecs, asserted, cnsVars>>

EnterGet(c, n) ==
    /\ stack = <<>>
    /\ stack' = <<Frame("get", c, "init", n)>>
    /\ UNCHANGED <<propData, sPropData, arrays, nVecs, asserted, cnsVars>>

(* initialize: when there are 86pinits and getPropData() is NULL,          *)
(* initProps, then setPropData.                                           *)
InitializeProps ==
    LET f == Top IN
    /\ f.fn = "init" /\ f.pc = "props"
    /\ IF Len(Linked[f.cls].pinitVec) > 0 /\ propData[f.cls] = 0
       THEN /\ Call([f EXCEPT !.pc = "setProps"],
                    [Frame("props", f.cls, "run", "") EXCEPT
                        !.i = Len(Linked[f.cls].pinitVec), !.obj = nVecs + 1])
            /\ nVecs' = nVecs + 1
       ELSE /\ Goto([f EXCEPT !.pc = "sprops"])
            /\ UNCHANGED nVecs
    /\ UNCHANGED <<propData, sPropData, arrays, asserted, cnsVars>>

(* setPropData(props): ASSERT(getPropData() == NULL), then the store.     *)
SetPropData ==
    LET f == Top IN
    /\ f.fn = "init" /\ f.pc = "setProps"
    /\ asserted' = (asserted \/ propData[f.cls] # 0)
    /\ propData' = [propData EXCEPT ![f.cls] = f.ret[1]]
    /\ Goto([f EXCEPT !.pc = "sprops"])
    /\ UNCHANGED <<sPropData, arrays, nVecs, cnsVars>>

(* initialize: with static properties, the array getSPropData() gives, or *)
(* a new one from initSProps stored by setSPropData; without, NULL.       *)
InitializeSPropsNoCheck ==
    LET f == Top IN
    /\ f.fn = "init" /\ f.pc = "sprops"
    /\ IF NumStatic(f.cls) > 0
       THEN /\ Call([f EXCEPT !.pc = "setSProps"],
                    [Frame("sprops", f.cls, "slots", "") EXCEPT
                        !.i = 1, !.obj = Len(arrays) + 1])
            /\ arrays' = Append(arrays, [cls |-> f.cls, cells |-> [n \in {} |-> NoCell]])
       ELSE /\ Return(<<0, "">>)
            /\ UNCHANGED arrays
    /\ UNCHANGED <<propData, sPropData, nVecs, asserted, cnsVars>>
InitializeSProps ==
    LET f == Top IN
    /\ f.fn = "init" /\ f.pc = "sprops"
    /\ IF NumStatic(f.cls) > 0 /\ sPropData[f.cls] = 0
       THEN /\ Call([f EXCEPT !.pc = "setSProps"],
                    [Frame("sprops", f.cls, "slots", "") EXCEPT
                        !.i = 1, !.obj = Len(arrays) + 1])
            /\ arrays' = Append(arrays, [cls |-> f.cls, cells |-> [n \in {} |-> NoCell]])
       ELSE /\ Return(<<sPropData[f.cls], "">>)
            /\ UNCHANGED arrays
    /\ UNCHANGED <<propData, sPropData, nVecs, asserted, cnsVars>>

(* setSPropData(sProps): ASSERT(getSPropData() == NULL), then the store;   *)
(* initialize hands the array back.                                       *)
SetSPropData ==
    LET f == Top IN
    /\ f.fn = "init" /\ f.pc = "setSProps"
    /\ asserted' = (asserted \/ sPropData[f.cls] # 0)
    /\ sPropData' = [sPropData EXCEPT ![f.cls] = f.ret[1]]
    /\ Return(f.ret)
    /\ UNCHANGED <<propData, arrays, nVecs, cnsVars>>

(* initProps: the 86pinits of m_pinitVec from the last to the first, each *)
(* through invokeFunc, then the new PropInitVec.                           *)
InitPropsRun ==
    LET f == Top IN
    /\ f.fn = "props"
    /\ IF f.i > 0
       THEN Call([f EXCEPT !.i = @ - 1], Frame("user", f.cls, "run", ""))
       ELSE Return(<<f.obj, "">>)
    /\ UNCHANGED <<propData, sPropData, arrays, nVecs, asserted, cnsVars>>

(* initSProps, slot by slot: a static this class declares is embedded in  *)
(* the new array; any other aliases the declaring class's storage, found  *)
(* through m_class->getSProp(NULL, name).                                 *)
InitSPropsSlotSelf ==
    LET f == Top
        c == f.cls
    IN /\ f.fn = "sprops" /\ f.pc = "slots"
       /\ IF f.i <= NumStatic(c)
          THEN LET sp == Linked[c].sprops[f.i]
               IN IF sp.cls = c
                  THEN /\ arrays' = [arrays EXCEPT ![f.obj].cells =
                                        @ @@ (sp.name :> <<f.obj, sp.name>>)]
                       /\ Goto([f EXCEPT !.i = @ + 1])
                  ELSE /\ Call([f EXCEPT !.pc = "alias"], Frame("get", c, "init", sp.name))
                       /\ UNCHANGED arrays
          ELSE /\ Goto([f EXCEPT !.pc = "sinit", !.i = 1])
               /\ UNCHANGED arrays
       /\ UNCHANGED <<propData, sPropData, nVecs, asserted, cnsVars>>
InitSPropsSlot ==
    LET f == Top
        c == f.cls
    IN /\ f.fn = "sprops" /\ f.pc = "slots"
       /\ IF f.i <= NumStatic(c)
          THEN LET sp == Linked[c].sprops[f.i]
               IN IF sp.cls = c
                  THEN /\ arrays' = [arrays EXCEPT ![f.obj].cells =
                                        @ @@ (sp.name :> <<f.obj, sp.name>>)]
                       /\ Goto([f EXCEPT !.i = @ + 1])
                  ELSE /\ Call([f EXCEPT !.pc = "alias"], Frame("get", sp.cls, "init", sp.name))
                       /\ UNCHANGED arrays
          ELSE /\ Goto([f EXCEPT !.pc = "sinit", !.i = 1])
               /\ UNCHANGED arrays
       /\ UNCHANGED <<propData, sPropData, nVecs, asserted, cnsVars>>

(* migrateAndSet: the slot refers to the TypedValue getSProp returned.    *)
InitSPropsAliasCopy ==
    LET f == Top
        n == Linked[f.cls].sprops[f.i].name
    IN /\ f.fn = "sprops" /\ f.pc = "alias"
       /\ arrays' = [arrays EXCEPT ![f.obj].cells = @ @@ (n :> <<f.obj, n>>)]
       /\ Goto([f EXCEPT !.pc = "slots", !.i = @ + 1])
       /\ UNCHANGED <<propData, sPropData, nVecs, asserted, cnsVars>>
InitSPropsAlias ==
    LET f == Top
        n == Linked[f.cls].sprops[f.i].name
    IN /\ f.fn = "sprops" /\ f.pc = "alias"
       /\ arrays' = [arrays EXCEPT ![f.obj].cells = @ @@ (n :> f.ret)]
       /\ Goto([f EXCEPT !.pc = "slots", !.i = @ + 1])
       /\ UNCHANGED <<propData, sPropData, nVecs, asserted, cnsVars>>

(* initSProps: the 86sinits of m_sinitVec in order, then the array.       *)
InitSPropsSinit ==
    LET f == Top IN
    /\ f.fn = "sprops" /\ f.pc = "sinit"
    /\ IF f.i <= Len(Linked[f.cls].sinitVec)
       THEN Call([f EXCEPT !.i = @ + 1], Frame("user", f.cls, "run", ""))
       ELSE Return(<<f.obj, "">>)
    /\ UNCHANGED <<propData, sPropData, arrays, nVecs, asserted, cnsVars>>

(* getSProp: initialize(sProps) first.                                    *)
GetSPropInit ==
    LET f == Top IN
    /\ f.fn = "get" /\ f.pc = "init"
    /\ Call([f EXCEPT !.pc = "lookup"], Frame("init", f.cls, "props", ""))
    /\ UNCHANGED <<propData, sPropData, arrays, nVecs, asserted, cnsVars>>

(* getSProp, after initialize: NULL for a name with no static slot, else  *)
(* the array's value for it (nvGetValueRef).                              *)
GetSPropLookup ==
    LET f == Top
        cells == arrays[f.ret[1]].cells
    IN /\ f.fn = "get" /\ f.pc = "lookup"
       /\ Return(IF LookupSProp(f.cls, f.name) = 0 \/ f.name \notin DOMAIN cells
                  THEN NoCell ELSE cells[f.name])
       /\ UNCHANGED <<propData, sPropData, arrays, nVecs, asserted, cnsVars>>

(* An initializer's user code returns, or creates an object of a class or *)
(* reads a static property, which initializes that class.                 *)
UserReturn ==
    /\ Top.fn = "user"
    /\ Return(NoCell)
    /\ UNCHANGED <<propData, sPropData, arrays, nVecs, asserted, cnsVars>>

UserCall(d) ==
    /\ Top.fn = "user"
    /\ Len(stack) < MaxDepth
    /\ d \in Reachable
    /\ Call(Top, Frame("init", d, "props", ""))
    /\ UNCHANGED <<propData, sPropData, arrays, nVecs, asserted, cnsVars>>

UserGet(d, n) ==
    /\ Top.fn = "user"
    /\ Len(stack) < MaxDepth
    /\ d \in Reachable
    /\ Call(Top, Frame("get", d, "init", n))
    /\ UNCHANGED <<propData, sPropData, arrays, nVecs, asserted, cnsVars>>

-----------------------------------------------------------------------------
(* Class constants.  A constant whose initializer is not a scalar has the *)
(* value NonScalar (KindOfUninit) in m_constants.                          *)
Consts(c) == Linked[c].consts

(* initClsCnsData: c's new array holds m_constants' values; before it is  *)
(* stored, the parent's is made if the parent has none, and so on up the  *)
(* chain.  No user code runs, so this is one step: c and the ancestors    *)
(* up to the first one with data get arrays, c's first.                   *)
RECURSIVE NullChain(_)
NullChain(c) == IF c = 0 \/ cnsData[c] # 0 THEN <<>> ELSE <<c>> \o NullChain(Linked[c].parent)

(* Variant of InitClsCnsData numbering the new arrays from one too high.  *)
InitClsCnsDataPastEnd(c) ==
    LET chain == NullChain(c)
    IN /\ cnsArrays' = cnsArrays \o [k \in DOMAIN chain |->
                          [n \in DOMAIN Consts(chain[k]) |-> Consts(chain[k])[n].val]]
       /\ cnsData' = [d \in ClassIds |->
                          IF \E k \in DOMAIN chain : chain[k] = d
                          THEN Len(cnsArrays) + SelectInSeq(chain, LAMBDA x : x = d) + 1
                          ELSE cnsData[d]]

InitClsCnsData(c) ==
    LET chain == NullChain(c)
    IN /\ cnsArrays' = cnsArrays \o [k \in DOMAIN chain |->
                          [n \in DOMAIN Consts(chain[k]) |-> Consts(chain[k])[n].val]]
       /\ cnsData' = [d \in ClassIds |->
                          IF \E k \in DOMAIN chain : chain[k] = d
                          THEN Len(cnsArrays) + SelectInSeq(chain, LAMBDA x : x = d)
                          ELSE cnsData[d]]

(* The request reads a class constant (clsCnsGet) outside any initializer. *)
EnterCns(c, n) ==
    /\ stack = <<>>
    /\ stack' = <<Frame("cns", c, "find", n)>>
    /\ UNCHANGED <<propData, sPropData, arrays, nVecs, asserted, cnsVars>>

(* clsCnsGet up to the 86cinit call: no such constant returns 0, a scalar *)
(* returns m_constants' value; otherwise the request's array, made by     *)
(* initClsCnsData when getClsCnsData() is NULL, gives the slot, and an    *)
(* Uninit slot is computed by the declaring class's 86cinit, invoked with *)
(* the slot as its return value; a computed slot is returned.             *)
Seen(c, n, v) == cnsSeen' = [cnsSeen EXCEPT ![c][n] = @ \cup {v}]

(* Variant of ClsCnsGet that runs the 86cinit whether or not the slot is *)
(* already computed.                                                      *)
ClsCnsGetNoCache ==
    LET f == Top
        c == f.cls
        n == f.name
    IN /\ f.fn = "cns" /\ f.pc = "find"
       /\ IF n \notin DOMAIN Consts(c) \/ Consts(c)[n].val # NonScalar
          THEN Return(NoCell) /\ UNCHANGED <<cnsData, cnsArrays, cnsSeen>>
          ELSE /\ IF cnsData[c] = 0 THEN InitClsCnsData(c)
                  ELSE UNCHANGED <<cnsData, cnsArrays>>
               /\ Call([f EXCEPT !.pc = "store"], Frame("user", Consts(c)[n].cls, "cinit", n))
               /\ UNCHANGED cnsSeen
       /\ UNCHANGED <<propData, sPropData, arrays, nVecs, asserted, fooDefined>>

ClsCnsGet ==
    LET f == Top
        c == f.cls
        n == f.name
    IN /\ f.fn = "cns" /\ f.pc = "find"
       /\ IF n \notin DOMAIN Consts(c) \/ Consts(c)[n].val # NonScalar
          THEN Return(NoCell) /\ UNCHANGED <<cnsData, cnsArrays, cnsSeen>>
          ELSE /\ IF cnsData[c] = 0 THEN InitClsCnsData(c)
                  ELSE UNCHANGED <<cnsData, cnsArrays>>
               /\ IF cnsData[c] = 0 \/ cnsArrays[cnsData[c]][n] = NonScalar
                  THEN /\ Call([f EXCEPT !.pc = "store"],
                                Frame("user", Consts(c)[n].cls, "cinit", n))
                       /\ UNCHANGED cnsSeen
                  ELSE Return(NoCell) /\ Seen(c, n, cnsArrays[cnsData[c]][n])
       /\ UNCHANGED <<propData, sPropData, arrays, nVecs, asserted, fooDefined>>

(* invokeFunc stores the 86cinit's result, `FOO', in the slot.            *)
ClsCnsStore ==
    LET f == Top IN
    /\ f.fn = "cns" /\ f.pc = "store"
    /\ LET v == IF fooDefined THEN FooDef ELSE FooUndef
       IN /\ cnsArrays' = [cnsArrays EXCEPT ![cnsData[f.cls]][f.name] = v]
          /\ Seen(f.cls, f.name, v)
    /\ Return(NoCell)
    /\ UNCHANGED <<propData, sPropData, arrays, nVecs, asserted, cnsData, fooDefined>>

(* Constants whose slot clsCnsGet is computing: its frame waits in the   *)
(* 86cinit for the slot.                                                  *)
Computing == {<<stack[k].cls, stack[k].name>> :
                  k \in {k \in DOMAIN stack : stack[k].fn = "cns" /\ stack[k].pc = "store"}}

(* User code (the constant expression, or an autoloader it runs) reads a  *)
(* class constant; with UserReentry false, not one being computed.        *)
UserCns(d, n) ==
    /\ Top.fn = "user"
    /\ Len(stack) < MaxDepth
    /\ UserReentry \/ <<d, n>> \notin Computing
    /\ Call(Top, Frame("cns", d, "find", n))
    /\ UNCHANGED <<propData, sPropData, arrays, nVecs, asserted, cnsVars>>

(* The request, or user code it runs, calls define('FOO', ...).           *)
UserDefine ==
    /\ stack = <<>> \/ Top.fn = "user"
    /\ ~fooDefined
    /\ fooDefined' = TRUE
    /\ UNCHANGED <<propData, sPropData, arrays, nVecs, stack, asserted, cnsData, cnsArrays, cnsSeen>>

Init ==
    /\ propData = [c \in ClassIds |-> 0]
    /\ sPropData = [c \in ClassIds |-> 0]
    /\ arrays = <<>>
    /\ nVecs = 0
    /\ stack = <<>>
    /\ asserted = FALSE
    /\ cnsData = [c \in ClassIds |-> 0]
    /\ cnsArrays = <<>>
    /\ fooDefined = FALSE
    /\ cnsSeen = [c \in ClassIds |-> [n \in ConstNames |-> {}]]

Next ==
    \/ \E c \in ClassIds : Enter(c) \/ \E n \in StaticNames : EnterGet(c, n)
    \/ \E c \in ClassIds, n \in ConstNames : EnterCns(c, n) \/ UserCns(c, n)
    \/ ClsCnsGet \/ ClsCnsStore \/ UserDefine
    \/ InitializeProps \/ SetPropData \/ InitializeSProps \/ SetSPropData
    \/ InitPropsRun
    \/ InitSPropsSlot \/ InitSPropsAlias \/ InitSPropsSinit
    \/ GetSPropInit \/ GetSPropLookup
    \/ UserReturn
    \/ \E d \in ClassIds : UserCall(d) \/ \E n \in StaticNames : UserGet(d, n)

Spec == Init /\ [][Next]_vars

-----------------------------------------------------------------------------
Cell == (0..Len(arrays)) \X (StaticNames \cup {""})

TypeOK ==
    /\ propData \in [ClassIds -> 0..nVecs]
    /\ sPropData \in [ClassIds -> 0..Len(arrays)]
    /\ \A a \in DOMAIN arrays : arrays[a].cls \in ClassIds /\ \A n \in DOMAIN arrays[a].cells : arrays[a].cells[n] \in Cell
    /\ Len(stack) <= MaxDepth + 5 * Cardinality(ClassIds)
    /\ asserted \in BOOLEAN
    /\ cnsData \in [ClassIds -> 0..Len(cnsArrays)]
    /\ fooDefined \in BOOLEAN
    /\ cnsSeen \in [ClassIds -> [ConstNames -> SUBSET {FooUndef, FooDef}]]

(* setPropData and setSPropData are never reached with the data already   *)
(* set: initialize() stores a class's per-request data once, however the *)
(* initializers it runs re-enter class initialization.                    *)
NoDoubleInit == ~asserted

(* Spec scenario F at run time: once a class's static array is stored,    *)
(* each of its static properties refers to the storage in the array the  *)
(* declaring class has stored, its own for a static it declares; so a     *)
(* write through the subclass is seen through the parent.                 *)
StaticShared ==
    \A c \in ClassIds : sPropData[c] # 0 =>
        \A k \in 1..NumStatic(c) :
            LET sp == Linked[c].sprops[k]
            IN /\ sp.name \in DOMAIN arrays[sPropData[c]].cells
               /\ arrays[sPropData[c]].cells[sp.name] = <<sPropData[sp.cls], sp.name>>

(* A class constant is constant for the request: every read of it       *)
(* through one class returns the same value, even when the global FOO its *)
(* initializer reads is define()d between the reads.  clsCnsGet caches   *)
(* the computed value in the class's per-request array and returns the   *)
(* cached value once the slot is no longer Uninit.                        *)
ConstantStable ==
    \A c \in ClassIds, n \in ConstNames : Cardinality(cnsSeen[c][n]) <= 1

(* A class constant has one owner, the class that declares it, and so one *)
(* value in a request: reading P::A and, through a subclass, D::A gives   *)
(* the same value, whichever was read first and whether FOO was define()d *)
(* in between.  clsCnsGet keeps the computed value in the array of the   *)
(* class it was called on, not of the declaring class.                    *)
ConstantOneValue ==
    \A c, d \in ClassIds, n \in ConstNames :
        /\ n \in DOMAIN Consts(c) /\ n \in DOMAIN Consts(d)
        /\ Consts(c)[n].cls = Consts(d)[n].cls
        => Cardinality(cnsSeen[c][n] \cup cnsSeen[d][n]) <= 1
=============================================================================
