------------------------------ MODULE PropCache ------------------------------
(***************************************************************************)
(* The property caches of translated code (targetcache.cpp): PropCache,   *)
(* PropNameCache, PropCtxCache and PropCtxNameCache, chosen per site by   *)
(* propLookupPrep and propSetPrep, and their lookup and set.              *)
(*                                                                         *)
(* One request reads and assigns properties of objects of linked classes  *)
(* through a set of sites, each with its own cache.  A site's context    *)
(* class and property name are fixed when the translator knows them      *)
(* statically, and vary otherwise.  As in MethodCache, the line a key    *)
(* selects is modelled and every key is taken to select it.  A cache     *)
(* line holds a key and the offset of a declared property, which is its  *)
(* slot in the class's declared-property table.                          *)
(*                                                                         *)
(* Instance::propW, Instance::setProp and unset are not in this           *)
(* repository; they are modelled from PHP's semantics on top of          *)
(* Class::getDeclPropIndex (ClassLookup): an accessible declared slot,   *)
(* __get/__set for an unset or inaccessible one, the object's dynamic    *)
(* properties for an undeclared name.  A value is abstracted to whether  *)
(* the slot is set; __get and __set are user code whose effect is not    *)
(* followed.                                                              *)
(***************************************************************************)
EXTENDS ClassLookup

CONSTANTS
    Linked,         \* the linked classes, ids 1..Len(Linked)
    Objs,           \* the objects a request creates
    ObjClass,       \* the class id of each object
    PNames,         \* the property names code uses
    PSites          \* [op ("get"/"set"), cs, ns ("static"/"dyn"), ctx, name]

ClassIds == DOMAIN Linked
Ctxs == {0} \cup ClassIds

VARIABLES
    classes,        \* the request's linked classes (Linked), never changed here
    decl,           \* getDeclPropIndex's results on them, never changed here
    objs,           \* per object: [set (per declared slot, not unset), dyn (dynamic names)]
    line,           \* per site, the cache line: [key, off] (off 0: m_value empty)
    acc             \* history: the last access, [st, res, ref], or NoAcc

pvars == <<classes, decl, objs, line, acc>>

NoKey == [cls |-> 0, ctx |-> 0, name |-> ""]
EmptyLine == [key |-> NoKey, off |-> 0]
NoAcc == [st |-> "none"]

NumSlots(c) == Len(classes[c].props)

(* A new object: every declared property holds its default.              *)
NewObj(o) == [set |-> [i \in 1..NumSlots(ObjClass[o]) |-> TRUE], dyn |-> {}]

HasMagic(c, m) == IndexOf(classes[c].methods, m) # 0

(* getDeclPropIndex for every class, context and name.                   *)
DeclTable(cls) == [c \in ClassIds, ctx \in Ctxs, n \in PNames |-> GetDeclPropIndex(cls, c, ctx, n)]

-----------------------------------------------------------------------------
(* The outcomes of an access: the declared slot i, read or written; a     *)
(* notice with null (raiseUndefProp, null_variant); __get or __set; a    *)
(* dynamic property; a fatal access error.                               *)
Slot(i) == [k |-> "slot", i |-> i]
Notice == [k |-> "notice", i |-> 0]
Magic == [k |-> "magic", i |-> 0]
Dyn == [k |-> "dyn", i |-> 0]
Fatal == [k |-> "fatal", i |-> 0]

(* Instance::propW, not in this repository: what reading property n of   *)
(* an object of class c, in state ob, from context ctx gives.            *)
PropW(c, ob, ctx, n) ==
    LET r == decl[c, ctx, n] IN
    CASE r.slot # 0 /\ r.accessible /\ ob.set[r.slot] -> Slot(r.slot)
      [] r.slot # 0 /\ r.accessible /\ HasMagic(c, "__get") -> Magic
      [] r.slot # 0 /\ r.accessible -> Notice
      [] r.slot # 0 /\ HasMagic(c, "__get") -> Magic
      [] r.slot # 0 -> Fatal
      [] n \in ob.dyn -> Dyn
      [] HasMagic(c, "__get") -> Magic
      [] OTHER -> Notice

(* Instance::setProp, not in this repository: what assigning property n  *)
(* does.  It returns the slot exactly when the property is declared.     *)
SetProp(c, ob, ctx, n) ==
    LET r == decl[c, ctx, n] IN
    CASE r.slot # 0 /\ r.accessible /\ ~ob.set[r.slot] /\ HasMagic(c, "__set") -> Magic
      [] r.slot # 0 /\ r.accessible -> Slot(r.slot)
      [] r.slot # 0 /\ HasMagic(c, "__set") -> Magic
      [] r.slot # 0 -> Fatal
      [] n \notin ob.dyn /\ HasMagic(c, "__set") -> Magic
      [] OTHER -> Dyn

(* The object after an assignment with outcome res.                      *)
Assigned(ob, n, res) ==
    CASE res.k = "slot" -> [ob EXCEPT !.set[res.i] = TRUE]
      [] res.k = "dyn" -> [ob EXCEPT !.dyn = @ \cup {n}]
      [] OTHER -> ob

-----------------------------------------------------------------------------
(* Mutant: PropCtxCache's key without the context class.                 *)
KeyOfNoCtx(st, c, ctx, n) ==
    [cls |-> c,
     ctx |-> IF st.cs = "dyn" /\ st.ns = "dyn" THEN ctx ELSE 0,
     name |-> IF st.ns = "dyn" THEN n ELSE ""]

(* The key a site's cache compares, Key(c, fp, name): the class only for *)
(* PropCache (static context and name), with the name for PropNameCache, *)
(* the context for PropCtxCache, and both for PropCtxNameCache.          *)
KeyOf(st, c, ctx, n) ==
    [cls |-> c,
     ctx |-> IF st.cs = "dyn" THEN ctx ELSE 0,
     name |-> IF st.ns = "dyn" THEN n ELSE ""]

(* The context and name an access at st may have.                        *)
CtxAt(st) == IF st.cs = "static" THEN {st.ctx} ELSE Ctxs
NameAt(st) == IF st.ns = "static" THEN {st.name} ELSE PNames

Hit(st, c, ctx, n) == line[st].key = KeyOf(st, c, ctx, n)

(* Mutant: the line is filled whatever propW or setProp returned.       *)
FilledAlways(st, c, ctx, n, res) ==
    [line EXCEPT ![st] = [key |-> KeyOf(st, c, ctx, n), off |-> res.i]]

(* The line after a miss whose outcome is res: filled (name incRef'd and *)
(* the old key destroyed) when res is a declared slot, else unchanged.   *)
Filled(st, c, ctx, n, res) ==
    IF res.k = "slot"
    THEN [line EXCEPT ![st] = [key |-> KeyOf(st, c, ctx, n), off |-> res.i]]
    ELSE line

-----------------------------------------------------------------------------
PInit ==
    /\ classes = Linked
    /\ decl = DeclTable(classes)
    /\ objs = [o \in Objs |-> NewObj(o)]
    /\ line = [st \in PSites |-> EmptyLine]
    /\ acc = NoAcc

(* requestInit zeroes the target cache; the next request has new objects. *)
PNewRequest ==
    /\ objs' = [o \in Objs |-> NewObj(o)]
    /\ line' = [st \in PSites |-> EmptyLine]
    /\ acc' = NoAcc
    /\ UNCHANGED <<classes, decl>>

(* The access's outcome res and, beside it, ref: what propW or setProp   *)
(* gives, uncached, in the state the access started in.                  *)
Record(st, o, ctx, n, res) ==
    acc' = [st |-> st, res |-> res,
            ref |-> IF st.op = "get" THEN PropW(ObjClass[o], objs[o], ctx, n)
                    ELSE SetProp(ObjClass[o], objs[o], ctx, n)]

(* PropCacheBase::lookup.  A hit reads the object at the cached offset,  *)
(* raising the undefined-property notice when that slot was unset.  A   *)
(* miss calls propW and caches the offset when the result is a declared *)
(* slot; a fatal error ends the request.                                 *)
PropLookup(st, o, ctx, n) ==
    LET c == ObjClass[o]
        res == PropW(c, objs[o], ctx, n)
    IN /\ st.op = "get"
       /\ IF Hit(st, c, ctx, n)
          THEN /\ Record(st, o, ctx, n, IF objs[o].set[line[st].off] THEN Slot(line[st].off)
                                         ELSE Notice)
               /\ UNCHANGED <<classes, decl, objs, line>>
          ELSE IF res = Fatal THEN PNewRequest
          ELSE /\ line' = Filled(st, c, ctx, n, res)
               /\ Record(st, o, ctx, n, res)
               /\ UNCHANGED <<classes, decl, objs>>

(* PropCacheBase::set.  A hit returns the slot at the cached offset, and *)
(* translated code stores the value there.  A miss calls setProp and    *)
(* caches the offset when it returned the declared slot.                 *)
PropSet(st, o, ctx, n) ==
    LET c == ObjClass[o]
        res == IF Hit(st, c, ctx, n) THEN Slot(line[st].off) ELSE SetProp(c, objs[o], ctx, n)
    IN /\ st.op = "set"
       /\ IF res = Fatal THEN PNewRequest
          ELSE /\ objs' = [objs EXCEPT ![o] = Assigned(@, n, res)]
               /\ line' = IF Hit(st, c, ctx, n) THEN line ELSE Filled(st, c, ctx, n, res)
               /\ Record(st, o, ctx, n, res)
               /\ UNCHANGED <<classes, decl>>

(* unset($o->n), not through the caches and not in this repository: an  *)
(* accessible declared property becomes unset, a dynamic one is removed. *)
UnsetProp(o, ctx, n) ==
    LET r == decl[ObjClass[o], ctx, n]
        ob == objs[o]
    IN /\ \/ r.slot # 0 /\ r.accessible /\ ob.set[r.slot]
          \/ r.slot = 0 /\ n \in ob.dyn
       /\ objs' = [objs EXCEPT ![o] = IF r.slot # 0 THEN [ob EXCEPT !.set[r.slot] = FALSE]
                                      ELSE [ob EXCEPT !.dyn = @ \ {n}]]
       /\ acc' = NoAcc
       /\ UNCHANGED <<classes, decl, line>>

PNext ==
    \/ \E st \in PSites, o \in Objs :
         \E ctx \in CtxAt(st), n \in NameAt(st) : PropLookup(st, o, ctx, n) \/ PropSet(st, o, ctx, n)
    \/ \E o \in Objs, ctx \in Ctxs, n \in PNames : UnsetProp(o, ctx, n)
    \/ PNewRequest

PSpec == PInit /\ [][PNext]_pvars

-----------------------------------------------------------------------------
MaxSlots == Max({NumSlots(c) : c \in ClassIds})
Outcome == {Slot(i) : i \in 1..MaxSlots} \cup {Notice, Magic, Dyn}
ObjState(o) == [set : [1..Len(Linked[ObjClass[o]].props) -> BOOLEAN], dyn : SUBSET PNames]

(* Types, and a filled line holds a class's key and a non-zero offset.  *)
PropTypeOK ==
    /\ classes = Linked
    /\ decl \in [ClassIds \X Ctxs \X PNames -> [slot : 0..MaxSlots, accessible : BOOLEAN]]
    /\ \A o \in Objs : objs[o] \in ObjState(o)
    /\ \A st \in PSites :
         \/ line[st] = EmptyLine
         \/ /\ line[st].key.cls \in ClassIds /\ line[st].key.ctx \in Ctxs
            /\ line[st].off \in 1..NumSlots(line[st].key.cls)
    /\ acc = NoAcc \/ (acc.st \in PSites /\ acc.res \in Outcome /\ acc.ref \in Outcome)

(* The caches are transparent: every read through a site gives what     *)
(* propW gives for the object's class and state, the context and the     *)
(* name, and every assignment does what setProp does, whichever keys     *)
(* the site's line held before and whatever was unset since it was      *)
(* filled.                                                               *)
PropCacheAgrees == acc # NoAcc => acc.res = acc.ref
=============================================================================
