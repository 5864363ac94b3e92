----------------------------- MODULE ClassDefine -----------------------------
(***************************************************************************)
(* Defining classes across requests.  Each request thread has its own     *)
(* view of which Class* each name is defined as (the per-request target   *)
(* cache slot of Class::setCached / getCached, zeroed at request start).  *)
(* Every Class ever linked stays on the clsList of its name, so a later    *)
(* request defining the same PreClass may reuse it when Class::avail says  *)
(* its parent, interfaces and traits are the ones now defined; otherwise a *)
(* new Class is linked (ClassLink!NewClass).  Defining is serialized by    *)
(* the class lock, so one definition is one step.                          *)
(***************************************************************************)
EXTENDS ClassLookup

CONSTANTS
    Requests,      \* request threads
    MaxClasses     \* bound on the number of Class objects ever linked

VARIABLES
    classes,       \* Class id -> linked Class record
    clsList,       \* class name -> ids on NamedEntity::clsList, newest first
    env,           \* request -> class name -> Class id defined (0: none)
    crashed        \* history: the process has crashed (and restarted)

vars == <<classes, clsList, env, crashed>>

ClassIds == 1..Len(classes)
NoClasses == [n \in ClassNames |-> 0]

(* A method table entry: a cloned Func with its class, base class and     *)
(* private-ancestor bit (Func::cls, baseCls, hasPrivateAncestor).          *)
IsFunc(f, ids) ==
    /\ f.name \in MethNames /\ f.attrs \subseteq MethFlags /\ f.arity \in Nat
    /\ f.pc \in PreClassIds /\ f.body \in BOOLEAN /\ f.privAnc \in BOOLEAN
    /\ {f.cls, f.base} \subseteq ids

TypeOK ==
    /\ Len(classes) <= MaxClasses
    /\ \A i \in ClassIds :
         LET c == classes[i] IN
         /\ c.pc \in PreClassIds /\ c.parent \in 0..(i - 1)
         /\ \A k \in 1..Len(c.methods) : IsFunc(c.methods[k], 1..i)
         /\ c.traitsBegin <= c.traitsEnd /\ c.traitsEnd = Len(c.methods)
         /\ ToSet(c.usedTraits) \cup ToSet(c.declIfaces) \subseteq 1..(i - 1)
         /\ c.allIfaces \subseteq 1..i
         /\ \A k \in DOMAIN c.consts : k \in ConstNames /\ c.consts[k].cls \in 1..i
                                     /\ c.consts[k].val \in Values
         /\ c.classVec \in Seq(1..i)
         /\ \A k \in 1..Len(c.props) :
              /\ c.props[k].name \in {Blank} \cup PropNames /\ c.props[k].mangled \in PropNames
              /\ c.props[k].attrs \subseteq PropFlags /\ c.props[k].cls \in 1..i
         /\ c.propInit \in Seq(Values) /\ Len(c.propInit) = Len(c.props)
         /\ \A k \in 1..Len(c.sprops) :
              c.sprops[k].attrs \subseteq PropFlags /\ c.sprops[k].cls \in 1..i
              /\ c.sprops[k].val \in Values
         /\ \A f \in ToSet(c.pinitVec) \cup ToSet(c.sinitVec) : f.cls \in 1..i
         /\ c.needInit \in BOOLEAN
    /\ clsList \in [ClassNames -> Seq(ClassIds)]
    /\ env \in [Requests -> [ClassNames -> 0..Len(classes)]]
    /\ crashed \in BOOLEAN

Init ==
    /\ classes = <<>>
    /\ clsList = [n \in ClassNames |-> <<>>]
    /\ env = [r \in Requests |-> NoClasses]
    /\ crashed = FALSE

(* Variant of Avail that does not check the used traits.                  *)
AvailNoTraits(id, parent, e) ==
    LET c == classes[id]
        p == IF parent # 0 \/ c.parent = 0 THEN parent ELSE e[NameOf(classes, c.parent)]
        deps == c.declIfaces
        bad == SelectInSeq(deps, LAMBDA d : e[NameOf(classes, d)] # d)
    IN CASE c.parent # 0 /\ p = 0          -> "Fail"
         [] c.parent # 0 /\ p # c.parent   -> "False"
         [] bad = 0                        -> "True"
         [] e[NameOf(classes, deps[bad])] = 0 -> "Fail"
         [] OTHER                          -> "False"

(* Class::avail(parent): "True" if the candidate's parent, declared        *)
(* interfaces and used traits are the Class* the request has defined under *)
(* their names; "Fail" at the first of them not defined at all; "False" at *)
(* the first defined as another Class*.  A null `parent' argument makes    *)
(* avail look the parent up itself.                                        *)
Avail(id, parent, e) ==
    LET c == classes[id]
        p == IF parent # 0 \/ c.parent = 0 THEN parent ELSE e[NameOf(classes, c.parent)]
        deps == c.declIfaces \o c.usedTraits
        bad == SelectInSeq(deps, LAMBDA d : e[NameOf(classes, d)] # d)
    IN CASE c.parent # 0 /\ p = 0          -> "Fail"
         [] c.parent # 0 /\ p # c.parent   -> "False"
         [] bad = 0                        -> "True"
         [] e[NameOf(classes, deps[bad])] = 0 -> "Fail"
         [] OTHER                          -> "False"

(* The caller of avail (Unit::defClass, not in this repository): walk the  *)
(* name's clsList for a Class of this PreClass; the first one avail does   *)
(* not answer "False" for decides: reuse it, or fail on "Fail".            *)
DefParent(r, pcId) ==
    IF PreClass[pcId].parent = None THEN 0 ELSE env[r][PreClass[pcId].parent]

Candidate(r, pcId) ==
    LET l == clsList[PreClass[pcId].name]
    IN SelectInSeq(l, LAMBDA i : classes[i].pc = pcId
                                 /\ Avail(i, DefParent(r, pcId), env[r]) # "False")

CanDefine(r, pcId) ==
    /\ env[r][PreClass[pcId].name] = 0
    /\ PreClass[pcId].parent = None \/ DefParent(r, pcId) # 0

(* A fatal error ends the request; the next one starts with nothing       *)
(* defined.                                                                *)
Fatal(r) ==
    /\ env' = [env EXCEPT ![r] = NoClasses]
    /\ UNCHANGED <<classes, clsList, crashed>>

(* A crash ends the process: every request and every linked Class is      *)
(* gone, and the restarted process starts from nothing.                    *)
Restart ==
    /\ classes' = <<>>
    /\ clsList' = [n \in ClassNames |-> <<>>]
    /\ env' = [r \in Requests |-> NoClasses]
    /\ crashed' = TRUE

(* Defining a class whose parent is not defined is fatal.                  *)
DefineUndefinedParent(r, pcId) ==
    /\ env[r][PreClass[pcId].name] = 0
    /\ PreClass[pcId].parent # None /\ DefParent(r, pcId) = 0
    /\ Fatal(r)

(* A Class from an earlier definition is available: setCached only.        *)
DefineReuse(r, pcId) ==
    LET i == Candidate(r, pcId)
        id == clsList[PreClass[pcId].name][i]
    IN /\ CanDefine(r, pcId)
       /\ i # 0
       /\ Avail(id, DefParent(r, pcId), env[r]) = "True"
       /\ env' = [env EXCEPT ![r][PreClass[pcId].name] = id]
       /\ UNCHANGED <<classes, clsList, crashed>>

(* The first candidate's dependency is not defined at all: fatal.          *)
DefineUnavailable(r, pcId) ==
    LET i == Candidate(r, pcId)
    IN /\ CanDefine(r, pcId)
       /\ i # 0
       /\ Avail(clsList[PreClass[pcId].name][i], DefParent(r, pcId), env[r]) = "Fail"
       /\ Fatal(r)

(* No candidate: Class::newClass links a new Class, puts it on the list   *)
(* and defines it; a link failure is fatal and the Class is freed at once *)
(* (it never reached the list).  A crash inside the link restarts the     *)
(* process.                                                                *)
DefineLinked(r, pcId, res) ==
    LET n == PreClass[pcId].name
    IN \/ /\ res.ok
          /\ classes' = Append(classes, res.c)
          /\ clsList' = [clsList EXCEPT ![n] = <<Len(classes) + 1>> \o @]
          /\ env' = [env EXCEPT ![r][n] = Len(classes) + 1]
          /\ UNCHANGED crashed
       \/ /\ ~res.ok /\ ~res.crash
          /\ Fatal(r)
       \/ /\ ~res.ok /\ res.crash
          /\ Restart

DefineNew(r, pcId) ==
    /\ CanDefine(r, pcId)
    /\ Candidate(r, pcId) = 0
    /\ Len(classes) < MaxClasses
    /\ DefineLinked(r, pcId, NewClass(Len(classes) + 1, pcId, DefParent(r, pcId), env[r], classes))

(* The request ends; the next one on this thread starts with a zeroed     *)
(* target cache (TargetCache::requestInit).                               *)
EndRequest(r) ==
    /\ env[r] # NoClasses
    /\ env' = [env EXCEPT ![r] = NoClasses]
    /\ UNCHANGED <<classes, clsList, crashed>>

Next ==
    \E r \in Requests :
        \/ EndRequest(r)
        \/ \E p \in PreClassIds :
              \/ DefineUndefinedParent(r, p)
              \/ DefineReuse(r, p)
              \/ DefineUnavailable(r, p)
              \/ DefineNew(r, p)

Spec == Init /\ [][Next]_vars

-----------------------------------------------------------------------------
(* Ancestry law: the ancestry vector of every Class holds each ancestor at *)
(* that ancestor's own depth, and the O(1) classof(Class) answers exactly *)
(* "is the other class this one or one of its ancestors" for classes.     *)
RECURSIVE Ancestors(_)
Ancestors(id) == IF id = 0 THEN {} ELSE {id} \cup Ancestors(classes[id].parent)

AncestryLaw ==
    \A i \in ClassIds :
      /\ Len(classes[i].classVec) = Cardinality(Ancestors(i))
      /\ \A a \in Ancestors(i) : classes[i].classVec[Len(classes[a].classVec)] = a
      /\ \A j \in ClassIds : Classof(classes, i, j) = (j \in Ancestors(i)
                              \/ \E k \in Ancestors(i) : j \in classes[k].allIfaces)

(* No narrowing: wherever a linked class has a method of the same name as  *)
(* its parent, it is at least as visible and of the same staticness; and   *)
(* every public method of an interface it implements is public in it when *)
(* it implements it.  Own methods, trait imports and aliases all meet      *)
(* methodOverrideOK / checkInterfaceMethods on the way.                    *)
NoNarrowing ==
    \A i \in ClassIds :
      LET c == classes[i] IN
      /\ c.parent # 0 =>
           \A k \in 1..Len(classes[c.parent].methods) :
             LET pm == classes[c.parent].methods[k]
                 j == IndexOf(c.methods, pm.name)
             IN pm.name \notin SpecialMeths =>
                  /\ VisVal(c.methods[j].attrs) <= VisVal(pm.attrs)
                  /\ ("Static" \in c.methods[j].attrs) = ("Static" \in pm.attrs)
      /\ \A f \in c.allIfaces \ {i} :
           \A k \in 1..Len(classes[f].methods) :
             LET im == classes[f].methods[k]
                 j == IndexOf(c.methods, im.name)
             IN (im.name \notin SpecialMeths /\ j # 0 /\ "Public" \in im.attrs)
                  => "Public" \in c.methods[j].attrs

(* Trait precedence: for every `T::meth insteadof ...' rule of a linked   *)
(* class that does not declare meth itself, the class's meth is T's,      *)
(* whatever the order the traits are used in and whatever the other rules *)
(* and the parent contribute.                                              *)
TraitPrecedence ==
    \A i \in ClassIds :
      LET pc == classes[i].pc
          ms == classes[i].methods
      IN \A k \in 1..Len(PreClass[pc].prec) :
           LET rule == PreClass[pc].prec[k]
               j == IndexOf(ms, rule.meth)
           IN ~HasMethod(pc, rule.meth) =>
                j # 0 /\ PreClass[ms[j].pc].name = rule.selected

(* A concrete linked class has no abstract method, and implements every    *)
(* method of every interface it implements.                                *)
ConcreteComplete ==
    \A i \in ClassIds :
      IsConcrete(classes[i].pc) =>
        LET ms == classes[i].methods IN
        /\ \A k \in 1..Len(ms) : "Abstract" \notin ms[k].attrs
        /\ \A f \in classes[i].allIfaces :
             \A k \in 1..Len(classes[f].methods) :
               classes[f].methods[k].name \notin SpecialMeths =>
                 IndexOf(ms, classes[f].methods[k].name) # 0

(* Every method of a concrete linked class has a body.                    *)
ConcreteHasBodies ==
    \A i \in ClassIds :
      IsConcrete(classes[i].pc) =>
        \A k \in 1..Len(classes[i].methods) : classes[i].methods[k].body

(* A fresh link result equal to the Class id.                             *)
SameAsFresh(id, res) == res.ok /\ res.c = classes[id]

(* Reuse is sound: whatever a request has defined under a name is the      *)
(* class a fresh link of its PreClass against what the request has now     *)
(* defined would produce, slot for slot.                                   *)
ReuseSound ==
    \A r \in Requests, n \in ClassNames :
      env[r][n] # 0 =>
        SameAsFresh(env[r][n], NewClass(env[r][n], classes[env[r][n]].pc,
                                        classes[env[r][n]].parent, env[r], classes))

-----------------------------------------------------------------------------
(* Static alias (the spec's scenario F): a static property a class       *)
(* declares itself or gets from a trait is its own storage; one it only    *)
(* inherits is the storage of the parent's slot, so a write through either *)
(* class is seen through the other; and whoever owns a slot holds it as   *)
(* its own (setProperties' aliasing and overlay, the trait import, and     *)
(* initSProps' getSProp on the declaring class).                           *)
OwnStatic(i, n) ==
    \/ PreHasProp(classes[i].pc, n)
    \/ \E t \in ToSet(classes[i].usedTraits) : PropIndex(classes[t].sprops, n) # 0

StaticAlias ==
    \A i \in ClassIds : \A k \in 1..Len(classes[i].sprops) :
      LET sp == classes[i].sprops[k]
          p  == classes[i].parent
          j  == PropIndex(classes[sp.cls].sprops, sp.name)
          pj == IF p = 0 THEN 0 ELSE PropIndex(classes[p].sprops, sp.name)
      IN /\ j # 0 /\ classes[sp.cls].sprops[j].cls = sp.cls
         /\ IF OwnStatic(i, sp.name) THEN sp.cls = i
            ELSE pj # 0 /\ sp.cls = classes[p].sprops[pj].cls

(* No kind flip: no linked class has an accessible instance property and  *)
(* a static property of the same name (setProperties' two redeclaration   *)
(* checks and the trait property import).                                  *)
NoKindFlip ==
    \A i \in ClassIds : \A k \in 1..Len(classes[i].props) :
      classes[i].props[k].name # Blank =>
        PropIndex(classes[i].sprops, classes[i].props[k].name) = 0

(* No property narrowing: every accessible instance or static property of *)
(* the parent is a property of the same kind in the child, at least as    *)
(* visible, whatever the child and its traits declare; and a property the *)
(* class declares itself has the visibility it declares, whichever slot    *)
(* it took over.                                                           *)
PropNoNarrowing ==
    \A i \in ClassIds :
      LET p == classes[i].parent
          pre == PreClass[classes[i].pc].props
      IN /\ p # 0 =>
              /\ \A k \in 1..Len(classes[p].props) :
                   LET pp == classes[p].props[k]
                       j == PropIndex(classes[i].props, pp.name)
                   IN "Private" \notin pp.attrs =>
                        j # 0 /\ VisVal(classes[i].props[j].attrs) <= VisVal(pp.attrs)
              /\ \A k \in 1..Len(classes[p].sprops) :
                   LET sp == classes[p].sprops[k]
                       j == PropIndex(classes[i].sprops, sp.name)
                   IN "Private" \notin sp.attrs =>
                        j # 0 /\ VisVal(classes[i].sprops[j].attrs) <= VisVal(sp.attrs)
         /\ \A k \in 1..Len(pre) :
              LET tbl == IF "Static" \in pre[k].attrs THEN classes[i].sprops ELSE classes[i].props
              IN tbl[PropIndex(tbl, pre[k].name)].attrs = pre[k].attrs

(* The PHP meaning of an access to property key of an object of class i   *)
(* from context ctx: ctx's own private property of that name when ctx is  *)
(* i or an ancestor of it, otherwise i's accessible property of that name, *)
(* accessible when public, when protected and ctx is related to its        *)
(* declaring class, or when ctx declared it.                               *)
NoProp == [cls |-> 0, mangled |-> Blank, accessible |-> FALSE]

Related(a, b) == a \in Ancestors(b) \/ b \in Ancestors(a)

RefDeclProp(i, ctx, key) ==
    LET k == PropIndex(classes[i].props, key)
    IN IF /\ ctx # 0 /\ ctx \in Ancestors(i)
          /\ \E m \in 1..Len(classes[ctx].props) :
               /\ classes[ctx].props[m].name = key
               /\ classes[ctx].props[m].cls = ctx
               /\ "Private" \in classes[ctx].props[m].attrs
       THEN [cls |-> ctx, mangled |-> key, accessible |-> TRUE]
       ELSE IF k = 0 THEN NoProp
       ELSE [cls |-> classes[i].props[k].cls, mangled |-> classes[i].props[k].mangled,
             accessible |-> \/ "Public" \in classes[i].props[k].attrs
                            \/ ctx = classes[i].props[k].cls
                            \/ /\ "Protected" \in classes[i].props[k].attrs
                               /\ ctx # 0 /\ Related(ctx, classes[i].props[k].cls)]

(* The property of class i the slot getDeclPropIndex returned names.      *)
SlotProp(i, r) ==
    IF r.slot = 0 \/ r.slot > Len(classes[i].props) THEN NoProp
    ELSE [cls |-> classes[i].props[r.slot].cls, mangled |-> classes[i].props[r.slot].mangled,
          accessible |-> r.accessible]

(* getDeclPropIndex is sound: for every linked class, context and name,    *)
(* the slot it returns, read in the object's class's table (as callers do *)
(* even when the slot came from ctx's table), is the property PHP's rules *)
(* select, with the right accessibility.                                   *)
GetDeclPropIndexSound ==
    \A i \in ClassIds, key \in PropNames :
      \A ctx \in {0} \cup {c \in ClassIds : "Interface" \notin AttrsOf(classes, c)} :
        SlotProp(i, GetDeclPropIndex(classes, i, ctx, key)) = RefDeclProp(i, ctx, key)

(* Linking never crashes the process: every link either succeeds or fails *)
(* with the error setProperties and its trait import mean to raise.       *)
LinkNeverCrashes == ~crashed
=============================================================================
