------------------------------ MODULE ClassLink ------------------------------
(***************************************************************************)
(* Linking a PreClass into a Class: the method, interface, constant and    *)
(* ancestry phases of Class::Class (src/runtime/vm/class.cpp), and the     *)
(* chain composing them with the property phases of ClassProps.          *)
(***************************************************************************)
EXTENDS ClassProps

-----------------------------------------------------------------------------
(* setParent: a final class, an interface or a trait cannot be extended,  *)
(* except a final class by a class carrying __MockClass.                   *)
SetParent(pcId, parent, cls) ==
    \/ parent = 0
    \/ AttrsOf(cls, parent) \cap {"Final", "Interface", "Trait"} = {}
    \/ "Final" \in AttrsOf(cls, parent) /\ PreClass[pcId].mock

(* setUsedTraits: every used trait must be defined and be a trait.        *)
SetUsedTraits(pcId, env, cls) ==
    LET ts == PreClass[pcId].traits
    IN IF \A i \in 1..Len(ts) : env[ts[i]] # 0 /\ "Trait" \in AttrsOf(cls, env[ts[i]])
       THEN [ok |-> TRUE, ids |-> [i \in 1..Len(ts) |-> env[ts[i]]]]
       ELSE Failed

(* Func::parametersCompat, whose code is not in this repository: the       *)
(* overriding method takes at least as many parameters.                    *)
ParametersCompat(method, base) == method.arity >= base.arity

(* Variant of MethodOverrideOK without the access-level check.             *)
MethodOverrideOKNoVis(pcId, parentMethod, method, cls) ==
    \/ method.name \in SpecialMeths
    \/ /\ "Final" \notin parentMethod.attrs \/ PreClass[pcId].mock
       /\ "Abstract" \notin method.attrs
       /\ ("Static" \in method.attrs) = ("Static" \in parentMethod.attrs)

(* methodOverrideOK: may `method' replace `parentMethod' in the table?     *)
MethodOverrideOK(pcId, parentMethod, method, cls) ==
    \/ method.name \in SpecialMeths
    \/ /\ "Final" \notin parentMethod.attrs \/ PreClass[pcId].mock
       /\ "Abstract" \notin method.attrs
       /\ VisVal(method.attrs) <= VisVal(parentMethod.attrs)
       /\ ("Static" \in method.attrs) = ("Static" \in parentMethod.attrs)
       /\ LET bm == cls[parentMethod.base].methods
              baseMethod == bm[IndexOf(bm, method.name)]
          IN "Abstract" \in baseMethod.attrs => ParametersCompat(method, baseMethod)

(* The entry that replaces parentMethod: its base class and whether it     *)
(* has a private ancestor (both setMethods and importTraitMethod).         *)
Overriding(self, parentMethod, f) ==
    [f EXCEPT !.base = IF "Private" \in parentMethod.attrs \/ "Private" \in f.attrs
                       THEN self ELSE parentMethod.base,
              !.privAnc = parentMethod.privAnc \/ "Private" \in parentMethod.attrs]

(* Variant of FirstDeclared that forgets setBaseCls(this).                 *)
FirstDeclaredNoBase(self, f) == [f EXCEPT !.privAnc = FALSE]

FirstDeclared(self, f) == [f EXCEPT !.base = self, !.privAnc = FALSE]

(* One iteration of setMethods' loop over the PreClass's own methods:      *)
(* overlay the inherited entry of the same name, or append.                *)
OverlayMethod(self, pcId, acc, m, cls) ==
    IF ~acc.ok THEN acc
    ELSE LET f == [SourceFunc(pcId, m) EXCEPT !.cls = self]
             i == IndexOf(acc.b, m.name)
         IN IF i = 0 THEN [acc EXCEPT !.b = Append(@, FirstDeclared(self, f))]
            ELSE IF MethodOverrideOK(pcId, acc.b[i], f, cls)
                 THEN [acc EXCEPT !.b[i] = Overriding(self, acc.b[i], f)]
                 ELSE Failed

-----------------------------------------------------------------------------
(* Trait method import (importTraitMethods and the helpers it calls).      *)
(* The name-keyed map m_importMethToTraitMap is a function from method     *)
(* names to sequences of candidates [trait, func, mods]; an empty sequence *)
(* stands for a name the map does not hold.                                *)
NoCandidates == [n \in MethNames |-> <<>>]

(* addImportTraitMethod: special methods are never imported.               *)
AddImportTraitMethod(map, tm, n) ==
    IF n \in SpecialMeths THEN map ELSE [map EXCEPT ![n] = Append(@, tm)]

(* Step 1: every method of every used trait, in trait and slot order.     *)
TraitCandidates(traitIds, cls) ==
    FoldLeft(LAMBDA mp, t :
                FoldLeft(LAMBDA mp2, f :
                            AddImportTraitMethod(mp2, [trait |-> t, func |-> f,
                                                       mods |-> f.attrs], f.name),
                         mp, cls[t].methods),
             NoCandidates, traitIds)

(* Variant of ApplyTraitPrecRule erasing the selected trait's candidate    *)
(* and keeping the excluded ones.                                          *)
ApplyTraitPrecRuleSwapped(map, rule, cls) ==
    LET l       == map[rule.meth]
        tname(c) == NameOf(cls, c.trait)
        names   == {tname(l[i]) : i \in 1..Len(l)}
        kept    == SelectSeq(l, LAMBDA c : tname(c) # rule.selected)
    IN IF /\ l # <<>>
          /\ rule.selected \in names
          /\ rule.others \subseteq names \ {rule.selected}
       THEN [ok |-> TRUE, map |-> [map EXCEPT ![rule.meth] = kept]]
       ELSE Failed

(* Variant of ApplyTraitPrecRule keeping the first trait's candidate,     *)
(* right only when the selected trait is used first.                      *)
ApplyTraitPrecRuleFirst(map, rule, cls) ==
    LET l       == map[rule.meth]
        tname(c) == NameOf(cls, c.trait)
        names   == {tname(l[i]) : i \in 1..Len(l)}
    IN IF /\ l # <<>>
          /\ rule.selected \in names
          /\ rule.others \subseteq names \ {rule.selected}
       THEN [ok |-> TRUE, map |-> [map EXCEPT ![rule.meth] = <<Head(l)>>]]
       ELSE Failed

(* applyTraitPrecRule: `use selected::meth insteadof others'.  Each trait  *)
(* contributes at most one candidate per name before the alias rules run,  *)
(* so erasing the first candidate of each excluded trait erases all.       *)
ApplyTraitPrecRule(map, rule, cls) ==
    LET l       == map[rule.meth]
        tname(c) == NameOf(cls, c.trait)
        names   == {tname(l[i]) : i \in 1..Len(l)}
        kept    == SelectSeq(l, LAMBDA c : tname(c) = rule.selected
                                           \/ tname(c) \notin rule.others)
    IN IF /\ l # <<>>
          /\ rule.selected \in names
          /\ rule.others \subseteq names \ {rule.selected}
       THEN [ok |-> TRUE, map |-> [map EXCEPT ![rule.meth] = kept]]
       ELSE Failed

(* findSingleTraitWithMethod: the one used trait that has the method.      *)
FindSingleTraitWithMethod(traitIds, n, cls) ==
    LET has == {i \in 1..Len(traitIds) : IndexOf(cls[traitIds[i]].methods, n) # 0}
    IN IF Cardinality(has) = 1 THEN traitIds[CHOOSE i \in has : TRUE] ELSE 0

(* setImportTraitMethodModifiers: retarget the modifiers of the first      *)
(* candidate of that trait; operator[] creates the entry if absent.        *)
SetImportTraitMethodModifiers(map, n, traitCls, mods) ==
    LET i == SelectInSeq(map[n], LAMBDA c : c.trait = traitCls)
    IN IF i = 0 THEN map ELSE [map EXCEPT ![n][i].mods = mods]

(* applyTraitAliasRule: `trait::orig as mods new'.  A named trait is      *)
(* resolved with Unit::loadClass, i.e. by what the request has defined     *)
(* under that name, whether the class uses it or not.                      *)
ApplyTraitAliasRule(map, rule, traitIds, env, cls) ==
    LET traitCls == IF rule.trait = None
                    THEN FindSingleTraitWithMethod(traitIds, rule.orig, cls)
                    ELSE env[rule.trait]
    IN IF traitCls = 0 \/ "Trait" \notin AttrsOf(cls, traitCls) THEN Failed
       ELSE LET i == IndexOf(cls[traitCls].methods, rule.orig)
                newMap ==
                  IF rule.orig = rule.new
                  THEN SetImportTraitMethodModifiers(map, rule.orig, traitCls, rule.mods)
                  ELSE AddImportTraitMethod(map,
                         [trait |-> traitCls, func |-> cls[traitCls].methods[i],
                          mods |-> rule.mods], rule.new)
            IN IF i = 0 \/ "Static" \in rule.mods THEN Failed
               ELSE [ok |-> TRUE, map |-> newMap]

(* applyTraitRules: all precedence rules, then all alias rules, in order. *)
ApplyTraitRules(pcId, map0, traitIds, env, cls) ==
    LET pc == PreClass[pcId]
        afterPrec == FoldLeft(LAMBDA acc, r : IF acc.ok THEN ApplyTraitPrecRule(acc.map, r, cls)
                                              ELSE acc,
                              [ok |-> TRUE, map |-> map0], pc.prec)
    IN FoldLeft(LAMBDA acc, r : IF acc.ok THEN ApplyTraitAliasRule(acc.map, r, traitIds, env, cls)
                                ELSE acc,
                afterPrec, pc.alias)

(* removeSpareTraitAbstractMethods: drop the abstract candidates of a name *)
(* that also has a concrete one, and all but the first of several          *)
(* abstract ones.  A candidate is abstract by its modifiers.               *)
RemoveSpareTraitAbstractMethods(map) ==
    [n \in MethNames |->
        LET l == map[n]
            isAbs(i) == "Abstract" \in l[i].mods
            hasNon == \E i \in 1..Len(l) : ~isAbs(i)
            abs == {i \in 1..Len(l) : isAbs(i)}
            firstAbs == IF abs = {} THEN 0 ELSE Min(abs)
            keep(i) == ~isAbs(i) \/ (~hasNon /\ i = firstAbs)
        IN IF hasNon \/ Cardinality(abs) > 1
           THEN FoldLeft(LAMBDA acc, i : IF keep(i) THEN Append(acc, l[i]) ELSE acc,
                         <<>>, [k \in 1..Len(l) |-> k])
           ELSE l]

(* importTraitMethod: put one candidate into the method table.  Explicit   *)
(* modifiers replace the method's attributes except its static bit.        *)
ImportTraitMethod(self, pcId, acc, tm, n, cls) ==
    LET i == IndexOf(acc.b, n)
        mods == IF tm.mods = {} THEN tm.func.attrs
                ELSE (tm.mods \ {"Static"}) \cup (tm.func.attrs \cap {"Static"})
        f == [tm.func EXCEPT !.cls = self, !.name = n, !.attrs = mods]
    IN CASE "Abstract" \in tm.mods /\ i # 0 -> acc
         [] i # 0 /\ acc.b[i].cls = self   -> acc
         [] i = 0 -> [acc EXCEPT !.b = Append(@, FirstDeclared(self, f))]
         [] OTHER -> IF MethodOverrideOK(pcId, acc.b[i], f, cls)
                     THEN [acc EXCEPT !.b[i] = Overriding(self, acc.b[i], f)]
                     ELSE Failed

(* Step 4 of importTraitMethods: import each name that kept exactly one   *)
(* candidate; a name with several is a conflict unless the class declares *)
(* it itself.                                                              *)
ImportCandidates(self, pcId, b, map, cls) ==
    FoldLeft(LAMBDA acc, n :
               CASE ~acc.ok \/ Len(map[n]) = 0 -> acc
                 [] Len(map[n]) > 1 -> IF HasMethod(pcId, n) THEN acc ELSE Failed
                 [] OTHER -> ImportTraitMethod(self, pcId, acc, map[n][1], n, cls),
             [ok |-> TRUE, b |-> b], MethOrder)

(* Steps 3 and 4, once the rules have applied.                             *)
ImportRuled(self, pcId, b, ruled, cls) ==
    IF ruled.ok
    THEN ImportCandidates(self, pcId, b, RemoveSpareTraitAbstractMethods(ruled.map), cls)
    ELSE Failed

(* importTraitMethods: collect, apply the rules, drop spare abstract       *)
(* candidates, then import.                                                *)
ImportTraitMethods(self, pcId, b, traitIds, env, cls) ==
    ImportRuled(self, pcId, b,
                ApplyTraitRules(pcId, TraitCandidates(traitIds, cls), traitIds, env, cls),
                cls)

-----------------------------------------------------------------------------
(* setMethods: copy the parent's table, overlay or append the class's own  *)
(* methods, splice in the trait methods between m_traitsBeginIdx and       *)
(* m_traitsEndIdx, and refuse an abstract entry in a concrete class.       *)
(* Cloning of inherited methods with static locals only gives them fresh   *)
(* storage and Func ids, which no property here tells apart.               *)
(* The end of setMethods, given the trait range start and the table after *)
(* trait import: m_traitsEndIdx, and refuse an abstract entry in a        *)
(* concrete class.                                                         *)
(* Variant without the abstract-in-concrete check.                         *)
MethodsAfterTraitsNoConcreteCheck(pcId, begin, wt) ==
    IF wt.ok
    THEN [ok |-> TRUE, methods |-> wt.b, traitsBegin |-> begin, traitsEnd |-> Len(wt.b)]
    ELSE Failed

MethodsAfterTraits(pcId, begin, wt) ==
    IF /\ wt.ok
       /\ IsConcrete(pcId) => \A i \in 1..Len(wt.b) : "Abstract" \notin wt.b[i].attrs
    THEN [ok |-> TRUE, methods |-> wt.b, traitsBegin |-> begin, traitsEnd |-> Len(wt.b)]
    ELSE Failed

(* After the class's own methods: m_traitsBeginIdx, then trait import when *)
(* the class uses traits.                                                  *)
MethodsAfterOwn(self, pcId, traitIds, env, cls, own) ==
    IF ~own.ok THEN Failed
    ELSE MethodsAfterTraits(pcId, Len(own.b),
            IF Len(traitIds) > 0
            THEN ImportTraitMethods(self, pcId, own.b, traitIds, env, cls)
            ELSE own)

(* setMethods: copy the parent's table, overlay or append the class's own  *)
(* methods, splice in the trait methods between m_traitsBeginIdx and       *)
(* m_traitsEndIdx, and refuse an abstract entry in a concrete class.       *)
(* Cloning of inherited methods with static locals only gives them fresh   *)
(* storage and Func ids, which no property here tells apart.               *)
SetMethods(self, pcId, parent, traitIds, env, cls) ==
    MethodsAfterOwn(self, pcId, traitIds, env, cls,
        FoldLeft(LAMBDA acc, m : OverlayMethod(self, pcId, acc, m, cls),
                 [ok |-> TRUE, b |-> IF parent = 0 THEN <<>> ELSE cls[parent].methods],
                 PreClass[pcId].methods))

-----------------------------------------------------------------------------
(* checkInterfaceMethods: every non-special method of every interface the  *)
(* class implements, directly or not, must be implemented by a             *)
(* method of the same staticness, public if the interface's is, with      *)
(* compatible parameters, and not abstract in a concrete class; a trait,   *)
(* interface or abstract class may leave it out.  `ifaceMeths[i]' is      *)
(* interface i's method table.                                            *)
CheckInterfaceMethods(pcId, meths, allIfaces, ifaceMeths) ==
    \A i \in allIfaces :
      LET im == ifaceMeths[i] IN
      \A k \in 1..Len(im) :
        LET imeth == im[k]
            j == IndexOf(meths, imeth.name)
        IN imeth.name \notin SpecialMeths =>
             IF j = 0 THEN ~IsConcrete(pcId)
             ELSE /\ IsConcrete(pcId) => "Abstract" \notin meths[j].attrs
                  /\ ("Static" \in meths[j].attrs) = ("Static" \in imeth.attrs)
                  /\ "Public" \in imeth.attrs => "Public" \in meths[j].attrs
                  /\ ParametersCompat(meths[j], imeth)

(* setInterfaces: the transitive interface set and the declared ones.      *)
SetInterfaces(self, pcId, parent, meths, env, cls) ==
    LET ns == PreClass[pcId].interfaces
        ok == \A i \in 1..Len(ns) : env[ns[i]] # 0 /\ "Interface" \in AttrsOf(cls, env[ns[i]])
        decl == [i \in 1..Len(ns) |-> env[ns[i]]]
        all == (IF "Interface" \in PreClass[pcId].attrs THEN {self} ELSE {})
               \cup (IF parent = 0 THEN {} ELSE cls[parent].allIfaces)
               \cup UNION {cls[decl[i]].allIfaces : i \in 1..Len(ns)}
        ifaceMeths == [i \in all |-> IF i = self THEN meths ELSE cls[i].methods]
    IN IF ok /\ CheckInterfaceMethods(pcId, meths, all, ifaceMeths)
       THEN [ok |-> TRUE, decl |-> decl, all |-> all]
       ELSE Failed

(* setConstants: the parent's constants, then each declared interface's,   *)
(* refusing a name already inherited from another declaring class, then    *)
(* the class's own, which take the slot over.  A constant is [cls, val].   *)
SetConstants(self, pcId, parent, decl, cls) ==
    LET inherited == IF parent = 0 THEN <<>> ELSE cls[parent].consts
        addIface(acc, i) ==
            LET ic == cls[i].consts IN
            IF ~acc.ok THEN acc
            ELSE IF \E k \in DOMAIN ic \cap DOMAIN acc.k : acc.k[k].cls # ic[k].cls
                 THEN Failed
                 ELSE [ok |-> TRUE, k |-> acc.k @@ ic]
        withIfaces == FoldLeft(addIface, [ok |-> TRUE, k |-> inherited], decl)
        own == PreClass[pcId].consts
    IN IF withIfaces.ok
       THEN [ok |-> TRUE,
             consts |-> [k \in DOMAIN own |-> [cls |-> self, val |-> own[k]]]
                        @@ withIfaces.k]
       ELSE Failed

(* Variant of SetClassVec copying one entry too few of the parent's.       *)
SetClassVecShort(self, parent, cls) ==
    (IF parent = 0 THEN <<>> ELSE Front(cls[parent].classVec)) \o <<self>>

(* setClassVec: the parent's vector with this class appended.              *)
SetClassVec(self, parent, cls) ==
    (IF parent = 0 THEN <<>> ELSE cls[parent].classVec) \o <<self>>

-----------------------------------------------------------------------------
(* Class::Class / Class::newClass: run the phases in order, the first     *)
(* failing one making newClass return NULL.  setSpecial and               *)
(* setODAttributes only cache lookups of magic methods and never fail;    *)
(* they are left out.  Each Link* operator is the rest of the chain after  *)
(* one phase succeeded.                                                    *)
LinkAfterInitializers(self, pcId, parent, tr, ms, ifs, ks, ps, is, cls) ==
    [ok |-> TRUE,
     c |-> [pc |-> pcId, parent |-> parent, usedTraits |-> tr,
            methods |-> ms.methods, traitsBegin |-> ms.traitsBegin,
            traitsEnd |-> ms.traitsEnd, declIfaces |-> ifs.decl,
            allIfaces |-> ifs.all, consts |-> ks.consts,
            props |-> ps.props, propInit |-> ps.init, sprops |-> ps.sprops,
            pinitVec |-> is.pinitVec, sinitVec |-> is.sinitVec,
            needInit |-> is.needInit,
            classVec |-> SetClassVec(self, parent, cls)]]

LinkAfterProperties(self, pcId, parent, tr, ms, ifs, ks, ps, cls) ==
    IF ~ps.ok THEN ps
    ELSE LinkAfterInitializers(self, pcId, parent, tr, ms, ifs, ks, ps,
             SetInitializers(self, parent, ms.methods, tr, ps.sprops, cls), cls)

LinkAfterConstants(self, pcId, parent, tr, ms, ifs, ks, cls) ==
    IF ~ks.ok THEN Failed
    ELSE LinkAfterProperties(self, pcId, parent, tr, ms, ifs, ks,
                             SetProperties(self, pcId, parent, tr, cls), cls)

LinkAfterInterfaces(self, pcId, parent, tr, ms, ifs, cls) ==
    IF ~ifs.ok THEN Failed
    ELSE LinkAfterConstants(self, pcId, parent, tr, ms, ifs,
                            SetConstants(self, pcId, parent, ifs.decl, cls), cls)

LinkAfterMethods(self, pcId, parent, env, tr, ms, cls) ==
    IF ~ms.ok THEN Failed
    ELSE LinkAfterInterfaces(self, pcId, parent, tr, ms,
                             SetInterfaces(self, pcId, parent, ms.methods, env, cls), cls)

LinkAfterTraits(self, pcId, parent, env, tr, cls) ==
    IF ~tr.ok THEN Failed
    ELSE LinkAfterMethods(self, pcId, parent, env, tr.ids,
                          SetMethods(self, pcId, parent, tr.ids, env, cls), cls)

NewClass(self, pcId, parent, env, cls) ==
    IF ~SetParent(pcId, parent, cls) THEN Failed
    ELSE LinkAfterTraits(self, pcId, parent, env, SetUsedTraits(pcId, env, cls), cls)

-----------------------------------------------------------------------------
(* classof(PreClass): this class, then recursively each declared    *)
(* interface, then the parent; the Class* of that PreClass, or 0.          *)
RECURSIVE ClassofPreClass(_, _, _)
ClassofPreClass(cls, id, pcId) ==
    IF id = 0 THEN 0
    ELSE IF cls[id].pc = pcId THEN id
    ELSE LET d == cls[id].declIfaces
             hits == {i \in 1..Len(d) : ClassofPreClass(cls, d[i], pcId) # 0}
         IN IF hits # {} THEN ClassofPreClass(cls, d[Min(hits)], pcId)
            ELSE ClassofPreClass(cls, cls[id].parent, pcId)

(* classof(Class): through the preclass walk when either side is an *)
(* interface or a trait, else in O(1) through the ancestry vector.         *)
Classof(cls, id, other) ==
    IF ({"Interface", "Trait"} \cap AttrsOf(cls, id) # {})
       \/ ({"Interface", "Trait"} \cap AttrsOf(cls, other) # {})
    THEN ClassofPreClass(cls, id, cls[other].pc) = other
    ELSE /\ Len(cls[id].classVec) >= Len(cls[other].classVec)
         /\ cls[id].classVec[Len(cls[other].classVec)] = other
=============================================================================
