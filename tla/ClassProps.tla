------------------------------ MODULE ClassProps ------------------------------
(***************************************************************************)
(* The property phases of Class::Class: setProperties (with the trait      *)
(* property import it ends with) and setInitializers.                      *)
(*                                                                         *)
(* A declared instance property of a linked Class is [name, mangled,      *)
(* attrs, cls], cls the first class to declare it (Prop::m_class); an     *)
(* inaccessible slot (a private property of an ancestor) has the blank     *)
(* name "" but keeps its mangled name, abstracted to the declared name.    *)
(* Its initial value is at the same index of propInit (m_declPropInit).    *)
(* A static property is [name, attrs, cls, val]; an entry whose cls is     *)
(* another class aliases that class's storage (val is then NonScalar, the  *)
(* code's TV_WRITE_UNINIT).  Mangled names and doc comments only serve     *)
(* reflection and are left out.  AttrNoExpandTrait is never set.          *)
(* PropNames is the set of declared property names.                        *)
(***************************************************************************)
EXTENDS ClassBase

Blank == ""

PropNames == UNION {{PreClass[q].props[k].name : k \in 1..Len(PreClass[q].props)} : q \in PreClassIds}

(* findIndex on a property table, 0 if absent.  A blank slot is never     *)
(* found by a declared name.                                               *)
PropIndex(props, n) == SelectInSeq(props, LAMBDA p : p.name = n)

(* PreClass::hasProp.                                                      *)
PreHasProp(pcId, n) == \E i \in 1..Len(PreClass[pcId].props) :
                          PreClass[pcId].props[i].name = n

(* Variant of InheritedProps keeping the names of private properties.     *)
InheritedPropsNoBlank(parent, cls) == IF parent = 0 THEN <<>> ELSE cls[parent].props

(* The parent's declared properties, its private ones made inaccessible.  *)
InheritedProps(parent, cls) ==
    IF parent = 0 THEN <<>>
    ELSE [i \in 1..Len(cls[parent].props) |->
            IF "Private" \in cls[parent].props[i].attrs
            THEN [cls[parent].props[i] EXCEPT !.name = Blank]
            ELSE cls[parent].props[i]]

(* The parent's non-private static properties, aliased.                    *)
AliasSProps(ps) == [i \in 1..Len(ps) |-> [ps[i] EXCEPT !.val = NonScalar]]

InheritedSProps(parent, cls) ==
    IF parent = 0 THEN <<>>
    ELSE AliasSProps(SelectSeq(cls[parent].sprops, LAMBDA p : "Private" \notin p.attrs))

(* The walk of the fatal error path for a static redeclaring an instance  *)
(* property: from the parent upwards to the first class whose PreClass     *)
(* declares the name; 0 when it runs off the top (the code then            *)
(* dereferences NULL).                                                     *)
RECURSIVE NonStaticDeclarer(_, _, _)
NonStaticDeclarer(c, n, cls) ==
    IF c = 0 THEN 0
    ELSE IF PreHasProp(cls[c].pc, n) THEN c
    ELSE NonStaticDeclarer(cls[c].parent, n, cls)

(* Variants of AddOwnInstanceProp without the static-to-instance check,   *)
(* and without the access-level check.                                     *)
AddOwnInstancePropNoKindCheck(self, parent, acc, pp, cls) ==
    LET i == PropIndex(acc.props, pp.name)
    IN IF "Private" \notin pp.attrs /\ i # 0 THEN [acc EXCEPT !.init[i] = pp.val]
       ELSE [acc EXCEPT !.props = Append(@, [name |-> pp.name, mangled |-> pp.name,
                                             attrs |-> pp.attrs, cls |-> self]),
                        !.init = Append(@, pp.val)]

AddOwnInstancePropNoAccessCheck(self, parent, acc, pp, cls) ==
    IF PropIndex(acc.sprops, pp.name) # 0 THEN Failed
    ELSE AddOwnInstancePropNoKindCheck(self, parent, acc, pp, cls)

(* One own instance property: no static of that name, no stronger access  *)
(* than the parent's property; a private one is appended, a protected or  *)
(* public one overlays the accessible slot of that name (a public one      *)
(* weakening a protected slot) or is appended.                             *)
AddOwnInstanceProp(self, parent, acc, pp, cls) ==
    LET pj == IF parent = 0 THEN 0 ELSE PropIndex(cls[parent].props, pp.name)
        i  == PropIndex(acc.props, pp.name)
    IN CASE PropIndex(acc.sprops, pp.name) # 0 -> Failed
         [] pj # 0 /\ VisVal(pp.attrs) > VisVal(cls[parent].props[pj].attrs) -> Failed
         [] "Private" \notin pp.attrs /\ i # 0 ->
              [acc EXCEPT !.props[i].attrs =
                            IF "Public" \in pp.attrs /\ "Protected" \in @
                            THEN (@ \ {"Protected"}) \cup {"Public"} ELSE @,
                          !.init[i] = pp.val]
         [] OTHER ->
              [acc EXCEPT !.props = Append(@, [name |-> pp.name, mangled |-> pp.name,
                                               attrs |-> pp.attrs, cls |-> self]),
                          !.init = Append(@, pp.val)]

(* One own static property: no accessible instance property of that name  *)
(* (whose error message first looks for the declaring ancestor), no       *)
(* stronger access than the inherited static; it takes the inherited      *)
(* slot over, with this class as its declarer, or is appended.             *)
(* Variant of AddOwnStaticProp whose overlay keeps the inherited declarer. *)
AddOwnStaticPropKeepDeclarer(self, parent, acc, pp, cls) ==
    LET i == PropIndex(acc.sprops, pp.name)
    IN IF i # 0 THEN [acc EXCEPT !.sprops[i].attrs = pp.attrs, !.sprops[i].val = pp.val]
       ELSE [acc EXCEPT !.sprops = Append(@, [name |-> pp.name, attrs |-> pp.attrs,
                                              cls |-> self, val |-> pp.val])]

AddOwnStaticProp(self, parent, acc, pp, cls) ==
    LET i == PropIndex(acc.sprops, pp.name)
        sp == [name |-> pp.name, attrs |-> pp.attrs, cls |-> self, val |-> pp.val]
    IN CASE PropIndex(acc.props, pp.name) # 0 ->
              IF NonStaticDeclarer(parent, pp.name, cls) = 0 THEN Crash ELSE Failed
         [] i # 0 /\ VisVal(pp.attrs) > VisVal(acc.sprops[i].attrs) -> Failed
         [] i # 0 -> [acc EXCEPT !.sprops[i] = sp]
         [] OTHER -> [acc EXCEPT !.sprops = Append(@, sp)]

AddOwnProp(self, parent, acc, pp, cls) ==
    IF ~acc.ok THEN acc
    ELSE IF "Static" \in pp.attrs THEN AddOwnStaticProp(self, parent, acc, pp, cls)
    ELSE AddOwnInstanceProp(self, parent, acc, pp, cls)

-----------------------------------------------------------------------------
(* compatibleTraitPropInit: same scalar value; a non-scalar initializer    *)
(* (KindOfUninit) is never compatible.                                     *)
CompatibleTraitPropInit(v1, v2) == v1 = v2 /\ v1 # NonScalar

(* Variant of ImportTraitInstanceProp that forgets m_declPropInit.        *)
ImportTraitInstancePropNoInit(self, acc, tp, tv) ==
    IF PropIndex(acc.props, tp.name) = 0
    THEN [acc EXCEPT !.props = Append(@, [tp EXCEPT !.cls = self])]
    ELSE acc

(* importTraitInstanceProp: a new name is appended as declared by this     *)
(* class; a known one must have the same attributes and a compatible       *)
(* initial value.  Static properties of that name are not looked at.       *)
ImportTraitInstanceProp(self, acc, tp, tv) ==
    LET i == PropIndex(acc.props, tp.name)
    IN IF i = 0
       THEN [acc EXCEPT !.props = Append(@, [tp EXCEPT !.cls = self]),
                        !.init = Append(@, tv)]
       ELSE IF acc.props[i].attrs # tp.attrs \/ ~CompatibleTraitPropInit(acc.init[i], tv)
            THEN Failed
            ELSE acc

(* getStaticPropInitVal: the initial value in the declaring class's own    *)
(* static table.  That table is created at the end of setProperties, so   *)
(* for a property this class already declares the lookup finds no slot    *)
(* and ASSERT(s != kInvalidSlot) fails.                                    *)
(* Variant of GetStaticPropInitVal that looks in this class's own table.  *)
GetStaticPropInitValOwnTable(self, prop, cls) == [found |-> FALSE]

GetStaticPropInitVal(self, prop, cls) ==
    IF prop.cls = self THEN [found |-> FALSE]
    ELSE [found |-> TRUE,
          val |-> cls[prop.cls].sprops[PropIndex(cls[prop.cls].sprops, prop.name)].val]

(* The redeclared branch of importTraitStaticProp, given the previous     *)
(* declaration's slot and its initial value.                               *)
RedeclareTraitStaticProp(self, acc, i, tp, prev) ==
    CASE ~prev.found -> Crash
      [] acc.sprops[i].attrs # tp.attrs \/ ~CompatibleTraitPropInit(tp.val, prev.val) -> Failed
      [] OTHER -> [acc EXCEPT !.sprops[i].cls = self, !.sprops[i].val = prev.val]

(* importTraitStaticProp: refused over an instance property of that name; *)
(* a new name is appended as declared by this class.                       *)
ImportTraitStaticProp(self, acc, tp, cls) ==
    LET i == PropIndex(acc.sprops, tp.name)
    IN CASE PropIndex(acc.props, tp.name) # 0 -> Failed
         [] i = 0 -> [acc EXCEPT !.sprops = Append(@, [tp EXCEPT !.cls = self])]
         [] OTHER -> RedeclareTraitStaticProp(self, acc, i, tp,
                                              GetStaticPropInitVal(self, acc.sprops[i], cls))

(* importTraitProps: per used trait, its instance properties, then its     *)
(* static ones, stopping at the first failure.                             *)
ImportTraitProps(self, acc0, traitIds, cls) ==
    FoldLeft(LAMBDA acc, t :
               FoldLeft(LAMBDA a2, k :
                          IF a2.ok THEN ImportTraitStaticProp(self, a2, cls[t].sprops[k], cls)
                          ELSE a2,
                        FoldLeft(LAMBDA a1, k :
                                   IF a1.ok
                                   THEN ImportTraitInstanceProp(self, a1, cls[t].props[k],
                                                                cls[t].propInit[k])
                                   ELSE a1,
                                 acc, [k \in 1..Len(cls[t].props) |-> k]),
                        [k \in 1..Len(cls[t].sprops) |-> k]),
             acc0, traitIds)

(* setProperties: the inherited tables, the own properties in declaration *)
(* order, then the trait properties.                                       *)
PropsAfterOwn(self, traitIds, cls, own) ==
    IF own.ok THEN ImportTraitProps(self, own, traitIds, cls) ELSE own

SetProperties(self, pcId, parent, traitIds, cls) ==
    PropsAfterOwn(self, traitIds, cls,
        FoldLeft(LAMBDA acc, pp : AddOwnProp(self, parent, acc, pp, cls),
                 [ok |-> TRUE, props |-> InheritedProps(parent, cls),
                  init |-> IF parent = 0 THEN <<>> ELSE cls[parent].propInit,
                  sprops |-> InheritedSProps(parent, cls)],
                 PreClass[pcId].props))

-----------------------------------------------------------------------------
(* An initializer method is identified by its class and name, as the     *)
(* Func pointer identifies it.                                            *)
InitFuncs(ms, n, cond) ==
    LET i == IndexOf(ms, n)
    IN IF i # 0 /\ cond[ms[i].cls] THEN <<[cls |-> ms[i].cls, name |-> n]>> ELSE <<>>

(* addTraitPropInitializers: each used trait's initializers not yet in the *)
(* vector, in order.                                                       *)
AddTraitPropInitializers(vec, traitIds, field, cls) ==
    FoldLeft(LAMBDA v, t :
               FoldLeft(LAMBDA v2, f : IF f \in ToSet(v2) THEN v2 ELSE Append(v2, f),
                        v, cls[t][field]),
             vec, traitIds)

(* The vectors setInitializers ends with, and m_needInitialization.       *)
Initializers(pinit, sinit, sprops) ==
    [pinitVec |-> pinit, sinitVec |-> sinit, needInit |-> pinit # <<>> \/ sprops # <<>>]

(* setInitializers: the parent's 86pinit vector, this class's 86pinit as   *)
(* lookupMethod finds it (inherited or not), the traits'; for statics only *)
(* a 86sinit of this class itself, then the traits'.                       *)
SetInitializers(self, parent, ms, traitIds, sprops, cls) ==
    Initializers(
        AddTraitPropInitializers((IF parent = 0 THEN <<>> ELSE cls[parent].pinitVec)
                                    \o InitFuncs(ms, "86pinit", [c \in 0..self |-> TRUE]),
                                 traitIds, "pinitVec", cls),
        AddTraitPropInitializers(InitFuncs(ms, "86sinit", [c \in 0..self |-> c = self]),
                                 traitIds, "sinitVec", cls),
        sprops)
=============================================================================
