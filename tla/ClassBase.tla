------------------------------ MODULE ClassBase ------------------------------
(***************************************************************************)
(* Linking a PreClass into a Class: the constructor Class::Class of        *)
(* src/runtime/vm/class.cpp and the set* phases it runs in order.          *)
(*                                                                         *)
(* A PreClass (the per-unit class template) is a record of PreClass[p]:    *)
(*   name, attrs (subset of ClassAttrs), mock (carries __MockClass),       *)
(*   parent (a class name or None), interfaces and traits (sequences of    *)
(*   names), methods (sequence of [name, attrs, arity]), prec and alias    *)
(*   (trait rules), consts (function ConstName -> value), props (sequence *)
(*   of [name, attrs, val], names unique as PreClassEmitter::addProperty   *)
(*   enforces; "Static" in attrs for a static property).                    *)
(* A linked Class is a record; classes are referred to by positive ids,    *)
(* the id 0 is the NULL Class*.  `cls' is the sequence of linked classes   *)
(* indexed by id, `env' maps each class name to the Class* the current     *)
(* request has defined for it (Unit::loadClass), 0 when there is none.     *)
(*                                                                         *)
(* Attributes are sets of flags, as the Attr bitmask is: a modifier set    *)
(* of {} is AttrNone.                                                      *)
(***************************************************************************)
EXTENDS Integers, Sequences, SequencesExt, FiniteSets

CONSTANTS
    ClassNames,     \* names classes, interfaces and traits are declared under
    MethNames,      \* method names
    SpecialMeths,   \* the method names Func::isSpecial accepts (86ctor, ...)
    MethOrder,      \* iteration order of the name-keyed trait method map
    ConstNames,     \* class constant names
    Values,         \* constant and property initial values
    NonScalar,      \* the KindOfUninit initial value of a property whose
                    \* initializer is not a scalar (set by 86pinit/86sinit)
    PreClass,       \* PreClass ids -> PreClass records
    None            \* no parent / the empty trait name of an alias rule

ASSUME None \notin ClassNames
ASSUME SpecialMeths \subseteq MethNames
ASSUME NonScalar \in Values
ASSUME ToSet(MethOrder) = MethNames /\ Len(MethOrder) = Cardinality(MethNames)

PreClassIds == DOMAIN PreClass

ClassAttrs == {"Abstract", "Final", "Interface", "Trait"}
VisFlags   == {"Public", "Protected", "Private"}
MethFlags  == VisFlags \cup {"Static", "Abstract", "Final"}
PropFlags  == VisFlags \cup {"Static"}

(* The numeric value of attrs & (AttrPublic|AttrProtected|AttrPrivate);    *)
(* the code compares these masks with > (AttrPublic < AttrProtected <      *)
(* AttrPrivate).                                                           *)
VisVal(a) == (IF "Public" \in a THEN 1 ELSE 0)
           + (IF "Protected" \in a THEN 2 ELSE 0)
           + (IF "Private" \in a THEN 4 ELSE 0)

(* A phase's result when it returns true (failure): with failIsFatal the  *)
(* error is raised, ending the request.  Crash is a failure that takes     *)
(* the process down instead (a NULL dereference or a failed ASSERT).       *)
Failed == [ok |-> FALSE, crash |-> FALSE]
Crash  == [ok |-> FALSE, crash |-> TRUE]

(* A PreClass that is neither a trait, an interface nor abstract.          *)
IsConcrete(pcId) ==
    PreClass[pcId].attrs \cap {"Trait", "Interface", "Abstract"} = {}

AttrsOf(cls, id) == PreClass[cls[id].pc].attrs
NameOf(cls, id)  == PreClass[cls[id].pc].name

(* Index of the method named n in a method table, 0 if there is none      *)
(* (MethodMap::find / lookupMethod).                                       *)
IndexOf(meths, n) == SelectInSeq(meths, LAMBDA f : f.name = n)

(* A Func of the PreClass pcId, before it is cloned into a Class.  `body'  *)
(* records whether the bytecode has a body, i.e. the declaration was not   *)
(* abstract; cloning and re-attributing a Func never changes it.           *)
SourceFunc(pcId, m) ==
    [name |-> m.name, attrs |-> m.attrs, arity |-> m.arity, pc |-> pcId,
     body |-> "Abstract" \notin m.attrs, cls |-> 0, base |-> 0,
     privAnc |-> FALSE]

HasMethod(pcId, n) == \E i \in 1..Len(PreClass[pcId].methods) :
                          PreClass[pcId].methods[i].name = n

=============================================================================
