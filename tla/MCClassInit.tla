------------------------------ MODULE MCClassInit ------------------------------
(***************************************************************************)
(* One request initializing four linked classes:                          *)
(*   class P { public $a = <non-scalar>; public static $s = <non-scalar>; } *)
(*   class D extends P { public static $t = 1; }                           *)
(*   class E extends D { }                                                 *)
(*   class U { const A = FOO; public static $u = <non-scalar>; }           *)
(* P has an 86pinit and an 86sinit, U an 86sinit and an 86cinit.  D's $s *)
(* and E's $s and $t alias the declaring class's storage.  The classes   *)
(* are linked by ClassLink's NewClass.  MCClassInitCns reads constants    *)
(* through a chain of subclasses.                                         *)
(***************************************************************************)
EXTENDS ClassInit, TLC

CONSTANTS NoName

MCClassNames == {"P", "D", "E", "U"}
MCMethNames == {"86ctor", "86pinit", "86sinit", "86cinit"}
MCConstNames == {"A"}
MCSpecialMeths == MCMethNames
MCMethOrder == <<"86ctor", "86pinit", "86sinit", "86cinit">>
MCValues == {"v1", NonScalar}

Meth(n) == [name |-> n, attrs |-> {"Public"}, arity |-> 0]
Prop(n, a, v) == [name |-> n, attrs |-> a, val |-> v]

Tmpl(n, par, ms, ks, ps) ==
    [name |-> n, attrs |-> {}, mock |-> FALSE, parent |-> par, interfaces |-> <<>>,
     traits |-> <<>>, methods |-> <<Meth("86ctor")>> \o ms,
     prec |-> <<>>, alias |-> <<>>, consts |-> ks, props |-> ps]

MCPreClass ==
    <<Tmpl("P", NoName, <<Meth("86pinit"), Meth("86sinit")>>, <<>>,
           <<Prop("a", {"Public"}, NonScalar), Prop("s", {"Public", "Static"}, NonScalar)>>),
      Tmpl("D", "P", <<>>, <<>>, <<Prop("t", {"Public", "Static"}, "v1")>>),
      Tmpl("E", "D", <<>>, <<>>, <<>>),
      Tmpl("U", NoName, <<Meth("86sinit"), Meth("86cinit")>>, "A" :> NonScalar, <<Prop("u", {"Public", "Static"}, NonScalar)>>)>>

NoEnv == [n \in MCClassNames |-> 0]

(* Each PreClass linked in order against the classes before it; the      *)
(* parent of each is the class linked just before it, or none.            *)
ParentId == <<0, 1, 2, 0>>
LinkAll == FoldLeft(LAMBDA acc, p : Append(acc, NewClass(p, p, ParentId[p], NoEnv, acc).c),
                    <<>>, <<1, 2, 3, 4>>)

MCLinked == LinkAll
=============================================================================
