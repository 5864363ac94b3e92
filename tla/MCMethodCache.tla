---------------------------- MODULE MCMethodCache ----------------------------
(***************************************************************************)
(* One call site `$o->f()' executed on objects of five linked classes:    *)
(*   class A { private function f() {} }                                   *)
(*   class B extends A { public function f() {} }                          *)
(*   class C extends A { }                                                 *)
(*   class D { public function f() {} public function __call($n, $a) {} }  *)
(*     (or with __call declared first)                                     *)
(*   class E { public function __call($n, $a) {} protected function f() {} } *)
(* The calls are `$o->f()' in code outside any class and in a method of  *)
(* each class.  With MCPreClass, f is at the same slot of every class, so *)
(* wouldCall finds a candidate for each class at the slot of another     *)
(* class's f; MCPreClassApart declares D's __call before its f, at the   *)
(* slot of E's __call.                                                    *)
(***************************************************************************)
EXTENDS MethodCache, TLC

CONSTANTS NoName

MCClassNames == {"A", "B", "C", "D", "E"}
MCMethNames == {"86ctor", "f", "__call"}
MCSpecialMeths == {"86ctor"}
MCMethOrder == <<"86ctor", "f", "__call">>
MCValues == {"v1", NonScalar}

Meth(n, a) == [name |-> n, attrs |-> a, arity |-> 0]

Tmpl(n, par, ms) ==
    [name |-> n, attrs |-> {}, mock |-> FALSE, parent |-> par, interfaces |-> <<>>,
     traits |-> <<>>, methods |-> <<Meth("86ctor", {"Public"})>> \o ms,
     prec |-> <<>>, alias |-> <<>>, consts |-> <<>>, props |-> <<>>]

(* The five classes, D declaring f then __call (aligned) or the other    *)
(* way round.                                                             *)
Classes(aligned) ==
    <<Tmpl("A", NoName, <<Meth("f", {"Private"})>>),
      Tmpl("B", "A", <<Meth("f", {"Public"})>>),
      Tmpl("C", "A", <<>>),
      Tmpl("D", NoName, IF aligned THEN <<Meth("f", {"Public"}), Meth("__call", {"Public"})>>
                        ELSE <<Meth("__call", {"Public"}), Meth("f", {"Public"})>>),
      Tmpl("E", NoName, <<Meth("__call", {"Public"}), Meth("f", {"Protected"})>>)>>

MCPreClass == Classes(TRUE)
MCPreClassApart == Classes(FALSE)

NoEnv == [n \in MCClassNames |-> 0]

ParentId == <<0, 1, 1, 0, 0>>
LinkAll == FoldLeft(LAMBDA acc, p : Append(acc, NewClass(p, p, ParentId[p], NoEnv, acc).c),
                    <<>>, <<1, 2, 3, 4, 5>>)

MCLinked == LinkAll

MCSites == {[ctx |-> x, name |-> "f"] : x \in 0..5}
MCSitesA == {[ctx |-> 1, name |-> "f"]}
=============================================================================
