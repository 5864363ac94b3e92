---------------------------- MODULE MCClassInitCns ----------------------------
(***************************************************************************)
(* One request reading the class constants of three linked classes:       *)
(*   class P { const A = FOO; const K = 1; }                               *)
(*   class D extends P { }                                                 *)
(*   class E extends D { }                                                 *)
(* A's initializer reads the global constant FOO, which the request or    *)
(* user code may define() at any point; P has the 86cinit computing it.   *)
(* The user code an 86cinit runs (the expression, or the autoloader it     *)
(* triggers) may read constants of any class.                             *)
(***************************************************************************)
EXTENDS ClassInit, TLC

CONSTANTS NoName

MCClassNames == {"P", "D", "E"}
MCMethNames == {"86ctor", "86cinit"}
MCSpecialMeths == MCMethNames
MCMethOrder == <<"86ctor", "86cinit">>
MCConstNames == {"A", "K"}
MCValues == {"v1", NonScalar}

Meth(n) == [name |-> n, attrs |-> {"Public"}, arity |-> 0]

Tmpl(n, par, ms, ks) ==
    [name |-> n, attrs |-> {}, mock |-> FALSE, parent |-> par, interfaces |-> <<>>,
     traits |-> <<>>, methods |-> <<Meth("86ctor")>> \o ms,
     prec |-> <<>>, alias |-> <<>>, consts |-> ks, props |-> <<>>]

MCPreClass ==
    <<Tmpl("P", NoName, <<Meth("86cinit")>>, ("A" :> NonScalar) @@ ("K" :> "v1")),
      Tmpl("D", "P", <<>>, <<>>),
      Tmpl("E", "D", <<>>, <<>>)>>

NoEnv == [n \in MCClassNames |-> 0]

(* Each PreClass linked in order, against the class linked before it.     *)
LinkAll == FoldLeft(LAMBDA acc, p : Append(acc, NewClass(p, p, p - 1, NoEnv, acc).c),
                    <<>>, <<1, 2, 3>>)

MCLinked == LinkAll
=============================================================================
