------------------------------ MODULE MCDefine ------------------------------
(***************************************************************************)
(* Model of ClassDefine: two requests defining, in any order, an interface *)
(* I, traits T1 and T2 (T2 in two versions, as two units declaring it),   *)
(* a class P implementing I, a class K extending P that uses T1 and T2    *)
(* with a precedence and an alias rule (K in two versions, using T1, T2  *)
(* and T2, T1), and a class Q using T1 alone.                             *)
(* P declares an instance $a and a static $ts, which T1 declares too, so  *)
(* K takes T1's $ts over P's; class S extends K declares $a static, and   *)
(* its link fails after looking for $a's declarer through K and P.        *)
(***************************************************************************)
EXTENDS ClassDefine, TLC

CONSTANTS R1, R2, NoName

MCRequests == {R1, R2}
MCClassNames == {"I", "T1", "T2", "P", "K", "Q", "S"}
MCMethNames == {"86ctor", "f", "g", "h", "m", "m2"}
MCSpecialMeths == {"86ctor"}
MCMethOrder == <<"86ctor", "f", "g", "h", "m", "m2">>
MCConstNames == {"c"}
MCValues == {"v1", NonScalar}

Meth(n, a, k) == [name |-> n, attrs |-> a, arity |-> k]
Prop(n, a, v) == [name |-> n, attrs |-> a, val |-> v]
TS == Prop("ts", {"Public", "Static"}, "v1")

Tmpl(n, a, par, ifs, ts, ms, prec, alias, ks) ==
    [name |-> n, attrs |-> a, mock |-> FALSE, parent |-> par, interfaces |-> ifs,
     traits |-> ts, methods |-> ms, prec |-> prec, alias |-> alias, consts |-> ks,
     props |-> <<>>]

PreI   == Tmpl("I", {"Interface"}, NoName, <<>>, <<>>,
               <<Meth("g", {"Public", "Abstract"}, 1)>>, <<>>, <<>>, "c" :> "v1")
PreT1  == [Tmpl("T1", {"Trait"}, NoName, <<>>, <<>>,
               <<Meth("m", {"Public"}, 0), Meth("h", {"Public", "Abstract"}, 0)>>,
               <<>>, <<>>, <<>>) EXCEPT !.props = <<TS>>]
(* T2 as first declared, implementing T1's abstract h ...                  *)
PreT2a == Tmpl("T2", {"Trait"}, NoName, <<>>, <<>>,
               <<Meth("m", {"Public"}, 0), Meth("h", {"Public"}, 0)>>, <<>>, <<>>, <<>>)
(* ... and as redeclared with a protected h, narrower than P's.           *)
PreT2b == Tmpl("T2", {"Trait"}, NoName, <<>>, <<>>,
               <<Meth("m", {"Protected"}, 0), Meth("h", {"Protected"}, 0)>>,
               <<>>, <<>>, <<>>)
PreP   == [Tmpl("P", {}, NoName, <<"I">>, <<>>,
               <<Meth("86ctor", {"Public"}, 0), Meth("f", {"Protected"}, 0),
                 Meth("g", {"Public"}, 1), Meth("h", {"Public"}, 0)>>, <<>>, <<>>, <<>>)
            EXCEPT !.props = <<Prop("a", {"Public"}, "v1"), TS>>]
(* A concrete class left with T1's abstract h.                            *)
PreQ   == Tmpl("Q", {}, NoName, <<>>, <<"T1">>, <<>>, <<>>, <<>>, <<>>)
PreK   == Tmpl("K", {}, "P", <<>>, <<"T1", "T2">>,
               <<Meth("86ctor", {"Public"}, 0), Meth("f", {"Public"}, 0)>>,
               <<[meth |-> "m", selected |-> "T1", others |-> {"T2"}]>>,
               <<[trait |-> "T1", orig |-> "m", new |-> "m2", mods |-> {"Protected"}]>>,
               <<>>)

PreS   == [Tmpl("S", {}, "K", <<>>, <<>>, <<>>, <<>>, <<>>, <<>>)
            EXCEPT !.props = <<Prop("a", {"Public", "Static"}, "v1")>>]

(* K as declared by a second unit, using the traits in the other order.   *)
PreKb  == [PreK EXCEPT !.traits = <<"T2", "T1">>]

MCPreClass == <<PreI, PreT1, PreT2a, PreT2b, PreP, PreK, PreKb, PreQ, PreS>>

MCMaxClasses == 7

Symmetry == Permutations(MCRequests)
=============================================================================
