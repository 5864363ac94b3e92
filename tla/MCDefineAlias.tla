---------------------------- MODULE MCDefineAlias ----------------------------
(***************************************************************************)
(* Two trait alias rules of ClassDefine, each checked on its own:          *)
(*  - StalePreClass: K uses T1 only, but its rule `T2::x as y' names T2,  *)
(*    declared by two units in two versions;                               *)
(*  - AbstractPreClass: K uses T3, whose method a is abstract, and makes   *)
(*    it protected with the rule `T3::a as protected'.                     *)
(***************************************************************************)
EXTENDS ClassDefine, TLC

CONSTANTS R1, R2, NoName

MCRequests == {R1, R2}
MCClassNames == {"T1", "T2", "T3", "K"}
MCMethNames == {"a", "m", "x", "y"}
MCMethOrder == <<"a", "m", "x", "y">>

Meth(n, a) == [name |-> n, attrs |-> a, arity |-> 0]

Tmpl(n, a, ts, ms, alias) ==
    [name |-> n, attrs |-> a, mock |-> FALSE, parent |-> NoName, interfaces |-> <<>>,
     traits |-> ts, methods |-> ms, prec |-> <<>>, alias |-> alias, consts |-> <<>>,
     props |-> <<>>]

PreT1  == Tmpl("T1", {"Trait"}, <<>>, <<Meth("m", {"Public"})>>, <<>>)
PreT2a == Tmpl("T2", {"Trait"}, <<>>, <<Meth("x", {"Public"})>>, <<>>)
PreT2b == Tmpl("T2", {"Trait"}, <<>>, <<Meth("x", {"Private"})>>, <<>>)
PreKStale == Tmpl("K", {}, <<"T1">>, <<>>,
                  <<[trait |-> "T2", orig |-> "x", new |-> "y", mods |-> {}]>>)

PreT3 == Tmpl("T3", {"Trait"}, <<>>, <<Meth("a", {"Public", "Abstract"})>>, <<>>)
PreKAbstract == Tmpl("K", {}, <<"T3">>, <<>>,
                     <<[trait |-> "T3", orig |-> "a", new |-> "a", mods |-> {"Protected"}]>>)

StalePreClass == <<PreT1, PreT2a, PreT2b, PreKStale>>
AbstractPreClass == <<PreT3, PreKAbstract>>

MCMaxClasses == 4

Symmetry == Permutations(MCRequests)
=============================================================================
