------------------------------- MODULE MCProps -------------------------------
(***************************************************************************)
(* Property linking under ClassDefine, two requests.                       *)
(*  - PropsPreClass: class P with public, protected (non-scalar), private  *)
(*    instance properties and public, protected, private statics; trait T *)
(*    with a private, a protected (non-scalar) and a static property;     *)
(*    class K extends P use T, weakening P's protected $b, shadowing P's   *)
(*    private $p and redeclaring P's static $t; class Q extends K; class   *)
(*    R extends P redeclaring P's static $s as an instance property; class *)
(*    S extends P narrowing P's public $a to protected; class C use T      *)
(*    redeclaring T's static $ts.                                          *)
(*  - FlipPreClass: class KF extends P uses trait TF, whose instance       *)
(*    property $s has the name of P's static $s.                           *)
(*  - WalkPreClass: class PX uses trait TX's instance property $x; class  *)
(*    KX extends PX declares a static $x.                                  *)
(*  - AssertPreClass: T and C alone.                                       *)
(***************************************************************************)
EXTENDS ClassDefine, TLC

CONSTANTS R1, R2, NoName

MCRequests == {R1, R2}
MCClassNames == {"P", "T", "K", "Q", "R", "S", "C", "TF", "KF", "TX", "PX", "KX"}
MCMethNames == {"86ctor", "86pinit", "86sinit"}
MCSpecialMeths == MCMethNames
MCMethOrder == <<"86ctor", "86pinit", "86sinit">>
MCValues == {"v1", "v2", NonScalar}

Meth(n) == [name |-> n, attrs |-> {"Public"}, arity |-> 0]
Prop(n, a, v) == [name |-> n, attrs |-> a, val |-> v]

(* Every class has a generated 86ctor, and an 86pinit when one of its     *)
(* instance properties has a non-scalar initializer.                       *)
Tmpl(n, a, par, ts, ps, pinit) ==
    [name |-> n, attrs |-> a, mock |-> FALSE, parent |-> par, interfaces |-> <<>>,
     traits |-> ts,
     methods |-> <<Meth("86ctor")>> \o (IF pinit THEN <<Meth("86pinit")>> ELSE <<>>),
     prec |-> <<>>, alias |-> <<>>, consts |-> <<>>, props |-> ps]

PreP == Tmpl("P", {}, NoName, <<>>,
             <<Prop("a", {"Public"}, "v1"), Prop("b", {"Protected"}, NonScalar),
               Prop("p", {"Private"}, "v1"), Prop("s", {"Public", "Static"}, "v1"),
               Prop("t", {"Protected", "Static"}, "v1"),
               Prop("u", {"Private", "Static"}, "v1")>>, TRUE)
PreT == Tmpl("T", {"Trait"}, NoName, <<>>,
             <<Prop("q", {"Private"}, "v1"), Prop("r", {"Protected"}, NonScalar),
               Prop("ts", {"Public", "Static"}, "v1")>>, TRUE)
PreK == Tmpl("K", {}, "P", <<"T">>,
             <<Prop("b", {"Public"}, "v2"), Prop("p", {"Private"}, "v2"),
               Prop("t", {"Public", "Static"}, "v2")>>, FALSE)
PreQ == Tmpl("Q", {}, "K", <<>>, <<Prop("q", {"Protected"}, "v1")>>, FALSE)
PreR == Tmpl("R", {}, "P", <<>>, <<Prop("s", {"Public"}, "v1")>>, FALSE)
PreS == Tmpl("S", {}, "P", <<>>, <<Prop("a", {"Protected"}, "v1")>>, FALSE)
PreC == Tmpl("C", {}, NoName, <<"T">>, <<Prop("ts", {"Public", "Static"}, "v1")>>, FALSE)

PreTF == Tmpl("TF", {"Trait"}, NoName, <<>>, <<Prop("s", {"Public"}, "v1")>>, FALSE)
PreKF == Tmpl("KF", {}, "P", <<"TF">>, <<>>, FALSE)

PreTX == Tmpl("TX", {"Trait"}, NoName, <<>>, <<Prop("x", {"Public"}, "v1")>>, FALSE)
PrePX == Tmpl("PX", {}, NoName, <<"TX">>, <<>>, FALSE)
PreKX == Tmpl("KX", {}, "PX", <<>>, <<Prop("x", {"Public", "Static"}, "v1")>>, FALSE)

PropsPreClass  == <<PreP, PreT, PreK, PreQ, PreR, PreS, PreC>>
FlipPreClass   == <<PreP, PreTF, PreKF>>
WalkPreClass   == <<PreTX, PrePX, PreKX>>
AssertPreClass == <<PreT, PreC>>

MCMaxClasses == 4

Symmetry == Permutations(MCRequests)
=============================================================================
