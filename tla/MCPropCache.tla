----------------------------- MODULE MCPropCache -----------------------------
(***************************************************************************)
(* One request reading, assigning and unsetting properties of objects of  *)
(*   class A { private $x; }                                               *)
(*   class B extends A { public $x; }                                      *)
(*   class M { public $x; function __get($n) {} function __set($n, $v) {} } *)
(* through one site of each cache: PropCache (`$o->x' outside any class), *)
(* PropCtxCache (`$o->x' in code whose class is known only at run time),  *)
(* PropNameCache (`$o->$n' in a method of A) and PropCtxNameCache         *)
(* (`$o->$n = v' with both dynamic).  B's table holds A's private $x      *)
(* (blanked) at slot 1 and its own $x at slot 2, so the slot for `x'      *)
(* depends on the context.  `z' is declared nowhere.                      *)
(***************************************************************************)
EXTENDS PropCache, TLC

CONSTANTS NoName, oA, oB, oM

MCClassNames == {"A", "B", "M"}
MCMethNames == {"86ctor", "__get", "__set"}
MCSpecialMeths == {"86ctor"}
MCMethOrder == <<"86ctor", "__get", "__set">>
MCValues == {"v1", NonScalar}

Meth(n, ar) == [name |-> n, attrs |-> {"Public"}, arity |-> ar]
Prop(n, a) == [name |-> n, attrs |-> a, val |-> "v1"]

Tmpl(n, par, ms, ps) ==
    [name |-> n, attrs |-> {}, mock |-> FALSE, parent |-> par, interfaces |-> <<>>,
     traits |-> <<>>, methods |-> <<Meth("86ctor", 0)>> \o ms,
     prec |-> <<>>, alias |-> <<>>, consts |-> <<>>, props |-> ps]

MCPreClass ==
    <<Tmpl("A", NoName, <<>>, <<Prop("x", {"Private"})>>),
      Tmpl("B", "A", <<>>, <<Prop("x", {"Public"})>>),
      Tmpl("M", NoName, <<Meth("__get", 1), Meth("__set", 2)>>, <<Prop("x", {"Public"})>>)>>

NoEnv == [n \in MCClassNames |-> 0]

ParentId == <<0, 1, 0>>
MCLinked == FoldLeft(LAMBDA acc0, p : Append(acc0, NewClass(p, p, ParentId[p], NoEnv, acc0).c),
                     <<>>, <<1, 2, 3>>)

(* Objects of A and B; MCObjsMagic adds one of M.                        *)
MCObjs == {oA, oB}
MCObjsMagic == {oA, oB, oM}
MCObjClass == [o \in MCObjsMagic |-> CASE o = oA -> 1 [] o = oB -> 2 [] OTHER -> 3]

MCPNames == {"x", "z"}

Site(op, cs, ns, ctx, n) == [op |-> op, cs |-> cs, ns |-> ns, ctx |-> ctx, name |-> n]
MCPSites ==
    {Site("get", "static", "static", 0, "x"),
     Site("get", "dyn", "static", 0, "x"),
     Site("get", "static", "dyn", 1, ""),
     Site("set", "dyn", "dyn", 0, "")}
=============================================================================
