---------------------------- MODULE MCNameCaches ----------------------------
(***************************************************************************)
(* One request looking up three names through two-line caches:           *)
(*   class A (id 1), interface B (id 2), and C, which nothing defines;     *)
(*   function A (declared as `A') and function C, and no function B.      *)
(* The names are used through five string objects: sA and sA2 both hold  *)
(* "A" (a literal and a computed copy), sa holds "a", sB "B" and sC "C".  *)
(* "A" and "B" have the same hash, so they share a line and are told      *)
(* apart only by their characters.                                        *)
(***************************************************************************)
EXTENDS NameCaches

MCStrs == {"sA", "sA2", "sa", "sB", "sC"}
MCText == [s \in MCStrs |-> CASE s \in {"sA", "sA2"} -> "A"
                              [] s = "sa" -> "a"
                              [] s = "sB" -> "B"
                              [] s = "sC" -> "C"]
MCHashOf == [t \in {"A", "a", "B", "C"} |-> CASE t \in {"A", "B"} -> 4
                                              [] t = "a" -> 1
                                              [] t = "C" -> 2]
MCEnt == [t \in {"A", "a", "B", "C"} |-> CASE t \in {"A", "a"} -> "a"
                                           [] t = "B" -> "b"
                                           [] t = "C" -> "c"]
MCDecl == [e \in {"a", "b", "c"} |-> CASE e = "a" -> 1 [] e = "b" -> 2 [] e = "c" -> 0]
MCKind == [c \in {1, 2} |-> IF c = 1 THEN "class" ELSE "interface"]
MCFuncDecl == {"a", "c"}
MCFuncName == [e \in MCFuncDecl |-> IF e = "a" THEN "sA" ELSE "sC"]
=============================================================================
