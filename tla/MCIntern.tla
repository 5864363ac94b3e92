------------------------------- MODULE MCIntern -------------------------------
(* Three threads interning two strings.                                    *)
EXTENDS Intern, TLC

CONSTANTS T1, T2, T3

MCThreads == {T1, T2, T3}
MCStrs == {"s1", "s2"}

Symmetry == Permutations(MCThreads)
=============================================================================
