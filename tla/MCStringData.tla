----------------------------- MODULE MCStringData -----------------------------
(***************************************************************************)
(* Two threads; strings of at most two bytes over the digit 1 and a      *)
(* blank; setChar offsets up to 1; an APC entry holding 1; and the       *)
(* content that may be interned, 1 followed by a blank, which is numeric *)
(* only with errors allowed.                                               *)
(***************************************************************************)
EXTENDS StringData, TLC

CONSTANTS T1, T2

MCThreads == {T1, T2}
MCChars == {"1", " "}
MCStrs == {<<"1", " ">>}
MCSvContent == <<"1">>
MCDigits == {"1"}

Symmetry == Permutations(MCThreads)
=============================================================================
