------------------------------ MODULE GlobalVars ------------------------------
(***************************************************************************)
(* What PHP promises of global variables in one request: each name is     *)
(* undefined or holds a value; assigning defines it; `global $x' binds a  *)
(* function's local to the global itself (defining it as null if it was   *)
(* undefined), so an assignment through the local is an assignment to the *)
(* global and every later read of the global sees it.                     *)
(***************************************************************************)
CONSTANTS Names, Vals, Null, Undef

VARIABLES
    gv,         \* each global's value, or Undef
    bound,      \* the names some running function has bound with `global'
    seen        \* the value the last read returned

vars == <<gv, bound, seen>>

Init ==
    /\ gv = [n \in Names |-> Undef]
    /\ bound = {}
    /\ seen = Undef

Read(n) == seen' = gv[n] /\ UNCHANGED <<gv, bound>>

Write(n, v) == gv' = [gv EXCEPT ![n] = v] /\ UNCHANGED <<bound, seen>>

Bind(n) ==
    /\ bound' = bound \cup {n}
    /\ gv' = IF gv[n] = Undef THEN [gv EXCEPT ![n] = Null] ELSE gv
    /\ UNCHANGED seen

BoundWrite(n, v) == n \in bound /\ Write(n, v)

EndRequest ==
    /\ gv' = [n \in Names |-> Undef]
    /\ bound' = {}
    /\ seen' = Undef

Next ==
    \/ \E n \in Names : Read(n) \/ Bind(n)
    \/ \E n \in Names, v \in Vals : Write(n, v) \/ BoundWrite(n, v)
    \/ EndRequest

Spec == Init /\ [][Next]_vars
=============================================================================
