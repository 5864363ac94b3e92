---------------------------- MODULE ClassLifecycle ----------------------------
(***************************************************************************)
(* What class reclamation promises (spec, "Availability & Reclamation     *)
(* Protocol"): each Class of a name goes                                   *)
(*   Unlinked -> Linked -> Superseded -> Reclaimable -> Freed,             *)
(* or straight from Unlinked to Freed when its link fails.  A request      *)
(* holds the Class pointers it has captured until it ends; it captures    *)
(* only a Class that exists and is not freed, and a Class is freed only   *)
(* when no request holds it.  The linking steps themselves are one step   *)
(* here (Linking is not observable to readers).                           *)
(***************************************************************************)
EXTENDS FiniteSets

CONSTANTS Threads, Classes

VARIABLES status, holders

States == {"Unlinked", "Linked", "Superseded", "Reclaimable", "Freed"}

Held == UNION {holders[t] : t \in Threads}

Init ==
    /\ status = [c \in Classes |-> "Unlinked"]
    /\ holders = [t \in Threads |-> {}]

Move(c, from, to) ==
    /\ status[c] = from
    /\ status' = [status EXCEPT ![c] = to]

(* A request links a Class and holds it.                                *)
Link(t, c) ==
    /\ Move(c, "Unlinked", "Linked")
    /\ holders' = [holders EXCEPT ![t] = @ \cup {c}]
Supersede(c) == Move(c, "Linked", "Superseded") /\ UNCHANGED holders
Retire(c)    == Move(c, "Superseded", "Reclaimable") /\ UNCHANGED holders

(* A failed link is destroyed at once: nobody can have captured it.       *)
Discard(c) == c \notin Held /\ Move(c, "Unlinked", "Freed") /\ UNCHANGED holders

Acquire(t, c) ==
    /\ status[c] \notin {"Unlinked", "Freed"}
    /\ holders' = [holders EXCEPT ![t] = @ \cup {c}]
    /\ UNCHANGED status

(* A request ends, dropping what it held; some Reclaimable classes that  *)
(* no other request holds may be freed at the same moment.               *)
EndRequest(t) ==
    LET rest == UNION {holders[u] : u \in Threads \ {t}}
    IN \E F \in SUBSET {c \in Classes : status[c] = "Reclaimable" /\ c \notin rest} :
          /\ holders' = [holders EXCEPT ![t] = {}]
          /\ status' = [c \in Classes |-> IF c \in F THEN "Freed" ELSE status[c]]

Next ==
    \/ \E c \in Classes : Supersede(c) \/ Retire(c) \/ Discard(c)
    \/ \E t \in Threads : EndRequest(t) \/ \E c \in Classes : Link(t, c) \/ Acquire(t, c)

Spec == Init /\ [][Next]_<<status, holders>>
=============================================================================
