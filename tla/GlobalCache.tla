----------------------------- MODULE GlobalCache -----------------------------
(***************************************************************************)
(* The global-variable caches of the target cache (targetcache.cpp):      *)
(* GlobalCache::lookup / lookupCreate and BoxedGlobalCache::lookup /      *)
(* lookupCreate, all through lookupImpl<isBoxed>, in one request.          *)
(*                                                                         *)
(* A global's slot in the globals array holds nothing, a value, or a      *)
(* KindOfVariant pointing to a RefData cell.  Translated code reads and   *)
(* assigns a global through the TypedValue* an unboxed lookup returns; a  *)
(* `global $x' binds the function's local to the RefData a boxed lookup   *)
(* returns, and assignments to the local go to that cell.  The cache's    *)
(* m_globals and m_hint only speed up the array look-up and are not       *)
(* modelled; nor is the name's reference count, which the caller keeps    *)
(* when the look-up fails.                                                *)
(***************************************************************************)
EXTENDS Naturals

CONSTANTS
    Names,          \* global variable names
    Vals,           \* values a global may be assigned
    Null,           \* the null value, in Vals
    Undef,          \* what a read of an undefined global gives
    MaxRefs         \* RefData cells one request can create

Absent == [kind |-> "none"]
Refs == 1..MaxRefs

VARIABLES
    slot,           \* per name: Absent, [kind "val", v], or [kind "ref", r]
    cell,           \* RefData contents
    nextRef,        \* the next RefData to create
    bound,          \* <<name, RefData>> pairs bound by `global'
    lastRead        \* the value the last read returned

vars == <<slot, cell, nextRef, bound, lastRead>>

(* lookupImpl with allowCreate: an undefined global is set to null in the *)
(* global VarEnv and looked up again.                                     *)
Created(n) == IF slot[n] = Absent THEN [kind |-> "val", v |-> Null] ELSE slot[n]

(* Mutant: the unboxed lookup returns the slot itself, not the RefData's  *)
(* value, when the global is boxed.                                       *)
DerefNoUnbox(s) == s
(* The unboxed retval: a boxed slot's RefData cell, else the slot.        *)
Deref(s) == IF s.kind = "ref" THEN [kind |-> "cell", r |-> s.r] ELSE s

Init ==
    /\ slot = [n \in Names |-> Absent]
    /\ cell = [r \in Refs |-> Null]
    /\ nextRef = 1
    /\ bound = {}
    /\ lastRead = Undef

(* GlobalCache::lookup, then a read through the TypedValue* it returns;   *)
(* NULL for an undefined global, which the caller reads as undefined.     *)
GlobalGet(n) ==
    LET t == Deref(slot[n]) IN
    /\ lastRead' = CASE slot[n] = Absent -> Undef
                     [] t.kind = "cell" -> cell[t.r]
                     [] t.kind = "val" -> t.v
                     [] OTHER -> "variant"
    /\ UNCHANGED <<slot, cell, nextRef, bound>>

(* GlobalCache::lookupCreate, then an assignment through its retval.      *)
GlobalSet(n, v) ==
    LET t == Deref(Created(n)) IN
    /\ IF t.kind = "cell"
       THEN cell' = [cell EXCEPT ![t.r] = v] /\ slot' = slot
       ELSE slot' = [slot EXCEPT ![n] = [kind |-> "val", v |-> v]] /\ cell' = cell
    /\ UNCHANGED <<nextRef, bound, lastRead>>

(* Mutant: tvBox boxes a copy and leaves the slot unboxed.                *)
BoxCopy(n, s) ==
    /\ nextRef <= MaxRefs
    /\ cell' = [cell EXCEPT ![nextRef] = s.v]
    /\ nextRef' = nextRef + 1
    /\ bound' = bound \cup {<<n, nextRef>>}
    /\ slot' = [slot EXCEPT ![n] = s]

(* tvBox: the slot's value moves into a new RefData the slot points to.   *)
Box(n, s) ==
    /\ nextRef <= MaxRefs
    /\ cell' = [cell EXCEPT ![nextRef] = s.v]
    /\ nextRef' = nextRef + 1
    /\ bound' = bound \cup {<<n, nextRef>>}
    /\ slot' = [slot EXCEPT ![n] = [kind |-> "ref", r |-> nextRef]]

(* BoxedGlobalCache::lookup (allowCreate FALSE) or lookupCreate for       *)
(* `global $n': the slot, created if allowed and boxed if it is not, is   *)
(* bound to the function's local.  A failed lookup returns NULL.          *)
BoxedLookup(n, allowCreate) ==
    \/ /\ slot[n] = Absent /\ ~allowCreate
       /\ UNCHANGED vars
    \/ /\ slot[n] # Absent \/ allowCreate
       /\ LET s == Created(n) IN
          IF s.kind = "ref"
          THEN /\ bound' = bound \cup {<<n, s.r>>}
               /\ UNCHANGED <<slot, cell, nextRef>>
          ELSE Box(n, s)
       /\ UNCHANGED lastRead

(* User code reads or assigns a local bound by `global'.                  *)
BoundGet(b) ==
    /\ b \in bound
    /\ lastRead' = cell[b[2]]
    /\ UNCHANGED <<slot, cell, nextRef, bound>>

BoundSet(b, v) ==
    /\ b \in bound
    /\ cell' = [cell EXCEPT ![b[2]] = v]
    /\ UNCHANGED <<slot, nextRef, bound, lastRead>>

(* The request ends; the next has a new globals array, and requestInit    *)
(* zeroes the caches.                                                     *)
EndRequest ==
    /\ slot' = [n \in Names |-> Absent]
    /\ cell' = [r \in Refs |-> Null]
    /\ nextRef' = 1
    /\ bound' = {}
    /\ lastRead' = Undef

Next ==
    \/ \E n \in Names : GlobalGet(n)
    \/ \E n \in Names, v \in Vals : GlobalSet(n, v)
    \/ \E n \in Names, c \in BOOLEAN : BoxedLookup(n, c)
    \/ \E b \in bound : BoundGet(b) \/ \E v \in Vals : BoundSet(b, v)
    \/ EndRequest

Spec == Init /\ [][Next]_vars

-----------------------------------------------------------------------------
(* The value of a global as PHP sees it: its slot's, through the RefData  *)
(* when boxed.                                                            *)
Value(n) == CASE slot[n] = Absent -> Undef
              [] slot[n].kind = "val" -> slot[n].v
              [] OTHER -> cell[slot[n].r]

Abstract == INSTANCE GlobalVars
    WITH gv <- [n \in Names |-> Value(n)],
         bound <- {b[1] : b \in bound},
         seen <- lastRead

(* The caches implement PHP's globals: every read through GlobalCache     *)
(* returns the global's value, and every assignment, through GlobalCache  *)
(* or through a local bound by `global' (BoxedGlobalCache), is an         *)
(* assignment to the global that every other access sees, whichever of    *)
(* the two caches boxed the slot first.                                   *)
GlobalsRefined == Abstract!Spec
=============================================================================
