-------------------------------- MODULE Intern --------------------------------
(***************************************************************************)
(* StringData::GetStaticString (runtime/base/string_data.cpp): interning  *)
(* through a tbb::concurrent_hash_map keyed by string contents.           *)
(* A thread looks the string up; on a miss it makes its own static copy  *)
(* and inserts it, and the insert may find that another thread got there *)
(* first.  The table itself is created by the first call, which happens  *)
(* during static initialization (the StaticString globals) before any    *)
(* request thread runs, so every modelled state has it.                  *)
(***************************************************************************)
EXTENDS Naturals, FiniteSets

CONSTANTS
    Threads,    \* threads interning strings
    Strs        \* string contents

None == 0

VARIABLES
    table,      \* s_stringDataMap: contents -> the StringData* stored
    nextPtr,    \* StringData objects allocated so far
    freed,      \* StringData objects deleted
    pc,         \* per thread: idle, or between find and insert
    returned    \* every <<contents, pointer>> GetStaticString returned

vars == <<table, nextPtr, freed, pc, returned>>

Idle == [op |-> "idle"]

Init ==
    /\ table = [s \in Strs |-> None]
    /\ nextPtr = 0
    /\ freed = {}
    /\ pc = [t \in Threads |-> Idle]
    /\ returned = {}

FindNoCopy(t, s) ==
    /\ pc[t] = Idle
    /\ IF table[s] # None
       THEN /\ returned' = returned \cup {<<s, table[s]>>}
            /\ UNCHANGED <<nextPtr, pc>>
       ELSE /\ pc' = [pc EXCEPT ![t] = [op |-> "insert", str |-> s, sd |-> nextPtr]]
            /\ UNCHANGED <<returned, nextPtr>>
    /\ UNCHANGED <<table, freed>>

(* find(acc, str): a hit returns the stored pointer; a miss allocates a  *)
(* new StringData with its own copy and marks it static.                  *)
Find(t, s) ==
    /\ pc[t] = Idle
    /\ IF table[s] # None
       THEN /\ returned' = returned \cup {<<s, table[s]>>}
            /\ UNCHANGED <<nextPtr, pc>>
       ELSE /\ nextPtr' = nextPtr + 1
            /\ pc' = [pc EXCEPT ![t] = [op |-> "insert", str |-> s, sd |-> nextPtr + 1]]
            /\ UNCHANGED returned
    /\ UNCHANGED <<table, freed>>

(* insert(acc, sd): when another thread's copy is already there, sd is   *)
(* deleted; either way acc->first, the stored pointer, is returned.      *)
InsertReturnsOwn(t) ==
    LET s == pc[t].str
        sd == pc[t].sd
    IN /\ pc[t].op = "insert"
       /\ IF table[s] = None
          THEN /\ table' = [table EXCEPT ![s] = sd]
               /\ UNCHANGED freed
          ELSE /\ freed' = freed \cup {sd}
               /\ UNCHANGED table
       /\ returned' = returned \cup {<<s, sd>>}
       /\ pc' = [pc EXCEPT ![t] = Idle]
       /\ UNCHANGED nextPtr
Insert(t) ==
    LET s == pc[t].str
        sd == pc[t].sd
    IN /\ pc[t].op = "insert"
       /\ IF table[s] = None
          THEN /\ table' = [table EXCEPT ![s] = sd]
               /\ UNCHANGED freed
          ELSE /\ freed' = freed \cup {sd}
               /\ UNCHANGED table
       /\ returned' = returned \cup {<<s, table'[s]>>}
       /\ pc' = [pc EXCEPT ![t] = Idle]
       /\ UNCHANGED nextPtr

Next == \E t \in Threads : (\E s \in Strs : Find(t, s)) \/ Insert(t)

Spec == Init /\ [][Next]_vars

-----------------------------------------------------------------------------
TypeOK ==
    /\ table \in [Strs -> 0..nextPtr]
    /\ freed \subseteq 1..nextPtr
    /\ returned \subseteq Strs \X (1..nextPtr)

(* Whatever the interleaving of finds and inserts, every call for the    *)
(* same contents has returned the same StringData, the one in the table, *)
(* and never one the losing insert deleted: static strings are compared *)
(* by pointer (stringMatches, the handle maps).                           *)
InternCanonical ==
    \A r \in returned : table[r[1]] = r[2] /\ r[2] \notin freed
=============================================================================
