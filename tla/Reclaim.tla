------------------------------- MODULE Reclaim -------------------------------
(***************************************************************************)
(* Reclamation of superseded classes (class.cpp Class::atomicRelease,     *)
(* Class::newClass) against the lock-free readers of a name's clsList.     *)
(*                                                                         *)
(* The classes of one name form the singly linked list clsList (head     *)
(* `head', links m_nextClass `next').  Unit::defClass (not in this        *)
(* repository) pushes a newly linked class on the front under             *)
(* s_classesMutex and gives it a target-cache handle (m_cachedOffset);    *)
(* requests walk the list without the lock, keeping every Class pointer   *)
(* they read until the request ends.  When a Class's reference count      *)
(* drops to zero, atomicRelease resets m_cachedOffset, unlinks it under  *)
(* s_classesMutex and hands it to the Treadmill, which frees it once      *)
(* every request that was running at the hand-over has ended.  The        *)
(* Treadmill is not in this repository either: an item waits for the      *)
(* threads in a request when it is enqueued and is freed at the first     *)
(* request end after they have all ended.                                 *)
(*                                                                         *)
(* Every holder of s_classesMutex does all its work under it in one step, *)
(* so the mutex is not a variable: two such steps never interleave.       *)
(***************************************************************************)
EXTENDS Naturals, FiniteSets, Sequences

CONSTANTS Threads, Classes, Null

ASSUME Null \notin Classes

VARIABLES
    head,       \* *namedEntity()->clsList()
    next,       \* m_nextClass of each Class
    mem,        \* "unborn", "live" or "freed"
    cached,     \* m_cachedOffset != -1
    inReq,      \* the thread is running a request
    held,       \* Class pointers a thread has read in its current request
    cur,        \* the node a thread's list walk is at, Null when none
    rel,        \* a thread's atomicRelease in progress: [pc, c]
    items,      \* Treadmill work items: [c, waitFor]
    crashed     \* history: the unlink walk hit the end of the list

vars == <<head, next, mem, cached, inReq, held, cur, rel, items, crashed>>

Idle == [pc |-> "idle", c |-> Null]

(* The list from p, at most Cardinality(Classes) + 1 nodes (a cycle shows *)
(* as a list longer than the number of classes).                          *)
RECURSIVE ListFrom(_, _)
ListFrom(p, n) == IF p = Null \/ n = 0 THEN <<>> ELSE <<p>> \o ListFrom(next[p], n - 1)

ClsList == ListFrom(head, Cardinality(Classes) + 1)

OnList == {ClsList[i] : i \in DOMAIN ClsList}

(* Threads in a request: what a Treadmill item enqueued now waits for.   *)
Running == {t \in Threads : inReq[t]}

-----------------------------------------------------------------------------
StartRequest(t) ==
    /\ ~inReq[t]
    /\ inReq' = [inReq EXCEPT ![t] = TRUE]
    /\ UNCHANGED <<head, next, mem, cached, held, cur, rel, items, crashed>>

(* Request end: the thread drops its pointers and leaves the Treadmill's *)
(* in-flight set; every item no running request waits for is freed.      *)
EndRequest(t) ==
    LET waiting == {[i EXCEPT !.waitFor = @ \ {t}] : i \in items}
        done    == {i \in waiting : i.waitFor = {}}
    IN /\ inReq[t] /\ rel[t] = Idle
       /\ inReq' = [inReq EXCEPT ![t] = FALSE]
       /\ held' = [held EXCEPT ![t] = {}]
       /\ cur' = [cur EXCEPT ![t] = Null]
       /\ items' = waiting \ done
       /\ mem' = [c \in Classes |-> IF \E i \in done : i.c = c THEN "freed" ELSE mem[c]]
       /\ UNCHANGED <<head, next, cached, rel, crashed>>

(* Unit::defClass: a new Class linked for the name is pushed on the list *)
(* front under s_classesMutex, with a target-cache handle.                *)
DefineNew(t, c) ==
    /\ inReq[t] /\ mem[c] = "unborn"
    /\ mem' = [mem EXCEPT ![c] = "live"]
    /\ next' = [next EXCEPT ![c] = head]
    /\ head' = c
    /\ cached' = [cached EXCEPT ![c] = TRUE]
    /\ held' = [held EXCEPT ![t] = @ \cup {c}]
    /\ UNCHANGED <<inReq, cur, rel, items, crashed>>

(* newClass: the link fails, and atomicRelease of a Class never put on   *)
(* the list (m_cachedOffset == -1) destroys it at once.                   *)
NewClassFailed(t, c) ==
    /\ inReq[t] /\ mem[c] = "unborn"
    /\ ~cached[c]
    /\ mem' = [mem EXCEPT ![c] = "freed"]
    /\ UNCHANGED <<head, next, cached, inReq, held, cur, rel, items, crashed>>

(* A lookup starts a walk of the list without the lock.                   *)
StartWalk(t) ==
    /\ inReq[t] /\ cur[t] = Null /\ head # Null
    /\ cur' = [cur EXCEPT ![t] = head]
    /\ held' = [held EXCEPT ![t] = @ \cup {head}]
    /\ UNCHANGED <<head, next, mem, cached, inReq, rel, items, crashed>>

(* One step of the walk reads cur->m_nextClass.  A lookup that stops     *)
(* early still holds what it read, so walks run to the end of the list.  *)
WalkStep(t) ==
    /\ inReq[t] /\ cur[t] # Null
    /\ cur' = [cur EXCEPT ![t] = next[cur[t]]]
    /\ held' = [held EXCEPT ![t] = IF next[cur[t]] = Null THEN @ ELSE @ \cup {next[cur[t]]}]
    /\ UNCHANGED <<head, next, mem, cached, inReq, rel, items, crashed>>

-----------------------------------------------------------------------------
(* atomicRelease, when the last reference to a listed Class is dropped:   *)
(* m_cachedOffset != -1, so reset it to -1 first.                         *)
ReleaseBegin(t, c) ==
    /\ inReq[t] /\ rel[t] = Idle
    /\ mem[c] = "live" /\ cached[c]
    /\ \A u \in Threads : rel[u].c # c
    /\ cached' = [cached EXCEPT ![c] = FALSE]
    /\ rel' = [rel EXCEPT ![t] = [pc |-> "unlink", c |-> c]]
    /\ UNCHANGED <<head, next, mem, inReq, held, cur, items, crashed>>

(* Under s_classesMutex: walk from the list head to the link that points *)
(* at this Class (it asserts the link is not NULL, and dereferences it) and store   *)
(* m_nextClass into it.                                                   *)
ReleaseUnlinkNoStore(t) ==
    LET c == rel[t].c IN
    /\ rel[t].pc = "unlink"
    /\ crashed' = (crashed \/ c \notin OnList)
    /\ UNCHANGED <<head, next>>
    /\ rel' = [rel EXCEPT ![t].pc = "enqueue"]
    /\ UNCHANGED <<mem, cached, inReq, held, cur, items>>
ReleaseUnlink(t) ==
    LET c == rel[t].c IN
    /\ rel[t].pc = "unlink"
    /\ crashed' = (crashed \/ c \notin OnList)
    /\ IF head = c
       THEN head' = next[c] /\ UNCHANGED next
       ELSE \E p \in OnList : next[p] = c /\ next' = [next EXCEPT ![p] = next[c]]
                                        /\ UNCHANGED head
    /\ rel' = [rel EXCEPT ![t].pc = "enqueue"]
    /\ UNCHANGED <<mem, cached, inReq, held, cur, items>>

(* Treadmill::WorkItem::enqueue(new FreeClassTrigger(this)): the item     *)
(* waits for the requests in flight now.                                  *)
ReleaseEnqueueNow(t) ==
    /\ rel[t].pc = "enqueue"
    /\ mem' = [mem EXCEPT ![rel[t].c] = "freed"]
    /\ rel' = [rel EXCEPT ![t] = Idle]
    /\ UNCHANGED <<head, next, cached, inReq, held, cur, items, crashed>>
ReleaseEnqueueOwn(t) ==
    /\ rel[t].pc = "enqueue"
    /\ items' = items \cup {[c |-> rel[t].c, waitFor |-> {t}]}
    /\ rel' = [rel EXCEPT ![t] = Idle]
    /\ UNCHANGED <<head, next, mem, cached, inReq, held, cur, crashed>>
ReleaseEnqueueOthers(t) ==
    /\ rel[t].pc = "enqueue"
    /\ items' = items \cup {[c |-> rel[t].c, waitFor |-> Running \ {t}]}
    /\ rel' = [rel EXCEPT ![t] = Idle]
    /\ UNCHANGED <<head, next, mem, cached, inReq, held, cur, crashed>>
ReleaseEnqueueAllThreads(t) ==
    /\ rel[t].pc = "enqueue"
    /\ items' = items \cup {[c |-> rel[t].c, waitFor |-> Threads]}
    /\ rel' = [rel EXCEPT ![t] = Idle]
    /\ UNCHANGED <<head, next, mem, cached, inReq, held, cur, crashed>>
ReleaseEnqueue(t) ==
    /\ rel[t].pc = "enqueue"
    /\ items' = items \cup {[c |-> rel[t].c, waitFor |-> Running]}
    /\ rel' = [rel EXCEPT ![t] = Idle]
    /\ UNCHANGED <<head, next, mem, cached, inReq, held, cur, crashed>>

-----------------------------------------------------------------------------
Init ==
    /\ head = Null
    /\ next = [c \in Classes |-> Null]
    /\ mem = [c \in Classes |-> "unborn"]
    /\ cached = [c \in Classes |-> FALSE]
    /\ inReq = [t \in Threads |-> FALSE]
    /\ held = [t \in Threads |-> {}]
    /\ cur = [t \in Threads |-> Null]
    /\ rel = [t \in Threads |-> Idle]
    /\ items = {}
    /\ crashed = FALSE

Next ==
    \E t \in Threads :
        \/ StartRequest(t) \/ EndRequest(t)
        \/ StartWalk(t) \/ WalkStep(t)
        \/ ReleaseUnlink(t) \/ ReleaseEnqueue(t)
        \/ \E c \in Classes : DefineNew(t, c) \/ NewClassFailed(t, c) \/ ReleaseBegin(t, c)

(* Requests end, and a started atomicRelease runs to its end: both are    *)
(* bounded computations that never wait on anything but the mutex, which *)
(* every holder releases within its step.                                 *)
Fairness ==
    \A t \in Threads : WF_vars(EndRequest(t)) /\ WF_vars(ReleaseUnlink(t))
                       /\ WF_vars(ReleaseEnqueue(t))

Spec == Init /\ [][Next]_vars /\ Fairness
-----------------------------------------------------------------------------
TypeOK ==
    /\ head \in Classes \cup {Null}
    /\ next \in [Classes -> Classes \cup {Null}]
    /\ mem \in [Classes -> {"unborn", "live", "freed"}]
    /\ cached \in [Classes -> BOOLEAN]
    /\ inReq \in [Threads -> BOOLEAN]
    /\ held \in [Threads -> SUBSET Classes]
    /\ cur \in [Threads -> Classes \cup {Null}]
    /\ rel \in [Threads -> {Idle} \cup [pc : {"unlink", "enqueue"}, c : Classes]]
    /\ items \subseteq [c : Classes, waitFor : (SUBSET Threads) \ {{}}]
    /\ crashed \in BOOLEAN

(* No request ever holds a freed Class: a pointer read from clsList, or   *)
(* from a node's m_nextClass, stays valid until the request ends, though  *)
(* atomicRelease unlinks the Class meanwhile (spec: reclamation safety).  *)
NoUseAfterFree == \A t \in Threads : \A c \in held[t] : mem[c] # "freed"

(* clsList stays a NULL-terminated list without cycles that holds exactly *)
(* the live classes not yet unlinked, and atomicRelease's walk always     *)
(* finds the Class it unlinks, whatever releases and definitions of the  *)
(* name interleave.                                                       *)
ListIntact ==
    /\ ~crashed
    /\ Len(ClsList) = Cardinality(OnList)
    /\ OnList = {c \in Classes : mem[c] = "live" /\
                    (cached[c] \/ \E t \in Threads : rel[t] = [pc |-> "unlink", c |-> c])}

(* Every Class atomicRelease has begun to release is eventually freed:    *)
(* the Treadmill item does not wait for a thread that never ends a        *)
(* request.                                                               *)
ReleasedEventuallyFreed ==
    \A c \in Classes : (mem[c] = "live" /\ ~cached[c]) ~> (mem[c] = "freed")

(* The refinement mapping: a Class's place in the lifecycle.              *)
Status(c) ==
    CASE mem[c] = "unborn"     -> "Unlinked"
      [] mem[c] = "freed"      -> "Freed"
      [] c \in OnList          -> "Linked"
      [] \E i \in items : i.c = c -> "Reclaimable"
      [] OTHER                 -> "Superseded"

Lifecycle == INSTANCE ClassLifecycle WITH status <- [c \in Classes |-> Status(c)], holders <- held

(* The requests, the list and the Treadmill implement the class lifecycle *)
(* of the spec: classes move only forward through it and are freed only  *)
(* once Reclaimable and held by no request.                               *)
LifecycleRefined == Lifecycle!Spec
=============================================================================
