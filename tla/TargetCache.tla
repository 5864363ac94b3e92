----------------------------- MODULE TargetCache -----------------------------
(***************************************************************************)
(* The target-cache allocator of translator/targetcache.cpp and the       *)
(* per-request slots classes and constants keep in it.                    *)
(*                                                                         *)
(* Every thread has its own cache block (tl_targetCaches); a handle is an *)
(* offset valid in every thread's block.  The process-wide allocator      *)
(* state, s_frontier, s_next_bit, s_bits_to_go and the handle maps, is    *)
(* the record `heap'.  allocBitImpl and namedAlloc run under the           *)
(* recursive HandleMutex and are single steps; allocStatic takes no lock  *)
(* and is split at its read and its write of s_frontier.  A thread's      *)
(* memory is the set of writes <<offset, length>> not yet zeroed.         *)
(***************************************************************************)
EXTENDS Integers, FiniteSets

CONSTANTS
    Threads,        \* request threads
    ClsNames,       \* classes whose m_propDataCache slot is allocated
    CnsNames,       \* constants defined through fillConstant
    InitFrontier,   \* s_frontier, s_next_bit and s_bits_to_go when the
    InitNextBit,    \*   modelled threads start: earlier allocations of
    InitBitsToGo,   \*   names outside the model have been made
    InitAllocs,     \*   and these are the blocks and slots they took
    InitDirty,      \* what a thread that ran earlier requests has written
    PageBytes,      \* madvise zeroes whole pages
    MaxStatics      \* bound on allocStatic calls

NoHandle == -1
PtrBytes == 8       \* sizeof(Class::PropInitVec*)
TvBytes == 16       \* sizeof(TypedValue)

(* The handle maps: NSClsInitProp by class name, NSConstant and          *)
(* NSCnsBits by constant name.                                           *)
MapKeys == ({"ClsInitProp"} \X ClsNames) \cup ({"Constant", "CnsBits"} \X CnsNames)

VARIABLES
    heap,       \* [frontier, nextBit, bitsToGo, map, allocs, bits]
    propCache,  \* Class::m_propDataCache of each class, shared by threads
    base,       \* tl_targetCaches.base has been initialized
    inReq,      \* the thread is inside a request
    dirty,      \* writes into the thread's block not zeroed since
    wrote,      \* writes made in the thread's current request
    pc,         \* the step a thread is in the middle of
    nStatics    \* allocStatic calls begun

vars == <<heap, propCache, base, inReq, dirty, wrote, pc, nStatics>>

AlignUp(x, a) == x + ((-x) % a)

(* (~s_frontier + 1) & 63: the padding that ends a block of bits on a    *)
(* 64-byte boundary.                                                     *)
PadTo64(f) == (-f) % 64

(* allocBitImpl past its map lookup: a new block of at least 64 bytes    *)
(* when the current one is used up, then the next bit.  The record      *)
(* field `ret' is the bit returned.                                      *)
NewBitBlockNoAdvance(h) ==
    [h EXCEPT !.nextBit = h.frontier * 8,
              !.bitsToGo = (PadTo64(h.frontier) + 64) * 8,
              !.allocs = @ \cup {[lo |-> h.frontier, len |-> PadTo64(h.frontier) + 64,
                                  kind |-> "bits"]}]
NewBitBlock(h) ==
    [h EXCEPT !.nextBit = h.frontier * 8,
              !.bitsToGo = (PadTo64(h.frontier) + 64) * 8,
              !.frontier = h.frontier + PadTo64(h.frontier) + 64,
              !.allocs = @ \cup {[lo |-> h.frontier, len |-> PadTo64(h.frontier) + 64,
                                  kind |-> "bits"]}]
NextBit(h) ==
    [heap |-> [h EXCEPT !.bitsToGo = @ - 1, !.nextBit = @ + 1, !.bits = @ \cup {h.nextBit}],
     ret |-> h.nextBit]
AllocBitImplNoRefill(h) == NextBit(h)
AllocBitImpl(h) == NextBit(IF h.bitsToGo = 0 THEN NewBitBlock(h) ELSE h)

(* allocBit: an anonymous bit.                                           *)
AllocBit(h) == AllocBitImpl(h)

(* allocCnsBit: the bit of constant c, allocated once by name.          *)
AllocCnsBit(h, c) ==
    IF h.map[<<"CnsBits", c>>] # NoHandle
    THEN [heap |-> h, ret |-> h.map[<<"CnsBits", c>>]]
    ELSE LET r == AllocBitImpl(h)
         IN [heap |-> [r.heap EXCEPT !.map[<<"CnsBits", c>>] = r.ret], ret |-> r.ret]

(* namedAlloc: the handle of key k, or numBytes at the aligned frontier  *)
(* (DataBlock::allocAt), entered in the map.                             *)
NamedAllocNoLookup(h, k, bytes, align) ==
    LET lo == AlignUp(h.frontier, align)
    IN [heap |-> [h EXCEPT !.frontier = lo + bytes, !.map[k] = lo,
                           !.allocs = @ \cup {[lo |-> lo, len |-> bytes, kind |-> k[1]]}],
        ret |-> lo]
NamedAlloc(h, k, bytes, align) ==
    IF h.map[k] # NoHandle THEN [heap |-> h, ret |-> h.map[k]]
    ELSE LET lo == AlignUp(h.frontier, align)
         IN [heap |-> [h EXCEPT !.frontier = lo + bytes, !.map[k] = lo,
                                !.allocs = @ \cup {[lo |-> lo, len |-> bytes, kind |-> k[1]]}],
             ret |-> lo]

(* bitOffToHandleAndMask: the 4-byte word holding the bit and the bit's  *)
(* position in it (the mask is 1 << shift).                              *)
BitOffToHandleAndMaskWide(bit) ==
    [handle |-> (bit \div 8) - ((bit \div 8) % 8), shift |-> bit % 32]
BitOffToHandleAndMask(bit) ==
    [handle |-> (bit \div 8) - ((bit \div 8) % 4), shift |-> bit % 32]

(* The byte and bit testBit(size_t) and testAndSetBit(size_t) use, and   *)
(* the ones testBit(Handle, mask) reads through a little-endian word.    *)
ByteAddress(bit) == [byte |-> bit \div 8, pos |-> bit % 8]
WordAddress(wm) == [byte |-> wm.handle + wm.shift \div 8, pos |-> wm.shift % 8]

Write(t, lo, len) ==
    /\ dirty' = [dirty EXCEPT ![t] = @ \cup {<<lo, len>>}]
    /\ wrote' = [wrote EXCEPT ![t] = @ \cup {<<lo, len>>}]

Idle == [op |-> "idle"]

Init ==
    /\ heap = [frontier |-> InitFrontier, nextBit |-> InitNextBit,
               bitsToGo |-> InitBitsToGo, map |-> [k \in MapKeys |-> NoHandle],
               allocs |-> InitAllocs, bits |-> {}]
    /\ propCache = [n \in ClsNames |-> NoHandle]
    /\ base \in [Threads -> BOOLEAN]
    /\ inReq = [t \in Threads |-> FALSE]
    /\ dirty = [t \in Threads |-> IF base[t] THEN InitDirty ELSE {}]
    /\ wrote = [t \in Threads |-> {}]
    /\ pc = [t \in Threads |-> Idle]
    /\ nStatics = 0

(* madvise(base, s_frontier, MADV_DONTNEED): the pages up to the         *)
(* frontier read back as zero.                                      *)
Zeroed(d, f) == {w \in d : w[1] + w[2] > AlignUp(f, PageBytes)}

(* requestInit: the first request of a thread initializes its block and *)
(* takes a bit so that no handle is 0; every request zeroes the block   *)
(* up to s_frontier, read without HandleMutex.                           *)
RequestInitFirstOnly(t) ==
    /\ ~inReq[t]
    /\ pc[t] = Idle
    /\ IF base[t]
       THEN UNCHANGED <<heap, dirty>>
       ELSE /\ heap' = AllocBit(heap).heap
            /\ dirty' = [dirty EXCEPT ![t] = {}]
    /\ base' = [base EXCEPT ![t] = TRUE]
    /\ inReq' = [inReq EXCEPT ![t] = TRUE]
    /\ wrote' = [wrote EXCEPT ![t] = {}]
    /\ UNCHANGED <<propCache, pc, nStatics>>
RequestInit(t) ==
    /\ ~inReq[t]
    /\ pc[t] = Idle
    /\ heap' = IF base[t] THEN heap ELSE AllocBit(heap).heap
    /\ dirty' = [dirty EXCEPT ![t] = IF base[t] THEN Zeroed(@, heap'.frontier) ELSE {}]
    /\ base' = [base EXCEPT ![t] = TRUE]
    /\ inReq' = [inReq EXCEPT ![t] = TRUE]
    /\ wrote' = [wrote EXCEPT ![t] = {}]
    /\ UNCHANGED <<propCache, pc, nStatics>>

RequestEnd(t) ==
    /\ inReq[t]
    /\ pc[t] = Idle
    /\ inReq' = [inReq EXCEPT ![t] = FALSE]
    /\ UNCHANGED <<heap, propCache, base, dirty, wrote, pc, nStatics>>

(* Some write not zeroed since covers a byte of [lo, lo + len): reading   *)
(* the slot does not give NULL.                                          *)
Touched(t, lo, len) == \E w \in dirty[t] : w[1] < lo + len /\ lo < w[1] + w[2]

(* Class::setPropData, called by initProps when getPropData() is NULL.   *)
(* The class's m_propDataCache is read without a lock; when it is still  *)
(* -1 the thread allocates the slot by class name (allocClassInitProp)   *)
(* and stores the handle, in a second step.                              *)
SetPropData(t, n) ==
    /\ inReq[t]
    /\ pc[t] = Idle
    /\ propCache[n] = NoHandle \/ ~Touched(t, propCache[n], PtrBytes)
    /\ IF propCache[n] = NoHandle
       THEN /\ pc' = [pc EXCEPT ![t] = [op |-> "prop", cls |-> n]]
            /\ UNCHANGED <<dirty, wrote>>
       ELSE /\ Write(t, propCache[n], PtrBytes)
            /\ UNCHANGED pc
    /\ UNCHANGED <<heap, propCache, base, inReq, nStatics>>

SetPropDataAlloc(t) ==
    /\ pc[t].op = "prop"
    /\ LET r == NamedAlloc(heap, <<"ClsInitProp", pc[t].cls>>, PtrBytes, PtrBytes)
       IN /\ heap' = r.heap
          /\ propCache' = [propCache EXCEPT ![pc[t].cls] = r.ret]
          /\ Write(t, r.ret, PtrBytes)
    /\ pc' = [pc EXCEPT ![t] = Idle]
    /\ UNCHANGED <<base, inReq, nStatics>>

(* fillConstant, under HandleMutex: the constant's TypedValue slot, its  *)
(* bit set by testAndSetBit, and the value stored in the slot.            *)
FillConstant(t, c) ==
    /\ inReq[t]
    /\ pc[t] = Idle
    /\ LET ch == NamedAlloc(heap, <<"Constant", c>>, TvBytes, TvBytes)
           cb == AllocCnsBit(ch.heap, c)
       IN /\ heap' = cb.heap
          /\ dirty' = [dirty EXCEPT ![t] = @ \cup {<<cb.ret \div 8, 1>>, <<ch.ret, TvBytes>>}]
          /\ wrote' = [wrote EXCEPT ![t] = @ \cup {<<cb.ret \div 8, 1>>, <<ch.ret, TvBytes>>}]
    /\ UNCHANGED <<propCache, base, inReq, pc, nStatics>>

(* allocStatic: tl_targetCaches.allocAt(s_frontier, ...) with no lock,  *)
(* a read of s_frontier and, later, its write.  The translated code then *)
(* uses the slot.                                                        *)
AllocStaticRead(t) ==
    /\ inReq[t]
    /\ pc[t] = Idle
    /\ nStatics < MaxStatics
    /\ pc' = [pc EXCEPT ![t] = [op |-> "static", f |-> heap.frontier]]
    /\ nStatics' = nStatics + 1
    /\ UNCHANGED <<heap, propCache, base, inReq, dirty, wrote>>

(* Variant of AllocStaticWrite whose allocAt leaves s_frontier unchanged. *)
AllocStaticWriteNoAdvance(t) ==
    /\ pc[t].op = "static"
    /\ LET lo == AlignUp(pc[t].f, PtrBytes)
       IN /\ heap' = [heap EXCEPT !.allocs = @ \cup {[lo |-> lo, len |-> PtrBytes, kind |-> "Static"]}]
          /\ Write(t, lo, PtrBytes)
    /\ pc' = [pc EXCEPT ![t] = Idle]
    /\ UNCHANGED <<propCache, base, inReq, nStatics>>

AllocStaticWrite(t) ==
    /\ pc[t].op = "static"
    /\ LET lo == AlignUp(pc[t].f, PtrBytes)
       IN /\ heap' = [heap EXCEPT !.frontier = lo + PtrBytes,
                                  !.allocs = @ \cup {[lo |-> lo, len |-> PtrBytes, kind |-> "Static"]}]
          /\ Write(t, lo, PtrBytes)
    /\ pc' = [pc EXCEPT ![t] = Idle]
    /\ UNCHANGED <<propCache, base, inReq, nStatics>>

Next ==
    \E t \in Threads :
        \/ RequestInit(t)
        \/ RequestEnd(t)
        \/ \E n \in ClsNames : SetPropData(t, n)
        \/ SetPropDataAlloc(t)
        \/ \E c \in CnsNames : FillConstant(t, c)
        \/ AllocStaticRead(t)
        \/ AllocStaticWrite(t)

Spec == Init /\ [][Next]_vars

-----------------------------------------------------------------------------
Handle == {NoHandle} \cup Nat
WriteRecs == Nat \X Nat

TypeOK ==
    /\ heap.frontier \in Nat /\ heap.nextBit \in Nat /\ heap.bitsToGo \in Nat
    /\ heap.map \in [MapKeys -> Handle]
    /\ propCache \in [ClsNames -> Handle]
    /\ base \in [Threads -> BOOLEAN] /\ inReq \in [Threads -> BOOLEAN]
    /\ \A t \in Threads : dirty[t] \subseteq WriteRecs /\ wrote[t] \subseteq WriteRecs
    /\ nStatics \in 0..MaxStatics

(* Handles and bit blocks are disjoint and below s_frontier, and every    *)
(* bit handed out lies in a block of bits: what namedAlloc, allocBitImpl *)
(* and allocStatic make of s_frontier between them.                      *)
HandlesDisjoint ==
    /\ \A a, b \in heap.allocs : a # b => a.lo + a.len <= b.lo \/ b.lo + b.len <= a.lo
    /\ \A a \in heap.allocs : a.lo + a.len <= heap.frontier
    /\ \A bit \in heap.bits : \E a \in heap.allocs :
          a.kind = "bits" /\ a.lo * 8 <= bit /\ bit < (a.lo + a.len) * 8

(* A thread inside a request sees zero in every slot it has not written  *)
(* in this request: requestInit's zeroing up to an unlocked read of      *)
(* s_frontier reaches every slot an earlier request wrote.  This is the  *)
(* per-request reset Class::getCached and getPropData rely on.           *)
RequestStartsClean == \A t \in Threads : inReq[t] => dirty[t] \subseteq wrote[t]

(* The word and mask bitOffToHandleAndMask gives the translated code     *)
(* name the same bit testBit(size_t) and testAndSetBit(size_t) use.      *)
BitAddressingAgrees ==
    \A bit \in heap.bits : WordAddress(BitOffToHandleAndMask(bit)) = ByteAddress(bit)

(* A name's handle never changes once allocated, and neither does a      *)
(* class's m_propDataCache, although two threads may both find it -1    *)
(* and both allocate: translated code embeds handles across requests.    *)
NamedHandleStable ==
    [][/\ \A k \in MapKeys : heap.map[k] # NoHandle => heap'.map[k] = heap.map[k]
       /\ \A n \in ClsNames : propCache[n] # NoHandle => propCache'[n] = propCache[n]]_vars
=============================================================================
