--------------------------- MODULE MCTargetCache ----------------------------
(***************************************************************************)
(* Two request threads, one class's property-initializer slot and two    *)
(* constants.  The allocator starts where it is after the first block of *)
(* 512 bits, [0, 64), has one bit left and a pointer slot at 64 has been *)
(* handed out: s_frontier = 72, s_next_bit = 511, s_bits_to_go = 1.  The *)
(* second bit taken then opens a new block at a frontier that is not     *)
(* 64-byte aligned.  A thread that ran earlier requests has written the  *)
(* slot at 64 and the first byte of bits.                                *)
(***************************************************************************)
EXTENDS TargetCache, TLC

CONSTANTS T1, T2

MCThreads == {T1, T2}
(* One thread: allocStatic with no other allocator running. *)
MCSoloThread == {T1}
MCClsNames == {"K"}
MCCnsNames == {"c1", "c2"}
MCInitFrontier == 72
MCInitNextBit == 511
MCInitBitsToGo == 1
MCInitAllocs == {[lo |-> 0, len |-> 64, kind |-> "bits"],
                 [lo |-> 64, len |-> 8, kind |-> "KnownClass"]}
MCInitDirty == {<<64, 8>>, <<0, 1>>}
MCPageBytes == 16

Symmetry == Permutations(MCThreads)
=============================================================================
