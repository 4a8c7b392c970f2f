----------------------------- MODULE MCFlashBus -----------------------------
(* Instances of the flash bus for TLC. *)
EXTENDS FlashBus, TLC
CONSTANTS t1, t2

Symmetry == Permutations(Tag)

AnyWork(t, op, c) == TRUE
(* Each tag keeps to a chip. *)
OwnChip(t, op, c) == t = IF c = 0 THEN t1 ELSE t2
=============================================================================
