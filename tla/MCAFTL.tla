------------------------------- MODULE MCAFTL -------------------------------
(* Instances of the translation layer for TLC. *)
EXTENDS AFTL

Entry(s, e) == [status |-> s, erase |-> e]

(* Free blocks with every choice of erase counts; the others are bad. *)
FreeIn(S) ==
  {[c \in Chip |-> [b \in Block |->
      IF b \in S THEN Entry("FREE_BLK", f[b]) ELSE Entry("BAD_BLK", 0)]] : f \in [S -> Erase]}

(* Three free blocks: two in the rows of one column, one in another column. *)
ThreeFree == FreeIn({1, 2, 5})
(* Or one free block, for two segments. *)
ThreeOrOneFree == ThreeFree \cup FreeIn({2})

NoneDead == {}
=============================================================================
