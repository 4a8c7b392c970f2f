-------------------------- MODULE MCAFTLMapTransfer --------------------------
(* Instances of the translation layer with map transfers for TLC. *)
EXTENDS AFTLMapTransfer

(* The tables in the host's file: every block but the first is bad. *)
OneFree == {[c \in Chip |-> [b \in Block |->
              [status |-> IF b = 0 THEN "FREE_BLK" ELSE "BAD_BLK", erase |-> 0]]]}
NoneDead == {}
LastDead == {<<Segs - 1, Chips - 1>>}
=============================================================================
