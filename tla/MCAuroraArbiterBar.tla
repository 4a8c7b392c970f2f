-------------------------- MODULE MCAuroraArbiterBar --------------------------
(* An instance of the arbiter bar for TLC. *)
EXTENDS AuroraArbiterBar

CONSTANTS x, y

(* On a chain of three nodes: AllAlong runs the whole chain, Joining meets it *)
(* at node 2 and shares its last links, Down goes the other way, and Local   *)
(* is for its own node.  Joining and Down leave by the same endpoint.        *)
AllAlong == <<1, 3, 2>>
Joining == <<2, 3, 0>>
Down == <<2, 1, 0>>
Local == <<2, 2, 1>>
Chain == {AllAlong, Joining, Down, Local}

(* Two packets that can be told apart tell whether one overtakes another. *)
TwoKinds == [f \in Chain |-> IF f = AllAlong THEN {x, y} ELSE {x}]
TwoOut == [f \in Chain |-> IF f = AllAlong THEN 2 ELSE 1]
=============================================================================
