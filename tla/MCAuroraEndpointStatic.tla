------------------------ MODULE MCAuroraEndpointStatic ------------------------
(* Instances of mkAuroraEndpointStatic for TLC. *)
EXTENDS AuroraEndpointStatic, TLC

TwoWay == {<<1, 2>>, <<2, 1>>}
ManyToOne == {<<1, 3>>, <<2, 3>>}
=============================================================================
