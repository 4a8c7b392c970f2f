----------------------- MODULE MCAuroraEndpointDynamic -----------------------
(* Instances of mkAuroraEndpointDynamic for TLC. *)
EXTENDS AuroraEndpointDynamic

ManyToOne == {<<1, 3>>, <<2, 3>>}

(* The credit and buffer registers matter to every guard and invariant only  *)
(* through their differences: states that differ in where the registers have *)
(* wrapped to behave alike, and one of each kind is enough.                  *)
Differences ==
  <<sending, net, receiving, acking, flowStrideCounter,
    [n \in Node |-> RecvQAvail(n)], [p \in Pair |-> Budget(p[1], p[2])]>>
=============================================================================
