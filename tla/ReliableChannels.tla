--------------------------- MODULE ReliableChannels ---------------------------
(***************************************************************************)
(* What the flow controlled endpoints promise: for every pair of nodes a   *)
(* FIFO channel that loses, duplicates and reorders nothing, in which    *)
(* items are eventually taken.  How many items a channel may hold is left     *)
(* open; the endpoints bound it with their credits.                        *)
(***************************************************************************)
EXTENDS Sequences

CONSTANTS Pairs, Item

VARIABLE chan

Init == chan = [p \in Pairs |-> <<>>]

Send(p, x) == chan' = [chan EXCEPT ![p] = Append(@, x)]

Receive(p) == /\ chan[p] # <<>>
              /\ chan' = [chan EXCEPT ![p] = Tail(@)]

Next == \E p \in Pairs : Receive(p) \/ \E x \in Item : Send(p, x)

Spec == Init /\ [][Next]_chan

(* As long as some channel holds something, some item is taken. *)
ProgressSpec == Spec /\ WF_chan(\E p \in Pairs : Receive(p))

(* Whatever the other channels do, the items of each channel are taken. *)
FairSpec == Spec /\ \A p \in Pairs : WF_chan(Receive(p))
=============================================================================
