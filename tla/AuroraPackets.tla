---------------------------- MODULE AuroraPackets ----------------------------
(***************************************************************************)
(* The packets both endpoints exchange.  Bit 0 of the payload tells a      *)
(* control packet, which returns credits, from a packet with an item; the  *)
(* source field is filled in where the packet enters the fabric.           *)
(***************************************************************************)
EXTENDS Fifos

CONSTANTS
  Node,   \* the indices of the NodeCount credit registers
  Item    \* the payloads

Pair == Node \X Node

Ack(d) == [control |-> TRUE, dst |-> d]
Data(d, x) == [control |-> FALSE, dst |-> d, item |-> x]
DataTo(d) == {Data(d, x) : x \in Item}
AnyAck == {Ack(d) : d \in Node}
AnyData == UNION {DataTo(d) : d \in Node}
Packet == AnyAck \cup AnyData

(* Entries of a receive queue that came from s. *)
From(s) == {s} \X Item

(* The items of the packets, or of the <<node, item>> entries, of a FIFO. *)
ItemsOf(q) == [i \in 1..Len(q) |-> q[i].item]
Second(q) == [i \in 1..Len(q) |-> q[i][2]]

(* The items of s that a receive queue holds, those for d among packets,   *)
(* and those for d that the application handed over.                       *)
ReceivedFrom(s, q) == Second(Those(q, From(s)))
PackedFor(d, q) == ItemsOf(Those(q, DataTo(d)))
HandedFor(d, q) == Second(Those(q, {d} \X Item))
=============================================================================
