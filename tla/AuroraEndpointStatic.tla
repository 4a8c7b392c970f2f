------------------------- MODULE AuroraEndpointStatic -------------------------
(***************************************************************************)
(* mkAuroraEndpointStatic (src/src/lib/AuroraExtEndpoint.bsv): one         *)
(* end-to-end flow controlled endpoint on every node, over a fabric that   *)
(* keeps the packets of a pair of nodes in order.  A source starts with    *)
(* QSize credits towards every sink and the sink divides its receive queue *)
(* evenly; every FlowStride items the user takes, the sink returns that    *)
(* many credits in one ack packet.                                         *)
(*                                                                         *)
(* A rule of the Bluespec program is one action.  The guards of FIFO       *)
(* methods are conjuncts; the endpoint is compiled with                    *)
(* -aggressive-conditions, so a branch of a rule is guarded by its own     *)
(* method calls only.                                                      *)
(***************************************************************************)
EXTENDS AuroraPackets

CONSTANTS
  Flows,          \* the <<source, sink>> pairs the application sends on
  QSize,          \* qSize: receive slots, and initial credits, per source
  FlowStrideArg,  \* flowStride_: credits per ack, before clipping
  SendQDepth,     \* mkFIFO's depth (2)
  FabricDepth,    \* packets of one pair the fabric holds at most
  BudgetMod       \* 2^16: the width of the credit registers

ASSUME StaticAssumption ==
  /\ IsFiniteSet(Node)
  /\ Flows \subseteq {p \in Node \X Node : p[1] # p[2]}
  /\ QSize \in Nat \ {0}
  /\ FlowStrideArg \in Nat \ {0}
  /\ SendQDepth \in Nat \ {0}
  /\ FabricDepth \in Nat \ {0}
  /\ BudgetMod \in Nat
  /\ QSize < BudgetMod

(* flowStride; as a mutant, without the clipping to qSize. *)
UnclippedStride == FlowStrideArg
FlowStride == IF FlowStrideArg > QSize THEN QSize ELSE FlowStrideArg
(* The depths of recvQ and ackQ. *)
RecvQDepth == Cardinality(Node) * QSize
AckQDepth == Cardinality(Node) * (1 + (QSize \div FlowStride))

VARIABLES
  sendQ,             \* sendQ[n]: items the user handed over, with their sink
  packetSendQ,       \* packetSendQ[n]: packets ready for the fabric
  net,               \* net[<<s, d>>]: packets of the fabric from s to d
  recvQ,             \* recvQ[n]: items received, with their source
  ackQ,              \* ackQ[n]: sources to be acknowledged
  sendBudgetUp,      \* sendBudgetUp[n][m]: credits n got for m, mod BudgetMod
  sendBudgetDown,    \* sendBudgetDown[n][m]: credits n spent on m, mod BudgetMod
  flowStrideCounter  \* flowStrideCounter[n][m]: items of m taken since its ack

vars == <<sendQ, packetSendQ, net, recvQ, ackQ,
          sendBudgetUp, sendBudgetDown, flowStrideCounter>>

Budget(s, d) == (sendBudgetUp[s][d] - sendBudgetDown[s][d]) % BudgetMod

Init ==
  /\ sendQ = [n \in Node |-> <<>>]
  /\ packetSendQ = [n \in Node |-> <<>>]
  /\ net = [p \in Pair |-> <<>>]
  /\ recvQ = [n \in Node |-> <<>>]
  /\ ackQ = [n \in Node |-> <<>>]
  /\ sendBudgetUp = [n \in Node |-> [m \in Node |-> QSize]]
  /\ sendBudgetDown = [n \in Node |-> [m \in Node |-> 0]]
  /\ flowStrideCounter = [n \in Node |-> [m \in Node |-> 0]]

(* user.send: the application hands over an item for node d. *)
UserSend(s, d, x) ==
  /\ Len(sendQ[s]) < SendQDepth
  /\ sendQ' = Enq(sendQ, s, <<d, x>>)
  /\ UNCHANGED <<packetSendQ, net, recvQ, ackQ,
                 sendBudgetUp, sendBudgetDown, flowStrideCounter>>

(* insertAckQ, first branch: an ack waiting is sent before any data. *)
InsertAck(n) ==
  /\ ackQ[n] # <<>>
  /\ Len(packetSendQ[n]) < SendQDepth
  /\ packetSendQ' = Enq(packetSendQ, n, Ack(Head(ackQ[n])))
  /\ ackQ' = Deq(ackQ, n)
  /\ UNCHANGED <<sendQ, net, recvQ, sendBudgetUp, sendBudgetDown, flowStrideCounter>>

(* As a mutant: data leaves without looking at the credits. *)
InsertUnpaidData(n) ==
  /\ ackQ[n] = <<>>
  /\ sendQ[n] # <<>>
  /\ Len(packetSendQ[n]) < SendQDepth
  /\ LET d == Head(sendQ[n])[1]
     IN /\ sendBudgetDown' = [sendBudgetDown EXCEPT ![n][d] = (@ + 1) % BudgetMod]
        /\ packetSendQ' = Enq(packetSendQ, n, Data(d, Head(sendQ[n])[2]))
  /\ sendQ' = Deq(sendQ, n)
  /\ UNCHANGED <<net, recvQ, ackQ, sendBudgetUp, flowStrideCounter>>

(* insertAckQ, second branch: the head of sendQ leaves if there is credit. *)
InsertData(n) ==
  /\ ackQ[n] = <<>>
  /\ sendQ[n] # <<>>
  /\ Len(packetSendQ[n]) < SendQDepth
  /\ LET d == Head(sendQ[n])[1]
         x == Head(sendQ[n])[2]
     IN /\ Budget(n, d) > 0
        /\ sendBudgetDown' = [sendBudgetDown EXCEPT ![n][d] = (@ + 1) % BudgetMod]
        /\ packetSendQ' = Enq(packetSendQ, n, Data(d, x))
  /\ sendQ' = Deq(sendQ, n)
  /\ UNCHANGED <<net, recvQ, ackQ, sendBudgetUp, flowStrideCounter>>

(* cmd.receive and the arbiter that calls it: the head packet enters the   *)
(* fabric, which delivers the packets of one source at one sink in order.  *)
EnterFabric(n) ==
  /\ packetSendQ[n] # <<>>
  /\ LET p == <<n, Head(packetSendQ[n]).dst>>
     IN /\ Len(net[p]) < FabricDepth
        /\ net' = Enq(net, p, Head(packetSendQ[n]))
  /\ packetSendQ' = Deq(packetSendQ, n)
  /\ UNCHANGED <<sendQ, recvQ, ackQ, sendBudgetUp, sendBudgetDown, flowStrideCounter>>

(* As a mutant: the ack of d credits the register of its own index. *)
DeliverAckToSelf(s, d) ==
  /\ net[<<s, d>>] # <<>>
  /\ Head(net[<<s, d>>]).control
  /\ sendBudgetUp' = [sendBudgetUp EXCEPT ![d][d] = (@ + FlowStride) % BudgetMod]
  /\ net' = Deq(net, <<s, d>>)
  /\ UNCHANGED <<sendQ, packetSendQ, recvQ, ackQ, sendBudgetDown, flowStrideCounter>>

(* cmd.send of an ack packet: the credits of the acknowledged sink grow. *)
DeliverAck(s, d) ==
  /\ net[<<s, d>>] # <<>>
  /\ Head(net[<<s, d>>]).control
  /\ sendBudgetUp' = [sendBudgetUp EXCEPT ![d][s] = (@ + FlowStride) % BudgetMod]
  /\ net' = Deq(net, <<s, d>>)
  /\ UNCHANGED <<sendQ, packetSendQ, recvQ, ackQ, sendBudgetDown, flowStrideCounter>>

(* cmd.send of a data packet: guarded by room in the shared receive queue. *)
RecvQReady(d) == Len(recvQ[d]) < RecvQDepth

DeliverData(s, d) ==
  /\ net[<<s, d>>] # <<>>
  /\ ~Head(net[<<s, d>>]).control
  /\ RecvQReady(d)
  /\ recvQ' = Enq(recvQ, d, <<s, Head(net[<<s, d>>]).item>>)
  /\ net' = Deq(net, <<s, d>>)
  /\ UNCHANGED <<sendQ, packetSendQ, ackQ, sendBudgetUp, sendBudgetDown, flowStrideCounter>>

(* user.receive: the application takes the head of the receive queue; the  *)
(* item that completes a stride puts its source on the ack queue.          *)
LateStride(n) == flowStrideCounter[n][Head(recvQ[n])[1]] >= FlowStride  \* a mutant
StrideDone(n) == flowStrideCounter[n][Head(recvQ[n])[1]] + 1 >= FlowStride
AckQReady(n) == Len(ackQ[n]) < AckQDepth

UserReceive(n) ==
  /\ recvQ[n] # <<>>
  /\ LET s == Head(recvQ[n])[1]
     IN \/ /\ StrideDone(n)
           /\ AckQReady(n)
           /\ ackQ' = Enq(ackQ, n, s)
           /\ flowStrideCounter' = [flowStrideCounter EXCEPT ![n][s] = 0]
        \/ /\ ~StrideDone(n)
           /\ flowStrideCounter' = [flowStrideCounter EXCEPT ![n][s] = @ + 1]
           /\ UNCHANGED ackQ
  /\ recvQ' = Deq(recvQ, n)
  /\ UNCHANGED <<sendQ, packetSendQ, net, sendBudgetUp, sendBudgetDown>>

Next ==
  \/ \E f \in Flows, x \in Item : UserSend(f[1], f[2], x)
  \/ \E n \in Node : InsertAck(n)
  \/ \E n \in Node : InsertData(n)
  \/ \E n \in Node : EnterFabric(n)
  \/ \E s, d \in Node : DeliverAck(s, d)
  \/ \E s, d \in Node : DeliverData(s, d)
  \/ \E n \in Node : UserReceive(n)

Spec == Init /\ [][Next]_vars

(* A rule that stays enabled fires; the fabric delivers; the application   *)
(* keeps taking what arrived, but nothing obliges it to send.              *)
Fairness ==
  /\ \A n \in Node : /\ WF_vars(InsertAck(n))
                     /\ WF_vars(InsertData(n))
                     /\ WF_vars(EnterFabric(n))
                     /\ WF_vars(UserReceive(n))
  /\ \A s, d \in Node : WF_vars(DeliverAck(s, d)) /\ WF_vars(DeliverData(s, d))

FairSpec == Spec /\ Fairness
-----------------------------------------------------------------------------
(* Every register and FIFO holds what its declaration says; the receive and *)
(* ack queues are bounded by the properties below, not by their type.       *)
TypeOK ==
  /\ sendQ \in FifoFamily(Node, Node \X Item)
  /\ packetSendQ \in FifoFamily(Node, Packet)
  /\ net \in FifoFamily(Pair, Packet)
  /\ recvQ \in FifoFamily(Node, Node \X Item)
  /\ ackQ \in FifoFamily(Node, Node)
  /\ sendBudgetUp \in [Node -> [Node -> 0..(BudgetMod - 1)]]
  /\ sendBudgetDown \in [Node -> [Node -> 0..(BudgetMod - 1)]]
  /\ flowStrideCounter \in [Node -> [Node -> 0..(FlowStride - 1)]]

(* Data of s that d has not handed to its user, after it left s's sendQ. *)
Unread(s, d) == Occurs(packetSendQ[s], DataTo(d)) + Occurs(net[<<s, d>>], AnyData)
                + Occurs(recvQ[d], From(s))

(* Acks that d owes s: waiting, in the sending FIFO or in the fabric. *)
AcksDue(s, d) == Occurs(ackQ[d], {s}) + Occurs(packetSendQ[d], {Ack(s)})
                 + Occurs(net[<<d, s>>], AnyAck)

(* No credit is created or lost: for every source and sink the credits the *)
(* source holds, the data it has out, the items counted towards the next   *)
(* ack and the credits of the acks on their way add up to QSize, although   *)
(* they are kept by two nodes and in wrapping registers.                    *)
PairConserved(s, d) ==
  Budget(s, d) + Unread(s, d) + flowStrideCounter[d][s] + FlowStride * AcksDue(s, d) = QSize

CreditsConserved == \A s, d \in Node : PairConserved(s, d)

(* No source ever occupies more than its quota of the shared receive queue  *)
(* (the comment "(qSize*NodeCount) buffers are allocated").                 *)
QuotaKept == \A s, d \in Node : Unread(s, d) <= QSize

(* Therefore a data packet at the end of the fabric always finds room:     *)
(* the receiving endpoint never blocks the links it shares with others.    *)
FabricNeverBlocked == \A d \in Node : Len(recvQ[d]) <= RecvQDepth /\
  \A s \in Node : (net[<<s, d>>] # <<>> /\ ~Head(net[<<s, d>>]).control) => RecvQReady(d)

(* Taking an item never waits for room in the ack queue, so receiving does *)
(* not depend on sending (which could wait for the peer to do the same).    *)
ReceiveNeverWaitsForAcks ==
  \A n \in Node : (recvQ[n] # <<>> /\ StrideDone(n)) => AckQReady(n)

(* Neither what arrives nor what is taken is ever held up. *)
NeverHeldUp == FabricNeverBlocked /\ ReceiveNeverWaitsForAcks
-----------------------------------------------------------------------------
(* What the endpoint promises its two users: everything on its way from s  *)
(* to d, oldest first.                                                     *)
OnItsWay(s, d) == ReceivedFrom(s, recvQ[d]) \o PackedFor(d, net[<<s, d>>])
                  \o PackedFor(d, packetSendQ[s]) \o HandedFor(d, sendQ[s])

Channels == INSTANCE ReliableChannels WITH
              Pairs <- Flows, chan <- [f \in Flows |-> OnItsWay(f[1], f[2])]

(* The endpoints and the fabric together are one reliable FIFO channel per  *)
(* flow: nothing is lost, duplicated or reordered, and while anything is on *)
(* its way some item arrives (insertAckQ and the credits never deadlock).   *)
ImplementsChannels == Channels!ProgressSpec

(* Where no node both sends and receives data, every single flow advances. *)
(* (A node that also receives may have its data held back behind acks.)    *)
ImplementsFairChannels == Channels!FairSpec
=============================================================================
