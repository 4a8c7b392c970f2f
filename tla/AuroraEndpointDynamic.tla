------------------------ MODULE AuroraEndpointDynamic ------------------------
(***************************************************************************)
(* mkAuroraEndpointDynamic (src/src/lib/AuroraExtEndpoint.bsv): the        *)
(* endpoint that allocates its receive buffers to whoever asks first.      *)
(* Every source starts with QSize credits; ExtraSize further buffers are   *)
(* handed out in strides.  The first item a sink takes from a source, and  *)
(* every FlowStride-th after it, puts the source on the ack queue, and an  *)
(* ack leaves only while FlowStride buffers are free.                      *)
(***************************************************************************)
EXTENDS AuroraPackets

CONSTANTS
  Flows,          \* the <<source, sink>> pairs the application sends on
  QSize,          \* qSize: initial credits per source
  FlowStride,     \* flowStride_: credits per ack
  ExtraSizeArg,   \* extraSize_: shared buffers, before rounding up to a stride
  FifoDepth,      \* mkFIFO's depth (2)
  FabricDepth,    \* packets of one pair the fabric holds at most
  CountMod        \* 2^16: the width of the credit and buffer registers

(* extraSize; as a mutant, not rounded up to a stride. *)
UnroundedExtra == ExtraSizeArg
ExtraSize == IF ExtraSizeArg < FlowStride THEN FlowStride ELSE ExtraSizeArg
(* The depths of recvQ and ackQ; as a mutant, without the extra buffers. *)
QuotaOnlyRecvQ == Cardinality(Node) * QSize
RecvQDepth == Cardinality(Node) * QSize + ExtraSize
AckQDepth == Cardinality(Node) * (1 + (QSize \div FlowStride))

ASSUME DynamicAssumption ==
  /\ IsFiniteSet(Node)
  /\ Flows \subseteq {p \in Pair : p[1] # p[2]}
  /\ QSize \in Nat \ {0}
  /\ FlowStride \in Nat \ {0}
  /\ ExtraSizeArg \in Nat
  /\ FifoDepth \in Nat \ {0}
  /\ FabricDepth \in Nat \ {0}
  /\ CountMod \in Nat
  /\ QSize + FlowStride <= CountMod
  /\ RecvQDepth < CountMod

VARIABLES
  sendQ,             \* sendQ[n]: items the user handed over, with their sink
  packetSendQ,       \* packetSendQ[n]: packets ready for the fabric
  net,               \* net[<<s, d>>]: packets of the fabric from s to d
  recvQin,           \* recvQin[n], recvQ[n], recvQout[n]: the receive
  recvQ,             \*   pipeline, items with their source
  recvQout,
  ackQin,            \* ackQin[n], ackQ[n]: sources to be acknowledged
  ackQ,
  recvQAvailUp,      \* recvQAvailUp[n]: buffers that became free
  recvQAvailDown,    \* recvQAvailDown[n]: buffers handed out
  sendBudgetUp,      \* sendBudgetUp[n][m]: credits n got for m
  sendBudgetDown,    \* sendBudgetDown[n][m]: credits n spent on m
  flowStrideCounter  \* flowStrideCounter[n][m]: items of m taken since its ack

sending == <<sendQ, packetSendQ>>
receiving == <<recvQin, recvQ, recvQout>>
acking == <<ackQin, ackQ>>
buffers == <<recvQAvailUp, recvQAvailDown>>
credits == <<sendBudgetUp, sendBudgetDown>>
vars == <<sending, net, receiving, acking, buffers, credits, flowStrideCounter>>

Budget(s, d) == (sendBudgetUp[s][d] - sendBudgetDown[s][d]) % CountMod
RecvQAvail(n) == (recvQAvailUp[n] - recvQAvailDown[n]) % CountMod

Init ==
  /\ sendQ = [n \in Node |-> <<>>]
  /\ packetSendQ = [n \in Node |-> <<>>]
  /\ net = [p \in Pair |-> <<>>]
  /\ recvQin = [n \in Node |-> <<>>]
  /\ recvQ = [n \in Node |-> <<>>]
  /\ recvQout = [n \in Node |-> <<>>]
  /\ ackQin = [n \in Node |-> <<>>]
  /\ ackQ = [n \in Node |-> <<>>]
  /\ recvQAvailUp = [n \in Node |-> ExtraSize]
  /\ recvQAvailDown = [n \in Node |-> 0]
  /\ sendBudgetUp = [n \in Node |-> [m \in Node |-> QSize]]
  /\ sendBudgetDown = [n \in Node |-> [m \in Node |-> 0]]
  /\ flowStrideCounter = [n \in Node |-> [m \in Node |-> FlowStride - 1]]

(* user.send: the application hands over an item for node d. *)
UserSend(s, d, x) ==
  /\ Len(sendQ[s]) < FifoDepth
  /\ sendQ' = Enq(sendQ, s, <<d, x>>)
  /\ UNCHANGED <<packetSendQ, net, receiving, acking, buffers, credits, flowStrideCounter>>

(* insertAckQ, first branch: FlowStride free buffers go to the source that *)
(* has waited longest.                                                     *)
UncheckedAckTurn(n) == ackQ[n] # <<>>  \* a mutant: acks do not wait for buffers
AckTurn(n) == ackQ[n] # <<>> /\ RecvQAvail(n) >= FlowStride

InsertAck(n) ==
  /\ AckTurn(n)
  /\ Len(packetSendQ[n]) < FifoDepth
  /\ packetSendQ' = Enq(packetSendQ, n, Ack(Head(ackQ[n])))
  /\ recvQAvailDown' = [recvQAvailDown EXCEPT ![n] = (@ + FlowStride) % CountMod]
  /\ ackQ' = Deq(ackQ, n)
  /\ UNCHANGED <<sendQ, net, receiving, ackQin, recvQAvailUp, credits, flowStrideCounter>>

(* insertAckQ, second branch: the head of sendQ leaves if there is credit. *)
InsertData(n) ==
  /\ ~AckTurn(n)
  /\ sendQ[n] # <<>>
  /\ Len(packetSendQ[n]) < FifoDepth
  /\ LET d == Head(sendQ[n])[1]
         x == Head(sendQ[n])[2]
     IN /\ Budget(n, d) > 0
        /\ sendBudgetDown' = [sendBudgetDown EXCEPT ![n][d] = (@ + 1) % CountMod]
        /\ packetSendQ' = Enq(packetSendQ, n, Data(d, x))
  /\ sendQ' = Deq(sendQ, n)
  /\ UNCHANGED <<net, receiving, acking, buffers, sendBudgetUp, flowStrideCounter>>

(* cmd.receive and the arbiter that calls it. *)
EnterFabric(n) ==
  /\ packetSendQ[n] # <<>>
  /\ LET p == <<n, Head(packetSendQ[n]).dst>>
     IN /\ Len(net[p]) < FabricDepth
        /\ net' = Enq(net, p, Head(packetSendQ[n]))
  /\ packetSendQ' = Deq(packetSendQ, n)
  /\ UNCHANGED <<sendQ, receiving, acking, buffers, credits, flowStrideCounter>>

(* As a mutant: an ack returns a single credit. *)
DeliverOneCredit(s, d) ==
  /\ net[<<s, d>>] # <<>>
  /\ Head(net[<<s, d>>]).control
  /\ sendBudgetUp' = [sendBudgetUp EXCEPT ![d][s] = (@ + 1) % CountMod]
  /\ net' = Deq(net, <<s, d>>)
  /\ UNCHANGED <<sending, receiving, acking, buffers, sendBudgetDown, flowStrideCounter>>

(* cmd.send of an ack packet. *)
DeliverAck(s, d) ==
  /\ net[<<s, d>>] # <<>>
  /\ Head(net[<<s, d>>]).control
  /\ sendBudgetUp' = [sendBudgetUp EXCEPT ![d][s] = (@ + FlowStride) % CountMod]
  /\ net' = Deq(net, <<s, d>>)
  /\ UNCHANGED <<sending, receiving, acking, buffers, sendBudgetDown, flowStrideCounter>>

(* cmd.send of a data packet. *)
DeliverData(s, d) ==
  /\ net[<<s, d>>] # <<>>
  /\ ~Head(net[<<s, d>>]).control
  /\ Len(recvQin[d]) < FifoDepth
  /\ recvQin' = Enq(recvQin, d, <<s, Head(net[<<s, d>>]).item>>)
  /\ net' = Deq(net, <<s, d>>)
  /\ UNCHANGED <<sending, recvQ, recvQout, acking, buffers, credits, flowStrideCounter>>

RecvQReady(n) == Len(recvQ[n]) < RecvQDepth
AckQReady(n) == Len(ackQ[n]) < AckQDepth

RecvQPipeIn(n) ==
  /\ recvQin[n] # <<>>
  /\ RecvQReady(n)
  /\ recvQ' = Enq(recvQ, n, Head(recvQin[n]))
  /\ recvQin' = Deq(recvQin, n)
  /\ UNCHANGED <<sending, net, recvQout, acking, buffers, credits, flowStrideCounter>>

RecvQPipeOut(n) ==
  /\ recvQ[n] # <<>>
  /\ Len(recvQout[n]) < FifoDepth
  /\ recvQout' = Enq(recvQout, n, Head(recvQ[n]))
  /\ recvQ' = Deq(recvQ, n)
  /\ UNCHANGED <<sending, net, recvQin, acking, buffers, credits, flowStrideCounter>>

AckQPipe(n) ==
  /\ ackQin[n] # <<>>
  /\ AckQReady(n)
  /\ ackQ' = Enq(ackQ, n, Head(ackQin[n]))
  /\ ackQin' = Deq(ackQin, n)
  /\ UNCHANGED <<sending, net, receiving, buffers, credits, flowStrideCounter>>

(* user.receive: the application takes an item, which frees its buffer. *)
LateStride(n) == flowStrideCounter[n][Head(recvQout[n])[1]] >= FlowStride  \* a mutant
StrideDone(n) == flowStrideCounter[n][Head(recvQout[n])[1]] + 1 >= FlowStride

UserReceive(n) ==
  /\ recvQout[n] # <<>>
  /\ LET s == Head(recvQout[n])[1]
     IN \/ /\ StrideDone(n)
           /\ Len(ackQin[n]) < FifoDepth
           /\ ackQin' = Enq(ackQin, n, s)
           /\ flowStrideCounter' = [flowStrideCounter EXCEPT ![n][s] = 0]
        \/ /\ ~StrideDone(n)
           /\ flowStrideCounter' = [flowStrideCounter EXCEPT ![n][s] = @ + 1]
           /\ UNCHANGED ackQin
  /\ recvQAvailUp' = [recvQAvailUp EXCEPT ![n] = (@ + 1) % CountMod]
  /\ recvQout' = Deq(recvQout, n)
  /\ UNCHANGED <<sending, net, recvQin, recvQ, ackQ, recvQAvailDown, credits>>

Next ==
  \/ \E f \in Flows, x \in Item : UserSend(f[1], f[2], x)
  \/ \E n \in Node : InsertAck(n)
  \/ \E n \in Node : InsertData(n)
  \/ \E n \in Node : EnterFabric(n)
  \/ \E s, d \in Node : DeliverAck(s, d)
  \/ \E s, d \in Node : DeliverData(s, d)
  \/ \E n \in Node : RecvQPipeIn(n)
  \/ \E n \in Node : RecvQPipeOut(n)
  \/ \E n \in Node : AckQPipe(n)
  \/ \E n \in Node : UserReceive(n)

Spec == Init /\ [][Next]_vars

Sources == {f[1] : f \in Flows}
Sinks == {f[2] : f \in Flows}

Fairness ==
  /\ \A s \in Sources : WF_vars(InsertData(s))
  /\ \A d \in Sinks : /\ WF_vars(RecvQPipeIn(d))
                      /\ WF_vars(RecvQPipeOut(d))
                      /\ WF_vars(UserReceive(d))
                      /\ WF_vars(AckQPipe(d))
                      /\ WF_vars(InsertAck(d))
  /\ \A n \in Sources \cup Sinks : WF_vars(EnterFabric(n))
  /\ \A f \in Flows : SF_vars(DeliverData(f[1], f[2])) /\ WF_vars(DeliverAck(f[2], f[1]))

(* A rule that stays enabled fires.  The Merge2 in front of an endpoint     *)
(* alternates between its inputs, so no source is passed over for ever.     *)
(* Nothing obliges the application to send.                                 *)
FairSpec == Spec /\ Fairness
-----------------------------------------------------------------------------
(* Every register and FIFO holds what its declaration says. *)
TypeOK ==
  /\ sendQ \in FifoFamily(Node, Node \X Item)
  /\ packetSendQ \in FifoFamily(Node, Packet)
  /\ net \in FifoFamily(Pair, Packet)
  /\ recvQin \in FifoFamily(Node, Node \X Item)
  /\ recvQ \in FifoFamily(Node, Node \X Item)
  /\ recvQout \in FifoFamily(Node, Node \X Item)
  /\ ackQin \in FifoFamily(Node, Node)
  /\ ackQ \in FifoFamily(Node, Node)
  /\ recvQAvailUp \in [Node -> 0..(CountMod - 1)]
  /\ recvQAvailDown \in [Node -> 0..(CountMod - 1)]
  /\ sendBudgetUp \in [Node -> [Node -> 0..(CountMod - 1)]]
  /\ sendBudgetDown \in [Node -> [Node -> 0..(CountMod - 1)]]
  /\ flowStrideCounter \in [Node -> [Node -> 0..(FlowStride - 1)]]

(* Data of s that d has not handed to its user, after it left s's sendQ. *)
InReceive(s, d) == Occurs(recvQin[d], From(s)) + Occurs(recvQ[d], From(s))
                   + Occurs(recvQout[d], From(s))
Unread(s, d) == Occurs(packetSendQ[s], DataTo(d)) + Occurs(net[<<s, d>>], AnyData)
                + InReceive(s, d)

(* Acks of d for s: waiting for buffers, and granted but not yet credited. *)
AcksWaiting(s, d) == Occurs(ackQin[d], {s}) + Occurs(ackQ[d], {s})
AcksGranted(s, d) == Occurs(packetSendQ[d], {Ack(s)}) + Occurs(net[<<d, s>>], AnyAck)

(* For every source and sink: the credits the source holds, its unread data,  *)
(* the items counted since its last ack and what its acks are worth add up to *)
(* one constant, whatever the other sources do.  An ack is worth FlowStride   *)
(* from the moment it is due, although it is granted only later.              *)
PairConserved(s, d) ==
  Budget(s, d) + Unread(s, d) + flowStrideCounter[d][s]
    + FlowStride * (AcksWaiting(s, d) + AcksGranted(s, d)) = QSize + FlowStride - 1

CreditsConserved == \A s, d \in Node : PairConserved(s, d)

(* Every buffer of a sink is accounted for exactly once: free, promised to  *)
(* a source as a credit, on its way to one in an ack, or paid for by data   *)
(* that is still to be read.  ("buffers are dynamically allocated whenever  *)
(* available, and flow control tokens are sent accordingly")               *)
Promised(s, d) == Budget(s, d) + Unread(s, d) + FlowStride * AcksGranted(s, d)
PromisedBuffers(d) == UNION {{s} \X (1..Promised(s, d)) : s \in Node}

BuffersConserved ==
  \A d \in Node : RecvQAvail(d) + Cardinality(PromisedBuffers(d)) = RecvQDepth

(* The receive pipeline never waits: an item in recvQin finds recvQ with   *)
(* room, so cmd.send only ever waits for the two slots of recvQin to move. *)
RecvQNeverFull == \A n \in Node : recvQin[n] # <<>> => RecvQReady(n)

(* The ack pipeline never waits: an ack in ackQin finds room in ackQ, so   *)
(* taking an item never depends on the peer, which could be doing the same. *)
AckQNeverFull == \A n \in Node : ackQin[n] # <<>> => AckQReady(n)

(* Neither pipeline is ever held up, so nothing behind an endpoint is. *)
PipelinesNeverWait == RecvQNeverFull /\ AckQNeverFull

(* A source that has run dry, with nothing unread and no ack granted to it,  *)
(* finds a stride of free buffers: what the other sources hold unused cannot *)
(* starve it.  True when QSize + ExtraSize is at least                       *)
(* FlowStride + (|Node| - 2) * (FlowStride - 1); the WARNING in the source   *)
(* is about the sizes for which it fails.                                    *)
NoStarvation ==
  \A f \in Flows : (Promised(f[1], f[2]) = 0) => RecvQAvail(f[2]) >= FlowStride
-----------------------------------------------------------------------------
(* Everything on its way from s to d, oldest first. *)
OnItsWay(s, d) ==
  ReceivedFrom(s, recvQout[d]) \o ReceivedFrom(s, recvQ[d]) \o ReceivedFrom(s, recvQin[d])
    \o PackedFor(d, net[<<s, d>>]) \o PackedFor(d, packetSendQ[s]) \o HandedFor(d, sendQ[s])

Channels == INSTANCE ReliableChannels WITH
              Pairs <- Flows, chan <- [f \in Flows |-> OnItsWay(f[1], f[2])]

(* Each flow is a reliable FIFO channel whose items keep being taken. *)
ImplementsFairChannels == Channels!FairSpec
=============================================================================
