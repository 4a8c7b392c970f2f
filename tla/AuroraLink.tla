------------------------------ MODULE AuroraLink ------------------------------
(***************************************************************************)
(* mkAuroraExtFlowControl (src/src/lib/AuroraExtGearbox.bsv), at both ends *)
(* of one serial link.  The link cannot be held up, so each end grants its *)
(* peer windows of credits, in control words that share the link with data *)
(* going the same way.  An item is wider than the link and is sent as two  *)
(* words, the receiver joining them; a credit is spent with the second.     *)
(*                                                                         *)
(* An item is a pair of bodies.  The FIFOs between sendPacketPart and the  *)
(* peer's recvPacketPart (auroraOutQ, the Aurora core, auroraInQ) are one  *)
(* FIFO, and so are those behind recvBufferQ (recvQ and recvQ2): each only  *)
(* moves its words along.  mkAuroraFlowControl (AuroraGearbox.bsv) is the  *)
(* same with a packet type in front.                                       *)
(***************************************************************************)
EXTENDS Fifos

CONSTANTS
  Body,            \* halves of items (Bit#(BodySz))
  Handed,          \* the items that the users hand over
  RecvQDepth,      \* recvQDepth, 128
  WindowSize,      \* windowSize, 64
  RegMod,          \* 2^16, the width of the credit registers
  SendQDepth,      \* depth of sendQ, 4
  FlowQDepth,      \* depth of flowControlQ, 2
  WireDepth,       \* words between the two ends
  UserQDepth       \* depth of recvQ and recvQ2 together

AuroraIfc == Body \X Body

ASSUME LinkAssumption ==
  /\ Handed \subseteq AuroraIfc
  /\ RecvQDepth \in Nat \ {0} /\ WindowSize \in 1..(RecvQDepth - 1)
  /\ RegMod \in Nat /\ RecvQDepth + WindowSize <= RegMod
  /\ {SendQDepth, FlowQDepth, WireDepth, UserQDepth} \subseteq Nat \ {0}

(* The two ends of the link. *)
End == {1, 2}
Peer(e) == 3 - e

(* The header of a word is {idx, control}. *)
Control(k) == [control |-> TRUE, second |-> FALSE, body |-> k]
First(b) == [control |-> FALSE, second |-> FALSE, body |-> b]
Second(b) == [control |-> FALSE, second |-> TRUE, body |-> b]
Controls == {Control(WindowSize)}
Firsts == {First(b) : b \in Body}
Seconds == {Second(b) : b \in Body}
Word == Controls \cup Firsts \cup Seconds

(* Maybe#(Bit#(BodySz)). *)
Invalid == <<>>
Valid(b) == <<b>>
IsValid(m) == m # Invalid
MaybeBody == {Invalid} \cup {Valid(b) : b \in Body}

VARIABLES
  sendQ,             \* sendQ[e]: items the user of e handed over
  packetSendBuffer,  \* [e]: the second half of the item being sent
  wire,              \* wire[e]: words that e sent and its peer has not read
  flowControlQ,      \* [e]: windows e granted, not sent yet
  curSendBudgetUp, curSendBudgetDown,  \* [e]: credits e got, credits e spent
  packetRecvBuffer,  \* [e]: the first half of the item being received
  recvBufferQ,       \* [e]: items received
  maxInFlightUp, maxInFlightDown,  \* [e]: credits e granted, items that used them
  curInQUp, curInQDown,            \* [e]: items put into and taken from recvBufferQ
  recvQ              \* [e]: items on their way to the user

sendVars == <<sendQ, packetSendBuffer, curSendBudgetDown>>
grantVars == <<flowControlQ, maxInFlightUp>>
recvVars == <<packetRecvBuffer, maxInFlightDown, curInQUp>>
vars == <<sendVars, grantVars, recvVars, wire, curSendBudgetUp, recvBufferQ,
          curInQDown, recvQ>>

(* reg[e] <= reg[e] + k, in the width of the register. *)
Plus(reg, e, k) == [reg EXCEPT ![e] = (@ + k) % RegMod]

Budget(e) == (curSendBudgetUp[e] - curSendBudgetDown[e]) % RegMod
InFlight(e) == (maxInFlightUp[e] - maxInFlightDown[e]) % RegMod
InQ(e) == (curInQUp[e] - curInQDown[e]) % RegMod

Init ==
  LET zero == [e \in End |-> 0]
      empty == [e \in End |-> <<>>]
  IN /\ sendQ = empty /\ wire = empty /\ flowControlQ = empty
     /\ recvBufferQ = empty /\ recvQ = empty
     /\ packetSendBuffer = [e \in End |-> Invalid]
     /\ packetRecvBuffer = [e \in End |-> Invalid]
     /\ curSendBudgetUp = zero /\ curSendBudgetDown = zero
     /\ maxInFlightUp = zero /\ maxInFlightDown = zero
     /\ curInQUp = zero /\ curInQDown = zero

(* method send. *)
Send(e, x) ==
  /\ Len(sendQ[e]) < SendQDepth
  /\ sendQ' = Enq(sendQ, e, x)
  /\ UNCHANGED <<packetSendBuffer, curSendBudgetDown, grantVars, recvVars, wire,
                 curSendBudgetUp, recvBufferQ, curInQDown, recvQ>>

(* As a mutant: the credits still in use are not counted. *)
RoomNow(e) == (InQ(e) + WindowSize) % RegMod < RecvQDepth
WindowFits(e) == (InFlight(e) + InQ(e) + WindowSize) % RegMod < RecvQDepth

EmitFlowControlPacket(e) ==
  /\ WindowFits(e)
  /\ Len(flowControlQ[e]) < FlowQDepth
  /\ flowControlQ' = Enq(flowControlQ, e, WindowSize)
  /\ maxInFlightUp' = Plus(maxInFlightUp, e, WindowSize)
  /\ UNCHANGED <<sendVars, recvVars, wire, curSendBudgetUp, recvBufferQ,
                 curInQDown, recvQ>>

(* sendPacketPart: a window granted goes first, even between two halves. *)
SendFlowControl(e) ==
  /\ flowControlQ[e] # <<>>
  /\ flowControlQ' = Deq(flowControlQ, e)
  /\ wire' = Enq(wire, e, Control(Head(flowControlQ[e])))
  /\ UNCHANGED <<sendVars, maxInFlightUp>>

MaySendData(e) == flowControlQ[e] = <<>> /\ Budget(e) > 0

SendSecondHalf(e) ==
  /\ MaySendData(e)
  /\ IsValid(packetSendBuffer[e])
  /\ wire' = Enq(wire, e, Second(Head(packetSendBuffer[e])))
  /\ packetSendBuffer' = [packetSendBuffer EXCEPT ![e] = Invalid]
  /\ curSendBudgetDown' = Plus(curSendBudgetDown, e, 1)
  /\ UNCHANGED <<sendQ, grantVars>>

(* As mutants: each half spends a credit; the item is not cut to its half. *)
SendFirstHalfPaid(e) ==
  /\ MaySendData(e)
  /\ ~IsValid(packetSendBuffer[e])
  /\ sendQ[e] # <<>>
  /\ wire' = Enq(wire, e, First(Head(sendQ[e])[1]))
  /\ packetSendBuffer' = [packetSendBuffer EXCEPT ![e] = Valid(Head(sendQ[e])[2])]
  /\ curSendBudgetDown' = Plus(curSendBudgetDown, e, 1)
  /\ sendQ' = Deq(sendQ, e)
  /\ UNCHANGED grantVars
SendFirstHalfUncut(e) ==
  /\ MaySendData(e)
  /\ ~IsValid(packetSendBuffer[e])
  /\ sendQ[e] # <<>>
  /\ wire' = Enq(wire, e, First(Head(sendQ[e])[1]))
  /\ packetSendBuffer' = [packetSendBuffer EXCEPT ![e] = Valid(Head(sendQ[e]))]
  /\ sendQ' = Deq(sendQ, e)
  /\ UNCHANGED <<curSendBudgetDown, grantVars>>

SendFirstHalf(e) ==
  /\ MaySendData(e)
  /\ ~IsValid(packetSendBuffer[e])
  /\ sendQ[e] # <<>>
  /\ wire' = Enq(wire, e, First(Head(sendQ[e])[1]))
  /\ packetSendBuffer' = [packetSendBuffer EXCEPT ![e] = Valid(Head(sendQ[e])[2])]
  /\ sendQ' = Deq(sendQ, e)
  /\ UNCHANGED <<curSendBudgetDown, grantVars>>

SendPacketPart(e) ==
  /\ Len(wire[e]) < WireDepth
  /\ SendFlowControl(e) \/ SendSecondHalf(e) \/ SendFirstHalf(e)
  /\ UNCHANGED <<recvVars, curSendBudgetUp, recvBufferQ, curInQDown, recvQ>>

(* recvPacketPart: e reads the oldest word w of its peer. *)
(* As a mutant: a control word between two halves drops the first. *)
RecvControlDropping(e, w) ==
  /\ w.control
  /\ curSendBudgetUp' = Plus(curSendBudgetUp, e, w.body)
  /\ packetRecvBuffer' = [packetRecvBuffer EXCEPT ![e] = Invalid]
  /\ UNCHANGED <<maxInFlightDown, curInQUp, recvBufferQ>>

RecvControl(e, w) ==
  /\ w.control
  /\ curSendBudgetUp' = Plus(curSendBudgetUp, e, w.body)
  /\ UNCHANGED <<recvVars, recvBufferQ>>

Completes(e, w) == ~w.control /\ w.second /\ IsValid(packetRecvBuffer[e])
RecvBufferReady(e) == Len(recvBufferQ[e]) < RecvQDepth

RecvComplete(e, w) ==
  /\ Completes(e, w)
  /\ RecvBufferReady(e)
  /\ packetRecvBuffer' = [packetRecvBuffer EXCEPT ![e] = Invalid]
  /\ recvBufferQ' = Enq(recvBufferQ, e, <<Head(packetRecvBuffer[e]), w.body>>)
  /\ maxInFlightDown' = Plus(maxInFlightDown, e, 1)
  /\ curInQUp' = Plus(curInQUp, e, 1)
  /\ UNCHANGED curSendBudgetUp

(* Any other word: a first half is kept, a second half alone is dropped. *)
RecvIncomplete(e, w) ==
  /\ ~w.control /\ ~Completes(e, w)
  /\ packetRecvBuffer' = [packetRecvBuffer EXCEPT ![e] = IF w.second THEN @ ELSE Valid(w.body)]
  /\ UNCHANGED <<maxInFlightDown, curInQUp, recvBufferQ, curSendBudgetUp>>

RecvPacketPart(e) ==
  /\ wire[Peer(e)] # <<>>
  /\ LET w == Head(wire[Peer(e)])
     IN RecvControl(e, w) \/ RecvComplete(e, w) \/ RecvIncomplete(e, w)
  /\ wire' = Deq(wire, Peer(e))
  /\ UNCHANGED <<sendVars, grantVars, curInQDown, recvQ>>

(* As a mutant: the register is advanced on the way in only. *)
FlushReadBufferUncounted(e) ==
  /\ recvBufferQ[e] # <<>>
  /\ Len(recvQ[e]) < UserQDepth
  /\ recvBufferQ' = Deq(recvBufferQ, e)
  /\ recvQ' = Enq(recvQ, e, Head(recvBufferQ[e]))
  /\ UNCHANGED <<sendVars, grantVars, recvVars, wire, curSendBudgetUp, curInQDown>>

FlushReadBuffer(e) ==
  /\ recvBufferQ[e] # <<>>
  /\ Len(recvQ[e]) < UserQDepth
  /\ curInQDown' = Plus(curInQDown, e, 1)
  /\ recvBufferQ' = Deq(recvBufferQ, e)
  /\ recvQ' = Enq(recvQ, e, Head(recvBufferQ[e]))
  /\ UNCHANGED <<sendVars, grantVars, recvVars, wire, curSendBudgetUp>>

(* method receive. *)
Receive(e) ==
  /\ recvQ[e] # <<>>
  /\ recvQ' = Deq(recvQ, e)
  /\ UNCHANGED <<sendVars, grantVars, recvVars, wire, curSendBudgetUp,
                 recvBufferQ, curInQDown>>

Next ==
  \E e \in End :
    \/ \E x \in Handed : Send(e, x)
    \/ EmitFlowControlPacket(e)
    \/ SendPacketPart(e)
    \/ RecvPacketPart(e)
    \/ FlushReadBuffer(e)
    \/ Receive(e)

Spec == Init /\ [][Next]_vars

(* Every rule fires when it stays enabled, and the users keep receiving. *)
Fairness ==
  \A e \in End : /\ WF_vars(EmitFlowControlPacket(e))
                 /\ WF_vars(SendPacketPart(e))
                 /\ WF_vars(RecvPacketPart(e))
                 /\ WF_vars(FlushReadBuffer(e))
                 /\ WF_vars(Receive(e))

FairSpec == Spec /\ Fairness
-----------------------------------------------------------------------------
(* Every register and FIFO holds what its declaration says, except that the *)
(* length of recvBufferQ is the subject of the properties below.            *)
TypeOK ==
  /\ sendQ \in FifoFamily(End, AuroraIfc)
  /\ wire \in FifoFamily(End, Word)
  /\ flowControlQ \in FifoFamily(End, {WindowSize})
  /\ recvBufferQ \in FifoFamily(End, AuroraIfc)
  /\ recvQ \in FifoFamily(End, AuroraIfc)
  /\ packetSendBuffer \in [End -> MaybeBody]
  /\ packetRecvBuffer \in [End -> MaybeBody]
  /\ \A reg \in {curSendBudgetUp, curSendBudgetDown, maxInFlightUp, maxInFlightDown,
                 curInQUp, curInQDown} : reg \in [End -> 0..(RegMod - 1)]

(* Where the credits are that e granted and that no item has used: with e   *)
(* as windows not sent, on the wire to the peer, with the peer, or spent on *)
(* an item whose second half is on the wire back.                           *)
GrantsOut(e) ==
  WindowSize * (Len(flowControlQ[e]) + Occurs(wire[e], Controls))
  + Budget(Peer(e)) + Occurs(wire[Peer(e)], Seconds)

(* The distance of maxInFlightUp and maxInFlightDown, two wrapping counters *)
(* at the receiver, is at all times the number of credits that are still    *)
(* somewhere in the system, at either end or under way; the other pair      *)
(* counts recvBufferQ; and both together never reach recvQDepth.            *)
LinkConserved ==
  \A e \in End : /\ InFlight(e) = GrantsOut(e)
                 /\ InQ(e) = Len(recvBufferQ[e])
                 /\ InFlight(e) + InQ(e) < RecvQDepth

(* The word that completes an item always finds room in recvBufferQ: the    *)
(* receiver never has to hold up the link, which cannot be held up.         *)
LinkNeverOverruns ==
  \A e \in End : wire[Peer(e)] # <<>> /\ Completes(e, Head(wire[Peer(e)]))
                   => RecvBufferReady(e)

(* Halves arrive alternately, the first first, whatever control words come *)
(* between them.  Where they do not, recvPacketPart drops a word in silence *)
(* (a second half alone, or a first half that another replaces), and every  *)
(* item from there on would be joined from halves of two.                   *)
NoHalfDropped ==
  \A e \in End : wire[Peer(e)] # <<>> /\ ~Head(wire[Peer(e)]).control
                   => (Head(wire[Peer(e)]).second <=> IsValid(packetRecvBuffer[e]))
-----------------------------------------------------------------------------
(* What is on its way to e, oldest first.  The half received or the half    *)
(* kept back completes the halves on the wire.                              *)
Halves(e) ==
  LET data == Those(wire[Peer(e)], Firsts \cup Seconds)
  IN packetRecvBuffer[e] \o [i \in 1..Len(data) |-> data[i].body] \o packetSendBuffer[Peer(e)]
Items(e) ==
  LET h == Halves(e)
  IN [i \in 1..(Len(h) \div 2) |-> <<h[2 * i - 1], h[2 * i]>>]

OnItsWay(e) == recvQ[e] \o recvBufferQ[e] \o Items(e) \o sendQ[Peer(e)]

Link == INSTANCE ReliableChannels WITH
          Pairs <- End, Item <- Handed, chan <- <<OnItsWay(1), OnItsWay(2)>>

(* The link is two reliable FIFO channels: the halves of items are joined   *)
(* correctly although control words come between them, nothing is lost or   *)
(* reordered, and while anything is on its way some item arrives.  (That is  *)
(* all the rules promise: windows go before data, so one direction advances *)
(* only because the other's windows cannot come in every cycle.)            *)
ImplementsLink == Link!ProgressSpec
=============================================================================
