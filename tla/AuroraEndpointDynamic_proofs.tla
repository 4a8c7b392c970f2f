--------------------- MODULE AuroraEndpointDynamic_proofs ---------------------
(***************************************************************************)
(* For every set of nodes, number of credits, stride and number of extra   *)
(* buffers: the dynamically flow controlled endpoint accounts for every    *)
(* credit and every buffer, so its receive and ack pipelines never wait,   *)
(* and where the buffers suffice no source is starved by the others.       *)
(* Every flow is a reliable FIFO channel.                                  *)
(***************************************************************************)
EXTENDS AuroraEndpointDynamic, FifoLemmas

LEMMA Sizes ==
  /\ QSize \in Nat \ {0} /\ FlowStride \in Nat \ {0} /\ ExtraSize \in Nat
  /\ CountMod \in Nat \ {0} /\ QSize + FlowStride <= CountMod
  /\ RecvQDepth \in Nat /\ RecvQDepth < CountMod
  /\ IsFiniteSet(Node) /\ Cardinality(Node) \in Nat
<1>1. Cardinality(Node) \in Nat
  BY DynamicAssumption, FS_CardinalityType
<1>2. ExtraSize \in Nat
  BY DynamicAssumption DEF ExtraSize
<1>3. Cardinality(Node) * QSize \in Nat
  BY <1>1, DynamicAssumption
<1> QED
  BY <1>1, <1>2, <1>3, DynamicAssumption DEF RecvQDepth

(* A reduced sum fits in the register. *)
LEMMA Reduced ==
  ASSUME NEW a \in Nat, NEW k \in Nat
  PROVE  (a + k) % CountMod \in 0..(CountMod - 1)
<1>1. CountMod \in Nat \ {0} /\ a + k \in Nat
  BY Sizes
<1> QED
  BY <1>1

(* A packet is either the ack or a data packet for its destination. *)
LEMMA PacketClasses ==
  ASSUME NEW m \in Packet
  PROVE  /\ m.dst \in Node /\ m.control \in BOOLEAN
         /\ m.control => m = Ack(m.dst)
         /\ ~m.control => m.item \in Item /\ m = Data(m.dst, m.item)
         /\ m \in AnyData <=> ~m.control
         /\ m \in AnyAck <=> m.control
         /\ \A d \in Node : /\ m \in DataTo(d) <=> ~m.control /\ m.dst = d
                            /\ m \in {Ack(d)} <=> m.control /\ m.dst = d
<1>a. \A e : Ack(e).control = TRUE /\ Ack(e).dst = e
  BY DEF Ack
<1>b. \A e, x : Data(e, x).control = FALSE /\ Data(e, x).dst = e /\ Data(e, x).item = x
  BY DEF Data
<1>1. CASE \E e \in Node : m = Ack(e)
  <2>1. PICK e \in Node : m = Ack(e)
    BY <1>1
  <2>2. m.control = TRUE /\ m.dst = e
    BY <2>1, <1>a
  <2>3. \A c, x : m # Data(c, x)
    BY <2>2, <1>b
  <2>4. m \in AnyAck /\ m \notin AnyData /\ \A d \in Node : m \notin DataTo(d)
    BY <2>1, <2>3 DEF AnyAck, AnyData, DataTo
  <2>5. \A d \in Node : m \in {Ack(d)} <=> m.dst = d
    BY <1>a, <2>1, <2>2
  <2> QED
    BY <2>1, <2>2, <2>4, <2>5
<1>2. CASE \E e \in Node, x \in Item : m = Data(e, x)
  <2>1. PICK e \in Node, x \in Item : m = Data(e, x)
    BY <1>2
  <2>2. m.control = FALSE /\ m.dst = e /\ m.item = x
    BY <2>1, <1>b
  <2>3. \A c : m # Ack(c)
    BY <2>2, <1>a
  <2>4. \A d \in Node : m \in DataTo(d) <=> d = e
    BY <1>b, <2>1, <2>2 DEF DataTo
  <2> QED
    BY <2>1, <2>2, <2>3, <2>4 DEF AnyAck, AnyData
<1> QED
  BY <1>1, <1>2 DEF Packet, AnyAck, AnyData, DataTo

(* Packets of both kinds for any node are packets. *)
LEMMA PacketIntro ==
  ASSUME NEW d \in Node
  PROVE  /\ Ack(d) \in Packet /\ Ack(d).control /\ Ack(d).dst = d
         /\ \A x \in Item : Data(d, x) \in Packet /\ ~Data(d, x).control /\ Data(d, x).dst = d
<1>1. Ack(d) \in Packet /\ \A x \in Item : Data(d, x) \in Packet
  BY DEF Packet, AnyAck, AnyData, DataTo
<1>2. Ack(d).control = TRUE /\ Ack(d).dst = d
  BY DEF Ack
<1>3. \A x \in Item : Data(d, x).control = FALSE /\ Data(d, x).dst = d
  BY DEF Data
<1> QED
  BY <1>1, <1>2, <1>3
-----------------------------------------------------------------------------
(* Every step keeps every register and FIFO within its declaration. *)
LEMMA TypeStep == TypeOK /\ [Next]_vars => TypeOK'
<1> SUFFICES ASSUME TypeOK, [Next]_vars PROVE TypeOK'
  OBVIOUS
<1>q. /\ sendQ \in FifoFamily(Node, Node \X Item) /\ recvQin \in FifoFamily(Node, Node \X Item)
      /\ recvQ \in FifoFamily(Node, Node \X Item) /\ recvQout \in FifoFamily(Node, Node \X Item)
      /\ packetSendQ \in FifoFamily(Node, Packet) /\ net \in FifoFamily(Pair, Packet)
      /\ ackQin \in FifoFamily(Node, Node) /\ ackQ \in FifoFamily(Node, Node)
  BY DEF TypeOK
<1>au. recvQAvailUp \in [Node -> 0..(CountMod - 1)]
  BY DEF TypeOK
<1>ad. recvQAvailDown \in [Node -> 0..(CountMod - 1)]
  BY DEF TypeOK
<1>bu. sendBudgetUp \in [Node -> [Node -> 0..(CountMod - 1)]]
  BY DEF TypeOK
<1>bd. sendBudgetDown \in [Node -> [Node -> 0..(CountMod - 1)]]
  BY DEF TypeOK
<1>c. flowStrideCounter \in [Node -> [Node -> 0..(FlowStride - 1)]]
  BY DEF TypeOK
<1>1. ASSUME NEW f \in Flows, NEW x \in Item, UserSend(f[1], f[2], x)
      PROVE  TypeOK'
  <2>1. f[1] \in Node /\ f[2] \in Node /\ <<f[2], x>> \in Node \X Item
    BY DynamicAssumption DEF Pair
  <2>2. Enq(sendQ, f[1], <<f[2], x>>) \in FifoFamily(Node, Node \X Item)
    BY <1>q, <2>1, EnqLemma
  <2> QED
    BY <1>1, <2>2 DEF UserSend, TypeOK, receiving, acking, buffers, credits
<1>2. ASSUME NEW n \in Node, InsertAck(n)
      PROVE  TypeOK'
  <2>1. Head(ackQ[n]) \in Node /\ Deq(ackQ, n) \in FifoFamily(Node, Node)
    BY <1>2, <1>q, DeqLemma DEF InsertAck, AckTurn
  <2>2. Enq(packetSendQ, n, Ack(Head(ackQ[n]))) \in FifoFamily(Node, Packet)
    BY <1>q, <2>1, PacketIntro, EnqLemma
  <2>3. (recvQAvailDown[n] + FlowStride) % CountMod \in 0..(CountMod - 1)
    <3>1. recvQAvailDown[n] \in Nat /\ FlowStride \in Nat
      BY <1>ad, Sizes
    <3> QED
      BY <3>1, Reduced
  <2>4. recvQAvailDown' \in [Node -> 0..(CountMod - 1)]
    BY <1>2, <1>ad, <2>3 DEF InsertAck
  <2> QED
    BY <1>2, <2>1, <2>2, <2>4 DEF InsertAck, TypeOK, receiving, credits
<1>3. ASSUME NEW n \in Node, InsertData(n)
      PROVE  TypeOK'
  <2> DEFINE d == Head(sendQ[n])[1]
             x == Head(sendQ[n])[2]
  <2>1. Head(sendQ[n]) \in Node \X Item /\ Deq(sendQ, n) \in FifoFamily(Node, Node \X Item)
    BY <1>3, <1>q, DeqLemma DEF InsertData
  <2>2. d \in Node /\ Data(d, x) \in Packet
    BY <2>1, PacketIntro
  <2>3. /\ sendQ' = Deq(sendQ, n) /\ packetSendQ' = Enq(packetSendQ, n, Data(d, x))
        /\ sendBudgetDown' = [sendBudgetDown EXCEPT ![n][d] = (@ + 1) % CountMod]
        /\ UNCHANGED <<net, recvQin, recvQ, recvQout, ackQin, ackQ, recvQAvailUp, recvQAvailDown,
                       sendBudgetUp, flowStrideCounter>>
    BY <1>3 DEF InsertData, receiving, acking, buffers
  <2> HIDE DEF d, x
  <2>4. Enq(packetSendQ, n, Data(d, x)) \in FifoFamily(Node, Packet)
    BY <1>q, <2>2, EnqLemma
  <2>5. (sendBudgetDown[n][d] + 1) % CountMod \in 0..(CountMod - 1)
    BY <1>bd, <2>2, Reduced
  <2>6. sendBudgetDown' \in [Node -> [Node -> 0..(CountMod - 1)]]
    BY <1>bd, <2>2, <2>3, <2>5
  <2> QED
    BY <2>1, <2>3, <2>4, <2>6 DEF TypeOK
<1>4. ASSUME NEW n \in Node, EnterFabric(n)
      PROVE  TypeOK'
  <2>1. Head(packetSendQ[n]) \in Packet /\ Deq(packetSendQ, n) \in FifoFamily(Node, Packet)
    BY <1>4, <1>q, DeqLemma DEF EnterFabric
  <2>2. <<n, Head(packetSendQ[n]).dst>> \in Pair
    BY <2>1, PacketClasses DEF Pair
  <2>3. Enq(net, <<n, Head(packetSendQ[n]).dst>>, Head(packetSendQ[n])) \in FifoFamily(Pair, Packet)
    BY <1>q, <2>1, <2>2, EnqLemma
  <2> QED
    BY <1>4, <2>1, <2>3 DEF EnterFabric, TypeOK, receiving, acking, buffers, credits
<1>5. ASSUME NEW s \in Node, NEW d \in Node, DeliverAck(s, d)
      PROVE  TypeOK'
  <2>1. Deq(net, <<s, d>>) \in FifoFamily(Pair, Packet)
    BY <1>5, <1>q, DeqLemma DEF DeliverAck, Pair
  <2>2. (sendBudgetUp[d][s] + FlowStride) % CountMod \in 0..(CountMod - 1)
    <3>1. sendBudgetUp[d][s] \in Nat /\ FlowStride \in Nat
      BY <1>bu, Sizes
    <3> QED
      BY <3>1, Reduced
  <2>3. sendBudgetUp' \in [Node -> [Node -> 0..(CountMod - 1)]]
    BY <1>5, <1>bu, <2>2 DEF DeliverAck
  <2> QED
    BY <1>5, <2>1, <2>3 DEF DeliverAck, TypeOK, sending, receiving, acking, buffers
<1>6. ASSUME NEW s \in Node, NEW d \in Node, DeliverData(s, d)
      PROVE  TypeOK'
  <2>1. Head(net[<<s, d>>]) \in Packet /\ Deq(net, <<s, d>>) \in FifoFamily(Pair, Packet)
    BY <1>6, <1>q, DeqLemma DEF DeliverData, Pair
  <2>2. <<s, Head(net[<<s, d>>]).item>> \in Node \X Item
    BY <1>6, <2>1, PacketClasses DEF DeliverData
  <2>3. Enq(recvQin, d, <<s, Head(net[<<s, d>>]).item>>) \in FifoFamily(Node, Node \X Item)
    BY <1>q, <2>2, EnqLemma
  <2> QED
    BY <1>6, <2>1, <2>3 DEF DeliverData, TypeOK, sending, acking, buffers, credits
<1>7. ASSUME NEW n \in Node, RecvQPipeIn(n)
      PROVE  TypeOK'
  <2>1. Head(recvQin[n]) \in Node \X Item /\ Deq(recvQin, n) \in FifoFamily(Node, Node \X Item)
    BY <1>7, <1>q, DeqLemma DEF RecvQPipeIn
  <2>2. Enq(recvQ, n, Head(recvQin[n])) \in FifoFamily(Node, Node \X Item)
    BY <1>q, <2>1, EnqLemma
  <2> QED
    BY <1>7, <2>1, <2>2 DEF RecvQPipeIn, TypeOK, sending, acking, buffers, credits
<1>8. ASSUME NEW n \in Node, RecvQPipeOut(n)
      PROVE  TypeOK'
  <2>1. Head(recvQ[n]) \in Node \X Item /\ Deq(recvQ, n) \in FifoFamily(Node, Node \X Item)
    BY <1>8, <1>q, DeqLemma DEF RecvQPipeOut
  <2>2. Enq(recvQout, n, Head(recvQ[n])) \in FifoFamily(Node, Node \X Item)
    BY <1>q, <2>1, EnqLemma
  <2> QED
    BY <1>8, <2>1, <2>2 DEF RecvQPipeOut, TypeOK, sending, acking, buffers, credits
<1>9. ASSUME NEW n \in Node, AckQPipe(n)
      PROVE  TypeOK'
  <2>1. Head(ackQin[n]) \in Node /\ Deq(ackQin, n) \in FifoFamily(Node, Node)
    BY <1>9, <1>q, DeqLemma DEF AckQPipe
  <2>2. Enq(ackQ, n, Head(ackQin[n])) \in FifoFamily(Node, Node)
    BY <1>q, <2>1, EnqLemma
  <2> QED
    BY <1>9, <2>1, <2>2 DEF AckQPipe, TypeOK, sending, receiving, buffers, credits
<1>10. ASSUME NEW n \in Node, UserReceive(n)
       PROVE  TypeOK'
  <2> DEFINE s == Head(recvQout[n])[1]
  <2>1. Head(recvQout[n]) \in Node \X Item /\ Deq(recvQout, n) \in FifoFamily(Node, Node \X Item)
    BY <1>10, <1>q, DeqLemma DEF UserReceive
  <2>2. s \in Node
    BY <2>1
  <2>3. /\ recvQout' = Deq(recvQout, n) /\ recvQAvailUp' = [recvQAvailUp EXCEPT ![n] = (@ + 1) % CountMod]
        /\ UNCHANGED <<sendQ, packetSendQ, net, recvQin, recvQ, ackQ, recvQAvailDown, sendBudgetUp,
                       sendBudgetDown>>
        /\ \/ /\ ackQin' = Enq(ackQin, n, s)
              /\ flowStrideCounter' = [flowStrideCounter EXCEPT ![n][s] = 0]
           \/ /\ ~(flowStrideCounter[n][s] + 1 >= FlowStride)
              /\ flowStrideCounter' = [flowStrideCounter EXCEPT ![n][s] = @ + 1]
              /\ UNCHANGED ackQin
    BY <1>10 DEF UserReceive, StrideDone, sending, credits
  <2> HIDE DEF s
  <2>4. ackQin' \in FifoFamily(Node, Node)
    BY <1>q, <2>2, <2>3, EnqLemma
  <2>5. flowStrideCounter' \in [Node -> [Node -> 0..(FlowStride - 1)]]
    <3>1. 0 \in 0..(FlowStride - 1) /\ flowStrideCounter[n][s] \in 0..(FlowStride - 1)
      BY <1>c, <2>2, Sizes
    <3>2. CASE flowStrideCounter' = [flowStrideCounter EXCEPT ![n][s] = 0]
      BY <1>c, <2>2, <3>1, <3>2
    <3>3. CASE /\ ~(flowStrideCounter[n][s] + 1 >= FlowStride)
               /\ flowStrideCounter' = [flowStrideCounter EXCEPT ![n][s] = @ + 1]
      <4>1. flowStrideCounter[n][s] + 1 \in 0..(FlowStride - 1)
        BY <3>1, <3>3, Sizes
      <4> QED
        BY <1>c, <2>2, <3>3, <4>1
    <3> QED
      BY <2>3, <3>2, <3>3
  <2>6. (recvQAvailUp[n] + 1) % CountMod \in 0..(CountMod - 1)
    BY <1>au, Reduced
  <2>7. recvQAvailUp' \in [Node -> 0..(CountMod - 1)]
    BY <1>au, <2>3, <2>6
  <2> QED
    BY <2>1, <2>3, <2>4, <2>5, <2>7 DEF TypeOK
<1>11. CASE UNCHANGED vars
  BY <1>11 DEF vars, TypeOK, sending, receiving, acking, buffers, credits
<1> QED
  BY <1>1, <1>2, <1>3, <1>4, <1>5, <1>6, <1>7, <1>8, <1>9, <1>10, <1>11 DEF Next
-----------------------------------------------------------------------------
Counter(s, d) == flowStrideCounter[d][s]

(* The counts that the conservation laws add up are natural numbers. *)
LEMMA CountTypes ==
  ASSUME TypeOK, NEW s \in Node, NEW d \in Node
  PROVE  /\ Occurs(packetSendQ[s], DataTo(d)) \in Nat /\ Occurs(net[<<s, d>>], AnyData) \in Nat
         /\ Occurs(recvQin[d], From(s)) \in Nat /\ Occurs(recvQ[d], From(s)) \in Nat
         /\ Occurs(recvQout[d], From(s)) \in Nat
         /\ Occurs(ackQin[d], {s}) \in Nat /\ Occurs(ackQ[d], {s}) \in Nat
         /\ Occurs(packetSendQ[d], {Ack(s)}) \in Nat /\ Occurs(net[<<d, s>>], AnyAck) \in Nat
         /\ Budget(s, d) \in 0..(CountMod - 1) /\ RecvQAvail(d) \in 0..(CountMod - 1)
         /\ Counter(s, d) \in 0..(FlowStride - 1)
<1>q. /\ recvQin \in FifoFamily(Node, Node \X Item)
      /\ recvQ \in FifoFamily(Node, Node \X Item) /\ recvQout \in FifoFamily(Node, Node \X Item)
      /\ packetSendQ \in FifoFamily(Node, Packet) /\ net \in FifoFamily(Pair, Packet)
      /\ ackQin \in FifoFamily(Node, Node) /\ ackQ \in FifoFamily(Node, Node)
      /\ <<s, d>> \in Pair /\ <<d, s>> \in Pair
  BY DEF TypeOK, Pair
<1>1. /\ Occurs(packetSendQ[s], DataTo(d)) \in Nat /\ Occurs(net[<<s, d>>], AnyData) \in Nat
      /\ Occurs(recvQin[d], From(s)) \in Nat /\ Occurs(recvQ[d], From(s)) \in Nat
      /\ Occurs(recvQout[d], From(s)) \in Nat
      /\ Occurs(ackQin[d], {s}) \in Nat /\ Occurs(ackQ[d], {s}) \in Nat
      /\ Occurs(packetSendQ[d], {Ack(s)}) \in Nat /\ Occurs(net[<<d, s>>], AnyAck) \in Nat
  BY <1>q, FamilyCount
<1>2. CountMod \in Nat \ {0}
  BY Sizes
<1>3. sendBudgetUp[s][d] \in 0..(CountMod - 1) /\ sendBudgetDown[s][d] \in 0..(CountMod - 1)
  BY DEF TypeOK
<1>4. Budget(s, d) \in 0..(CountMod - 1)
  BY <1>2, <1>3, DistanceType DEF Budget
<1>5. recvQAvailUp[d] \in 0..(CountMod - 1) /\ recvQAvailDown[d] \in 0..(CountMod - 1)
  BY DEF TypeOK
<1>6. RecvQAvail(d) \in 0..(CountMod - 1)
  BY <1>2, <1>5, DistanceType DEF RecvQAvail
<1>7. Counter(s, d) \in 0..(FlowStride - 1)
  BY DEF TypeOK, Counter
<1> QED
  BY <1>1, <1>4, <1>6, <1>7

LEMMA SumTypes ==
  ASSUME TypeOK, NEW s \in Node, NEW d \in Node
  PROVE  /\ Budget(s, d) \in Nat /\ Unread(s, d) \in Nat /\ AcksWaiting(s, d) \in Nat
         /\ AcksGranted(s, d) \in Nat /\ Counter(s, d) \in 0..(FlowStride - 1)
         /\ RecvQAvail(d) \in Nat
<1>1. /\ Occurs(packetSendQ[s], DataTo(d)) \in Nat /\ Occurs(net[<<s, d>>], AnyData) \in Nat
      /\ Occurs(recvQin[d], From(s)) \in Nat /\ Occurs(recvQ[d], From(s)) \in Nat
      /\ Occurs(recvQout[d], From(s)) \in Nat
      /\ Occurs(ackQin[d], {s}) \in Nat /\ Occurs(ackQ[d], {s}) \in Nat
      /\ Occurs(packetSendQ[d], {Ack(s)}) \in Nat /\ Occurs(net[<<d, s>>], AnyAck) \in Nat
      /\ Budget(s, d) \in 0..(CountMod - 1) /\ RecvQAvail(d) \in 0..(CountMod - 1)
      /\ Counter(s, d) \in 0..(FlowStride - 1)
  BY CountTypes
<1>2. Unread(s, d) \in Nat
  BY <1>1 DEF Unread, InReceive
<1>3. AcksWaiting(s, d) \in Nat /\ AcksGranted(s, d) \in Nat
  BY <1>1 DEF AcksWaiting, AcksGranted
<1>4. Budget(s, d) \in Nat /\ RecvQAvail(d) \in Nat
  BY <1>1
<1> QED
  BY <1>1, <1>2, <1>3, <1>4

(* What the conservation law says of a pair: neither its credits and unread *)
(* data nor its acks exceed what it started with.                          *)
LEMMA CreditBounds ==
  ASSUME TypeOK, CreditsConserved, NEW s \in Node, NEW d \in Node
  PROVE  /\ AcksGranted(s, d) >= 1 => Budget(s, d) + FlowStride <= QSize + FlowStride - 1
         /\ Promised(s, d) \in Nat
         /\ Promised(s, d) <= QSize + FlowStride - 1
         /\ FlowStride * AcksWaiting(s, d) <= QSize + FlowStride - 1
<1>1. PICK b, u, c, w, g :
        /\ b = Budget(s, d) /\ u = Unread(s, d) /\ c = Counter(s, d)
        /\ w = AcksWaiting(s, d) /\ g = AcksGranted(s, d)
  OBVIOUS
<1>2. b \in Nat /\ u \in Nat /\ c \in Nat /\ w \in Nat /\ g \in Nat
  BY <1>1, SumTypes
<1>3. b + u + c + FlowStride * (w + g) = QSize + FlowStride - 1
  BY <1>1 DEF CreditsConserved, PairConserved, Counter
<1>4. FlowStride \in Nat \ {0} /\ QSize \in Nat
  BY Sizes
<1>5. FlowStride * (w + g) = FlowStride * w + FlowStride * g
      /\ FlowStride * w \in Nat /\ FlowStride * g \in Nat
  BY <1>2, <1>4
<1>6. g >= 1 => FlowStride * g >= FlowStride
  BY <1>2, <1>4
<1>7. /\ g >= 1 => b + FlowStride <= QSize + FlowStride - 1
      /\ b + u + FlowStride * g \in Nat
      /\ b + u + FlowStride * g <= QSize + FlowStride - 1
      /\ FlowStride * w <= QSize + FlowStride - 1
  <2>1. PICK x, y : x = FlowStride * w /\ y = FlowStride * g
    OBVIOUS
  <2>2. x \in Nat /\ y \in Nat /\ b + u + c + (x + y) = QSize + FlowStride - 1
        /\ (g >= 1 => y >= FlowStride)
    BY <1>3, <1>5, <1>6, <2>1
  <2>3. /\ g >= 1 => b + FlowStride <= QSize + FlowStride - 1
        /\ b + u + y \in Nat /\ b + u + y <= QSize + FlowStride - 1 /\ x <= QSize + FlowStride - 1
    BY <1>2, <1>4, <2>2
  <2> QED
    BY <2>1, <2>3
<1> QED
  BY <1>1, <1>7 DEF Promised

(* What a step does to the terms of the laws. *)
Moves(s, d, unread, waiting, granted) ==
  /\ Unread(s, d)' = Unread(s, d) + unread
  /\ AcksWaiting(s, d)' = AcksWaiting(s, d) + waiting
  /\ AcksGranted(s, d)' = AcksGranted(s, d) + granted
Registers(s, d) == <<Budget(s, d), Counter(s, d), RecvQAvail(d)>>

LEMMA RegistersKept ==
  ASSUME UNCHANGED <<buffers, credits, flowStrideCounter>>
  PROVE  \A s, d \in Node : UNCHANGED Registers(s, d)
BY DEF Registers, Budget, Counter, RecvQAvail, buffers, credits

LEMMA NothingMoves ==
  ASSUME TypeOK, UNCHANGED <<buffers, credits, flowStrideCounter>>, NEW s \in Node, NEW d \in Node,
         Unread(s, d)' = Unread(s, d), AcksWaiting(s, d)' = AcksWaiting(s, d),
         AcksGranted(s, d)' = AcksGranted(s, d)
  PROVE  Moves(s, d, 0, 0, 0) /\ UNCHANGED Registers(s, d)
<1>1. Unread(s, d) \in Nat /\ AcksWaiting(s, d) \in Nat /\ AcksGranted(s, d) \in Nat
  BY SumTypes
<1>2. Unread(s, d) + 0 = Unread(s, d) /\ AcksWaiting(s, d) + 0 = AcksWaiting(s, d)
      /\ AcksGranted(s, d) + 0 = AcksGranted(s, d)
  BY <1>1
<1> QED
  BY <1>2, RegistersKept DEF Moves

LEMMA UserSendMoves ==
  ASSUME TypeOK, NEW f \in Flows, NEW x \in Item, UserSend(f[1], f[2], x)
  PROVE  \A s, d \in Node : Moves(s, d, 0, 0, 0) /\ UNCHANGED Registers(s, d)
<1> SUFFICES ASSUME NEW s \in Node, NEW d \in Node
             PROVE  Moves(s, d, 0, 0, 0) /\ UNCHANGED Registers(s, d)
  OBVIOUS
<1>1. Unread(s, d)' = Unread(s, d) /\ AcksWaiting(s, d)' = AcksWaiting(s, d)
      /\ AcksGranted(s, d)' = AcksGranted(s, d)
  BY DEF UserSend, receiving, acking, Unread, InReceive, AcksWaiting, AcksGranted
<1>2. UNCHANGED <<buffers, credits, flowStrideCounter>>
  BY DEF UserSend
<1> QED
  BY <1>1, <1>2, NothingMoves

LEMMA StutterMoves ==
  ASSUME TypeOK, UNCHANGED vars
  PROVE  \A s, d \in Node : Moves(s, d, 0, 0, 0) /\ UNCHANGED Registers(s, d)
<1> SUFFICES ASSUME NEW s \in Node, NEW d \in Node
             PROVE  Moves(s, d, 0, 0, 0) /\ UNCHANGED Registers(s, d)
  OBVIOUS
<1>1. Unread(s, d)' = Unread(s, d) /\ AcksWaiting(s, d)' = AcksWaiting(s, d)
      /\ AcksGranted(s, d)' = AcksGranted(s, d)
  BY DEF vars, sending, receiving, acking, Unread, InReceive, AcksWaiting, AcksGranted
<1>2. UNCHANGED <<buffers, credits, flowStrideCounter>>
  BY DEF vars
<1> QED
  BY <1>1, <1>2, NothingMoves

LEMMA EnterFabricMoves ==
  ASSUME TypeOK, NEW i \in Node, EnterFabric(i)
  PROVE  \A s, d \in Node : Moves(s, d, 0, 0, 0) /\ UNCHANGED Registers(s, d)
<1> SUFFICES ASSUME NEW s \in Node, NEW d \in Node
             PROVE  Moves(s, d, 0, 0, 0) /\ UNCHANGED Registers(s, d)
  OBVIOUS
<1>t. /\ Occurs(packetSendQ[s], DataTo(d)) \in Nat /\ Occurs(net[<<s, d>>], AnyData) \in Nat
      /\ Occurs(recvQin[d], From(s)) \in Nat /\ Occurs(recvQ[d], From(s)) \in Nat
      /\ Occurs(recvQout[d], From(s)) \in Nat
      /\ Occurs(ackQin[d], {s}) \in Nat /\ Occurs(ackQ[d], {s}) \in Nat
      /\ Occurs(packetSendQ[d], {Ack(s)}) \in Nat /\ Occurs(net[<<d, s>>], AnyAck) \in Nat
  BY CountTypes
<1>1. PICK h, e : h = Head(packetSendQ[i]) /\ e = h.dst
  OBVIOUS
<1>2. /\ packetSendQ[i] # <<>> /\ packetSendQ' = Deq(packetSendQ, i) /\ net' = Enq(net, <<i, e>>, h)
      /\ UNCHANGED <<recvQin, recvQ, recvQout, ackQin, ackQ, buffers, credits, flowStrideCounter>>
  BY <1>1 DEF EnterFabric, receiving, acking
<1>3. /\ packetSendQ \in FifoFamily(Node, Packet) /\ net \in FifoFamily(Pair, Packet)
      /\ <<s, d>> \in Pair /\ <<d, s>> \in Pair
  BY DEF TypeOK, Pair
<1>4. /\ h \in Packet
      /\ \A v \in Node : \A S : Occurs(Deq(packetSendQ, i)[v], S)
            = IF v = i /\ h \in S THEN Occurs(packetSendQ[v], S) - 1 ELSE Occurs(packetSendQ[v], S)
  BY <1>1, <1>2, <1>3, DeqLemma
<1>5. /\ e \in Node /\ <<i, e>> \in Pair /\ h.control \in BOOLEAN
      /\ h \in DataTo(d) <=> ~h.control /\ e = d
      /\ h \in {Ack(s)} <=> h.control /\ e = s
      /\ h \in AnyData <=> ~h.control
      /\ h \in AnyAck <=> h.control
  BY <1>1, <1>4, PacketClasses DEF Pair
<1>6. \A v \in Pair : \A S : Occurs(Enq(net, <<i, e>>, h)[v], S)
         = IF v = <<i, e>> /\ h \in S THEN Occurs(net[v], S) + 1 ELSE Occurs(net[v], S)
  <2>1. h \in Packet /\ <<i, e>> \in Pair /\ net \in FifoFamily(Pair, Packet)
    BY <1>3, <1>4, <1>5
  <2> QED
    BY <2>1, EnqLemma
<1>7. /\ Occurs(packetSendQ'[s], DataTo(d)) = Occurs(packetSendQ[s], DataTo(d)) - (IF s = i /\ h \in DataTo(d) THEN 1 ELSE 0)
      /\ Occurs(packetSendQ'[d], {Ack(s)}) = Occurs(packetSendQ[d], {Ack(s)}) - (IF d = i /\ h \in {Ack(s)} THEN 1 ELSE 0)
      /\ Occurs(net'[<<s, d>>], AnyData) = Occurs(net[<<s, d>>], AnyData) + (IF s = i /\ d = e /\ h \in AnyData THEN 1 ELSE 0)
      /\ Occurs(net'[<<d, s>>], AnyAck) = Occurs(net[<<d, s>>], AnyAck) + (IF d = i /\ s = e /\ h \in AnyAck THEN 1 ELSE 0)
  <2>1. <<s, d>> = <<i, e>> <=> s = i /\ d = e
    OBVIOUS
  <2>2. <<d, s>> = <<i, e>> <=> d = i /\ s = e
    OBVIOUS
  <2>3. /\ Occurs(packetSendQ'[s], DataTo(d)) = Occurs(packetSendQ[s], DataTo(d)) - (IF s = i /\ h \in DataTo(d) THEN 1 ELSE 0)
        /\ Occurs(packetSendQ'[d], {Ack(s)}) = Occurs(packetSendQ[d], {Ack(s)}) - (IF d = i /\ h \in {Ack(s)} THEN 1 ELSE 0)
    <3>1. Occurs(Deq(packetSendQ, i)[s], DataTo(d))
            = IF s = i /\ h \in DataTo(d) THEN Occurs(packetSendQ[s], DataTo(d)) - 1 ELSE Occurs(packetSendQ[s], DataTo(d))
      BY <1>4
    <3>2. Occurs(Deq(packetSendQ, i)[d], {Ack(s)})
            = IF d = i /\ h \in {Ack(s)} THEN Occurs(packetSendQ[d], {Ack(s)}) - 1 ELSE Occurs(packetSendQ[d], {Ack(s)})
      BY <1>4
    <3> QED
      BY <1>2, <1>t, <3>1, <3>2
  <2>4. Occurs(net'[<<s, d>>], AnyData) = Occurs(net[<<s, d>>], AnyData) + (IF s = i /\ d = e /\ h \in AnyData THEN 1 ELSE 0)
    BY <1>2, <1>3, <1>6, <1>t, <2>1
  <2>5. Occurs(net'[<<d, s>>], AnyAck) = Occurs(net[<<d, s>>], AnyAck) + (IF d = i /\ s = e /\ h \in AnyAck THEN 1 ELSE 0)
    BY <1>2, <1>3, <1>6, <1>t, <2>2
  <2> QED
    BY <2>3, <2>4, <2>5
<1>8. /\ Occurs(packetSendQ'[s], DataTo(d)) + Occurs(net'[<<s, d>>], AnyData)
            = Occurs(packetSendQ[s], DataTo(d)) + Occurs(net[<<s, d>>], AnyData)
      /\ Occurs(packetSendQ'[d], {Ack(s)}) + Occurs(net'[<<d, s>>], AnyAck)
            = Occurs(packetSendQ[d], {Ack(s)}) + Occurs(net[<<d, s>>], AnyAck)
  BY <1>5, <1>7, <1>t
<1>9. /\ Unread(s, d)' = Unread(s, d) /\ AcksWaiting(s, d)' = AcksWaiting(s, d)
      /\ AcksGranted(s, d)' = AcksGranted(s, d)
  BY <1>2, <1>8 DEF Unread, InReceive, AcksWaiting, AcksGranted
<1> QED
  BY <1>2, <1>9, NothingMoves

LEMMA DeliverDataMoves ==
  ASSUME TypeOK, NEW i \in Node, NEW j \in Node, DeliverData(i, j)
  PROVE  \A s, d \in Node : Moves(s, d, 0, 0, 0) /\ UNCHANGED Registers(s, d)
<1> SUFFICES ASSUME NEW s \in Node, NEW d \in Node
             PROVE  Moves(s, d, 0, 0, 0) /\ UNCHANGED Registers(s, d)
  OBVIOUS
<1>t. /\ Occurs(packetSendQ[s], DataTo(d)) \in Nat /\ Occurs(net[<<s, d>>], AnyData) \in Nat
      /\ Occurs(recvQin[d], From(s)) \in Nat /\ Occurs(recvQ[d], From(s)) \in Nat
      /\ Occurs(recvQout[d], From(s)) \in Nat
      /\ Occurs(ackQin[d], {s}) \in Nat /\ Occurs(ackQ[d], {s}) \in Nat
      /\ Occurs(packetSendQ[d], {Ack(s)}) \in Nat /\ Occurs(net[<<d, s>>], AnyAck) \in Nat
  BY CountTypes
<1>1. PICK h, x : h = Head(net[<<i, j>>]) /\ x = <<i, h.item>>
  OBVIOUS
<1>2. /\ net[<<i, j>>] # <<>> /\ ~h.control /\ recvQin' = Enq(recvQin, j, x) /\ net' = Deq(net, <<i, j>>)
      /\ UNCHANGED <<packetSendQ, recvQ, recvQout, ackQin, ackQ, buffers, credits, flowStrideCounter>>
  BY <1>1 DEF DeliverData, sending, acking
<1>3. /\ recvQin \in FifoFamily(Node, Node \X Item) /\ net \in FifoFamily(Pair, Packet)
      /\ <<s, d>> \in Pair /\ <<d, s>> \in Pair /\ <<i, j>> \in Pair
  BY DEF TypeOK, Pair
<1>4. /\ h \in Packet
      /\ \A v \in Pair : \A S : Occurs(Deq(net, <<i, j>>)[v], S)
            = IF v = <<i, j>> /\ h \in S THEN Occurs(net[v], S) - 1 ELSE Occurs(net[v], S)
  <2>1. /\ Head(net[<<i, j>>]) \in Packet
        /\ \A v \in Pair : \A S : Occurs(Deq(net, <<i, j>>)[v], S)
             = IF v = <<i, j>> /\ Head(net[<<i, j>>]) \in S
               THEN Occurs(net[v], S) - 1 ELSE Occurs(net[v], S)
    BY <1>2, <1>3, DeqLemma
  <2> QED
    BY <1>1, <2>1
<1>5. h \in AnyData /\ h \notin AnyAck /\ h.item \in Item
  BY <1>2, <1>4, PacketClasses
<1>6. x \in Node \X Item /\ (x \in From(s) <=> i = s)
  BY <1>1, <1>5 DEF From
<1>7. \A v \in Node : \A S : Occurs(Enq(recvQin, j, x)[v], S)
         = IF v = j /\ x \in S THEN Occurs(recvQin[v], S) + 1 ELSE Occurs(recvQin[v], S)
  BY <1>3, <1>6, EnqLemma
<1>8. /\ Occurs(net'[<<s, d>>], AnyData) = Occurs(net[<<s, d>>], AnyData) - (IF s = i /\ d = j THEN 1 ELSE 0)
      /\ Occurs(recvQin'[d], From(s)) = Occurs(recvQin[d], From(s)) + (IF d = j /\ s = i THEN 1 ELSE 0)
      /\ Occurs(net'[<<d, s>>], AnyAck) = Occurs(net[<<d, s>>], AnyAck)
  BY <1>2, <1>3, <1>4, <1>5, <1>6, <1>7, <1>t
<1>9. Occurs(net'[<<s, d>>], AnyData) + Occurs(recvQin'[d], From(s))
        = Occurs(net[<<s, d>>], AnyData) + Occurs(recvQin[d], From(s))
  BY <1>8, <1>t
<1>10. /\ Unread(s, d)' = Unread(s, d) /\ AcksWaiting(s, d)' = AcksWaiting(s, d)
       /\ AcksGranted(s, d)' = AcksGranted(s, d)
  BY <1>2, <1>8, <1>9, <1>t DEF Unread, InReceive, AcksWaiting, AcksGranted
<1> QED
  BY <1>2, <1>10, NothingMoves
LEMMA RecvQPipeInMoves ==
  ASSUME TypeOK, NEW i \in Node, RecvQPipeIn(i)
  PROVE  \A s, d \in Node : Moves(s, d, 0, 0, 0) /\ UNCHANGED Registers(s, d)
<1> SUFFICES ASSUME NEW s \in Node, NEW d \in Node
             PROVE  Moves(s, d, 0, 0, 0) /\ UNCHANGED Registers(s, d)
  OBVIOUS
<1>1. PICK h : h = Head(recvQin[i])
  OBVIOUS
<1>2. /\ recvQin[i] # <<>> /\ recvQ' = Enq(recvQ, i, h) /\ recvQin' = Deq(recvQin, i)
      /\ UNCHANGED <<packetSendQ, net, recvQout, ackQin, ackQ, buffers, credits, flowStrideCounter>>
  BY <1>1 DEF RecvQPipeIn, sending, acking
<1>3. recvQin \in FifoFamily(Node, Node \X Item) /\ recvQ \in FifoFamily(Node, Node \X Item)
  BY DEF TypeOK
<1>t. /\ Occurs(packetSendQ[s], DataTo(d)) \in Nat /\ Occurs(net[<<s, d>>], AnyData) \in Nat
      /\ Occurs(recvQin[d], From(s)) \in Nat /\ Occurs(recvQ[d], From(s)) \in Nat
      /\ Occurs(recvQout[d], From(s)) \in Nat
      /\ Occurs(ackQin[d], {s}) \in Nat /\ Occurs(ackQ[d], {s}) \in Nat
      /\ Occurs(packetSendQ[d], {Ack(s)}) \in Nat /\ Occurs(net[<<d, s>>], AnyAck) \in Nat
  BY CountTypes
<1>4. /\ h \in Node \X Item
      /\ \A v \in Node : \A S : Occurs(Deq(recvQin, i)[v], S)
            = IF v = i /\ h \in S THEN Occurs(recvQin[v], S) - 1 ELSE Occurs(recvQin[v], S)
  <2>1. /\ Head(recvQin[i]) \in Node \X Item
        /\ \A v \in Node : \A S : Occurs(Deq(recvQin, i)[v], S)
             = IF v = i /\ Head(recvQin[i]) \in S THEN Occurs(recvQin[v], S) - 1 ELSE Occurs(recvQin[v], S)
    BY <1>2, <1>3, DeqLemma
  <2> QED
    BY <1>1, <2>1
<1>5. \A v \in Node : \A S : Occurs(Enq(recvQ, i, h)[v], S)
         = IF v = i /\ h \in S THEN Occurs(recvQ[v], S) + 1 ELSE Occurs(recvQ[v], S)
  <2>1. h \in Node \X Item /\ recvQ \in FifoFamily(Node, Node \X Item)
    BY <1>3, <1>4
  <2> QED
    BY <2>1, EnqLemma
<1>6. Occurs(recvQin'[d], From(s)) = Occurs(recvQin[d], From(s)) + (IF d = i /\ h \in From(s) THEN -1 ELSE 0)
  <2>1. Occurs(Deq(recvQin, i)[d], From(s))
          = IF d = i /\ h \in From(s) THEN Occurs(recvQin[d], From(s)) - 1 ELSE Occurs(recvQin[d], From(s))
    BY <1>4
  <2> QED
    BY <1>2, <1>t, <2>1
<1>7. Occurs(recvQ'[d], From(s)) = Occurs(recvQ[d], From(s)) + (IF d = i /\ h \in From(s) THEN 1 ELSE 0)
  <2>1. Occurs(Enq(recvQ, i, h)[d], From(s))
          = IF d = i /\ h \in From(s) THEN Occurs(recvQ[d], From(s)) + 1 ELSE Occurs(recvQ[d], From(s))
    BY <1>5
  <2> QED
    BY <1>2, <1>t, <2>1
<1>8. InReceive(s, d)' = InReceive(s, d)
  <2>1. recvQout' = recvQout
    BY <1>2
  <2> QED
    BY <1>6, <1>7, <1>t, <2>1 DEF InReceive
<1>9. Unread(s, d)' = Unread(s, d) /\ AcksWaiting(s, d)' = AcksWaiting(s, d)
      /\ AcksGranted(s, d)' = AcksGranted(s, d)
  BY <1>2, <1>8 DEF Unread, AcksWaiting, AcksGranted
<1> QED
  BY <1>2, <1>8, <1>9, NothingMoves

LEMMA RecvQPipeOutMoves ==
  ASSUME TypeOK, NEW i \in Node, RecvQPipeOut(i)
  PROVE  \A s, d \in Node : Moves(s, d, 0, 0, 0) /\ UNCHANGED Registers(s, d)
<1> SUFFICES ASSUME NEW s \in Node, NEW d \in Node
             PROVE  Moves(s, d, 0, 0, 0) /\ UNCHANGED Registers(s, d)
  OBVIOUS
<1>1. PICK h : h = Head(recvQ[i])
  OBVIOUS
<1>2. /\ recvQ[i] # <<>> /\ recvQout' = Enq(recvQout, i, h) /\ recvQ' = Deq(recvQ, i)
      /\ UNCHANGED <<packetSendQ, net, recvQin, ackQin, ackQ, buffers, credits, flowStrideCounter>>
  BY <1>1 DEF RecvQPipeOut, sending, acking
<1>3. recvQ \in FifoFamily(Node, Node \X Item) /\ recvQout \in FifoFamily(Node, Node \X Item)
  BY DEF TypeOK
<1>t. /\ Occurs(packetSendQ[s], DataTo(d)) \in Nat /\ Occurs(net[<<s, d>>], AnyData) \in Nat
      /\ Occurs(recvQin[d], From(s)) \in Nat /\ Occurs(recvQ[d], From(s)) \in Nat
      /\ Occurs(recvQout[d], From(s)) \in Nat
      /\ Occurs(ackQin[d], {s}) \in Nat /\ Occurs(ackQ[d], {s}) \in Nat
      /\ Occurs(packetSendQ[d], {Ack(s)}) \in Nat /\ Occurs(net[<<d, s>>], AnyAck) \in Nat
  BY CountTypes
<1>4. /\ h \in Node \X Item
      /\ \A v \in Node : \A S : Occurs(Deq(recvQ, i)[v], S)
            = IF v = i /\ h \in S THEN Occurs(recvQ[v], S) - 1 ELSE Occurs(recvQ[v], S)
  <2>1. /\ Head(recvQ[i]) \in Node \X Item
        /\ \A v \in Node : \A S : Occurs(Deq(recvQ, i)[v], S)
             = IF v = i /\ Head(recvQ[i]) \in S THEN Occurs(recvQ[v], S) - 1 ELSE Occurs(recvQ[v], S)
    BY <1>2, <1>3, DeqLemma
  <2> QED
    BY <1>1, <2>1
<1>5. \A v \in Node : \A S : Occurs(Enq(recvQout, i, h)[v], S)
         = IF v = i /\ h \in S THEN Occurs(recvQout[v], S) + 1 ELSE Occurs(recvQout[v], S)
  <2>1. h \in Node \X Item /\ recvQout \in FifoFamily(Node, Node \X Item)
    BY <1>3, <1>4
  <2> QED
    BY <2>1, EnqLemma
<1>6. Occurs(recvQ'[d], From(s)) = Occurs(recvQ[d], From(s)) + (IF d = i /\ h \in From(s) THEN -1 ELSE 0)
  <2>1. Occurs(Deq(recvQ, i)[d], From(s))
          = IF d = i /\ h \in From(s) THEN Occurs(recvQ[d], From(s)) - 1 ELSE Occurs(recvQ[d], From(s))
    BY <1>4
  <2> QED
    BY <1>2, <1>t, <2>1
<1>7. Occurs(recvQout'[d], From(s)) = Occurs(recvQout[d], From(s)) + (IF d = i /\ h \in From(s) THEN 1 ELSE 0)
  <2>1. Occurs(Enq(recvQout, i, h)[d], From(s))
          = IF d = i /\ h \in From(s) THEN Occurs(recvQout[d], From(s)) + 1 ELSE Occurs(recvQout[d], From(s))
    BY <1>5
  <2> QED
    BY <1>2, <1>t, <2>1
<1>8. InReceive(s, d)' = InReceive(s, d)
  <2>1. recvQin' = recvQin
    BY <1>2
  <2> QED
    BY <1>6, <1>7, <1>t, <2>1 DEF InReceive
<1>9. Unread(s, d)' = Unread(s, d) /\ AcksWaiting(s, d)' = AcksWaiting(s, d)
      /\ AcksGranted(s, d)' = AcksGranted(s, d)
  BY <1>2, <1>8 DEF Unread, AcksWaiting, AcksGranted
<1> QED
  BY <1>2, <1>8, <1>9, NothingMoves

(* A new entry of an ack queue adds one ack to the source it names. *)
LEMMA AckEnqueued ==
  ASSUME NEW q, q \in FifoFamily(Node, Node), NEW i \in Node, NEW h \in Node
  PROVE  \A v \in Node : \A S : Occurs(Enq(q, i, h)[v], S)
           = IF v = i /\ h \in S THEN Occurs(q[v], S) + 1 ELSE Occurs(q[v], S)
BY EnqLemma

LEMMA AckQPipeMoves ==
  ASSUME TypeOK, NEW i \in Node, AckQPipe(i)
  PROVE  \A s, d \in Node : Moves(s, d, 0, 0, 0) /\ UNCHANGED Registers(s, d)
<1> SUFFICES ASSUME NEW s \in Node, NEW d \in Node
             PROVE  Moves(s, d, 0, 0, 0) /\ UNCHANGED Registers(s, d)
  OBVIOUS
<1>1. PICK h : h = Head(ackQin[i])
  OBVIOUS
<1>2. /\ ackQin[i] # <<>> /\ ackQ' = Enq(ackQ, i, h) /\ ackQin' = Deq(ackQin, i)
      /\ UNCHANGED <<packetSendQ, net, recvQin, recvQ, recvQout, buffers, credits, flowStrideCounter>>
  BY <1>1 DEF AckQPipe, sending, receiving
<1>3. ackQin \in FifoFamily(Node, Node) /\ ackQ \in FifoFamily(Node, Node)
  BY DEF TypeOK
<1>t. /\ Occurs(packetSendQ[s], DataTo(d)) \in Nat /\ Occurs(net[<<s, d>>], AnyData) \in Nat
      /\ Occurs(recvQin[d], From(s)) \in Nat /\ Occurs(recvQ[d], From(s)) \in Nat
      /\ Occurs(recvQout[d], From(s)) \in Nat
      /\ Occurs(ackQin[d], {s}) \in Nat /\ Occurs(ackQ[d], {s}) \in Nat
      /\ Occurs(packetSendQ[d], {Ack(s)}) \in Nat /\ Occurs(net[<<d, s>>], AnyAck) \in Nat
  BY CountTypes
<1>4. /\ h \in Node
      /\ \A v \in Node : \A S : Occurs(Deq(ackQin, i)[v], S)
            = IF v = i /\ h \in S THEN Occurs(ackQin[v], S) - 1 ELSE Occurs(ackQin[v], S)
  <2>1. /\ Head(ackQin[i]) \in Node
        /\ \A v \in Node : \A S : Occurs(Deq(ackQin, i)[v], S)
             = IF v = i /\ Head(ackQin[i]) \in S THEN Occurs(ackQin[v], S) - 1 ELSE Occurs(ackQin[v], S)
    BY <1>2, <1>3, DeqLemma
  <2> QED
    BY <1>1, <2>1
<1>5. \A v \in Node : \A S : Occurs(Enq(ackQ, i, h)[v], S)
         = IF v = i /\ h \in S THEN Occurs(ackQ[v], S) + 1 ELSE Occurs(ackQ[v], S)
  <2>1. h \in Node /\ ackQ \in FifoFamily(Node, Node)
    BY <1>3, <1>4
  <2> QED
    BY <2>1, AckEnqueued
<1>6. Occurs(ackQin'[d], {s}) = Occurs(ackQin[d], {s}) + (IF d = i /\ h \in {s} THEN -1 ELSE 0)
  <2>1. Occurs(Deq(ackQin, i)[d], {s})
          = IF d = i /\ h \in {s} THEN Occurs(ackQin[d], {s}) - 1 ELSE Occurs(ackQin[d], {s})
    BY <1>4
  <2> QED
    BY <1>2, <1>t, <2>1
<1>7. Occurs(ackQ'[d], {s}) = Occurs(ackQ[d], {s}) + (IF d = i /\ h \in {s} THEN 1 ELSE 0)
  <2>1. Occurs(Enq(ackQ, i, h)[d], {s})
          = IF d = i /\ h \in {s} THEN Occurs(ackQ[d], {s}) + 1 ELSE Occurs(ackQ[d], {s})
    BY <1>5
  <2> QED
    BY <1>2, <1>t, <2>1
<1>8. AcksWaiting(s, d)' = AcksWaiting(s, d)
  BY <1>6, <1>7, <1>t DEF AcksWaiting
<1>9. Unread(s, d)' = Unread(s, d) /\ AcksGranted(s, d)' = AcksGranted(s, d)
  BY <1>2 DEF Unread, InReceive, AcksGranted
<1> QED
  BY <1>2, <1>8, <1>9, NothingMoves

(* Moving an ack from the waiting to the granted ones takes a stride of    *)
(* buffers.                                                                *)
LEMMA InsertAckMoves ==
  ASSUME TypeOK, NEW i \in Node, InsertAck(i)
  PROVE  \E h \in Node : \A s, d \in Node :
            /\ IF d = i /\ s = h THEN Moves(s, d, 0, -1, 1) ELSE Moves(s, d, 0, 0, 0)
            /\ UNCHANGED <<Budget(s, d), Counter(s, d)>>
            /\ RecvQAvail(d)' = RecvQAvail(d) - (IF d = i THEN FlowStride ELSE 0)
<1>1. PICK h : h = Head(ackQ[i])
  OBVIOUS
<1>2. /\ ackQ[i] # <<>> /\ RecvQAvail(i) >= FlowStride /\ ackQ' = Deq(ackQ, i)
      /\ packetSendQ' = Enq(packetSendQ, i, Ack(h))
      /\ recvQAvailDown' = [recvQAvailDown EXCEPT ![i] = (@ + FlowStride) % CountMod]
      /\ UNCHANGED <<net, recvQin, recvQ, recvQout, ackQin, recvQAvailUp, sendBudgetUp, sendBudgetDown,
                     flowStrideCounter>>
  BY <1>1 DEF InsertAck, AckTurn, receiving, credits
<1>3. ackQ \in FifoFamily(Node, Node) /\ packetSendQ \in FifoFamily(Node, Packet)
  BY DEF TypeOK
<1>4. /\ h \in Node
      /\ \A v \in Node : \A S : Occurs(Deq(ackQ, i)[v], S)
            = IF v = i /\ h \in S THEN Occurs(ackQ[v], S) - 1 ELSE Occurs(ackQ[v], S)
  <2>1. /\ Head(ackQ[i]) \in Node
        /\ \A v \in Node : \A S : Occurs(Deq(ackQ, i)[v], S)
             = IF v = i /\ Head(ackQ[i]) \in S THEN Occurs(ackQ[v], S) - 1 ELSE Occurs(ackQ[v], S)
    BY <1>2, <1>3, DeqLemma
  <2> QED
    BY <1>1, <2>1
<1>5. Ack(h) \in Packet /\ \A d \in Node : Ack(h) \notin DataTo(d) /\ (Ack(h) \in {Ack(d)} <=> h = d)
  BY <1>4, PacketIntro, PacketClasses
<1>6. \A v \in Node : \A S : Occurs(Enq(packetSendQ, i, Ack(h))[v], S)
         = IF v = i /\ Ack(h) \in S THEN Occurs(packetSendQ[v], S) + 1 ELSE Occurs(packetSendQ[v], S)
  BY <1>3, <1>5, EnqLemma
<1>7. ASSUME NEW s \in Node, NEW d \in Node
      PROVE  /\ IF d = i /\ s = h THEN Moves(s, d, 0, -1, 1) ELSE Moves(s, d, 0, 0, 0)
             /\ UNCHANGED <<Budget(s, d), Counter(s, d)>>
             /\ RecvQAvail(d)' = RecvQAvail(d) - (IF d = i THEN FlowStride ELSE 0)
  <2>t. /\ Occurs(packetSendQ[s], DataTo(d)) \in Nat /\ Occurs(net[<<s, d>>], AnyData) \in Nat
        /\ Occurs(recvQin[d], From(s)) \in Nat /\ Occurs(recvQ[d], From(s)) \in Nat
        /\ Occurs(recvQout[d], From(s)) \in Nat
        /\ Occurs(ackQin[d], {s}) \in Nat /\ Occurs(ackQ[d], {s}) \in Nat
        /\ Occurs(packetSendQ[d], {Ack(s)}) \in Nat /\ Occurs(net[<<d, s>>], AnyAck) \in Nat
    BY CountTypes
  <2>1. Occurs(ackQ'[d], {s}) = Occurs(ackQ[d], {s}) + (IF d = i /\ s = h THEN -1 ELSE 0)
    BY <1>2, <1>4, <2>t
  <2>2. Occurs(packetSendQ'[d], {Ack(s)}) = Occurs(packetSendQ[d], {Ack(s)}) + (IF d = i /\ s = h THEN 1 ELSE 0)
    BY <1>2, <1>5, <1>6, <2>t
  <2>3. Occurs(packetSendQ'[s], DataTo(d)) = Occurs(packetSendQ[s], DataTo(d))
    BY <1>2, <1>5, <1>6
  <2>4. Unread(s, d)' = Unread(s, d) + 0
    BY <1>2, <2>3, <2>t DEF Unread, InReceive
  <2>5. AcksWaiting(s, d)' = AcksWaiting(s, d) + (IF d = i /\ s = h THEN -1 ELSE 0)
    BY <1>2, <2>1, <2>t DEF AcksWaiting
  <2>6. AcksGranted(s, d)' = AcksGranted(s, d) + (IF d = i /\ s = h THEN 1 ELSE 0)
    BY <1>2, <2>2, <2>t DEF AcksGranted
  <2>7. IF d = i /\ s = h THEN Moves(s, d, 0, -1, 1) ELSE Moves(s, d, 0, 0, 0)
    BY <2>4, <2>5, <2>6 DEF Moves
  <2>8. UNCHANGED <<Budget(s, d), Counter(s, d)>>
    BY <1>2 DEF Budget, Counter
  <2>9. RecvQAvail(d)' = RecvQAvail(d) - (IF d = i THEN FlowStride ELSE 0)
    <3>1. RecvQAvail(d) \in Nat /\ recvQAvailDown \in [Node -> 0..(CountMod - 1)]
          /\ recvQAvailUp[d] \in 0..(CountMod - 1) /\ recvQAvailDown[d] \in 0..(CountMod - 1)
      BY SumTypes DEF TypeOK
    <3>2. CASE d = i
      <4>1. RecvQAvail(d)' = (recvQAvailUp[d] - ((recvQAvailDown[d] + FlowStride) % CountMod)) % CountMod
        BY <1>2, <3>1, <3>2 DEF RecvQAvail
      <4>2. CountMod \in Nat \ {0} /\ FlowStride \in Nat
        BY Sizes
      <4>3. (recvQAvailUp[d] - recvQAvailDown[d]) % CountMod >= FlowStride
        BY <1>2, <3>2 DEF RecvQAvail
      <4>4. (recvQAvailUp[d] - ((recvQAvailDown[d] + FlowStride) % CountMod)) % CountMod
              = ((recvQAvailUp[d] - recvQAvailDown[d]) % CountMod) - FlowStride
        <5>1. PICK u, w : u = recvQAvailUp[d] /\ w = recvQAvailDown[d]
          OBVIOUS
        <5>2. u \in 0..(CountMod - 1) /\ w \in 0..(CountMod - 1) /\ (u - w) % CountMod >= FlowStride
          BY <3>1, <4>3, <5>1
        <5>3. (u - ((w + FlowStride) % CountMod)) % CountMod = ((u - w) % CountMod) - FlowStride
          BY <4>2, <5>2, SpendSome
        <5> QED
          BY <5>1, <5>3
      <4> QED
        BY <3>2, <4>1, <4>4 DEF RecvQAvail
    <3>3. CASE d # i
      <4>1. RecvQAvail(d)' = RecvQAvail(d)
        BY <1>2, <3>1, <3>3 DEF RecvQAvail
      <4> QED
        BY <3>1, <3>3, <4>1
    <3> QED
      BY <3>2, <3>3
  <2> QED
    BY <2>7, <2>8, <2>9
<1> QED
  BY <1>4, <1>7
(* A data packet takes a credit and becomes unread data. *)
LEMMA InsertDataMoves ==
  ASSUME TypeOK, NEW i \in Node, InsertData(i)
  PROVE  \E e \in Node :
            /\ sendQ[i] # <<>> /\ e = Head(sendQ[i])[1]
            /\ \A s, d \in Node :
                 /\ IF s = i /\ d = e THEN Moves(s, d, 1, 0, 0) ELSE Moves(s, d, 0, 0, 0)
                 /\ Budget(s, d)' = Budget(s, d) - (IF s = i /\ d = e THEN 1 ELSE 0)
                 /\ UNCHANGED <<Counter(s, d), RecvQAvail(d)>>
<1>1. PICK e, h : e = Head(sendQ[i])[1] /\ h = Data(e, Head(sendQ[i])[2])
  OBVIOUS
<1>2. /\ sendQ[i] # <<>> /\ Budget(i, e) > 0 /\ packetSendQ' = Enq(packetSendQ, i, h)
      /\ sendBudgetDown' = [sendBudgetDown EXCEPT ![i][e] = (@ + 1) % CountMod]
      /\ UNCHANGED <<net, recvQin, recvQ, recvQout, ackQin, ackQ, recvQAvailUp, recvQAvailDown,
                     sendBudgetUp, flowStrideCounter>>
  BY <1>1 DEF InsertData, receiving, acking, buffers
<1>3. sendQ \in FifoFamily(Node, Node \X Item) /\ packetSendQ \in FifoFamily(Node, Packet)
  BY DEF TypeOK
<1>4. e \in Node /\ h \in Packet /\ ~h.control /\ h.dst = e
  <2>1. Head(sendQ[i]) \in Node \X Item
    BY <1>2, <1>3, DeqLemma
  <2>2. e \in Node /\ Head(sendQ[i])[2] \in Item
    BY <1>1, <2>1
  <2> QED
    BY <1>1, <2>2, PacketIntro
<1>5. \A d \in Node : h \notin {Ack(d)} /\ (h \in DataTo(d) <=> e = d)
  BY <1>4, PacketClasses
<1>6. \A v \in Node : \A S : Occurs(Enq(packetSendQ, i, h)[v], S)
         = IF v = i /\ h \in S THEN Occurs(packetSendQ[v], S) + 1 ELSE Occurs(packetSendQ[v], S)
  BY <1>3, <1>4, EnqLemma
<1>7. ASSUME NEW s \in Node, NEW d \in Node
      PROVE  /\ IF s = i /\ d = e THEN Moves(s, d, 1, 0, 0) ELSE Moves(s, d, 0, 0, 0)
             /\ Budget(s, d)' = Budget(s, d) - (IF s = i /\ d = e THEN 1 ELSE 0)
             /\ UNCHANGED <<Counter(s, d), RecvQAvail(d)>>
  <2>t. /\ Occurs(packetSendQ[s], DataTo(d)) \in Nat /\ Occurs(net[<<s, d>>], AnyData) \in Nat
        /\ Occurs(recvQin[d], From(s)) \in Nat /\ Occurs(recvQ[d], From(s)) \in Nat
        /\ Occurs(recvQout[d], From(s)) \in Nat
        /\ Occurs(ackQin[d], {s}) \in Nat /\ Occurs(ackQ[d], {s}) \in Nat
        /\ Occurs(packetSendQ[d], {Ack(s)}) \in Nat /\ Occurs(net[<<d, s>>], AnyAck) \in Nat
    BY CountTypes
  <2>1. Occurs(packetSendQ'[s], DataTo(d)) = Occurs(packetSendQ[s], DataTo(d)) + (IF s = i /\ d = e THEN 1 ELSE 0)
    BY <1>2, <1>5, <1>6, <2>t
  <2>2. Occurs(packetSendQ'[d], {Ack(s)}) = Occurs(packetSendQ[d], {Ack(s)})
    BY <1>2, <1>5, <1>6
  <2>3. Unread(s, d)' = Unread(s, d) + (IF s = i /\ d = e THEN 1 ELSE 0)
    <3>1. InReceive(s, d)' = InReceive(s, d) /\ InReceive(s, d) \in Nat
      BY <1>2, <2>t DEF InReceive
    <3>2. net' = net
      BY <1>2
    <3> QED
      BY <2>1, <2>t, <3>1, <3>2 DEF Unread
  <2>4. AcksWaiting(s, d)' = AcksWaiting(s, d) + 0
    BY <1>2, <2>t DEF AcksWaiting
  <2>5. AcksGranted(s, d)' = AcksGranted(s, d) + 0
    BY <1>2, <2>2, <2>t DEF AcksGranted
  <2>6. IF s = i /\ d = e THEN Moves(s, d, 1, 0, 0) ELSE Moves(s, d, 0, 0, 0)
    BY <2>3, <2>4, <2>5 DEF Moves
  <2>7. UNCHANGED <<Counter(s, d), RecvQAvail(d)>>
    BY <1>2 DEF RecvQAvail, Counter
  <2>8. Budget(s, d)' = Budget(s, d) - (IF s = i /\ d = e THEN 1 ELSE 0)
    <3>1. PICK u, w : u = sendBudgetUp[s][d] /\ w = sendBudgetDown[s][d]
      OBVIOUS
    <3>2. /\ u \in 0..(CountMod - 1) /\ w \in 0..(CountMod - 1) /\ CountMod \in Nat \ {0}
          /\ Budget(s, d) \in Nat /\ Budget(s, d) = (u - w) % CountMod
          /\ sendBudgetDown \in [Node -> [Node -> 0..(CountMod - 1)]]
      BY <3>1, SumTypes, Sizes DEF TypeOK, Budget
    <3>3. CASE s = i /\ d = e
      <4>1. Budget(s, d)' = (u - ((w + 1) % CountMod)) % CountMod
        BY <1>2, <3>1, <3>2, <3>3 DEF Budget
      <4>2. (u - w) % CountMod > 0
        BY <1>2, <3>2, <3>3
      <4>3. (u - ((w + 1) % CountMod)) % CountMod = ((u - w) % CountMod) - 1
        BY <3>2, <4>2, SpendOne
      <4> QED
        BY <3>2, <3>3, <4>1, <4>3
    <3>4. CASE ~(s = i /\ d = e)
      <4>1. sendBudgetDown'[s][d] = sendBudgetDown[s][d] /\ sendBudgetUp' = sendBudgetUp
        BY <1>2, <1>4, <3>2, <3>4
      <4>2. Budget(s, d)' = Budget(s, d)
        BY <4>1 DEF Budget
      <4> QED
        BY <3>2, <3>4, <4>2
    <3> QED
      BY <3>3, <3>4
  <2> QED
    BY <2>6, <2>7, <2>8
<1> QED
  BY <1>1, <1>2, <1>4, <1>7

(* An ack that arrives becomes credits. *)
LEMMA DeliverAckMoves ==
  ASSUME TypeOK, CreditsConserved, NEW i \in Node, NEW j \in Node, DeliverAck(i, j)
  PROVE  \A s, d \in Node :
            /\ IF s = j /\ d = i THEN Moves(s, d, 0, 0, -1) ELSE Moves(s, d, 0, 0, 0)
            /\ Budget(s, d)' = Budget(s, d) + (IF s = j /\ d = i THEN FlowStride ELSE 0)
            /\ UNCHANGED <<Counter(s, d), RecvQAvail(d)>>
<1>1. PICK h : h = Head(net[<<i, j>>])
  OBVIOUS
<1>2. /\ net[<<i, j>>] # <<>> /\ h.control /\ net' = Deq(net, <<i, j>>)
      /\ sendBudgetUp' = [sendBudgetUp EXCEPT ![j][i] = (@ + FlowStride) % CountMod]
      /\ UNCHANGED <<packetSendQ, recvQin, recvQ, recvQout, ackQin, ackQ, recvQAvailUp, recvQAvailDown,
                     sendBudgetDown, flowStrideCounter>>
  BY <1>1 DEF DeliverAck, sending, receiving, acking, buffers
<1>3. net \in FifoFamily(Pair, Packet) /\ <<i, j>> \in Pair
  BY DEF TypeOK, Pair
<1>4. /\ h \in Packet
      /\ \A v \in Pair : \A S : Occurs(Deq(net, <<i, j>>)[v], S)
            = IF v = <<i, j>> /\ h \in S THEN Occurs(net[v], S) - 1 ELSE Occurs(net[v], S)
  <2>1. /\ Head(net[<<i, j>>]) \in Packet
        /\ \A v \in Pair : \A S : Occurs(Deq(net, <<i, j>>)[v], S)
             = IF v = <<i, j>> /\ Head(net[<<i, j>>]) \in S
               THEN Occurs(net[v], S) - 1 ELSE Occurs(net[v], S)
    BY <1>2, <1>3, DeqLemma
  <2> QED
    BY <1>1, <2>1
<1>5. h \in AnyAck /\ h \notin AnyData
  BY <1>2, <1>4, PacketClasses
<1>6. Deq(net, <<i, j>>) \in FifoFamily(Pair, Packet)
  BY <1>2, <1>3, DeqLemma
<1>7. ASSUME NEW s \in Node, NEW d \in Node
      PROVE  /\ IF s = j /\ d = i THEN Moves(s, d, 0, 0, -1) ELSE Moves(s, d, 0, 0, 0)
             /\ Budget(s, d)' = Budget(s, d) + (IF s = j /\ d = i THEN FlowStride ELSE 0)
             /\ UNCHANGED <<Counter(s, d), RecvQAvail(d)>>
  <2>t. /\ Occurs(packetSendQ[s], DataTo(d)) \in Nat /\ Occurs(net[<<s, d>>], AnyData) \in Nat
        /\ Occurs(recvQin[d], From(s)) \in Nat /\ Occurs(recvQ[d], From(s)) \in Nat
        /\ Occurs(recvQout[d], From(s)) \in Nat
        /\ Occurs(ackQin[d], {s}) \in Nat /\ Occurs(ackQ[d], {s}) \in Nat
        /\ Occurs(packetSendQ[d], {Ack(s)}) \in Nat /\ Occurs(net[<<d, s>>], AnyAck) \in Nat
    BY CountTypes
  <2>1. <<s, d>> \in Pair /\ <<d, s>> \in Pair /\ (<<d, s>> = <<i, j>> <=> s = j /\ d = i)
    BY DEF Pair
  <2>2. Occurs(net'[<<d, s>>], AnyAck) = Occurs(net[<<d, s>>], AnyAck) + (IF s = j /\ d = i THEN -1 ELSE 0)
    <3>1. Occurs(Deq(net, <<i, j>>)[<<d, s>>], AnyAck)
            = IF s = j /\ d = i THEN Occurs(net[<<d, s>>], AnyAck) - 1 ELSE Occurs(net[<<d, s>>], AnyAck)
      BY <1>4, <1>5, <2>1
    <3> QED
      BY <1>2, <2>t, <3>1
  <2>3. Occurs(net'[<<s, d>>], AnyData) = Occurs(net[<<s, d>>], AnyData)
    BY <1>2, <1>4, <1>5, <2>1
  <2>4. Unread(s, d)' = Unread(s, d) + 0
    <3>1. InReceive(s, d)' = InReceive(s, d) /\ InReceive(s, d) \in Nat
      BY <1>2, <2>t DEF InReceive
    <3>2. packetSendQ' = packetSendQ
      BY <1>2
    <3> QED
      BY <2>3, <2>t, <3>1, <3>2 DEF Unread
  <2>5. AcksWaiting(s, d)' = AcksWaiting(s, d) + 0
    BY <1>2, <2>t DEF AcksWaiting
  <2>6. AcksGranted(s, d)' = AcksGranted(s, d) + (IF s = j /\ d = i THEN -1 ELSE 0)
    BY <1>2, <2>2, <2>t DEF AcksGranted
  <2>7. IF s = j /\ d = i THEN Moves(s, d, 0, 0, -1) ELSE Moves(s, d, 0, 0, 0)
    BY <2>4, <2>5, <2>6 DEF Moves
  <2>8. UNCHANGED <<Counter(s, d), RecvQAvail(d)>>
    BY <1>2 DEF RecvQAvail, Counter
  <2>9. Budget(s, d)' = Budget(s, d) + (IF s = j /\ d = i THEN FlowStride ELSE 0)
    <3>1. PICK u, w : u = sendBudgetUp[s][d] /\ w = sendBudgetDown[s][d]
      OBVIOUS
    <3>2. /\ u \in 0..(CountMod - 1) /\ w \in 0..(CountMod - 1) /\ CountMod \in Nat \ {0}
          /\ Budget(s, d) \in Nat /\ Budget(s, d) = (u - w) % CountMod
          /\ sendBudgetUp \in [Node -> [Node -> 0..(CountMod - 1)]]
      BY <3>1, SumTypes, Sizes DEF TypeOK, Budget
    <3>3. CASE s = j /\ d = i
      <4>1. Budget(s, d)' = (((u + FlowStride) % CountMod) - w) % CountMod
        BY <1>2, <3>1, <3>2, <3>3 DEF Budget
      <4>2. Budget(s, d) + FlowStride < CountMod
        <5>1. AcksGranted(s, d) >= 1
          <6>1. Occurs(net'[<<d, s>>], AnyAck) \in Nat
            BY <1>2, <1>6, <2>1, FamilyCount
          <6> QED
            BY <2>2, <2>t, <3>3, <6>1 DEF AcksGranted
        <5>2. Budget(s, d) + FlowStride <= QSize + FlowStride - 1
          BY <5>1, CreditBounds
        <5> QED
          BY <3>2, <5>2, Sizes
      <4>3. (((u + FlowStride) % CountMod) - w) % CountMod = ((u - w) % CountMod) + FlowStride
        BY <3>2, <4>2, GainSome, Sizes
      <4> QED
        BY <3>2, <3>3, <4>1, <4>3
    <3>4. CASE ~(s = j /\ d = i)
      <4>1. sendBudgetUp'[s][d] = sendBudgetUp[s][d] /\ sendBudgetDown' = sendBudgetDown
        BY <1>2, <3>2, <3>4
      <4>2. Budget(s, d)' = Budget(s, d)
        BY <4>1 DEF Budget
      <4> QED
        BY <3>2, <3>4, <4>2
    <3> QED
      BY <3>3, <3>4
  <2> QED
    BY <2>7, <2>8, <2>9
<1> QED
  BY <1>7

(* An item taken frees its buffer and counts towards an ack. *)
LEMMA UserReceiveMoves ==
  ASSUME TypeOK, NEW i \in Node, UserReceive(i), RecvQAvail(i) + 1 < CountMod
  PROVE  \E e \in Node :
            /\ e = Head(recvQout[i])[1]
            /\ \A s, d \in Node :
                 /\ IF s = e /\ d = i
                    THEN \/ Moves(s, d, -1, 1, 0) /\ Counter(s, d) = FlowStride - 1 /\ Counter(s, d)' = 0
                         \/ Moves(s, d, -1, 0, 0) /\ Counter(s, d)' = Counter(s, d) + 1
                    ELSE Moves(s, d, 0, 0, 0) /\ UNCHANGED Counter(s, d)
                 /\ UNCHANGED Budget(s, d)
                 /\ RecvQAvail(d)' = RecvQAvail(d) + (IF d = i THEN 1 ELSE 0)
<1>1. PICK h, e : h = Head(recvQout[i]) /\ e = h[1]
  OBVIOUS
<1>2. /\ recvQout[i] # <<>> /\ recvQout' = Deq(recvQout, i)
      /\ recvQAvailUp' = [recvQAvailUp EXCEPT ![i] = (@ + 1) % CountMod]
      /\ UNCHANGED <<packetSendQ, net, recvQin, recvQ, ackQ, recvQAvailDown, sendBudgetUp, sendBudgetDown>>
      /\ \/ /\ flowStrideCounter[i][e] + 1 >= FlowStride
            /\ ackQin' = Enq(ackQin, i, e)
            /\ flowStrideCounter' = [flowStrideCounter EXCEPT ![i][e] = 0]
         \/ /\ flowStrideCounter' = [flowStrideCounter EXCEPT ![i][e] = @ + 1]
            /\ UNCHANGED ackQin
  BY <1>1 DEF UserReceive, StrideDone, sending, credits
<1>3. recvQout \in FifoFamily(Node, Node \X Item) /\ ackQin \in FifoFamily(Node, Node)
  BY DEF TypeOK
<1>4. /\ h \in Node \X Item
      /\ \A v \in Node : \A S : Occurs(Deq(recvQout, i)[v], S)
            = IF v = i /\ h \in S THEN Occurs(recvQout[v], S) - 1 ELSE Occurs(recvQout[v], S)
  <2>1. /\ Head(recvQout[i]) \in Node \X Item
        /\ \A v \in Node : \A S : Occurs(Deq(recvQout, i)[v], S)
             = IF v = i /\ Head(recvQout[i]) \in S THEN Occurs(recvQout[v], S) - 1 ELSE Occurs(recvQout[v], S)
    BY <1>2, <1>3, DeqLemma
  <2> QED
    BY <1>1, <2>1
<1>5. e \in Node /\ \A s \in Node : h \in From(s) <=> e = s
  BY <1>1, <1>4 DEF From
<1>6. \A v \in Node : \A S : Occurs(Enq(ackQin, i, e)[v], S)
         = IF v = i /\ e \in S THEN Occurs(ackQin[v], S) + 1 ELSE Occurs(ackQin[v], S)
  BY <1>3, <1>5, AckEnqueued
<1>7. ASSUME NEW s \in Node, NEW d \in Node
      PROVE  /\ IF s = e /\ d = i
                THEN \/ Moves(s, d, -1, 1, 0) /\ Counter(s, d) = FlowStride - 1 /\ Counter(s, d)' = 0
                     \/ Moves(s, d, -1, 0, 0) /\ Counter(s, d)' = Counter(s, d) + 1
                ELSE Moves(s, d, 0, 0, 0) /\ UNCHANGED Counter(s, d)
             /\ UNCHANGED Budget(s, d)
             /\ RecvQAvail(d)' = RecvQAvail(d) + (IF d = i THEN 1 ELSE 0)
  <2>t. /\ Occurs(packetSendQ[s], DataTo(d)) \in Nat /\ Occurs(net[<<s, d>>], AnyData) \in Nat
        /\ Occurs(recvQin[d], From(s)) \in Nat /\ Occurs(recvQ[d], From(s)) \in Nat
        /\ Occurs(recvQout[d], From(s)) \in Nat
        /\ Occurs(ackQin[d], {s}) \in Nat /\ Occurs(ackQ[d], {s}) \in Nat
        /\ Occurs(packetSendQ[d], {Ack(s)}) \in Nat /\ Occurs(net[<<d, s>>], AnyAck) \in Nat
    BY CountTypes
  <2>c. Counter(s, d) \in 0..(FlowStride - 1) /\ FlowStride \in Nat \ {0}
        /\ flowStrideCounter \in [Node -> [Node -> 0..(FlowStride - 1)]]
    BY SumTypes, Sizes DEF TypeOK
  <2>1. Occurs(recvQout'[d], From(s)) = Occurs(recvQout[d], From(s)) + (IF s = e /\ d = i THEN -1 ELSE 0)
    <3>1. Occurs(Deq(recvQout, i)[d], From(s))
            = IF s = e /\ d = i THEN Occurs(recvQout[d], From(s)) - 1 ELSE Occurs(recvQout[d], From(s))
      BY <1>4, <1>5
    <3> QED
      BY <1>2, <2>t, <3>1
  <2>2. Unread(s, d)' = Unread(s, d) + (IF s = e /\ d = i THEN -1 ELSE 0)
    <3>1. /\ Occurs(packetSendQ[s], DataTo(d))' = Occurs(packetSendQ[s], DataTo(d))
          /\ Occurs(net[<<s, d>>], AnyData)' = Occurs(net[<<s, d>>], AnyData)
          /\ Occurs(recvQin[d], From(s))' = Occurs(recvQin[d], From(s))
          /\ Occurs(recvQ[d], From(s))' = Occurs(recvQ[d], From(s))
      BY <1>2
    <3> QED
      BY <2>1, <2>t, <3>1 DEF Unread, InReceive
  <2>3. AcksGranted(s, d)' = AcksGranted(s, d) + 0
    BY <1>2, <2>t DEF AcksGranted
  <2>4. IF s = e /\ d = i
        THEN \/ Moves(s, d, -1, 1, 0) /\ Counter(s, d) = FlowStride - 1 /\ Counter(s, d)' = 0
             \/ Moves(s, d, -1, 0, 0) /\ Counter(s, d)' = Counter(s, d) + 1
        ELSE Moves(s, d, 0, 0, 0) /\ UNCHANGED Counter(s, d)
    <3>1. CASE /\ flowStrideCounter[i][e] + 1 >= FlowStride
               /\ ackQin' = Enq(ackQin, i, e)
               /\ flowStrideCounter' = [flowStrideCounter EXCEPT ![i][e] = 0]
      <4>1. Occurs(ackQin'[d], {s}) = Occurs(ackQin[d], {s}) + (IF s = e /\ d = i THEN 1 ELSE 0)
        <5>1. Occurs(Enq(ackQin, i, e)[d], {s})
                = IF s = e /\ d = i THEN Occurs(ackQin[d], {s}) + 1 ELSE Occurs(ackQin[d], {s})
          BY <1>5, <1>6
        <5> QED
          BY <2>t, <3>1, <5>1
      <4>2. AcksWaiting(s, d)' = AcksWaiting(s, d) + (IF s = e /\ d = i THEN 1 ELSE 0)
        BY <1>2, <2>t, <4>1 DEF AcksWaiting
      <4>3. CASE s = e /\ d = i
        <5>1. Counter(s, d) = FlowStride - 1
          BY <2>c, <3>1, <4>3 DEF Counter
        <5>2. Counter(s, d)' = 0
          BY <1>5, <2>c, <3>1, <4>3 DEF Counter
        <5> QED
          BY <2>2, <2>3, <4>2, <4>3, <5>1, <5>2 DEF Moves
      <4>4. CASE ~(s = e /\ d = i)
        <5>1. UNCHANGED Counter(s, d)
          BY <1>5, <2>c, <3>1, <4>4 DEF Counter
        <5> QED
          BY <2>2, <2>3, <4>2, <4>4, <5>1 DEF Moves
      <4> QED
        BY <4>3, <4>4
    <3>2. CASE /\ flowStrideCounter' = [flowStrideCounter EXCEPT ![i][e] = @ + 1]
               /\ UNCHANGED ackQin
      <4>1. AcksWaiting(s, d)' = AcksWaiting(s, d) + 0
        BY <1>2, <2>t, <3>2 DEF AcksWaiting
      <4>2. CASE s = e /\ d = i
        <5>1. Counter(s, d)' = Counter(s, d) + 1
          BY <1>5, <2>c, <3>2, <4>2 DEF Counter
        <5> QED
          BY <2>2, <2>3, <4>1, <4>2, <5>1 DEF Moves
      <4>3. CASE ~(s = e /\ d = i)
        <5>1. UNCHANGED Counter(s, d)
          BY <1>5, <2>c, <3>2, <4>3 DEF Counter
        <5> QED
          BY <2>2, <2>3, <4>1, <4>3, <5>1 DEF Moves
      <4> QED
        BY <4>2, <4>3
    <3> QED
      BY <1>2, <3>1, <3>2
  <2>5. UNCHANGED Budget(s, d)
    BY <1>2 DEF Budget
  <2>6. RecvQAvail(d)' = RecvQAvail(d) + (IF d = i THEN 1 ELSE 0)
    <3>1. PICK u, w : u = recvQAvailUp[d] /\ w = recvQAvailDown[d]
      OBVIOUS
    <3>2. /\ u \in 0..(CountMod - 1) /\ w \in 0..(CountMod - 1) /\ CountMod \in Nat \ {0}
          /\ RecvQAvail(d) \in Nat /\ RecvQAvail(d) = (u - w) % CountMod
          /\ recvQAvailUp \in [Node -> 0..(CountMod - 1)]
      BY <3>1, SumTypes, Sizes DEF TypeOK, RecvQAvail
    <3>3. CASE d = i
      <4>1. RecvQAvail(d)' = (((u + 1) % CountMod) - w) % CountMod
        BY <1>2, <3>1, <3>2, <3>3 DEF RecvQAvail
      <4>2. ((u - w) % CountMod) + 1 < CountMod
        BY <3>2, <3>3
      <4>3. (((u + 1) % CountMod) - w) % CountMod = ((u - w) % CountMod) + 1
        BY <3>2, <4>2, GainSome
      <4> QED
        BY <3>2, <3>3, <4>1, <4>3
    <3>4. CASE d # i
      <4>1. RecvQAvail(d)' = RecvQAvail(d)
        BY <1>2, <3>2, <3>4 DEF RecvQAvail
      <4> QED
        BY <3>2, <3>4, <4>1
    <3> QED
      BY <3>3, <3>4
  <2> QED
    BY <2>4, <2>5, <2>6
<1> QED
  BY <1>1, <1>5, <1>7
-----------------------------------------------------------------------------
(* The sum of a pair is unchanged by every way its terms move together. *)
LEMMA PairKept ==
  ASSUME TypeOK, NEW s \in Node, NEW d \in Node, PairConserved(s, d),
         \/ Moves(s, d, 0, 0, 0) /\ UNCHANGED <<Budget(s, d), Counter(s, d)>>
         \/ Moves(s, d, 0, -1, 1) /\ UNCHANGED <<Budget(s, d), Counter(s, d)>>
         \/ /\ Moves(s, d, 1, 0, 0) /\ UNCHANGED Counter(s, d)
            /\ Budget(s, d)' = Budget(s, d) - 1
         \/ /\ Moves(s, d, 0, 0, -1) /\ UNCHANGED Counter(s, d)
            /\ Budget(s, d)' = Budget(s, d) + FlowStride
         \/ /\ Moves(s, d, -1, 1, 0) /\ UNCHANGED Budget(s, d)
            /\ Counter(s, d) = FlowStride - 1 /\ Counter(s, d)' = 0
         \/ /\ Moves(s, d, -1, 0, 0) /\ UNCHANGED Budget(s, d)
            /\ Counter(s, d)' = Counter(s, d) + 1
  PROVE  PairConserved(s, d)'
<1>1. PICK b, u, c, w, g :
        /\ b = Budget(s, d) /\ u = Unread(s, d) /\ c = Counter(s, d)
        /\ w = AcksWaiting(s, d) /\ g = AcksGranted(s, d)
  OBVIOUS
<1>2. PICK b1, u1, c1, w1, g1 :
        /\ b1 = Budget(s, d)' /\ u1 = Unread(s, d)' /\ c1 = Counter(s, d)'
        /\ w1 = AcksWaiting(s, d)' /\ g1 = AcksGranted(s, d)'
  OBVIOUS
<1>3. b \in Nat /\ u \in Nat /\ c \in Nat /\ w \in Nat /\ g \in Nat
      /\ FlowStride \in Nat \ {0} /\ QSize \in Nat
  BY <1>1, SumTypes, Sizes
<1>4. b + u + c + FlowStride * (w + g) = QSize + FlowStride - 1
  BY <1>1 DEF PairConserved, Counter
<1>5. \/ b1 = b /\ u1 = u + 0 /\ c1 = c /\ w1 = w + 0 /\ g1 = g + 0
      \/ b1 = b /\ u1 = u + 0 /\ c1 = c /\ w1 = w + -1 /\ g1 = g + 1
      \/ b1 = b - 1 /\ u1 = u + 1 /\ c1 = c /\ w1 = w + 0 /\ g1 = g + 0
      \/ b1 = b + FlowStride /\ u1 = u + 0 /\ c1 = c /\ w1 = w + 0 /\ g1 = g + -1
      \/ b1 = b /\ u1 = u + -1 /\ c = FlowStride - 1 /\ c1 = 0 /\ w1 = w + 1 /\ g1 = g + 0
      \/ b1 = b /\ u1 = u + -1 /\ c1 = c + 1 /\ w1 = w + 0 /\ g1 = g + 0
  BY <1>1, <1>2 DEF Moves
<1>6. /\ w + 0 + (g + 0) = w + g /\ w + -1 + (g + 1) = w + g
      /\ FlowStride * (w + 0 + (g + -1)) = FlowStride * (w + g) - FlowStride
      /\ FlowStride * (w + 1 + (g + 0)) = FlowStride * (w + g) + FlowStride
      /\ FlowStride * (w + g) \in Nat
  BY <1>3
<1>7. PICK f : f = FlowStride * (w + g)
  OBVIOUS
<1>8. PICK f1 : f1 = FlowStride * (w1 + g1)
  OBVIOUS
<1>9. \/ b1 = b /\ u1 = u /\ c1 = c /\ f1 = f
      \/ b1 = b - 1 /\ u1 = u + 1 /\ c1 = c /\ f1 = f
      \/ b1 = b + FlowStride /\ u1 = u /\ c1 = c /\ f1 = f - FlowStride
      \/ b1 = b /\ u1 = u - 1 /\ c = FlowStride - 1 /\ c1 = 0 /\ f1 = f + FlowStride
      \/ b1 = b /\ u1 = u - 1 /\ c1 = c + 1 /\ f1 = f
  BY <1>3, <1>5, <1>6, <1>7, <1>8
<1>10. b + u + c + f = QSize + FlowStride - 1 /\ f \in Nat
  BY <1>4, <1>6, <1>7
<1>11. b1 + u1 + c1 + f1 = QSize + FlowStride - 1
  BY <1>3, <1>9, <1>10
<1> QED
  BY <1>2, <1>8, <1>11 DEF PairConserved, Counter

LEMMA PromisedType ==
  ASSUME TypeOK, NEW s \in Node, NEW d \in Node
  PROVE  Promised(s, d) \in Nat /\ Promised(s, d) >= Unread(s, d)
<1>1. PICK b, u, g : b = Budget(s, d) /\ u = Unread(s, d) /\ g = AcksGranted(s, d)
  OBVIOUS
<1>2. b \in Nat /\ u \in Nat /\ g \in Nat /\ FlowStride \in Nat
  BY <1>1, SumTypes, Sizes
<1>3. FlowStride * g \in Nat
  BY <1>2
<1>4. b + u + FlowStride * g \in Nat /\ b + u + FlowStride * g >= u
  BY <1>2, <1>3
<1> QED
  BY <1>1, <1>4 DEF Promised

(* The buffers promised, source by source. *)
LEMMA PromisedShares ==
  ASSUME TypeOK, NEW d \in Node
  PROVE  /\ [s \in Node |-> Promised(s, d)] \in [Node -> Nat]
         /\ PromisedBuffers(d) = Shares(Node, [s \in Node |-> Promised(s, d)])
         /\ IsFiniteSet(PromisedBuffers(d)) /\ Cardinality(PromisedBuffers(d)) \in Nat
<1>1. PICK P : P = [s \in Node |-> Promised(s, d)]
  OBVIOUS
<1>2. P \in [Node -> Nat]
  BY <1>1, PromisedType
<1>3. PromisedBuffers(d) = Shares(Node, P)
  BY <1>1 DEF PromisedBuffers, Shares
<1>4. IsFiniteSet(Node)
  BY Sizes
<1>5. IsFiniteSet(Shares(Node, P)) /\ Cardinality(Shares(Node, P)) \in Nat
  BY <1>2, <1>4, SharesFinite
<1> QED
  BY <1>1, <1>2, <1>3, <1>5

(* Where a source holds a buffer, another one fits in the free ones. *)
LEMMA RoomToFree ==
  ASSUME TypeOK, BuffersConserved, NEW s \in Node, NEW d \in Node
  PROVE  RecvQAvail(d) + Promised(s, d) <= RecvQDepth
<1>1. PICK P : P = [n \in Node |-> Promised(n, d)]
  OBVIOUS
<1>2. P \in [Node -> Nat] /\ PromisedBuffers(d) = Shares(Node, P) /\ P[s] = Promised(s, d)
  BY <1>1, PromisedShares
<1>3. IsFiniteSet(Node)
  BY Sizes
<1>4. Cardinality(Shares(Node, P)) = Cardinality(Shares(Node \ {s}, P)) + P[s]
      /\ Cardinality(Shares(Node \ {s}, P)) \in Nat
  BY <1>2, <1>3, SharesSplit
<1>5. RecvQAvail(d) + Cardinality(Shares(Node, P)) = RecvQDepth
  BY <1>2 DEF BuffersConserved
<1>6. RecvQAvail(d) \in Nat /\ RecvQDepth \in Nat /\ P[s] \in Nat
  BY <1>2, SumTypes, Sizes
<1> QED
  BY <1>2, <1>4, <1>5, <1>6

(* The buffers of one sink, where one source's share changes by as much as *)
(* the free ones change the other way.                                     *)
LEMMA SinkKept ==
  ASSUME TypeOK, NEW d \in Node, NEW r \in Node, NEW k \in Int, Promised(r, d) + k \in Nat,
         RecvQAvail(d) + Cardinality(PromisedBuffers(d)) = RecvQDepth,
         RecvQAvail(d)' = RecvQAvail(d) - k,
         Promised(r, d)' = Promised(r, d) + k,
         \A s \in Node \ {r} : Promised(s, d)' = Promised(s, d)
  PROVE  RecvQAvail(d)' + Cardinality(PromisedBuffers(d)') = RecvQDepth
<1>1. PICK P : P = [s \in Node |-> Promised(s, d)]
  OBVIOUS
<1>2. PICK Q : Q = [s \in Node |-> Promised(s, d)']
  OBVIOUS
<1>3. P \in [Node -> Nat] /\ PromisedBuffers(d) = Shares(Node, P)
  BY <1>1, PromisedShares
<1>4. Q \in [Node -> Nat]
  <2>1. \A s \in Node : Promised(s, d)' \in Nat
    BY PromisedType
  <2> QED
    BY <1>2, <2>1
<1>5. PromisedBuffers(d)' = Shares(Node, Q)
  BY <1>2 DEF PromisedBuffers, Shares
<1>6. \A n \in Node \ {r} : Q[n] = P[n]
  BY <1>1, <1>2
<1>7. Cardinality(Shares(Node, Q)) = Cardinality(Shares(Node, P)) + (Q[r] - P[r])
  BY <1>3, <1>4, <1>6, Sizes, SharesChange
<1>8. Q[r] = P[r] + k /\ P[r] \in Nat
  BY <1>1, <1>2, <1>3
<1>9. Cardinality(Shares(Node, P)) \in Nat /\ RecvQAvail(d) \in Nat
  BY <1>3, PromisedShares, SumTypes
<1> QED
  BY <1>3, <1>5, <1>7, <1>8, <1>9

(* The item at the head of recvQout is unread data of its source. *)
LEMMA HeadUnread ==
  ASSUME TypeOK, NEW i \in Node, recvQout[i] # <<>>
  PROVE  Head(recvQout[i])[1] \in Node /\ Unread(Head(recvQout[i])[1], i) >= 1
<1>1. recvQout \in FifoFamily(Node, Node \X Item)
  BY DEF TypeOK
<1>2. PICK h, e : h = Head(recvQout[i]) /\ e = h[1]
  OBVIOUS
<1>3. Head(recvQout[i]) \in Node \X Item
  BY <1>1, DeqLemma
<1>4. e \in Node /\ h \in From(e)
  BY <1>2, <1>3 DEF From
<1>5. Deq(recvQout, i) \in FifoFamily(Node, Node \X Item)
  BY <1>1, DeqLemma
<1>6. \A v \in Node : \A S : Occurs(Deq(recvQout, i)[v], S)
         = IF v = i /\ Head(recvQout[i]) \in S THEN Occurs(recvQout[v], S) - 1 ELSE Occurs(recvQout[v], S)
  BY <1>1, DeqLemma
<1>7. Occurs(Deq(recvQout, i)[i], From(e)) = Occurs(recvQout[i], From(e)) - 1
  BY <1>2, <1>4, <1>6
<1>8. Occurs(Deq(recvQout, i)[i], From(e)) \in Nat
  BY <1>5, FamilyCount
<1>9. /\ Occurs(packetSendQ[e], DataTo(i)) \in Nat /\ Occurs(net[<<e, i>>], AnyData) \in Nat
      /\ Occurs(recvQin[i], From(e)) \in Nat /\ Occurs(recvQ[i], From(e)) \in Nat
      /\ Occurs(recvQout[i], From(e)) \in Nat
  BY <1>4, CountTypes
<1>10. Unread(e, i) >= 1
  BY <1>7, <1>8, <1>9 DEF Unread, InReceive
<1> QED
  BY <1>2, <1>4, <1>10

LEMMA FreedFits ==
  ASSUME TypeOK, BuffersConserved, NEW i \in Node, UserReceive(i)
  PROVE  RecvQAvail(i) + 1 < CountMod
<1>1. PICK e : e = Head(recvQout[i])[1]
  OBVIOUS
<1>2. e \in Node /\ Unread(e, i) >= 1
  BY <1>1, HeadUnread DEF UserReceive
<1>3. Promised(e, i) \in Nat /\ Promised(e, i) >= Unread(e, i) /\ Unread(e, i) \in Nat
  BY <1>2, PromisedType, SumTypes
<1>4. RecvQAvail(i) + Promised(e, i) <= RecvQDepth
  BY <1>2, RoomToFree
<1> QED
  BY <1>2, <1>3, <1>4, Sizes, SumTypes

(* Every step conserves the credits of every pair. *)
LEMMA CreditsStep ==
  TypeOK /\ CreditsConserved /\ BuffersConserved /\ [Next]_vars => CreditsConserved'
<1> SUFFICES ASSUME TypeOK, CreditsConserved, BuffersConserved, [Next]_vars,
                    NEW s \in Node, NEW d \in Node
             PROVE  PairConserved(s, d)'
  BY DEF CreditsConserved
<1>p. PairConserved(s, d)
  BY DEF CreditsConserved
<1>k. ASSUME Moves(s, d, 0, 0, 0), UNCHANGED Registers(s, d)
      PROVE  PairConserved(s, d)'
  <2>1. UNCHANGED <<Budget(s, d), Counter(s, d)>>
    BY <1>k DEF Registers
  <2> QED
    BY <1>k, <1>p, <2>1, PairKept
<1>1. ASSUME NEW f \in Flows, NEW x \in Item, UserSend(f[1], f[2], x)
      PROVE  PairConserved(s, d)'
  BY <1>1, <1>k, UserSendMoves
<1>2. ASSUME NEW n \in Node, InsertAck(n)
      PROVE  PairConserved(s, d)'
  <2>1. \/ Moves(s, d, 0, 0, 0)
        \/ Moves(s, d, 0, -1, 1)
    BY <1>2, InsertAckMoves
  <2>2. UNCHANGED <<Budget(s, d), Counter(s, d)>>
    BY <1>2, InsertAckMoves
  <2> QED
    BY <1>p, <2>1, <2>2, PairKept
<1>3. ASSUME NEW n \in Node, InsertData(n)
      PROVE  PairConserved(s, d)'
  <2>1. PICK e \in Node :
          \A r, t \in Node :
             /\ IF r = n /\ t = e THEN Moves(r, t, 1, 0, 0) ELSE Moves(r, t, 0, 0, 0)
             /\ Budget(r, t)' = Budget(r, t) - (IF r = n /\ t = e THEN 1 ELSE 0)
             /\ UNCHANGED <<Counter(r, t), RecvQAvail(t)>>
    BY <1>3, InsertDataMoves
  <2>2. /\ IF s = n /\ d = e THEN Moves(s, d, 1, 0, 0) ELSE Moves(s, d, 0, 0, 0)
        /\ Budget(s, d)' = Budget(s, d) - (IF s = n /\ d = e THEN 1 ELSE 0)
        /\ UNCHANGED Counter(s, d)
        /\ Budget(s, d) \in Nat
    BY <2>1, SumTypes
  <2> QED
    BY <1>p, <2>2, PairKept
<1>4. ASSUME NEW n \in Node, EnterFabric(n)
      PROVE  PairConserved(s, d)'
  BY <1>4, <1>k, EnterFabricMoves
<1>5. ASSUME NEW i \in Node, NEW j \in Node, DeliverAck(i, j)
      PROVE  PairConserved(s, d)'
  <2>1. /\ IF s = j /\ d = i THEN Moves(s, d, 0, 0, -1) ELSE Moves(s, d, 0, 0, 0)
        /\ Budget(s, d)' = Budget(s, d) + (IF s = j /\ d = i THEN FlowStride ELSE 0)
        /\ UNCHANGED Counter(s, d)
        /\ Budget(s, d) \in Nat
    BY <1>5, DeliverAckMoves, SumTypes
  <2> QED
    BY <1>p, <2>1, PairKept
<1>6. ASSUME NEW i \in Node, NEW j \in Node, DeliverData(i, j)
      PROVE  PairConserved(s, d)'
  BY <1>6, <1>k, DeliverDataMoves
<1>7. ASSUME NEW n \in Node, RecvQPipeIn(n)
      PROVE  PairConserved(s, d)'
  BY <1>7, <1>k, RecvQPipeInMoves
<1>8. ASSUME NEW n \in Node, RecvQPipeOut(n)
      PROVE  PairConserved(s, d)'
  BY <1>8, <1>k, RecvQPipeOutMoves
<1>9. ASSUME NEW n \in Node, AckQPipe(n)
      PROVE  PairConserved(s, d)'
  BY <1>9, <1>k, AckQPipeMoves
<1>10. ASSUME NEW n \in Node, UserReceive(n)
       PROVE  PairConserved(s, d)'
  <2>1. RecvQAvail(n) + 1 < CountMod
    BY <1>10, FreedFits
  <2>2. \/ Moves(s, d, -1, 1, 0) /\ Counter(s, d) = FlowStride - 1 /\ Counter(s, d)' = 0
        \/ Moves(s, d, -1, 0, 0) /\ Counter(s, d)' = Counter(s, d) + 1
        \/ Moves(s, d, 0, 0, 0) /\ UNCHANGED Counter(s, d)
    BY <1>10, <2>1, UserReceiveMoves
  <2>3. UNCHANGED Budget(s, d)
    BY <1>10, <2>1, UserReceiveMoves
  <2> QED
    BY <1>p, <2>2, <2>3, PairKept
<1>11. CASE UNCHANGED vars
  BY <1>11, <1>k, StutterMoves
<1> QED
  BY <1>1, <1>2, <1>3, <1>4, <1>5, <1>6, <1>7, <1>8, <1>9, <1>10, <1>11 DEF Next

(* What the moves of a pair's terms mean for the buffers promised to it. *)
LEMMA PromisedChange ==
  ASSUME TypeOK, NEW s \in Node, NEW d \in Node
  PROVE  /\ Moves(s, d, 0, 0, 0) /\ UNCHANGED Budget(s, d) => UNCHANGED Promised(s, d)
         /\ Moves(s, d, 0, -1, 1) /\ UNCHANGED Budget(s, d)
              => Promised(s, d)' = Promised(s, d) + FlowStride
         /\ Moves(s, d, 1, 0, 0) /\ Budget(s, d)' = Budget(s, d) - 1 => UNCHANGED Promised(s, d)
         /\ Moves(s, d, 0, 0, -1) /\ Budget(s, d)' = Budget(s, d) + FlowStride
              => UNCHANGED Promised(s, d)
         /\ (Moves(s, d, -1, 1, 0) \/ Moves(s, d, -1, 0, 0)) /\ UNCHANGED Budget(s, d)
              => Promised(s, d)' = Promised(s, d) - 1
<1>1. PICK b, u, g : b = Budget(s, d) /\ u = Unread(s, d) /\ g = AcksGranted(s, d)
  OBVIOUS
<1>2. PICK b1, u1, g1 : b1 = Budget(s, d)' /\ u1 = Unread(s, d)' /\ g1 = AcksGranted(s, d)'
  OBVIOUS
<1>3. b \in Nat /\ u \in Nat /\ g \in Nat /\ FlowStride \in Nat
  BY <1>1, SumTypes, Sizes
<1>5. /\ FlowStride * (g + 0) = FlowStride * g
      /\ FlowStride * (g + 1) = FlowStride * g + FlowStride
      /\ FlowStride * (g + -1) = FlowStride * g - FlowStride
      /\ FlowStride * g \in Nat
  BY <1>3
<1>6. PICK p, q : p = FlowStride * g /\ q = FlowStride * g1
  OBVIOUS
<1>7. PICK x, y : x = Promised(s, d) /\ y = Promised(s, d)'
  OBVIOUS
<1>8. x = b + u + p /\ y = b1 + u1 + q
  BY <1>1, <1>2, <1>6, <1>7 DEF Promised
<1>9. /\ u1 = u + 0 /\ g1 = g + 0 /\ b1 = b => y = x
      /\ u1 = u + 0 /\ g1 = g + 1 /\ b1 = b => y = x + FlowStride
      /\ u1 = u + 1 /\ g1 = g + 0 /\ b1 = b - 1 => y = x
      /\ u1 = u + 0 /\ g1 = g + -1 /\ b1 = b + FlowStride => y = x
      /\ u1 = u + -1 /\ g1 = g + 0 /\ b1 = b => y = x - 1
  BY <1>3, <1>5, <1>6, <1>8
<1>10. /\ Moves(s, d, 0, 0, 0) => u1 = u + 0 /\ g1 = g + 0
       /\ Moves(s, d, 0, -1, 1) => u1 = u + 0 /\ g1 = g + 1
       /\ Moves(s, d, 1, 0, 0) => u1 = u + 1 /\ g1 = g + 0
       /\ Moves(s, d, 0, 0, -1) => u1 = u + 0 /\ g1 = g + -1
       /\ Moves(s, d, -1, 1, 0) \/ Moves(s, d, -1, 0, 0) => u1 = u + -1 /\ g1 = g + 0
  BY <1>1, <1>2 DEF Moves
<1>11. /\ UNCHANGED Budget(s, d) => b1 = b
       /\ Budget(s, d)' = Budget(s, d) - 1 => b1 = b - 1
       /\ Budget(s, d)' = Budget(s, d) + FlowStride => b1 = b + FlowStride
  BY <1>1, <1>2
<1> QED
  BY <1>7, <1>9, <1>10, <1>11

(* Where neither the shares nor the free buffers of a sink change. *)
LEMMA SinkUntouched ==
  ASSUME TypeOK, BuffersConserved, NEW d \in Node, RecvQAvail(d)' = RecvQAvail(d),
         \A s \in Node : UNCHANGED Promised(s, d)
  PROVE  RecvQAvail(d)' + Cardinality(PromisedBuffers(d)') = RecvQDepth
<1>1. PromisedBuffers(d)' = PromisedBuffers(d)
  BY DEF PromisedBuffers
<1> QED
  BY <1>1 DEF BuffersConserved

(* Every step conserves the buffers of every sink. *)
LEMMA BuffersStep ==
  TypeOK /\ CreditsConserved /\ BuffersConserved /\ [Next]_vars => BuffersConserved'
<1> SUFFICES ASSUME TypeOK, CreditsConserved, BuffersConserved, [Next]_vars, NEW d \in Node
             PROVE  RecvQAvail(d)' + Cardinality(PromisedBuffers(d)') = RecvQDepth
  BY DEF BuffersConserved, RecvQDepth, ExtraSize
<1>b. RecvQAvail(d) + Cardinality(PromisedBuffers(d)) = RecvQDepth
  BY DEF BuffersConserved
<1>k. ASSUME \A s, t \in Node : Moves(s, t, 0, 0, 0) /\ UNCHANGED Registers(s, t)
      PROVE  RecvQAvail(d)' + Cardinality(PromisedBuffers(d)') = RecvQDepth
  <2>1. \A s \in Node : Moves(s, d, 0, 0, 0) /\ UNCHANGED Budget(s, d)
    BY <1>k DEF Registers
  <2>2. RecvQAvail(d)' = RecvQAvail(d)
    BY <1>k DEF Registers
  <2>3. \A s \in Node : UNCHANGED Promised(s, d)
    BY <2>1, PromisedChange
  <2> QED
    BY <2>2, <2>3, SinkUntouched
<1>1. ASSUME NEW f \in Flows, NEW x \in Item, UserSend(f[1], f[2], x)
      PROVE  RecvQAvail(d)' + Cardinality(PromisedBuffers(d)') = RecvQDepth
  BY <1>1, <1>k, UserSendMoves
<1>2. ASSUME NEW n \in Node, InsertAck(n)
      PROVE  RecvQAvail(d)' + Cardinality(PromisedBuffers(d)') = RecvQDepth
  <2>1. PICK h \in Node : \A s, t \in Node :
           /\ IF t = n /\ s = h THEN Moves(s, t, 0, -1, 1) ELSE Moves(s, t, 0, 0, 0)
           /\ UNCHANGED <<Budget(s, t), Counter(s, t)>>
           /\ RecvQAvail(t)' = RecvQAvail(t) - (IF t = n THEN FlowStride ELSE 0)
    BY <1>2, InsertAckMoves
  <2>2. RecvQAvail(d) \in Nat /\ FlowStride \in Nat /\ Promised(h, d) \in Nat
    BY SumTypes, Sizes, PromisedType
  <2>3. CASE d = n
    <3>1. RecvQAvail(d)' = RecvQAvail(d) - FlowStride
      BY <2>1, <2>3
    <3>2. Moves(h, d, 0, -1, 1) /\ UNCHANGED Budget(h, d)
      BY <2>1, <2>3
    <3>3. Promised(h, d)' = Promised(h, d) + FlowStride
      BY <3>2, PromisedChange
    <3>4. \A s \in Node \ {h} : Moves(s, d, 0, 0, 0) /\ UNCHANGED Budget(s, d)
      BY <2>1
    <3>5. \A s \in Node \ {h} : Promised(s, d)' = Promised(s, d)
      BY <3>4, PromisedChange
    <3>6. FlowStride \in Int /\ Promised(h, d) + FlowStride \in Nat
      BY <2>2
    <3> QED
      BY <1>b, <3>1, <3>3, <3>5, <3>6, SinkKept
  <2>4. CASE d # n
    <3>1. RecvQAvail(d)' = RecvQAvail(d)
      BY <2>1, <2>2, <2>4
    <3>2. \A s \in Node : Moves(s, d, 0, 0, 0) /\ UNCHANGED Budget(s, d)
      BY <2>1, <2>4
    <3>3. \A s \in Node : UNCHANGED Promised(s, d)
      BY <3>2, PromisedChange
    <3> QED
      BY <3>1, <3>3, SinkUntouched
  <2> QED
    BY <2>3, <2>4
<1>3. ASSUME NEW n \in Node, InsertData(n)
      PROVE  RecvQAvail(d)' + Cardinality(PromisedBuffers(d)') = RecvQDepth
  <2>1. PICK e \in Node :
          \A r, t \in Node :
             /\ IF r = n /\ t = e THEN Moves(r, t, 1, 0, 0) ELSE Moves(r, t, 0, 0, 0)
             /\ Budget(r, t)' = Budget(r, t) - (IF r = n /\ t = e THEN 1 ELSE 0)
             /\ UNCHANGED <<Counter(r, t), RecvQAvail(t)>>
    BY <1>3, InsertDataMoves
  <2>2. ASSUME NEW s \in Node
        PROVE  UNCHANGED Promised(s, d)
    <3>1. /\ IF s = n /\ d = e THEN Moves(s, d, 1, 0, 0) ELSE Moves(s, d, 0, 0, 0)
          /\ Budget(s, d)' = Budget(s, d) - (IF s = n /\ d = e THEN 1 ELSE 0)
      BY <2>1
    <3>2. Budget(s, d) \in Nat
      BY SumTypes
    <3> QED
      BY <3>1, <3>2, PromisedChange
  <2>3. RecvQAvail(d)' = RecvQAvail(d)
    BY <2>1
  <2> QED
    BY <2>2, <2>3, SinkUntouched
<1>4. ASSUME NEW n \in Node, EnterFabric(n)
      PROVE  RecvQAvail(d)' + Cardinality(PromisedBuffers(d)') = RecvQDepth
  BY <1>4, <1>k, EnterFabricMoves
<1>5. ASSUME NEW i \in Node, NEW j \in Node, DeliverAck(i, j)
      PROVE  RecvQAvail(d)' + Cardinality(PromisedBuffers(d)') = RecvQDepth
  <2>1. \A s, t \in Node :
           /\ IF s = j /\ t = i THEN Moves(s, t, 0, 0, -1) ELSE Moves(s, t, 0, 0, 0)
           /\ Budget(s, t)' = Budget(s, t) + (IF s = j /\ t = i THEN FlowStride ELSE 0)
           /\ UNCHANGED <<Counter(s, t), RecvQAvail(t)>>
    BY <1>5, DeliverAckMoves
  <2>2. ASSUME NEW s \in Node
        PROVE  UNCHANGED Promised(s, d)
    <3>1. /\ IF s = j /\ d = i THEN Moves(s, d, 0, 0, -1) ELSE Moves(s, d, 0, 0, 0)
          /\ Budget(s, d)' = Budget(s, d) + (IF s = j /\ d = i THEN FlowStride ELSE 0)
      BY <2>1
    <3>2. Budget(s, d) \in Nat
      BY SumTypes
    <3> QED
      BY <3>1, <3>2, PromisedChange
  <2>3. RecvQAvail(d)' = RecvQAvail(d)
    BY <2>1
  <2> QED
    BY <2>2, <2>3, SinkUntouched
<1>6. ASSUME NEW i \in Node, NEW j \in Node, DeliverData(i, j)
      PROVE  RecvQAvail(d)' + Cardinality(PromisedBuffers(d)') = RecvQDepth
  BY <1>6, <1>k, DeliverDataMoves
<1>7. ASSUME NEW n \in Node, RecvQPipeIn(n)
      PROVE  RecvQAvail(d)' + Cardinality(PromisedBuffers(d)') = RecvQDepth
  BY <1>7, <1>k, RecvQPipeInMoves
<1>8. ASSUME NEW n \in Node, RecvQPipeOut(n)
      PROVE  RecvQAvail(d)' + Cardinality(PromisedBuffers(d)') = RecvQDepth
  BY <1>8, <1>k, RecvQPipeOutMoves
<1>9. ASSUME NEW n \in Node, AckQPipe(n)
      PROVE  RecvQAvail(d)' + Cardinality(PromisedBuffers(d)') = RecvQDepth
  BY <1>9, <1>k, AckQPipeMoves
<1>10. ASSUME NEW n \in Node, UserReceive(n)
       PROVE  RecvQAvail(d)' + Cardinality(PromisedBuffers(d)') = RecvQDepth
  <2>0. RecvQAvail(n) + 1 < CountMod
    BY <1>10, FreedFits
  <2>1. PICK e \in Node :
           /\ e = Head(recvQout[n])[1]
           /\ \A s, t \in Node :
                /\ IF s = e /\ t = n
                   THEN \/ Moves(s, t, -1, 1, 0) /\ Counter(s, t) = FlowStride - 1 /\ Counter(s, t)' = 0
                        \/ Moves(s, t, -1, 0, 0) /\ Counter(s, t)' = Counter(s, t) + 1
                   ELSE Moves(s, t, 0, 0, 0) /\ UNCHANGED Counter(s, t)
                /\ UNCHANGED Budget(s, t)
                /\ RecvQAvail(t)' = RecvQAvail(t) + (IF t = n THEN 1 ELSE 0)
    BY <1>10, <2>0, UserReceiveMoves
  <2>2. RecvQAvail(d) \in Nat
    BY SumTypes
  <2>3. CASE d = n
    <3>1. RecvQAvail(d)' = RecvQAvail(d) - (-1)
      BY <2>1, <2>2, <2>3
    <3>2. (Moves(e, d, -1, 1, 0) \/ Moves(e, d, -1, 0, 0)) /\ UNCHANGED Budget(e, d)
      BY <2>1, <2>3
    <3>3. Promised(e, d) \in Nat /\ Promised(e, d) >= 1
      <4>1. Unread(e, d) >= 1
        BY <1>10, <2>1, <2>3, HeadUnread DEF UserReceive
      <4>2. Unread(e, d) \in Nat /\ Promised(e, d) \in Nat /\ Promised(e, d) >= Unread(e, d)
        BY SumTypes, PromisedType
      <4> QED
        BY <4>1, <4>2
    <3>4. Promised(e, d)' = Promised(e, d) - 1
      BY <3>2, PromisedChange
    <3>5. Promised(e, d)' = Promised(e, d) + (-1) /\ Promised(e, d) + (-1) \in Nat /\ -1 \in Int
      BY <3>3, <3>4
    <3>6. \A s \in Node \ {e} : Moves(s, d, 0, 0, 0) /\ UNCHANGED Budget(s, d)
      BY <2>1
    <3>7. \A s \in Node \ {e} : Promised(s, d)' = Promised(s, d)
      BY <3>6, PromisedChange
    <3> QED
      BY <1>b, <3>1, <3>5, <3>7, SinkKept
  <2>4. CASE d # n
    <3>1. RecvQAvail(d)' = RecvQAvail(d)
      BY <2>1, <2>2, <2>4
    <3>2. \A s \in Node : Moves(s, d, 0, 0, 0) /\ UNCHANGED Budget(s, d)
      BY <2>1, <2>4
    <3>3. \A s \in Node : UNCHANGED Promised(s, d)
      BY <3>2, PromisedChange
    <3> QED
      BY <3>1, <3>3, SinkUntouched
  <2> QED
    BY <2>3, <2>4
<1>11. CASE UNCHANGED vars
  BY <1>11, <1>k, StutterMoves
<1> QED
  BY <1>1, <1>2, <1>3, <1>4, <1>5, <1>6, <1>7, <1>8, <1>9, <1>10, <1>11 DEF Next
-----------------------------------------------------------------------------
(* The reset state: no source has sent anything, the first item read earns *)
(* an ack, and every buffer is promised or free.                           *)
LEMMA InitHolds == Init => TypeOK /\ CreditsConserved /\ BuffersConserved
<1> SUFFICES ASSUME Init PROVE TypeOK /\ CreditsConserved /\ BuffersConserved
  OBVIOUS
<1>1. /\ 0 \in 0..(CountMod - 1) /\ QSize \in 0..(CountMod - 1) /\ ExtraSize \in 0..(CountMod - 1)
      /\ FlowStride - 1 \in 0..(FlowStride - 1)
  <2>1. Cardinality(Node) * QSize \in Nat /\ RecvQDepth = Cardinality(Node) * QSize + ExtraSize
    BY Sizes DEF RecvQDepth
  <2> QED
    BY <2>1, Sizes
<1>2. TypeOK
  BY <1>1 DEF Init, TypeOK, FifoFamily
<1>3. ASSUME NEW s \in Node, NEW d \in Node
      PROVE  /\ Budget(s, d) = QSize /\ Unread(s, d) = 0 /\ Counter(s, d) = FlowStride - 1
             /\ AcksWaiting(s, d) = 0 /\ AcksGranted(s, d) = 0 /\ RecvQAvail(d) = ExtraSize
  <2>1. sendBudgetUp[s][d] = QSize /\ sendBudgetDown[s][d] = 0
        /\ recvQAvailUp[d] = ExtraSize /\ recvQAvailDown[d] = 0
        /\ flowStrideCounter[d][s] = FlowStride - 1
    BY DEF Init
  <2>2. (QSize - 0) % CountMod = QSize /\ (ExtraSize - 0) % CountMod = ExtraSize
    BY <1>1, Sizes, DistanceType
  <2>3. /\ packetSendQ[s] = <<>> /\ packetSendQ[d] = <<>> /\ net[<<s, d>>] = <<>>
        /\ net[<<d, s>>] = <<>> /\ recvQin[d] = <<>> /\ recvQ[d] = <<>> /\ recvQout[d] = <<>>
        /\ ackQin[d] = <<>> /\ ackQ[d] = <<>>
    BY DEF Init, Pair
  <2>4. InReceive(s, d) = 0
    BY <2>3, OccursEmpty DEF InReceive
  <2>5. Unread(s, d) = 0
    BY <2>3, <2>4, OccursEmpty DEF Unread
  <2>6. AcksWaiting(s, d) = 0 /\ AcksGranted(s, d) = 0
    BY <2>3, OccursEmpty DEF AcksWaiting, AcksGranted
  <2> QED
    BY <2>1, <2>2, <2>5, <2>6 DEF Budget, RecvQAvail, Counter
<1>4. ASSUME NEW s \in Node, NEW d \in Node
      PROVE  PairConserved(s, d) /\ Promised(s, d) = QSize
  <2>1. FlowStride * (0 + 0) = 0 /\ FlowStride * 0 = 0
    BY Sizes
  <2> QED
    BY <1>3, <2>1, Sizes DEF PairConserved, Promised, Counter
<1>5. ASSUME NEW d \in Node
      PROVE  RecvQAvail(d) + Cardinality(PromisedBuffers(d)) = RecvQDepth
  <2>1. PromisedBuffers(d) = Node \X (1..QSize)
    BY <1>4 DEF PromisedBuffers
  <2>2. IsFiniteSet(1..QSize) /\ Cardinality(1..QSize) = QSize
    BY Sizes, FS_Interval
  <2>3. Cardinality(Node \X (1..QSize)) = Cardinality(Node) * QSize
    BY <2>2, Sizes, FS_Product
  <2>4. Cardinality(Node) * QSize \in Nat
    BY Sizes
  <2>5. RecvQAvail(d) = ExtraSize
    BY <1>3
  <2> QED
    BY <2>1, <2>3, <2>4, <2>5, Sizes DEF RecvQDepth
<1> QED
  BY <1>2, <1>4, <1>5 DEF CreditsConserved, BuffersConserved
-----------------------------------------------------------------------------
(* Every register and FIFO holds what its declaration says. *)
THEOREM DynamicTypeCorrect == Spec => []TypeOK
<1>1. Init => TypeOK
  BY InitHolds
<1> QED
  BY <1>1, TypeStep, PTL DEF Spec

(* The two laws hold together: that a free buffer can be returned without  *)
(* an overflow of the register needs the second, that an ack can be        *)
(* credited without one needs the first.                                   *)
THEOREM DynamicLaws == Spec => [](TypeOK /\ CreditsConserved /\ BuffersConserved)
<1>1. Init => TypeOK /\ CreditsConserved /\ BuffersConserved
  BY InitHolds
<1>2. TypeOK /\ CreditsConserved /\ BuffersConserved /\ [Next]_vars
        => (TypeOK /\ CreditsConserved /\ BuffersConserved)'
  BY TypeStep, CreditsStep, BuffersStep
<1> QED
  BY <1>1, <1>2, PTL DEF Spec

(* user.receive and insertAckQ lose and invent no credit of any pair. *)
THEOREM DynamicCredits == Spec => []CreditsConserved
  BY DynamicLaws, PTL

(* insertAckQ and user.receive lose and invent no buffer of any sink. *)
THEOREM DynamicBuffers == Spec => []BuffersConserved
  BY DynamicLaws, PTL
-----------------------------------------------------------------------------
(* What waits in recvQin is promised a buffer of recvQ. *)
LEMMA RecvQRoom == TypeOK /\ BuffersConserved => RecvQNeverFull
<1> SUFFICES ASSUME TypeOK, BuffersConserved, NEW d \in Node, recvQin[d] # <<>>
             PROVE  Len(recvQ[d]) < RecvQDepth
  BY DEF RecvQNeverFull, RecvQReady
<1>1. PICK T : T = Node \X Item
  OBVIOUS
<1>2. PICK cls : cls = [e \in T |-> e[1]]
  OBVIOUS
<1>3. cls \in [T -> Node] /\ \A n \in Node : OfPeer(T, cls, n) = From(n)
  BY <1>1, <1>2 DEF From, OfPeer
<1>4. recvQ[d] \in Seq(T) /\ recvQin[d] \in Seq(T)
  BY <1>1 DEF TypeOK, FifoFamily
<1>5. PICK P : P = [s \in Node |-> Promised(s, d)]
  OBVIOUS
<1>6. P \in [Node -> Nat] /\ PromisedBuffers(d) = Shares(Node, P)
  BY <1>5, PromisedShares
<1>7. ASSUME NEW n \in Node
      PROVE  Occurs(recvQin[d], From(n)) + Occurs(recvQ[d], From(n)) <= P[n]
  <2>1. /\ Occurs(packetSendQ[n], DataTo(d)) \in Nat /\ Occurs(net[<<n, d>>], AnyData) \in Nat
        /\ Occurs(recvQin[d], From(n)) \in Nat /\ Occurs(recvQ[d], From(n)) \in Nat
        /\ Occurs(recvQout[d], From(n)) \in Nat
    BY CountTypes
  <2>2. Occurs(recvQin[d], From(n)) + Occurs(recvQ[d], From(n)) <= Unread(n, d) /\ Unread(n, d) \in Nat
    BY <2>1 DEF Unread, InReceive
  <2>3. Unread(n, d) <= P[n] /\ P[n] \in Nat
    BY <1>5, PromisedType
  <2> QED
    BY <2>1, <2>2, <2>3
<1>8. \A n \in Node : Occurs(recvQin[d], OfPeer(T, cls, n))
                        + Occurs(recvQ[d], OfPeer(T, cls, n)) <= P[n]
  BY <1>3, <1>7
<1>9. Len(recvQ[d]) \in Nat /\ Len(recvQ[d]) + 1 <= Cardinality(Shares(Node, P))
  <2>1. IsFiniteSet(Node)
    BY Sizes
  <2>2. PICK q, r : q = recvQ[d] /\ r = recvQin[d]
    OBVIOUS
  <2>3. q \in Seq(T) /\ r \in Seq(T) /\ r # <<>> /\ cls \in [T -> Node] /\ P \in [Node -> Nat]
    BY <1>3, <1>4, <1>6, <2>2
  <2>4. \A n \in Node : Occurs(r, OfPeer(T, cls, n)) + Occurs(q, OfPeer(T, cls, n)) <= P[n]
    BY <1>8, <2>2
  <2>5. Len(q) \in Nat /\ Len(q) + 1 <= Cardinality(Shares(Node, P))
    BY <2>1, <2>3, <2>4, NextFits
  <2> QED
    BY <2>2, <2>5
<1>10. Cardinality(Shares(Node, P)) <= RecvQDepth
  <2>1. RecvQAvail(d) + Cardinality(Shares(Node, P)) = RecvQDepth
    BY <1>6 DEF BuffersConserved
  <2>2. RecvQAvail(d) \in Nat /\ Cardinality(Shares(Node, P)) \in Nat
    BY <1>6, PromisedShares, SumTypes
  <2> QED
    BY <2>1, <2>2
<1>11. Cardinality(Shares(Node, P)) \in Nat /\ RecvQDepth \in Nat
  BY <1>6, PromisedShares, Sizes
<1> QED
  BY <1>9, <1>10, <1>11

(* An item in recvQin always finds room in recvQ. *)
THEOREM DynamicRecvQRoom == Spec => []RecvQNeverFull
  BY RecvQRoom, DynamicLaws, PTL

(* An ack is due after FlowStride items, of which a source has QSize and    *)
(* what its last ack left over.                                            *)
LEMMA AcksOfSource ==
  ASSUME TypeOK, CreditsConserved, NEW s \in Node, NEW d \in Node
  PROVE  AcksWaiting(s, d) <= 1 + (QSize \div FlowStride)
<1>1. PICK w : w = AcksWaiting(s, d)
  OBVIOUS
<1>2. w \in Nat /\ FlowStride \in Nat \ {0} /\ QSize \in Nat
  BY <1>1, SumTypes, Sizes
<1>3. FlowStride * w <= QSize + FlowStride - 1
  BY <1>1, CreditBounds
<1>4. CASE w = 0
  <2>1. QSize \div FlowStride \in Nat
    BY <1>2
  <2> QED
    BY <1>1, <1>4, <2>1
<1>5. CASE w # 0
  <2>1. PICK v \in Nat : v = w - 1
    BY <1>2, <1>5
  <2>2. FlowStride * w = FlowStride * v + FlowStride /\ FlowStride * v \in Nat
    BY <1>2, <2>1
  <2>3. FlowStride * v <= QSize
    BY <1>2, <1>3, <2>2
  <2>4. v <= QSize \div FlowStride
    BY <1>2, <2>1, <2>3
  <2>5. QSize \div FlowStride \in Nat
    BY <1>2
  <2> QED
    BY <1>1, <1>2, <2>1, <2>4, <2>5
<1> QED
  BY <1>4, <1>5

LEMMA AckQRoom == TypeOK /\ CreditsConserved => AckQNeverFull
<1> SUFFICES ASSUME TypeOK, CreditsConserved, NEW d \in Node, ackQin[d] # <<>>
             PROVE  Len(ackQ[d]) < AckQDepth
  BY DEF AckQNeverFull, AckQReady
<1>1. PICK Q : Q = 1 + (QSize \div FlowStride)
  OBVIOUS
<1>2. Q \in Nat
  BY <1>1, Sizes
<1>3. PICK cls : cls = [e \in Node |-> e]
  OBVIOUS
<1>4. cls \in [Node -> Node] /\ \A n \in Node : OfPeer(Node, cls, n) = {n}
  BY <1>3 DEF OfPeer
<1>5. PICK P : P = [n \in Node |-> Q]
  OBVIOUS
<1>6. P \in [Node -> Nat]
  BY <1>2, <1>5
<1>7. ackQ[d] \in Seq(Node) /\ ackQin[d] \in Seq(Node)
  BY DEF TypeOK, FifoFamily
<1>8. \A n \in Node : Occurs(ackQin[d], {n}) + Occurs(ackQ[d], {n}) <= P[n]
  BY <1>1, <1>5, AcksOfSource DEF AcksWaiting
<1>9. \A n \in Node : Occurs(ackQin[d], OfPeer(Node, cls, n))
                        + Occurs(ackQ[d], OfPeer(Node, cls, n)) <= P[n]
  BY <1>4, <1>8
<1>10. Len(ackQ[d]) \in Nat /\ Len(ackQ[d]) + 1 <= Cardinality(Shares(Node, P))
  <2>1. IsFiniteSet(Node)
    BY Sizes
  <2>2. PICK q, r : q = ackQ[d] /\ r = ackQin[d]
    OBVIOUS
  <2>3. q \in Seq(Node) /\ r \in Seq(Node) /\ r # <<>> /\ cls \in [Node -> Node] /\ P \in [Node -> Nat]
    BY <1>4, <1>6, <1>7, <2>2
  <2>4. \A n \in Node : Occurs(r, OfPeer(Node, cls, n)) + Occurs(q, OfPeer(Node, cls, n)) <= P[n]
    BY <1>9, <2>2
  <2>5. Len(q) \in Nat /\ Len(q) + 1 <= Cardinality(Shares(Node, P))
    BY <2>1, <2>3, <2>4, NextFits
  <2> QED
    BY <2>2, <2>5
<1>11. Cardinality(Shares(Node, P)) = Cardinality(Node) * Q
  BY <1>2, <1>5, Sizes, EqualShares
<1>12. AckQDepth = Cardinality(Node) * Q /\ Cardinality(Node) * Q \in Nat
  BY <1>1, <1>2, Sizes DEF AckQDepth
<1> QED
  BY <1>10, <1>11, <1>12

(* An ack in ackQin always finds room in ackQ. *)
THEOREM DynamicAckQRoom == Spec => []AckQNeverFull
  BY AckQRoom, DynamicLaws, PTL

(* So neither pipeline of an endpoint is ever held up. *)
THEOREM DynamicNoWait == Spec => []PipelinesNeverWait
<1>1. RecvQNeverFull /\ AckQNeverFull => PipelinesNeverWait
  BY DEF PipelinesNeverWait
<1> QED
  BY <1>1, DynamicRecvQRoom, DynamicAckQRoom, PTL
-----------------------------------------------------------------------------
(* No node sends to itself, so the credits it holds for itself lie idle. *)
IdleSelf(n) ==
  /\ Budget(n, n) = QSize /\ Unread(n, n) = 0
  /\ AcksWaiting(n, n) = 0 /\ AcksGranted(n, n) = 0
NoSelfTraffic == \A n \in Node : Occurs(sendQ[n], From(n)) = 0 /\ IdleSelf(n)

NatTerms == \A n \in Node : /\ Unread(n, n) \in Nat
                             /\ AcksWaiting(n, n) \in Nat
                             /\ AcksGranted(n, n) \in Nat

LEMMA NatTermsHold == TypeOK => NatTerms
BY SumTypes DEF NatTerms

(* An entry at the head of a FIFO is counted. *)
LEMMA HeadCounted ==
  ASSUME NEW T, NEW q \in Seq(T), q # <<>>, NEW S, Head(q) \in S
  PROVE  Occurs(q, S) # 0
<1>1. Tail(q) \in Seq(T)
  BY HeadTailProperties
<1>2. Occurs(Tail(q), S) \in Nat /\ Occurs(q, S) \in Nat
  BY <1>1, OccursType
<1>3. Occurs(Tail(q), S) = Occurs(q, S) - (IF Head(q) \in S THEN 1 ELSE 0)
  BY OccursTail
<1> QED
  BY <1>2, <1>3

(* The send queue of a node never names the node itself. *)
LEMMA SendQStep ==
  ASSUME TypeOK, [Next]_vars, NEW n \in Node, Occurs(sendQ[n], From(n)) = 0
  PROVE  Occurs(sendQ'[n], From(n)) = 0
<1>1. sendQ \in FifoFamily(Node, Node \X Item)
  BY DEF TypeOK
<1>2. ASSUME NEW f \in Flows, NEW x \in Item, UserSend(f[1], f[2], x)
      PROVE  Occurs(sendQ'[n], From(n)) = 0
  <2>1. f[1] \in Node /\ f[2] \in Node /\ f[1] # f[2]
    BY DynamicAssumption DEF Pair
  <2>2. PICK s, e : s = f[1] /\ e = <<f[2], x>>
    OBVIOUS
  <2>3. s \in Node /\ e \in Node \X Item /\ (s = n => e \notin From(n))
    BY <2>1, <2>2 DEF From
  <2>4. \A i \in Node : \A S : Occurs(Enq(sendQ, s, e)[i], S)
           = IF i = s /\ e \in S THEN Occurs(sendQ[i], S) + 1 ELSE Occurs(sendQ[i], S)
    BY <1>1, <2>3, EnqLemma
  <2>5. Occurs(Enq(sendQ, s, e)[n], From(n)) = Occurs(sendQ[n], From(n))
    BY <2>3, <2>4
  <2>6. sendQ' = Enq(sendQ, s, e)
    BY <1>2, <2>2 DEF UserSend
  <2> QED
    BY <2>5, <2>6
<1>3. ASSUME NEW i \in Node, InsertData(i)
      PROVE  Occurs(sendQ'[n], From(n)) = 0
  <2>1. sendQ[i] # <<>> /\ sendQ' = Deq(sendQ, i)
    BY <1>3 DEF InsertData
  <2>2. \A v \in Node : \A S : Occurs(Deq(sendQ, i)[v], S)
           = IF v = i /\ Head(sendQ[i]) \in S THEN Occurs(sendQ[v], S) - 1 ELSE Occurs(sendQ[v], S)
    BY <1>1, <2>1, DeqLemma
  <2>3. i = n => Head(sendQ[i]) \notin From(n)
    <3>1. sendQ[n] \in Seq(Node \X Item)
      BY <1>1 DEF FifoFamily
    <3> QED
      BY <2>1, <3>1, HeadCounted
  <2>4. Occurs(Deq(sendQ, i)[n], From(n)) = Occurs(sendQ[n], From(n))
    BY <2>2, <2>3
  <2> QED
    BY <2>1, <2>4
<1>4. ASSUME sendQ' = sendQ
      PROVE  Occurs(sendQ'[n], From(n)) = 0
  BY <1>4
<1>5. \/ \E f \in Flows, x \in Item : UserSend(f[1], f[2], x)
      \/ \E i \in Node : InsertData(i)
      \/ sendQ' = sendQ
  BY DEF Next, vars, InsertAck, EnterFabric, DeliverAck, DeliverData, RecvQPipeIn, RecvQPipeOut,
         AckQPipe, UserReceive, sending
<1> QED
  BY <1>2, <1>3, <1>4, <1>5

LEMMA NoSelfStep ==
  TypeOK /\ CreditsConserved /\ BuffersConserved /\ NoSelfTraffic /\ [Next]_vars => NoSelfTraffic'
<1> SUFFICES ASSUME TypeOK, CreditsConserved, BuffersConserved, NoSelfTraffic, [Next]_vars,
                    NEW n \in Node
             PROVE  Occurs(sendQ'[n], From(n)) = 0 /\ IdleSelf(n)'
  BY DEF NoSelfTraffic
<1>0. Occurs(sendQ[n], From(n)) = 0 /\ IdleSelf(n)
  BY DEF NoSelfTraffic
<1>s. Occurs(sendQ'[n], From(n)) = 0
  BY <1>0, SendQStep
<1>t. Unread(n, n)' \in Nat /\ AcksWaiting(n, n)' \in Nat /\ AcksGranted(n, n)' \in Nat
  <2>1. TypeOK'
    BY TypeStep
  <2>2. NatTerms'
    BY <2>1, NatTermsHold, PTL
  <2> QED
    BY <2>2 DEF NatTerms
<1>k. ASSUME Moves(n, n, 0, 0, 0), UNCHANGED Budget(n, n)
      PROVE  IdleSelf(n)'
  BY <1>0, <1>k DEF IdleSelf, Moves
<1>r. ASSUME \A s, d \in Node : Moves(s, d, 0, 0, 0) /\ UNCHANGED Registers(s, d)
      PROVE  IdleSelf(n)'
  <2>1. Moves(n, n, 0, 0, 0) /\ UNCHANGED Budget(n, n)
    BY <1>r DEF Registers
  <2> QED
    BY <2>1, <1>k
<1>1. ASSUME NEW f \in Flows, NEW x \in Item, UserSend(f[1], f[2], x)
      PROVE  IdleSelf(n)'
  BY <1>1, <1>r, UserSendMoves
<1>2. ASSUME NEW i \in Node, InsertAck(i)
      PROVE  IdleSelf(n)'
  <2>1. Moves(n, n, 0, -1, 1) \/ Moves(n, n, 0, 0, 0)
    BY <1>2, InsertAckMoves
  <2>2. UNCHANGED Budget(n, n)
    BY <1>2, InsertAckMoves
  <2>3. ~Moves(n, n, 0, -1, 1)
    BY <1>0, <1>t DEF IdleSelf, Moves
  <2> QED
    BY <1>k, <2>1, <2>2, <2>3
<1>3. ASSUME NEW i \in Node, InsertData(i)
      PROVE  IdleSelf(n)'
  <2>1. PICK e \in Node :
          /\ sendQ[i] # <<>> /\ e = Head(sendQ[i])[1]
          /\ \A r, t \in Node :
               /\ IF r = i /\ t = e THEN Moves(r, t, 1, 0, 0) ELSE Moves(r, t, 0, 0, 0)
               /\ Budget(r, t)' = Budget(r, t) - (IF r = i /\ t = e THEN 1 ELSE 0)
               /\ UNCHANGED <<Counter(r, t), RecvQAvail(t)>>
    BY <1>3, InsertDataMoves
  <2>2. e # i
    <3>1. sendQ[i] \in Seq(Node \X Item)
      BY DEF TypeOK, FifoFamily
    <3>2. Head(sendQ[i]) \in Node \X Item
      BY <2>1, <3>1, HeadTailProperties
    <3>3. e = i => Head(sendQ[i]) \in From(i)
      BY <2>1, <3>2 DEF From
    <3>4. Occurs(sendQ[i], From(i)) = 0
      BY DEF NoSelfTraffic
    <3> QED
      BY <2>1, <3>1, <3>3, <3>4, HeadCounted
  <2>3. Moves(n, n, 0, 0, 0) /\ Budget(n, n)' = Budget(n, n) - 0
    BY <2>1, <2>2
  <2>4. Budget(n, n) \in Nat
    BY SumTypes
  <2>5. UNCHANGED Budget(n, n)
    BY <2>3, <2>4
  <2> QED
    BY <1>k, <2>3, <2>5
<1>4. ASSUME NEW i \in Node, EnterFabric(i)
      PROVE  IdleSelf(n)'
  BY <1>4, <1>r, EnterFabricMoves
<1>5. ASSUME NEW i \in Node, NEW j \in Node, DeliverAck(i, j)
      PROVE  IdleSelf(n)'
  <2>1. /\ IF n = j /\ n = i THEN Moves(n, n, 0, 0, -1) ELSE Moves(n, n, 0, 0, 0)
        /\ Budget(n, n)' = Budget(n, n) + (IF n = j /\ n = i THEN FlowStride ELSE 0)
    BY <1>5, DeliverAckMoves
  <2>2. ~Moves(n, n, 0, 0, -1)
    BY <1>0, <1>t DEF IdleSelf, Moves
  <2>3. Budget(n, n) \in Nat
    BY SumTypes
  <2>4. Moves(n, n, 0, 0, 0) /\ UNCHANGED Budget(n, n)
    BY <2>1, <2>2, <2>3
  <2> QED
    BY <1>k, <2>4
<1>6. ASSUME NEW i \in Node, NEW j \in Node, DeliverData(i, j)
      PROVE  IdleSelf(n)'
  BY <1>6, <1>r, DeliverDataMoves
<1>7. ASSUME NEW i \in Node, RecvQPipeIn(i)
      PROVE  IdleSelf(n)'
  BY <1>7, <1>r, RecvQPipeInMoves
<1>8. ASSUME NEW i \in Node, RecvQPipeOut(i)
      PROVE  IdleSelf(n)'
  BY <1>8, <1>r, RecvQPipeOutMoves
<1>9. ASSUME NEW i \in Node, AckQPipe(i)
      PROVE  IdleSelf(n)'
  BY <1>9, <1>r, AckQPipeMoves
<1>10. ASSUME NEW i \in Node, UserReceive(i)
       PROVE  IdleSelf(n)'
  <2>1. RecvQAvail(i) + 1 < CountMod
    BY <1>10, FreedFits
  <2>2. Moves(n, n, -1, 1, 0) \/ Moves(n, n, -1, 0, 0) \/ Moves(n, n, 0, 0, 0)
    BY <1>10, <2>1, UserReceiveMoves
  <2>3. UNCHANGED Budget(n, n)
    BY <1>10, <2>1, UserReceiveMoves
  <2>4. ~Moves(n, n, -1, 1, 0) /\ ~Moves(n, n, -1, 0, 0)
    BY <1>0, <1>t DEF IdleSelf, Moves
  <2> QED
    BY <1>k, <2>2, <2>3, <2>4
<1>11. CASE UNCHANGED vars
  BY <1>s, <1>11, <1>r, StutterMoves
<1> QED
  BY <1>s, <1>1, <1>2, <1>3, <1>4, <1>5, <1>6, <1>7, <1>8, <1>9, <1>10, <1>11 DEF Next

LEMMA NoSelfInit == Init => NoSelfTraffic
<1> SUFFICES ASSUME Init, NEW n \in Node
             PROVE  Occurs(sendQ[n], From(n)) = 0 /\ IdleSelf(n)
  BY DEF NoSelfTraffic
<1>1. /\ sendQ[n] = <<>> /\ packetSendQ[n] = <<>> /\ net[<<n, n>>] = <<>>
      /\ recvQin[n] = <<>> /\ recvQ[n] = <<>> /\ recvQout[n] = <<>>
      /\ ackQin[n] = <<>> /\ ackQ[n] = <<>>
      /\ sendBudgetUp[n][n] = QSize /\ sendBudgetDown[n][n] = 0
  BY DEF Init, Pair
<1>2. Occurs(sendQ[n], From(n)) = 0
  BY <1>1, OccursEmpty
<1>3. Unread(n, n) = 0
  <2>1. InReceive(n, n) = 0
    BY <1>1, OccursEmpty DEF InReceive
  <2> QED
    BY <1>1, <2>1, OccursEmpty DEF Unread
<1>4. AcksWaiting(n, n) = 0 /\ AcksGranted(n, n) = 0
  BY <1>1, OccursEmpty DEF AcksWaiting, AcksGranted
<1>5. QSize \in 0..(CountMod - 1) /\ 0 \in 0..(CountMod - 1) /\ CountMod \in Nat \ {0}
  BY Sizes
<1>6. (QSize - 0) % CountMod = QSize
  BY <1>5, DistanceType
<1>7. Budget(n, n) = QSize
  BY <1>1, <1>6 DEF Budget
<1> QED
  BY <1>2, <1>3, <1>4, <1>7 DEF IdleSelf

(* The sources other than s can hold at most FlowStride - 1 credits each    *)
(* beyond their quota, and the sink holds its own quota, so what s does not *)
(* hold leaves a stride free.                                               *)
LEMMA StrideFree ==
  ASSUME QSize + ExtraSize >= FlowStride + (Cardinality(Node) - 2) * (FlowStride - 1),
         TypeOK, CreditsConserved, BuffersConserved, NoSelfTraffic
  PROVE  NoStarvation
<1> SUFFICES ASSUME NEW f \in Flows, Promised(f[1], f[2]) = 0
             PROVE  RecvQAvail(f[2]) >= FlowStride
  BY DEF NoStarvation
<1>1. PICK s, d : s = f[1] /\ d = f[2]
  OBVIOUS
<1>2. s \in Node /\ d \in Node /\ s # d /\ Promised(s, d) = 0
  BY <1>1, DynamicAssumption DEF Pair
<1>3. PICK P : P = [n \in Node |-> Promised(n, d)]
  OBVIOUS
<1>4. P \in [Node -> Nat] /\ PromisedBuffers(d) = Shares(Node, P)
  BY <1>2, <1>3, PromisedShares
<1>5. P[s] = 0 /\ P[d] = QSize
  <2>1. Budget(d, d) = QSize /\ Unread(d, d) = 0 /\ AcksGranted(d, d) = 0
    BY <1>2 DEF NoSelfTraffic, IdleSelf
  <2>2. FlowStride * 0 = 0 /\ QSize + 0 + 0 = QSize
    BY Sizes
  <2>3. Promised(d, d) = QSize
    BY <2>1, <2>2 DEF Promised
  <2> QED
    BY <1>2, <1>3, <2>3
<1>6. PICK A : A = Node \ {s}
  OBVIOUS
<1>7. PICK B : B = A \ {d}
  OBVIOUS
<1>8. PICK K : K = QSize + FlowStride - 1
  OBVIOUS
<1>9. K \in Nat /\ \A n \in B : P[n] \in Nat /\ P[n] <= K
  <2>1. K \in Nat
    BY <1>8, Sizes
  <2>2. \A n \in Node : Promised(n, d) \in Nat /\ Promised(n, d) <= QSize + FlowStride - 1
    BY <1>2, CreditBounds
  <2> QED
    BY <1>3, <1>6, <1>7, <1>8, <2>1, <2>2
<1>10. IsFiniteSet(Node) /\ Cardinality(Node) \in Nat
  BY Sizes
<1>11. IsFiniteSet(A) /\ Cardinality(A) = Cardinality(Node) - 1
  BY <1>2, <1>6, <1>10, FS_RemoveElement
<1>12. d \in A /\ \A n \in A : P[n] \in Nat
  BY <1>2, <1>4, <1>6
<1>13. IsFiniteSet(B) /\ Cardinality(B) = Cardinality(A) - 1 /\ Cardinality(B) \in Nat
  <2>1. IsFiniteSet(B) /\ Cardinality(B) = Cardinality(A) - 1
    BY <1>7, <1>11, <1>12, FS_RemoveElement
  <2> QED
    BY <2>1, FS_CardinalityType
<1>14. Cardinality(Shares(Node, P)) = Cardinality(Shares(A, P)) + P[s]
  <2>1. \A n \in Node : P[n] \in Nat
    BY <1>4
  <2> QED
    BY <1>2, <1>6, <1>10, <2>1, SharesSplit
<1>15. Cardinality(Shares(A, P)) = Cardinality(Shares(B, P)) + P[d] /\ Cardinality(Shares(B, P)) \in Nat
  BY <1>7, <1>11, <1>12, SharesSplit
<1>16. Cardinality(Shares(B, P)) <= Cardinality(B) * K
  <2>1. PICK Q : Q = [n \in B |-> K]
    OBVIOUS
  <2>2. \A n \in B : P[n] \in Nat /\ Q[n] \in Nat /\ P[n] <= Q[n]
    BY <1>9, <2>1
  <2>3. Cardinality(Shares(B, P)) <= Cardinality(Shares(B, Q))
    BY <1>13, <2>2, SharesMonotone
  <2>4. Cardinality(Shares(B, Q)) = Cardinality(B) * K
    BY <1>9, <1>13, <2>1, EqualShares
  <2> QED
    BY <2>3, <2>4
<1>17. RecvQAvail(d) + Cardinality(Shares(Node, P)) = Cardinality(Node) * QSize + ExtraSize
  BY <1>2, <1>4 DEF BuffersConserved, RecvQDepth
<1>18. RecvQAvail(d) \in Nat
  BY <1>2, SumTypes
<1>19. PICK m, c, a, sh : /\ m = Cardinality(B) /\ c = Cardinality(Shares(B, P)) /\ a = RecvQAvail(d)
                          /\ sh = Cardinality(Shares(Node, P))
  OBVIOUS
<1>20. /\ m \in Nat /\ c \in Nat /\ a \in Nat /\ Cardinality(Node) = m + 2
       /\ QSize \in Nat /\ FlowStride \in Nat \ {0} /\ ExtraSize \in Nat
  BY <1>10, <1>11, <1>13, <1>15, <1>18, <1>19, Sizes
<1>21. c <= m * K /\ sh = c + QSize + 0
  BY <1>5, <1>14, <1>15, <1>16, <1>19
<1>22. a + sh = (m + 2) * QSize + ExtraSize
  BY <1>17, <1>19, <1>20
<1>23. QSize + ExtraSize >= FlowStride + m * (FlowStride - 1)
  BY <1>20
<1>24. PICK x, y : x = m * QSize /\ y = m * (FlowStride - 1)
  OBVIOUS
<1>25. m * K = x + y /\ (m + 2) * QSize = x + 2 * QSize /\ x \in Nat /\ y \in Nat
  <2>1. K = QSize + (FlowStride - 1) /\ FlowStride - 1 \in Nat
    BY <1>8, <1>20
  <2>2. m * (QSize + (FlowStride - 1)) = m * QSize + m * (FlowStride - 1)
    BY <1>20, <2>1
  <2>3. (m + 2) * QSize = m * QSize + 2 * QSize
    BY <1>20
  <2>4. x \in Nat /\ y \in Nat
    BY <1>20, <1>24, <2>1
  <2> QED
    BY <1>24, <2>1, <2>2, <2>3, <2>4
<1>26. a + c + QSize = x + 2 * QSize + ExtraSize /\ c <= x + y /\ QSize + ExtraSize >= FlowStride + y
  BY <1>20, <1>21, <1>22, <1>23, <1>24, <1>25
<1>27. a >= FlowStride
  BY <1>20, <1>25, <1>26
<1> QED
  BY <1>1, <1>19, <1>27

(* Where the buffers cover the strides the other sources may hold unused, a  *)
(* source that has run dry always finds a stride of free buffers at its sink. *)
THEOREM DynamicNoStarvation ==
  ASSUME QSize + ExtraSize >= FlowStride + (Cardinality(Node) - 2) * (FlowStride - 1)
  PROVE  Spec => []NoStarvation
<1>1. Init => NoSelfTraffic
  BY NoSelfInit
<1>2. TypeOK /\ CreditsConserved /\ BuffersConserved /\ NoSelfTraffic /\ [Next]_vars
        => NoSelfTraffic'
  BY NoSelfStep
<1>3. TypeOK /\ CreditsConserved /\ BuffersConserved /\ NoSelfTraffic => NoStarvation
  BY StrideFree
<1> QED
  BY <1>1, <1>2, <1>3, DynamicLaws, PTL DEF Spec
-----------------------------------------------------------------------------
(* The entries of the queues between an endpoint and its user. *)
Entry == Node \X Item

(* What an entry of a receive or send queue and a data packet carry. *)
EntryItem == [e \in Entry |-> e[2]]
PacketItem == [m \in Packet |-> m.item]

LEMMA CarriedItems ==
  /\ \A n \in Node : \A e \in Entry \cap From(n) : EntryItem[e] \in Item
  /\ \A n \in Node : \A m \in Packet \cap DataTo(n) : PacketItem[m] \in Item
BY DEF Entry, EntryItem, PacketItem, DataTo, Data, From

(* The items of a flow in the FIFOs of one node. *)
LEMMA ReceivedIs ==
  ASSUME NEW q \in Seq(Entry), NEW s \in Node
  PROVE  ReceivedFrom(s, q) = Picked(q, From(s), EntryItem)
<1>1. PICK c : c = Those(q, From(s))
  OBVIOUS
<1>2. c \in Seq(Entry \cap From(s))
  BY <1>1, ThoseType
<1>3. PICK n \in Nat : n = Len(c)
  BY <1>2, LenProperties
<1>4. \A i \in 1..n : c[i] \in Entry
  BY <1>2, <1>3, ElementOfSeq
<1>5. [i \in 1..n |-> c[i][2]] = [i \in 1..n |-> EntryItem[c[i]]]
  BY <1>4 DEF EntryItem
<1> QED
  BY <1>1, <1>3, <1>5 DEF ReceivedFrom, Second, Picked

LEMMA HandedIs ==
  ASSUME NEW q \in Seq(Entry), NEW d \in Node
  PROVE  HandedFor(d, q) = Picked(q, From(d), EntryItem)
<1>1. HandedFor(d, q) = ReceivedFrom(d, q)
  BY DEF HandedFor, ReceivedFrom, From, Entry
<1> QED
  BY <1>1, ReceivedIs

LEMMA PackedIs ==
  ASSUME NEW q \in Seq(Packet), NEW d \in Node
  PROVE  PackedFor(d, q) = Picked(q, DataTo(d), PacketItem)
<1>1. PICK c : c = Those(q, DataTo(d))
  OBVIOUS
<1>2. c \in Seq(Packet \cap DataTo(d))
  BY <1>1, ThoseType
<1>3. PICK n \in Nat : n = Len(c)
  BY <1>2, LenProperties
<1>4. \A i \in 1..n : c[i] \in Packet
  BY <1>2, <1>3, ElementOfSeq
<1>5. [i \in 1..n |-> c[i].item] = [i \in 1..n |-> PacketItem[c[i]]]
  BY <1>4 DEF PacketItem
<1> QED
  BY <1>1, <1>3, <1>5 DEF PackedFor, ItemsOf, Picked

LEMMA FlowTypes ==
  ASSUME NEW n \in Node
  PROVE  /\ \A q \in Seq(Entry) : ReceivedFrom(n, q) \in Seq(Item) /\ HandedFor(n, q) = ReceivedFrom(n, q)
         /\ \A q \in Seq(Packet) : PackedFor(n, q) \in Seq(Item)
<1>1. ASSUME NEW q \in Seq(Entry)
      PROVE  ReceivedFrom(n, q) \in Seq(Item) /\ HandedFor(n, q) = ReceivedFrom(n, q)
  <2>1. Picked(q, From(n), EntryItem) \in Seq(Item)
    BY CarriedItems, PickedType
  <2>2. ReceivedFrom(n, q) \in Seq(Item)
    BY <2>1, ReceivedIs
  <2> QED
    BY <2>2, HandedIs, ReceivedIs
<1>2. ASSUME NEW q \in Seq(Packet)
      PROVE  PackedFor(n, q) \in Seq(Item)
  BY PackedIs, CarriedItems, PickedType
<1> QED
  BY <1>1, <1>2

(* What enqueueing and dequeueing do to the items of a flow. *)
LEMMA EntryFamilyEnq ==
  ASSUME NEW D, NEW q, q \in FifoFamily(D, Entry), NEW k \in D, NEW e \in Entry,
         NEW n \in Node, NEW i \in D
  PROVE  ReceivedFrom(n, Enq(q, k, e)[i]) =
           IF i = k /\ e[1] = n THEN Append(ReceivedFrom(n, q[i]), e[2]) ELSE ReceivedFrom(n, q[i])
<1>1. EntryItem[e] = e[2] /\ (e \in From(n) <=> e[1] = n)
  BY DEF EntryItem, From, Entry
<1>0. PICK o : o = q[i]
  OBVIOUS
<1>2. /\ o \in Seq(Entry) /\ Append(o, e) \in Seq(Entry)
      /\ Enq(q, k, e)[i] = IF i = k THEN Append(o, e) ELSE o
  BY <1>0, AppendProperties DEF Enq, FifoFamily
<1>3. Picked(Append(o, e), From(n), EntryItem) =
        IF e \in From(n) THEN Append(Picked(o, From(n), EntryItem), EntryItem[e])
        ELSE Picked(o, From(n), EntryItem)
  BY <1>2, PickedAppend
<1> QED
  BY <1>0, <1>1, <1>2, <1>3, ReceivedIs

LEMMA EntryFamilyDeq ==
  ASSUME NEW D, NEW q, q \in FifoFamily(D, Entry), NEW k \in D, q[k] # <<>>,
         NEW e, e = Head(q[k]), NEW n \in Node, NEW i \in D
  PROVE  /\ e[1] \in Node /\ e[2] \in Item /\ e = <<e[1], e[2]>>
         /\ ReceivedFrom(n, q[i]) =
              IF i = k /\ e[1] = n THEN Led(e[2], ReceivedFrom(n, Deq(q, k)[i]))
              ELSE ReceivedFrom(n, Deq(q, k)[i])
<1>1. e \in Entry /\ Deq(q, k)[i] \in Seq(Entry)
  BY PickedDeq
<1>2. EntryItem[e] = e[2] /\ (e \in From(n) <=> e[1] = n)
  BY <1>1 DEF EntryItem, From, Entry
<1>3. Picked(q[i], From(n), EntryItem) =
        IF i = k /\ e \in From(n) THEN Led(EntryItem[e], Picked(Deq(q, k)[i], From(n), EntryItem))
        ELSE Picked(Deq(q, k)[i], From(n), EntryItem)
  BY PickedDeq
<1>4. q[i] \in Seq(Entry)
  BY DEF FifoFamily
<1>5. e[1] \in Node /\ e[2] \in Item /\ e = <<e[1], e[2]>>
  BY <1>1 DEF Entry
<1> QED
  BY <1>1, <1>2, <1>3, <1>4, <1>5, ReceivedIs

LEMMA PacketFamilyEnq ==
  ASSUME NEW D, NEW q, q \in FifoFamily(D, Packet), NEW k \in D, NEW m \in Packet,
         NEW d \in Node, NEW i \in D
  PROVE  PackedFor(d, Enq(q, k, m)[i]) =
           IF i = k /\ ~m.control /\ m.dst = d THEN Append(PackedFor(d, q[i]), m.item)
           ELSE PackedFor(d, q[i])
<1>1. PacketItem[m] = m.item /\ (m \in DataTo(d) <=> ~m.control /\ m.dst = d)
  BY PacketClasses DEF PacketItem
<1>0. PICK o : o = q[i]
  OBVIOUS
<1>2. /\ o \in Seq(Packet) /\ Append(o, m) \in Seq(Packet)
      /\ Enq(q, k, m)[i] = IF i = k THEN Append(o, m) ELSE o
  BY <1>0, AppendProperties DEF Enq, FifoFamily
<1>3. Picked(Append(o, m), DataTo(d), PacketItem) =
        IF m \in DataTo(d) THEN Append(Picked(o, DataTo(d), PacketItem), PacketItem[m])
        ELSE Picked(o, DataTo(d), PacketItem)
  BY <1>2, PickedAppend
<1> QED
  BY <1>0, <1>1, <1>2, <1>3, PackedIs

LEMMA PacketFamilyDeq ==
  ASSUME NEW D, NEW q, q \in FifoFamily(D, Packet), NEW k \in D, q[k] # <<>>,
         NEW m, m = Head(q[k]), NEW d \in Node, NEW i \in D
  PROVE  /\ m \in Packet
         /\ PackedFor(d, q[i]) = IF i = k /\ ~m.control /\ m.dst = d
                                 THEN Led(m.item, PackedFor(d, Deq(q, k)[i]))
                                 ELSE PackedFor(d, Deq(q, k)[i])
<1>1. m \in Packet /\ Deq(q, k)[i] \in Seq(Packet)
  BY PickedDeq
<1>2. PacketItem[m] = m.item /\ (m \in DataTo(d) <=> ~m.control /\ m.dst = d)
  BY <1>1, PacketClasses DEF PacketItem
<1>3. Picked(q[i], DataTo(d), PacketItem) =
        IF i = k /\ m \in DataTo(d) THEN Led(PacketItem[m], Picked(Deq(q, k)[i], DataTo(d), PacketItem))
        ELSE Picked(Deq(q, k)[i], DataTo(d), PacketItem)
  BY PickedDeq
<1>4. q[i] \in Seq(Packet)
  BY DEF FifoFamily
<1> QED
  BY <1>1, <1>2, <1>3, <1>4, PackedIs

(* A packet in the fabric is on the link to its destination. *)
NetRouted == \A p \in Pair : \A i \in 1..Len(net[p]) : net[p][i].dst = p[2]

RInv == TypeOK /\ NetRouted

LEMMA RoutedStep == RInv /\ [Next]_vars => NetRouted'
<1> SUFFICES ASSUME RInv, [Next]_vars PROVE NetRouted'
  OBVIOUS
<1>1. net \in [Pair -> Seq(Packet)] /\ packetSendQ \in [Node -> Seq(Packet)]
  BY DEF RInv, TypeOK, FifoFamily
<1>2. ASSUME UNCHANGED net PROVE NetRouted'
  BY <1>2 DEF RInv, NetRouted
<1>3. ASSUME NEW n \in Node, EnterFabric(n)
      PROVE  NetRouted'
  <2>1. PICK m : m = Head(packetSendQ[n])
    OBVIOUS
  <2>2. packetSendQ[n] # <<>> /\ net' = Enq(net, <<n, m.dst>>, m)
    BY <1>3, <2>1 DEF EnterFabric
  <2>3. m \in Packet
    BY <1>1, <2>1, <2>2, HeadTailProperties
  <2>4. PICK k : k = <<n, m.dst>>
    OBVIOUS
  <2>5. k \in Pair /\ k[2] = m.dst
    BY <2>3, <2>4, PacketClasses DEF Pair
  <2>6. ASSUME NEW p \in Pair, NEW i \in 1..Len(net'[p])
        PROVE  net'[p][i].dst = p[2]
    <3>1. CASE p # k
      <4>1. net'[p] = net[p]
        BY <1>1, <2>2, <2>4, <3>1 DEF Enq
      <4> QED
        BY <2>6, <4>1 DEF RInv, NetRouted
    <3>2. CASE p = k
      <4>1. net'[p] = Append(net[p], m) /\ net[p] \in Seq(Packet)
        BY <1>1, <2>2, <2>4, <2>5, <3>2 DEF Enq
      <4>2. /\ Len(net'[p]) = Len(net[p]) + 1 /\ Len(net[p]) \in Nat
            /\ \A j \in 1..Len(net[p]) : net'[p][j] = net[p][j]
            /\ net'[p][Len(net[p]) + 1] = m
        BY <2>3, <4>1, AppendProperties, LenProperties
      <4>3. CASE i \in 1..Len(net[p])
        BY <4>2, <4>3 DEF RInv, NetRouted
      <4>4. CASE i = Len(net[p]) + 1
        BY <2>5, <3>2, <4>2, <4>4
      <4> QED
        BY <2>6, <4>2, <4>3, <4>4
    <3> QED
      BY <3>1, <3>2
  <2> QED
    BY <2>6 DEF NetRouted
<1>4. ASSUME NEW s \in Node, NEW d \in Node, net[<<s, d>>] # <<>>, net' = Deq(net, <<s, d>>)
      PROVE  NetRouted'
  <2>1. ASSUME NEW p \in Pair, NEW i \in 1..Len(net'[p])
        PROVE  net'[p][i].dst = p[2]
    <3>1. CASE p # <<s, d>>
      <4>1. net'[p] = net[p]
        BY <1>1, <1>4, <3>1 DEF Deq
      <4> QED
        BY <2>1, <4>1 DEF RInv, NetRouted
    <3>2. CASE p = <<s, d>>
      <4>1. net'[p] = Tail(net[p]) /\ net[p] \in Seq(Packet) /\ net[p] # <<>>
        BY <1>1, <1>4, <3>2 DEF Deq
      <4>2. /\ Len(net'[p]) = Len(net[p]) - 1 /\ Len(net[p]) \in Nat
            /\ \A j \in 1..Len(net'[p]) : net'[p][j] = net[p][j + 1]
        BY <4>1, HeadTailProperties, LenProperties
      <4>3. i + 1 \in 1..Len(net[p])
        BY <2>1, <4>2
      <4> QED
        BY <2>1, <4>2, <4>3 DEF RInv, NetRouted
    <3> QED
      BY <3>1, <3>2
  <2> QED
    BY <2>1 DEF NetRouted
<1>5. ASSUME NEW f \in Flows, NEW x \in Item, UserSend(f[1], f[2], x) PROVE UNCHANGED net
  BY <1>5 DEF UserSend
<1>6. ASSUME NEW n \in Node,
             InsertAck(n) \/ InsertData(n) \/ RecvQPipeIn(n) \/ RecvQPipeOut(n) \/ AckQPipe(n) \/ UserReceive(n)
      PROVE  UNCHANGED net
  BY <1>6 DEF InsertAck, InsertData, RecvQPipeIn, RecvQPipeOut, AckQPipe, UserReceive
<1>7. ASSUME NEW s \in Node, NEW d \in Node, DeliverAck(s, d) \/ DeliverData(s, d)
      PROVE  net[<<s, d>>] # <<>> /\ net' = Deq(net, <<s, d>>)
  BY <1>7 DEF DeliverAck, DeliverData
<1>8. ASSUME UNCHANGED vars PROVE UNCHANGED net
  BY <1>8 DEF vars
<1> QED
  BY <1>2, <1>3, <1>4, <1>5, <1>6, <1>7, <1>8 DEF Next

(* The items of a flow in the receive pipeline of its sink. *)
Arrived(s, d) ==
  Pipe(ReceivedFrom(s, recvQout[d]), ReceivedFrom(s, recvQ[d]), ReceivedFrom(s, recvQin[d]))

LEMMA RowOfFlow ==
  ASSUME NEW s, NEW d
  PROVE  /\ OnItsWay(s, d) = Row(Arrived(s, d), PackedFor(d, net[<<s, d>>]),
                                 PackedFor(d, packetSendQ[s]), HandedFor(d, sendQ[s]))
         /\ OnItsWay(s, d)' = Row(Arrived(s, d)', PackedFor(d, net'[<<s, d>>]),
                                  PackedFor(d, packetSendQ'[s]), HandedFor(d, sendQ'[s]))
BY DEF OnItsWay, Row, Arrived, Pipe

LEMMA PipeTypes ==
  ASSUME NEW ro, ro \in FifoFamily(Node, Entry), NEW rq, rq \in FifoFamily(Node, Entry),
         NEW ri, ri \in FifoFamily(Node, Entry), NEW s \in Node, NEW d \in Node
  PROVE  /\ ReceivedFrom(s, ro[d]) \in Seq(Item)
         /\ ReceivedFrom(s, rq[d]) \in Seq(Item)
         /\ ReceivedFrom(s, ri[d]) \in Seq(Item)
         /\ Pipe(ReceivedFrom(s, ro[d]), ReceivedFrom(s, rq[d]), ReceivedFrom(s, ri[d])) \in Seq(Item)
<1>1. ro[d] \in Seq(Entry) /\ rq[d] \in Seq(Entry) /\ ri[d] \in Seq(Entry)
  BY DEF FifoFamily
<1>2. PICK a, b, c : a = ReceivedFrom(s, ro[d]) /\ b = ReceivedFrom(s, rq[d]) /\ c = ReceivedFrom(s, ri[d])
  OBVIOUS
<1>3. a \in Seq(Item) /\ b \in Seq(Item) /\ c \in Seq(Item)
  BY <1>1, <1>2, FlowTypes
<1>4. a \o b \in Seq(Item)
  BY <1>3, ConcatProperties
<1>5. a \o b \o c \in Seq(Item)
  BY <1>3, <1>4, ConcatProperties
<1> QED
  BY <1>2, <1>3, <1>5 DEF Pipe

LEMMA RowTypes ==
  ASSUME NEW nt, nt \in FifoFamily(Pair, Packet),
         NEW pq, pq \in FifoFamily(Node, Packet), NEW sq, sq \in FifoFamily(Node, Entry),
         NEW s \in Node, NEW d \in Node
  PROVE  /\ PackedFor(d, nt[<<s, d>>]) \in Seq(Item)
         /\ PackedFor(d, pq[s]) \in Seq(Item)
         /\ HandedFor(d, sq[s]) \in Seq(Item)
         /\ HandedFor(d, sq[s]) = ReceivedFrom(d, sq[s])
<1>1. sq[s] \in Seq(Entry)
  BY DEF FifoFamily
<1>2. nt[<<s, d>>] \in Seq(Packet) /\ pq[s] \in Seq(Packet)
  BY DEF FifoFamily, Pair
<1> QED
  BY <1>1, <1>2, FlowTypes

LEMMA RowIs ==
  ASSUME RInv, NEW s \in Node, NEW d \in Node
  PROVE  /\ ReceivedFrom(s, recvQout[d]) \in Seq(Item)
         /\ ReceivedFrom(s, recvQ[d]) \in Seq(Item)
         /\ ReceivedFrom(s, recvQin[d]) \in Seq(Item)
         /\ Arrived(s, d) \in Seq(Item)
         /\ PackedFor(d, net[<<s, d>>]) \in Seq(Item)
         /\ PackedFor(d, packetSendQ[s]) \in Seq(Item)
         /\ HandedFor(d, sendQ[s]) \in Seq(Item)
         /\ HandedFor(d, sendQ[s]) = ReceivedFrom(d, sendQ[s])
<1>1. /\ net \in FifoFamily(Pair, Packet) /\ packetSendQ \in FifoFamily(Node, Packet)
      /\ sendQ \in FifoFamily(Node, Entry)
  BY DEF RInv, TypeOK, Entry
<1>2. /\ recvQout \in FifoFamily(Node, Entry) /\ recvQ \in FifoFamily(Node, Entry)
      /\ recvQin \in FifoFamily(Node, Entry)
  BY DEF RInv, TypeOK, Entry
<1> QED
  BY <1>1, <1>2, RowTypes, PipeTypes DEF Arrived

LEMMA RowWillBe ==
  ASSUME RInv', NEW s \in Node, NEW d \in Node
  PROVE  /\ ReceivedFrom(s, recvQout'[d]) \in Seq(Item)
         /\ ReceivedFrom(s, recvQ'[d]) \in Seq(Item)
         /\ ReceivedFrom(s, recvQin'[d]) \in Seq(Item)
         /\ Arrived(s, d)' \in Seq(Item)
         /\ PackedFor(d, net'[<<s, d>>]) \in Seq(Item)
         /\ PackedFor(d, packetSendQ'[s]) \in Seq(Item)
         /\ HandedFor(d, sendQ'[s]) \in Seq(Item)
         /\ HandedFor(d, sendQ'[s]) = ReceivedFrom(d, sendQ'[s])
<1>1. /\ net' \in FifoFamily(Pair, Packet) /\ packetSendQ' \in FifoFamily(Node, Packet)
      /\ sendQ' \in FifoFamily(Node, Entry)
  BY DEF RInv, TypeOK, Entry
<1>2. /\ recvQout' \in FifoFamily(Node, Entry) /\ recvQ' \in FifoFamily(Node, Entry)
      /\ recvQin' \in FifoFamily(Node, Entry)
  BY DEF RInv, TypeOK, Entry
<1> QED
  BY <1>1, <1>2, RowTypes, PipeTypes DEF Arrived

(* Nothing in the receive pipeline moves. *)
LEMMA ArrivedKept ==
  ASSUME UNCHANGED receiving, NEW s, NEW d
  PROVE  Arrived(s, d)' = Arrived(s, d)
BY DEF receiving, Arrived

UserSendPut(s, d, f, x) ==
  OnItsWay(s, d)' = IF s = f[1] /\ d = f[2] THEN Append(OnItsWay(s, d), x) ELSE OnItsWay(s, d)

LEMMA UserSendPuts ==
  ASSUME RInv, RInv', NEW f \in Flows, NEW x \in Item, UserSend(f[1], f[2], x),
         NEW s \in Node, NEW d \in Node
  PROVE  UserSendPut(s, d, f, x)
<1>0. PICK a, b : a = f[1] /\ b = f[2]
  OBVIOUS
<1>1. a \in Node /\ b \in Node
  BY <1>0, DynamicAssumption DEF Pair
<1>2. UNCHANGED <<net, packetSendQ>> /\ UNCHANGED receiving /\ sendQ' = Enq(sendQ, a, <<b, x>>)
  BY <1>0 DEF UserSend, sending, acking, receiving
<1>3. sendQ \in FifoFamily(Node, Entry)
  BY DEF RInv, TypeOK, Entry
<1>4. PICK e : e = <<b, x>>
  OBVIOUS
<1>4a. e \in Entry /\ e[1] = b /\ e[2] = x
  BY <1>1, <1>4 DEF Entry
<1>4b. ReceivedFrom(d, sendQ'[s]) = IF s = a /\ b = d THEN Append(ReceivedFrom(d, sendQ[s]), x)
                                   ELSE ReceivedFrom(d, sendQ[s])
  BY <1>1, <1>2, <1>3, <1>4, <1>4a, EntryFamilyEnq
<1>5. HandedFor(d, sendQ[s]) = ReceivedFrom(d, sendQ[s]) /\ HandedFor(d, sendQ'[s]) = ReceivedFrom(d, sendQ'[s])
  BY RowIs, RowWillBe
<1>6. PICK r, n, p, h : /\ r = Arrived(s, d) /\ n = PackedFor(d, net[<<s, d>>])
                        /\ p = PackedFor(d, packetSendQ[s]) /\ h = HandedFor(d, sendQ[s])
  OBVIOUS
<1>7. r \in Seq(Item) /\ n \in Seq(Item) /\ p \in Seq(Item) /\ h \in Seq(Item)
  BY <1>6, RowIs
<1>8. OnItsWay(s, d) = Row(r, n, p, h)
  BY <1>6, RowOfFlow, ArrivedKept
<1>9. OnItsWay(s, d)' = Row(r, n, p, HandedFor(d, sendQ'[s]))
  BY <1>2, <1>6, RowOfFlow, ArrivedKept
<1>10. Grown(Row(r, n, p, Append(h, x)), Row(r, n, p, h), x)
  BY <1>7, RowPut
<1> QED
  BY <1>0, <1>4b, <1>5, <1>6, <1>8, <1>9, <1>10 DEF UserSendPut, Grown

(* An ack has no item. *)
LEMMA InsertAckKeeps ==
  ASSUME RInv, NEW k \in Node, InsertAck(k), NEW s \in Node, NEW d \in Node
  PROVE  OnItsWay(s, d)' = OnItsWay(s, d)
<1>1. UNCHANGED <<net, sendQ>> /\ UNCHANGED receiving /\ packetSendQ' = Enq(packetSendQ, k, Ack(Head(ackQ[k])))
      /\ ackQ[k] # <<>>
  BY DEF InsertAck, AckTurn, sending, acking, receiving
<1>2. packetSendQ \in FifoFamily(Node, Packet) /\ ackQ[k] \in Seq(Node)
  BY DEF RInv, TypeOK, FifoFamily
<1>3. PICK m : m = Ack(Head(ackQ[k]))
  OBVIOUS
<1>4. m \in Packet /\ m.control
  <2>1. Head(ackQ[k]) \in Node
    BY <1>1, <1>2, HeadTailProperties
  <2> QED
    BY <1>3, <2>1, PacketIntro DEF Ack
<1>5. PackedFor(d, packetSendQ'[s]) = PackedFor(d, packetSendQ[s])
  BY <1>1, <1>2, <1>3, <1>4, PacketFamilyEnq
<1> QED
  BY <1>1, <1>5, RowOfFlow, ArrivedKept

LEMMA InsertDataKeeps ==
  ASSUME RInv, RInv', NEW k \in Node, InsertData(k), NEW s \in Node, NEW d \in Node
  PROVE  OnItsWay(s, d)' = OnItsWay(s, d)
<1>1. PICK e, b, x : e = Head(sendQ[k]) /\ b = e[1] /\ x = e[2]
  OBVIOUS
<1>2. /\ UNCHANGED <<net>> /\ UNCHANGED receiving /\ packetSendQ' = Enq(packetSendQ, k, Data(b, x))
      /\ sendQ[k] # <<>> /\ sendQ' = Deq(sendQ, k)
  BY <1>1 DEF InsertData, sending, acking, receiving
<1>3. packetSendQ \in FifoFamily(Node, Packet) /\ sendQ \in FifoFamily(Node, Entry)
  BY DEF RInv, TypeOK, Entry
<1>4. /\ b \in Node /\ x \in Item
      /\ ReceivedFrom(d, sendQ[s]) = IF s = k /\ b = d THEN Led(x, ReceivedFrom(d, sendQ'[s]))
                                     ELSE ReceivedFrom(d, sendQ'[s])
  BY <1>1, <1>2, <1>3, EntryFamilyDeq
<1>5. PICK m : m = Data(b, x)
  OBVIOUS
<1>6. m \in Packet /\ ~m.control /\ m.dst = b /\ m.item = x
  BY <1>4, <1>5, PacketIntro DEF Data
<1>7. PackedFor(d, packetSendQ'[s]) = IF s = k /\ b = d THEN Append(PackedFor(d, packetSendQ[s]), x)
                                      ELSE PackedFor(d, packetSendQ[s])
  BY <1>2, <1>3, <1>5, <1>6, PacketFamilyEnq
<1>8. HandedFor(d, sendQ[s]) = ReceivedFrom(d, sendQ[s]) /\ HandedFor(d, sendQ'[s]) = ReceivedFrom(d, sendQ'[s])
      /\ HandedFor(d, sendQ'[s]) \in Seq(Item)
  BY RowIs, RowWillBe
<1>9. PICK r, n, p, h : /\ r = Arrived(s, d) /\ n = PackedFor(d, net[<<s, d>>])
                        /\ p = PackedFor(d, packetSendQ[s]) /\ h = HandedFor(d, sendQ'[s])
  OBVIOUS
<1>10. r \in Seq(Item) /\ n \in Seq(Item) /\ p \in Seq(Item) /\ h \in Seq(Item)
  BY <1>8, <1>9, RowIs
<1>11. OnItsWay(s, d) = Row(r, n, p, HandedFor(d, sendQ[s]))
  BY <1>9, RowOfFlow, ArrivedKept
<1>12. OnItsWay(s, d)' = Row(r, n, PackedFor(d, packetSendQ'[s]), h)
  BY <1>2, <1>9, RowOfFlow, ArrivedKept
<1>13. Row(r, n, Append(p, x), h) = Row(r, n, p, Led(x, h))
  BY <1>4, <1>10, RowMoves
<1> QED
  BY <1>4, <1>7, <1>8, <1>9, <1>11, <1>12, <1>13

LEMMA EnterFabricKeeps ==
  ASSUME RInv, RInv', NEW k \in Node, EnterFabric(k), NEW s \in Node, NEW d \in Node
  PROVE  OnItsWay(s, d)' = OnItsWay(s, d)
<1>1. PICK m : m = Head(packetSendQ[k])
  OBVIOUS
<1>2. /\ UNCHANGED <<sendQ>> /\ UNCHANGED receiving /\ packetSendQ[k] # <<>> /\ packetSendQ' = Deq(packetSendQ, k)
      /\ net' = Enq(net, <<k, m.dst>>, m)
  BY <1>1 DEF EnterFabric, sending, acking, receiving
<1>3. packetSendQ \in FifoFamily(Node, Packet) /\ net \in FifoFamily(Pair, Packet)
  BY DEF RInv, TypeOK, Entry
<1>4. /\ m \in Packet
      /\ PackedFor(d, packetSendQ[s]) = IF s = k /\ ~m.control /\ m.dst = d
                                        THEN Led(m.item, PackedFor(d, packetSendQ'[s]))
                                        ELSE PackedFor(d, packetSendQ'[s])
  BY <1>1, <1>2, <1>3, PacketFamilyDeq
<1>5. PICK l : l = <<k, m.dst>>
  OBVIOUS
<1>6. l \in Pair /\ <<s, d>> \in Pair /\ (<<s, d>> = l <=> s = k /\ d = m.dst)
  BY <1>4, <1>5, PacketClasses DEF Pair
<1>7. PackedFor(d, net'[<<s, d>>]) = IF s = k /\ ~m.control /\ m.dst = d
                                     THEN Append(PackedFor(d, net[<<s, d>>]), m.item)
                                     ELSE PackedFor(d, net[<<s, d>>])
  BY <1>2, <1>3, <1>4, <1>5, <1>6, PacketFamilyEnq
<1>8. PICK r, n, p, h : /\ r = Arrived(s, d) /\ n = PackedFor(d, net[<<s, d>>])
                        /\ p = PackedFor(d, packetSendQ'[s]) /\ h = HandedFor(d, sendQ[s])
  OBVIOUS
<1>9. r \in Seq(Item) /\ n \in Seq(Item) /\ h \in Seq(Item)
  BY <1>8, RowIs
<1>10. p \in Seq(Item)
  BY <1>8, RowWillBe
<1>11. OnItsWay(s, d) = Row(r, n, PackedFor(d, packetSendQ[s]), h)
  BY <1>8, RowOfFlow, ArrivedKept
<1>12. OnItsWay(s, d)' = Row(r, PackedFor(d, net'[<<s, d>>]), p, h)
  BY <1>2, <1>8, RowOfFlow, ArrivedKept
<1>13. ~m.control => Row(r, Append(n, m.item), p, h) = Row(r, n, Led(m.item, p), h)
  <2>1. ~m.control => m.item \in Item
    BY <1>4, PacketClasses
  <2> QED
    BY <1>9, <1>10, <2>1, RowMoves
<1> QED
  BY <1>4, <1>7, <1>8, <1>11, <1>12, <1>13

LEMMA DeliverAckKeeps ==
  ASSUME RInv, NEW a \in Node, NEW b \in Node, DeliverAck(a, b), NEW s \in Node, NEW d \in Node
  PROVE  OnItsWay(s, d)' = OnItsWay(s, d)
<1>1. PICK l : l = <<a, b>>
  OBVIOUS
<1>2. /\ UNCHANGED <<sendQ, packetSendQ>> /\ UNCHANGED receiving /\ net[l] # <<>> /\ net' = Deq(net, l)
      /\ Head(net[l]).control
  BY <1>1 DEF DeliverAck, sending, acking, receiving
<1>3. net \in FifoFamily(Pair, Packet) /\ l \in Pair /\ <<s, d>> \in Pair
  BY <1>1 DEF RInv, TypeOK, Pair, Entry
<1>4. PackedFor(d, net'[<<s, d>>]) = PackedFor(d, net[<<s, d>>])
  BY <1>2, <1>3, PacketFamilyDeq
<1> QED
  BY <1>2, <1>4, RowOfFlow, ArrivedKept

(* Here the fabric must have delivered the packet to the node it names. *)
LEMMA DeliverDataKeeps ==
  ASSUME RInv, RInv', NEW a \in Node, NEW b \in Node, DeliverData(a, b), NEW s \in Node, NEW d \in Node
  PROVE  OnItsWay(s, d)' = OnItsWay(s, d)
<1>1. PICK l : l = <<a, b>>
  OBVIOUS
<1>2. PICK m : m = Head(net[l])
  OBVIOUS
<1>3. /\ UNCHANGED <<packetSendQ, sendQ, recvQ, recvQout>> /\ net[l] # <<>> /\ net' = Deq(net, l)
      /\ ~m.control /\ recvQin' = Enq(recvQin, b, <<a, m.item>>)
  BY <1>1, <1>2 DEF DeliverData, sending
<1>4. net \in FifoFamily(Pair, Packet) /\ recvQin \in FifoFamily(Node, Entry)
      /\ l \in Pair /\ <<s, d>> \in Pair /\ (<<s, d>> = l <=> s = a /\ d = b) /\ l[2] = b
  BY <1>1 DEF RInv, TypeOK, Pair, Entry
<1>5. /\ m \in Packet
      /\ PackedFor(d, net[<<s, d>>]) = IF s = a /\ d = b /\ m.dst = d
                                       THEN Led(m.item, PackedFor(d, net'[<<s, d>>]))
                                       ELSE PackedFor(d, net'[<<s, d>>])
  BY <1>2, <1>3, <1>4, PacketFamilyDeq
<1>6. m.dst = b
  <2>1. net[l] \in Seq(Packet)
    BY <1>4 DEF FifoFamily
  <2>2. 1 \in 1..Len(net[l]) /\ m = net[l][1]
    BY <1>2, <1>3, <2>1
  <2> QED
    BY <1>4, <2>2 DEF RInv, NetRouted
<1>7. m.item \in Item
  BY <1>3, <1>5, PacketClasses
<1>8. PICK e : e = <<a, m.item>>
  OBVIOUS
<1>9. e \in Entry /\ e[1] = a /\ e[2] = m.item
  BY <1>7, <1>8 DEF Entry
<1>10. ReceivedFrom(s, recvQin'[d]) = IF d = b /\ s = a THEN Append(ReceivedFrom(s, recvQin[d]), m.item)
                                      ELSE ReceivedFrom(s, recvQin[d])
  BY <1>3, <1>4, <1>8, <1>9, EntryFamilyEnq
<1>11. PICK o, q, i, r, n, p, h :
         /\ o = ReceivedFrom(s, recvQout[d]) /\ q = ReceivedFrom(s, recvQ[d])
         /\ i = ReceivedFrom(s, recvQin[d])
         /\ r = Arrived(s, d) /\ n = PackedFor(d, net'[<<s, d>>])
         /\ p = PackedFor(d, packetSendQ[s]) /\ h = HandedFor(d, sendQ[s])
  OBVIOUS
<1>12. r \in Seq(Item) /\ p \in Seq(Item) /\ h \in Seq(Item)
       /\ o \in Seq(Item) /\ q \in Seq(Item) /\ i \in Seq(Item)
  BY <1>11, RowIs
<1>13. n \in Seq(Item)
  BY <1>11, RowWillBe
<1>14. Arrived(s, d)' = IF d = b /\ s = a THEN Append(r, m.item) ELSE r
  <2>1. r = Pipe(o, q, i) /\ Arrived(s, d)' = Pipe(o, q, ReceivedFrom(s, recvQin'[d]))
    BY <1>3, <1>11 DEF Arrived
  <2>2. Grown(Pipe(o, q, Append(i, m.item)), Pipe(o, q, i), m.item)
    BY <1>7, <1>12, PipePut
  <2> QED
    BY <1>10, <1>11, <2>1, <2>2 DEF Grown
<1>15. OnItsWay(s, d) = Row(r, PackedFor(d, net[<<s, d>>]), p, h)
  BY <1>11, RowOfFlow
<1>16. OnItsWay(s, d)' = Row(Arrived(s, d)', n, p, h)
  BY <1>3, <1>11, RowOfFlow
<1>17. Row(Append(r, m.item), n, p, h) = Row(r, Led(m.item, n), p, h)
  BY <1>7, <1>12, <1>13, RowMoves
<1> QED
  BY <1>5, <1>6, <1>11, <1>14, <1>15, <1>16, <1>17

(* From one FIFO of the receive pipeline to the next. *)
LEMMA PipeKeeps ==
  ASSUME RInv, RInv', NEW k \in Node, RecvQPipeIn(k) \/ RecvQPipeOut(k), NEW s \in Node, NEW d \in Node
  PROVE  OnItsWay(s, d)' = OnItsWay(s, d)
<1>1. PICK o, q, i : /\ o = ReceivedFrom(s, recvQout[d]) /\ q = ReceivedFrom(s, recvQ[d])
                     /\ i = ReceivedFrom(s, recvQin[d])
  OBVIOUS
<1>2. PICK oo, qq, ii : /\ oo = ReceivedFrom(s, recvQout'[d]) /\ qq = ReceivedFrom(s, recvQ'[d])
                        /\ ii = ReceivedFrom(s, recvQin'[d])
  OBVIOUS
<1>3. /\ o \in Seq(Item) /\ q \in Seq(Item) /\ i \in Seq(Item)
      /\ oo \in Seq(Item) /\ qq \in Seq(Item) /\ ii \in Seq(Item)
  BY <1>1, <1>2, RowIs, RowWillBe
<1>4. Arrived(s, d) = Pipe(o, q, i) /\ Arrived(s, d)' = Pipe(oo, qq, ii)
  BY <1>1, <1>2 DEF Arrived
<1>5. /\ recvQout \in FifoFamily(Node, Entry) /\ recvQ \in FifoFamily(Node, Entry)
      /\ recvQin \in FifoFamily(Node, Entry)
  BY DEF RInv, TypeOK, Entry
<1>6. ASSUME RecvQPipeIn(k)
      PROVE  UNCHANGED <<sending, net>> /\ Pipe(oo, qq, ii) = Pipe(o, q, i)
  <2>1. PICK e : e = Head(recvQin[k])
    OBVIOUS
  <2>2. /\ recvQin[k] # <<>> /\ recvQ' = Enq(recvQ, k, e) /\ recvQin' = Deq(recvQin, k)
        /\ UNCHANGED <<sending, net, recvQout>>
    BY <1>6, <2>1 DEF RecvQPipeIn
  <2>3. /\ e[1] \in Node /\ e[2] \in Item /\ e = <<e[1], e[2]>>
        /\ i = IF d = k /\ e[1] = s THEN Led(e[2], ii) ELSE ii
    BY <1>1, <1>2, <1>5, <2>1, <2>2, EntryFamilyDeq
  <2>4. e \in Entry
    BY <2>3 DEF Entry
  <2>5. qq = IF d = k /\ e[1] = s THEN Append(q, e[2]) ELSE q
    BY <1>1, <1>2, <1>5, <2>2, <2>4, EntryFamilyEnq
  <2>6. Pipe(o, Append(q, e[2]), ii) = Pipe(o, q, Led(e[2], ii))
    BY <1>3, <2>3, PipeFirstMove
  <2> QED
    BY <1>1, <1>2, <2>2, <2>3, <2>5, <2>6
<1>7. ASSUME RecvQPipeOut(k)
      PROVE  UNCHANGED <<sending, net>> /\ Pipe(oo, qq, ii) = Pipe(o, q, i)
  <2>1. PICK e : e = Head(recvQ[k])
    OBVIOUS
  <2>2. /\ recvQ[k] # <<>> /\ recvQout' = Enq(recvQout, k, e) /\ recvQ' = Deq(recvQ, k)
        /\ UNCHANGED <<sending, net, recvQin>>
    BY <1>7, <2>1 DEF RecvQPipeOut
  <2>3. /\ e[1] \in Node /\ e[2] \in Item /\ e = <<e[1], e[2]>>
        /\ q = IF d = k /\ e[1] = s THEN Led(e[2], qq) ELSE qq
    BY <1>1, <1>2, <1>5, <2>1, <2>2, EntryFamilyDeq
  <2>4. e \in Entry
    BY <2>3 DEF Entry
  <2>5. oo = IF d = k /\ e[1] = s THEN Append(o, e[2]) ELSE o
    BY <1>1, <1>2, <1>5, <2>2, <2>4, EntryFamilyEnq
  <2>6. Pipe(Append(o, e[2]), qq, i) = Pipe(o, Led(e[2], qq), i)
    BY <1>3, <2>3, PipeSecondMove
  <2> QED
    BY <1>1, <1>2, <2>2, <2>3, <2>5, <2>6
<1>8. UNCHANGED <<sending, net>> /\ Arrived(s, d)' = Arrived(s, d)
  BY <1>4, <1>6, <1>7
<1>9. UNCHANGED <<net, packetSendQ, sendQ>>
  BY <1>8 DEF sending
<1> QED
  BY <1>8, <1>9, RowOfFlow

LEMMA UserReceiveTakes ==
  ASSUME RInv, RInv', NEW k \in Node, UserReceive(k), NEW s \in Node, NEW d \in Node
  PROVE  IF d = k /\ s = Head(recvQout[k])[1]
         THEN OnItsWay(s, d) # <<>> /\ OnItsWay(s, d)' = Tail(OnItsWay(s, d))
         ELSE OnItsWay(s, d)' = OnItsWay(s, d)
<1>1. PICK e, b, x : e = Head(recvQout[k]) /\ b = e[1] /\ x = e[2]
  OBVIOUS
<1>2. /\ UNCHANGED <<net, packetSendQ, sendQ, recvQ, recvQin>> /\ recvQout[k] # <<>>
      /\ recvQout' = Deq(recvQout, k)
  BY DEF UserReceive, sending
<1>3. recvQout \in FifoFamily(Node, Entry)
  BY DEF RInv, TypeOK, Entry
<1>4. /\ x \in Item
      /\ ReceivedFrom(s, recvQout[d]) = IF d = k /\ b = s THEN Led(x, ReceivedFrom(s, recvQout'[d]))
                                        ELSE ReceivedFrom(s, recvQout'[d])
  BY <1>1, <1>2, <1>3, EntryFamilyDeq
<1>5. PICK o, q, i, r, n, p, h :
        /\ o = ReceivedFrom(s, recvQout'[d]) /\ q = ReceivedFrom(s, recvQ[d])
        /\ i = ReceivedFrom(s, recvQin[d])
        /\ r = Arrived(s, d)' /\ n = PackedFor(d, net[<<s, d>>])
        /\ p = PackedFor(d, packetSendQ[s]) /\ h = HandedFor(d, sendQ[s])
  OBVIOUS
<1>6. n \in Seq(Item) /\ p \in Seq(Item) /\ h \in Seq(Item) /\ q \in Seq(Item) /\ i \in Seq(Item)
  BY <1>5, RowIs
<1>7. r \in Seq(Item) /\ o \in Seq(Item)
  BY <1>5, RowWillBe
<1>8. Arrived(s, d) = IF d = k /\ b = s THEN Led(x, r) ELSE r
  <2>1. r = Pipe(o, q, i) /\ Arrived(s, d) = Pipe(ReceivedFrom(s, recvQout[d]), q, i)
    BY <1>2, <1>5 DEF Arrived
  <2>2. Pipe(Led(x, o), q, i) = Led(x, Pipe(o, q, i))
    BY <1>4, <1>6, <1>7, PipeTake
  <2> QED
    BY <1>4, <1>5, <2>1, <2>2
<1>9. OnItsWay(s, d) = Row(Arrived(s, d), n, p, h)
  BY <1>5, RowOfFlow
<1>10. OnItsWay(s, d)' = Row(r, n, p, h)
  BY <1>2, <1>5, RowOfFlow
<1>11. PICK w : w = Row(r, n, p, h)
  OBVIOUS
<1>12. Row(Led(x, r), n, p, h) = Led(x, w) /\ w \in Seq(Item)
  <2>1. w \in Seq(Item)
    BY <1>6, <1>7, <1>11, RowType
  <2> QED
    BY <1>4, <1>6, <1>7, <1>11, <2>1, RowTake
<1>13. Led(x, w) # <<>> /\ Tail(Led(x, w)) = w
  BY <1>4, <1>12, LedBy
<1> QED
  BY <1>1, <1>4, <1>8, <1>9, <1>10, <1>11, <1>12, <1>13

LEMMA RInvHolds == Spec => []RInv
<1>1. Init => RInv
  <2>1. Init => NetRouted
    <3> SUFFICES ASSUME Init PROVE NetRouted
      OBVIOUS
    <3>1. \A p \in Pair : net[p] = <<>> /\ 1..Len(net[p]) = {}
      BY DEF Init
    <3> QED
      BY <3>1 DEF NetRouted
  <2> QED
    BY <2>1, InitHolds DEF RInv
<1>2. RInv /\ [Next]_vars => RInv'
  BY RoutedStep, TypeStep DEF RInv
<1> QED
  BY <1>1, <1>2, PTL DEF Spec

(* The channels that the state stands for. *)
Carried == [f \in Flows |-> OnItsWay(f[1], f[2])]

LEMMA CarriedTypes ==
  ASSUME RInv, NEW f \in Flows
  PROVE  /\ f[1] \in Node /\ f[2] \in Node /\ f = <<f[1], f[2]>>
         /\ Carried[f] = OnItsWay(f[1], f[2])
BY DynamicAssumption DEF Carried, Pair

LEMMA CarriedInit == Init => Carried = [f \in Flows |-> <<>>]
<1> SUFFICES ASSUME Init, NEW f \in Flows PROVE OnItsWay(f[1], f[2]) = <<>>
  BY DEF Carried
<1>1. PICK s, d : s = f[1] /\ d = f[2]
  OBVIOUS
<1>2. s \in Node /\ d \in Node /\ <<s, d>> \in Pair
  BY <1>1, DynamicAssumption DEF Pair
<1>3. recvQout[d] = <<>> /\ recvQ[d] = <<>> /\ recvQin[d] = <<>> /\ net[<<s, d>>] = <<>> /\ packetSendQ[s] = <<>> /\ sendQ[s] = <<>>
  BY <1>2 DEF Init
<1>4. \A T : Second(Those(<<>>, T)) = <<>> /\ ItemsOf(Those(<<>>, T)) = <<>>
  BY ThoseEmpty DEF Second, ItemsOf
<1>5. OnItsWay(s, d) = <<>> \o <<>> \o <<>> \o <<>> \o <<>> \o <<>>
  BY <1>3, <1>4, Zenon DEF OnItsWay, ReceivedFrom, PackedFor, HandedFor
<1>6. <<>> \o <<>> = <<>>
  OBVIOUS
<1> QED
  BY <1>1, <1>5, <1>6

(* The same for the dynamic endpoint with its receive pipeline: every step  *)
(* hands an item to one channel, takes the oldest item of one channel, or  *)
(* changes none.                                                           *)
THEOREM DynamicImplementsChannels == Spec => Channels!Spec
<1>1. Init => Channels!Init
  BY CarriedInit DEF Channels!Init, Carried
<1>2. RInv /\ RInv' /\ [Next]_vars => Channels!Next \/ Carried' = Carried
  <2> SUFFICES ASSUME RInv, RInv', [Next]_vars PROVE Channels!Next \/ Carried' = Carried
    OBVIOUS
  <2>0. \A f \in Flows : Carried'[f] = OnItsWay(f[1], f[2])'
    BY DEF Carried
  <2>1. ASSUME \A s, d \in Node : OnItsWay(s, d)' = OnItsWay(s, d)
        PROVE  Carried' = Carried
    <3>1. \A f \in Flows : OnItsWay(f[1], f[2])' = OnItsWay(f[1], f[2])
      BY <2>1, CarriedTypes
    <3> QED
      BY <3>1 DEF Carried
  <2>2. ASSUME NEW g \in Flows, NEW x \in Item, UserSend(g[1], g[2], x)
        PROVE  Channels!Next
    <3>1. ASSUME NEW f \in Flows
          PROVE  Carried'[f] = IF f = g THEN Append(Carried[f], x) ELSE Carried[f]
      <4>1. UserSendPut(f[1], f[2], g, x)
        BY <2>2, UserSendPuts, CarriedTypes
      <4>2. f = g <=> f[1] = g[1] /\ f[2] = g[2]
        BY CarriedTypes
      <4> QED
        BY <2>0, <4>1, <4>2, CarriedTypes DEF UserSendPut
    <3>2. Carried' = [Carried EXCEPT ![g] = Append(@, x)]
      BY <3>1 DEF Carried
    <3> QED
      BY <3>2 DEF Channels!Next, Channels!Send, Carried
  <2>3. ASSUME NEW k \in Node, UserReceive(k)
        PROVE  Channels!Next \/ Carried' = Carried
    <3> DEFINE g == <<Head(recvQout[k])[1], k>>
    <3>1. ASSUME NEW f \in Flows
          PROVE  IF f = g THEN Carried[f] # <<>> /\ Carried'[f] = Tail(Carried[f])
                 ELSE Carried'[f] = Carried[f]
      <4>1. f = g <=> f[2] = k /\ f[1] = Head(recvQout[k])[1]
        BY CarriedTypes
      <4>2. IF f[2] = k /\ f[1] = Head(recvQout[k])[1]
            THEN OnItsWay(f[1], f[2]) # <<>> /\ OnItsWay(f[1], f[2])' = Tail(OnItsWay(f[1], f[2]))
            ELSE OnItsWay(f[1], f[2])' = OnItsWay(f[1], f[2])
        BY <2>3, UserReceiveTakes, CarriedTypes
      <4> QED
        BY <2>0, <4>1, <4>2, CarriedTypes
    <3> HIDE DEF g
    <3>2. CASE g \in Flows
      <4>1. Carried' = [Carried EXCEPT ![g] = Tail(@)]
        BY <3>1, <3>2 DEF Carried
      <4>2. Carried[g] # <<>>
        BY <3>1, <3>2
      <4>3. Channels!Receive(g)
        BY <4>1, <4>2 DEF Channels!Receive, Carried
      <4> QED
        BY <3>2, <4>3 DEF Channels!Next
    <3>3. CASE g \notin Flows
      BY <3>1, <3>3 DEF Carried
    <3> QED
      BY <3>2, <3>3
  <2>4. ASSUME NEW k \in Node,
               InsertAck(k) \/ InsertData(k) \/ EnterFabric(k) \/ RecvQPipeIn(k) \/ RecvQPipeOut(k)
        PROVE  Carried' = Carried
    BY <2>1, <2>4, InsertAckKeeps, InsertDataKeeps, EnterFabricKeeps, PipeKeeps
  <2>5. ASSUME NEW a \in Node, NEW b \in Node, DeliverAck(a, b) \/ DeliverData(a, b)
        PROVE  Carried' = Carried
    BY <2>1, <2>5, DeliverAckKeeps, DeliverDataKeeps
  <2>6. ASSUME NEW k \in Node, AckQPipe(k)
        PROVE  Carried' = Carried
    BY <2>6 DEF AckQPipe, sending, receiving, Carried, OnItsWay
  <2>7. CASE UNCHANGED vars
    BY <2>7 DEF vars, sending, receiving, Carried, OnItsWay
  <2> QED
    BY <2>2, <2>3, <2>4, <2>5, <2>6, <2>7 DEF Next
<1>3. RInv /\ RInv' /\ [Next]_vars => [Channels!Next]_([f \in Flows |-> OnItsWay(f[1], f[2])])
  BY <1>2 DEF Carried
<1> QED
  BY <1>1, <1>3, RInvHolds, PTL DEF Spec, Channels!Spec
=============================================================================
