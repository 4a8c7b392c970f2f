---------------------- MODULE AuroraEndpointStatic_proofs ----------------------
(***************************************************************************)
(* For every set of nodes, quota and stride: the credits of the statically *)
(* flow controlled endpoint are conserved, so no source exceeds its quota,  *)
(* the receive queue never fills up in front of a packet and the ack queue  *)
(* never fills up in front of an item.  Every flow is a reliable FIFO       *)
(* channel.                                                                 *)
(***************************************************************************)
EXTENDS AuroraEndpointStatic, FifoLemmas

(* The stride after clipping is a positive number of credits not above QSize *)
LEMMA FlowStrideType == FlowStride \in 1..QSize
  BY StaticAssumption DEF FlowStride

(* The counts that the conservation law adds up are natural numbers. *)
LEMMA CountTypes ==
  ASSUME TypeOK, NEW s \in Node, NEW d \in Node
  PROVE  /\ Occurs(packetSendQ[s], DataTo(d)) \in Nat
         /\ Occurs(net[<<s, d>>], AnyData) \in Nat
         /\ Occurs(recvQ[d], From(s)) \in Nat
         /\ Occurs(ackQ[d], {s}) \in Nat
         /\ Occurs(packetSendQ[d], {Ack(s)}) \in Nat
         /\ Occurs(net[<<d, s>>], AnyAck) \in Nat
         /\ Budget(s, d) \in 0..(BudgetMod - 1)
         /\ flowStrideCounter[d][s] \in 0..(FlowStride - 1)
<1>1. /\ packetSendQ \in FifoFamily(Node, Packet) /\ net \in FifoFamily(Pair, Packet)
      /\ recvQ \in FifoFamily(Node, Node \X Item) /\ ackQ \in FifoFamily(Node, Node)
      /\ <<s, d>> \in Pair /\ <<d, s>> \in Pair
  BY DEF TypeOK, Pair
<1>2. /\ Occurs(packetSendQ[s], DataTo(d)) \in Nat
      /\ Occurs(net[<<s, d>>], AnyData) \in Nat
      /\ Occurs(recvQ[d], From(s)) \in Nat
      /\ Occurs(ackQ[d], {s}) \in Nat
      /\ Occurs(packetSendQ[d], {Ack(s)}) \in Nat
      /\ Occurs(net[<<d, s>>], AnyAck) \in Nat
  BY <1>1, FamilyCount
<1>3. BudgetMod \in Nat \ {0}
  BY StaticAssumption
<1>4. sendBudgetUp[s][d] \in 0..(BudgetMod - 1) /\ sendBudgetDown[s][d] \in 0..(BudgetMod - 1)
  BY DEF TypeOK
<1>5. Budget(s, d) \in 0..(BudgetMod - 1)
  BY <1>3, <1>4, DistanceType DEF Budget
<1> QED
  BY <1>2, <1>5 DEF TypeOK

(* A packet is either the ack or a data packet for its destination. *)
LEMMA PacketShape ==
  ASSUME NEW m \in Packet
  PROVE  /\ m.dst \in Node
         /\ m.control \in BOOLEAN
         /\ m.control => m = Ack(m.dst)
         /\ ~m.control => m.item \in Item /\ m = Data(m.dst, m.item)
<1>1. CASE \E d \in Node : m = Ack(d)
  BY <1>1 DEF Ack
<1>2. CASE \E d \in Node, x \in Item : m = Data(d, x)
  BY <1>2 DEF Data
<1> QED
  BY <1>1, <1>2 DEF Packet, AnyAck, AnyData, DataTo

(* Packets of both kinds for any node are packets. *)
LEMMA PacketIntro ==
  ASSUME NEW d \in Node
  PROVE  /\ Ack(d) \in Packet
         /\ \A x \in Item : Data(d, x) \in Packet
BY DEF Packet, AnyAck, AnyData, DataTo

(* A reduced sum fits in the register. *)
LEMMA CounterStep ==
  ASSUME NEW a \in 0..(BudgetMod - 1), NEW k \in 0..QSize
  PROVE  (a + k) % BudgetMod \in 0..(BudgetMod - 1)
<1>1. BudgetMod \in Nat \ {0} /\ QSize \in Nat /\ QSize < BudgetMod
  BY StaticAssumption
<1> QED
  BY <1>1, OneWrap

(* Every step keeps every register and FIFO within its declaration. *)
LEMMA TypeStep == TypeOK /\ [Next]_vars => TypeOK'
<1> SUFFICES ASSUME TypeOK, [Next]_vars PROVE TypeOK'
  OBVIOUS
<1>qs. sendQ \in FifoFamily(Node, Node \X Item)
  BY DEF TypeOK
<1>qr. recvQ \in FifoFamily(Node, Node \X Item)
  BY DEF TypeOK
<1>qp. packetSendQ \in FifoFamily(Node, Packet)
  BY DEF TypeOK
<1>qn. net \in FifoFamily(Pair, Packet)
  BY DEF TypeOK
<1>qa. ackQ \in FifoFamily(Node, Node)
  BY DEF TypeOK
<1>bu. sendBudgetUp \in [Node -> [Node -> 0..(BudgetMod - 1)]]
  BY DEF TypeOK
<1>bd. sendBudgetDown \in [Node -> [Node -> 0..(BudgetMod - 1)]]
  BY DEF TypeOK
<1>c. flowStrideCounter \in [Node -> [Node -> 0..(FlowStride - 1)]]
  BY DEF TypeOK
<1>f. FlowStride \in Nat \ {0} /\ FlowStride \in 0..QSize /\ 1 \in 0..QSize
  BY FlowStrideType, StaticAssumption
<1>1. ASSUME NEW f \in Flows, NEW x \in Item, UserSend(f[1], f[2], x)
      PROVE  TypeOK'
  <2>1. f[1] \in Node /\ f[2] \in Node /\ <<f[2], x>> \in Node \X Item
    BY StaticAssumption
  <2>2. Enq(sendQ, f[1], <<f[2], x>>) \in FifoFamily(Node, Node \X Item)
    BY <1>qs, <2>1, EnqLemma
  <2> QED
    BY <1>1, <2>2 DEF UserSend, TypeOK
<1>2. ASSUME NEW n \in Node, InsertAck(n)
      PROVE  TypeOK'
  <2>1. Head(ackQ[n]) \in Node /\ Deq(ackQ, n) \in FifoFamily(Node, Node)
    BY <1>2, <1>qa, DeqLemma DEF InsertAck
  <2>2. Enq(packetSendQ, n, Ack(Head(ackQ[n]))) \in FifoFamily(Node, Packet)
    BY <1>qp, <2>1, PacketIntro, EnqLemma
  <2> QED
    BY <1>2, <2>1, <2>2 DEF InsertAck, TypeOK
<1>3. ASSUME NEW n \in Node, InsertData(n)
      PROVE  TypeOK'
  <2> DEFINE d == Head(sendQ[n])[1]
             x == Head(sendQ[n])[2]
  <2>1. Head(sendQ[n]) \in Node \X Item /\ Deq(sendQ, n) \in FifoFamily(Node, Node \X Item)
    BY <1>3, <1>qs, DeqLemma DEF InsertData
  <2>2. d \in Node /\ Data(d, x) \in Packet
    BY <2>1, PacketIntro
  <2>3. /\ sendQ' = Deq(sendQ, n)
        /\ packetSendQ' = Enq(packetSendQ, n, Data(d, x))
        /\ sendBudgetDown' = [sendBudgetDown EXCEPT ![n][d] = (@ + 1) % BudgetMod]
        /\ UNCHANGED <<net, recvQ, ackQ, sendBudgetUp, flowStrideCounter>>
    BY <1>3 DEF InsertData
  <2> HIDE DEF d, x
  <2>4. Enq(packetSendQ, n, Data(d, x)) \in FifoFamily(Node, Packet)
    BY <1>qp, <2>2, EnqLemma
  <2>5. (sendBudgetDown[n][d] + 1) % BudgetMod \in 0..(BudgetMod - 1)
    BY <1>bd, <1>f, <2>2, CounterStep
  <2>6. sendBudgetDown' \in [Node -> [Node -> 0..(BudgetMod - 1)]]
    BY <1>bd, <2>2, <2>3, <2>5
  <2> QED
    BY <2>1, <2>3, <2>4, <2>6 DEF TypeOK
<1>4. ASSUME NEW n \in Node, EnterFabric(n)
      PROVE  TypeOK'
  <2>1. Head(packetSendQ[n]) \in Packet /\ Deq(packetSendQ, n) \in FifoFamily(Node, Packet)
    BY <1>4, <1>qp, DeqLemma DEF EnterFabric
  <2>2. <<n, Head(packetSendQ[n]).dst>> \in Pair
    BY <2>1, PacketShape DEF Pair
  <2>3. Enq(net, <<n, Head(packetSendQ[n]).dst>>, Head(packetSendQ[n])) \in FifoFamily(Pair, Packet)
    BY <1>qn, <2>1, <2>2, EnqLemma
  <2> QED
    BY <1>4, <2>1, <2>3 DEF EnterFabric, TypeOK
<1>5. ASSUME NEW s \in Node, NEW d \in Node, DeliverAck(s, d)
      PROVE  TypeOK'
  <2>1. Deq(net, <<s, d>>) \in FifoFamily(Pair, Packet)
    BY <1>5, <1>qn, DeqLemma DEF DeliverAck, Pair
  <2>2. (sendBudgetUp[d][s] + FlowStride) % BudgetMod \in 0..(BudgetMod - 1)
    BY <1>bu, <1>f, CounterStep
  <2> QED
    BY <1>5, <2>1, <2>2 DEF DeliverAck, TypeOK
<1>6. ASSUME NEW s \in Node, NEW d \in Node, DeliverData(s, d)
      PROVE  TypeOK'
  <2>1. Head(net[<<s, d>>]) \in Packet /\ Deq(net, <<s, d>>) \in FifoFamily(Pair, Packet)
    BY <1>6, <1>qn, DeqLemma DEF DeliverData, Pair
  <2>2. <<s, Head(net[<<s, d>>]).item>> \in Node \X Item
    BY <1>6, <2>1, PacketShape DEF DeliverData
  <2>3. Enq(recvQ, d, <<s, Head(net[<<s, d>>]).item>>) \in FifoFamily(Node, Node \X Item)
    BY <1>qr, <2>2, EnqLemma
  <2> QED
    BY <1>6, <2>1, <2>3 DEF DeliverData, TypeOK
<1>7. ASSUME NEW n \in Node, UserReceive(n)
      PROVE  TypeOK'
  <2> DEFINE s == Head(recvQ[n])[1]
  <2>1. Head(recvQ[n]) \in Node \X Item /\ Deq(recvQ, n) \in FifoFamily(Node, Node \X Item)
    BY <1>7, <1>qr, DeqLemma DEF UserReceive
  <2>2. s \in Node
    BY <2>1
  <2>3. /\ recvQ' = Deq(recvQ, n)
        /\ UNCHANGED <<sendQ, packetSendQ, net, sendBudgetUp, sendBudgetDown>>
        /\ \/ /\ ackQ' = Enq(ackQ, n, s)
              /\ flowStrideCounter' = [flowStrideCounter EXCEPT ![n][s] = 0]
           \/ /\ ~(flowStrideCounter[n][s] + 1 >= FlowStride)
              /\ flowStrideCounter' = [flowStrideCounter EXCEPT ![n][s] = @ + 1]
              /\ UNCHANGED ackQ
    BY <1>7 DEF UserReceive, StrideDone
  <2> HIDE DEF s
  <2>4. Enq(ackQ, n, s) \in FifoFamily(Node, Node)
    BY <1>qa, <2>2, EnqLemma
  <2>5. 0 \in 0..(FlowStride - 1) /\ flowStrideCounter[n][s] \in 0..(FlowStride - 1)
    BY <1>c, <1>f, <2>2
  <2>6. flowStrideCounter' \in [Node -> [Node -> 0..(FlowStride - 1)]]
    <3>1. CASE flowStrideCounter' = [flowStrideCounter EXCEPT ![n][s] = 0]
      BY <1>c, <2>2, <2>5, <3>1
    <3>2. CASE /\ ~(flowStrideCounter[n][s] + 1 >= FlowStride)
               /\ flowStrideCounter' = [flowStrideCounter EXCEPT ![n][s] = @ + 1]
      <4>1. flowStrideCounter[n][s] + 1 \in 0..(FlowStride - 1)
        BY <1>f, <2>5, <3>2
      <4> QED
        BY <1>c, <2>2, <3>2, <4>1
    <3> QED
      BY <2>3, <3>1, <3>2
  <2>7. ackQ' \in FifoFamily(Node, Node)
    BY <1>qa, <2>3, <2>4
  <2> QED
    BY <2>1, <2>3, <2>6, <2>7 DEF TypeOK
<1>8. CASE UNCHANGED vars
  BY <1>8 DEF vars, TypeOK
<1> QED
  BY <1>1, <1>2, <1>3, <1>4, <1>5, <1>6, <1>7, <1>8 DEF Next

(* The classes that the conservation law counts a packet in. *)
LEMMA PacketClasses ==
  ASSUME NEW m \in Packet, NEW d \in Node
  PROVE  /\ m \in DataTo(d) <=> ~m.control /\ m.dst = d
         /\ m = Ack(d) <=> m.control /\ m.dst = d
         /\ m \in AnyData <=> ~m.control
         /\ m \in AnyAck <=> m.control
<1>a. \A e \in Node : Ack(e).control = TRUE /\ Ack(e).dst = e
  BY DEF Ack
<1>b. \A e \in Node, x \in Item : Data(e, x).control = FALSE /\ Data(e, x).dst = e
  BY DEF Data
<1>1. ASSUME NEW e \in Node, m = Ack(e)
      PROVE  /\ m.control /\ m.dst = e /\ m \in AnyAck /\ m \notin AnyData
             /\ m \notin DataTo(d)
  <2>1. m.control = TRUE /\ m.dst = e
    BY <1>1, <1>a
  <2>2. \A c \in Node, x \in Item : m # Data(c, x)
    BY <2>1, <1>b
  <2> QED
    BY <1>1, <2>1, <2>2 DEF AnyAck, AnyData, DataTo
<1>2. ASSUME NEW e \in Node, NEW x \in Item, m = Data(e, x)
      PROVE  /\ ~m.control /\ m.dst = e /\ m \in AnyData /\ m \notin AnyAck
             /\ m \in DataTo(d) <=> e = d
  <2>1. m.control = FALSE /\ m.dst = e
    BY <1>2, <1>b
  <2>2. \A c \in Node : m # Ack(c)
    BY <2>1, <1>a
  <2>3. ASSUME NEW y \in Item, m = Data(d, y) PROVE e = d
    BY <2>1, <2>3, <1>b
  <2> QED
    BY <1>2, <2>1, <2>2, <2>3 DEF AnyAck, AnyData, DataTo
<1>3. \/ \E e \in Node : m = Ack(e)
      \/ \E e \in Node, x \in Item : m = Data(e, x)
  BY DEF Packet, AnyAck, AnyData, DataTo
<1>4. CASE \E e \in Node : m = Ack(e)
  BY <1>1, <1>4
<1>5. CASE \E e \in Node, x \in Item : m = Data(e, x)
  <2>1. PICK e \in Node, x \in Item : m = Data(e, x)
    BY <1>5
  <2>2. m # Ack(d)
    BY <2>1 DEF Ack, Data
  <2> QED
    BY <1>2, <2>1, <2>2
<1> QED
  BY <1>3, <1>4, <1>5

(* A new entry of an ack queue adds one ack to the source it names. *)
LEMMA AckEnqCount ==
  ASSUME ackQ \in FifoFamily(Node, Node), NEW i \in Node, NEW y \in Node
  PROVE  \A v \in Node : \A S : Occurs(Enq(ackQ, i, y)[v], S)
           = IF v = i /\ y \in S THEN Occurs(ackQ[v], S) + 1 ELSE Occurs(ackQ[v], S)
  BY EnqLemma

(* The conservation law survives every step: what one term of it loses,   *)
(* another gains.                                                          *)
LEMMA ConservationStep ==
  TypeOK /\ CreditsConserved /\ [Next]_vars => CreditsConserved'
<1> SUFFICES ASSUME TypeOK, CreditsConserved, [Next]_vars, NEW s \in Node, NEW d \in Node
             PROVE  PairConserved(s, d)'
  BY DEF CreditsConserved
<1> DEFINE b == Budget(s, d)
           p == Occurs(packetSendQ[s], DataTo(d))
           n == Occurs(net[<<s, d>>], AnyData)
           r == Occurs(recvQ[d], From(s))
           c == flowStrideCounter[d][s]
           a == Occurs(ackQ[d], {s})
           k == Occurs(packetSendQ[d], {Ack(s)})
           m == Occurs(net[<<d, s>>], AnyAck)
<1>qs. sendQ \in FifoFamily(Node, Node \X Item)
  BY DEF TypeOK
<1>qr. recvQ \in FifoFamily(Node, Node \X Item)
  BY DEF TypeOK
<1>qp. packetSendQ \in FifoFamily(Node, Packet)
  BY DEF TypeOK
<1>qn. net \in FifoFamily(Pair, Packet)
  BY DEF TypeOK
<1>qa. ackQ \in FifoFamily(Node, Node)
  BY DEF TypeOK
<1>bu. sendBudgetUp \in [Node -> [Node -> 0..(BudgetMod - 1)]]
  BY DEF TypeOK
<1>bd. sendBudgetDown \in [Node -> [Node -> 0..(BudgetMod - 1)]]
  BY DEF TypeOK
<1>sd. <<s, d>> \in Pair /\ <<d, s>> \in Pair
  BY DEF Pair
<1>c. flowStrideCounter \in [Node -> [Node -> 0..(FlowStride - 1)]]
  BY DEF TypeOK
<1>t. /\ b \in 0..(BudgetMod - 1) /\ p \in Nat /\ n \in Nat /\ r \in Nat
      /\ c \in 0..(FlowStride - 1) /\ a \in Nat /\ k \in Nat /\ m \in Nat
  BY CountTypes
<1>f. /\ FlowStride \in Nat \ {0} /\ FlowStride <= QSize /\ QSize \in Nat \ {0}
      /\ BudgetMod \in Nat \ {0} /\ QSize < BudgetMod
  BY FlowStrideType, StaticAssumption
<1>e. b + (p + n + r) + c + FlowStride * (a + k + m) = QSize
  BY DEF CreditsConserved, PairConserved, Unread, AcksDue
<1>g. /\ b' + (p' + n' + r') + c' + FlowStride * (a' + k' + m') = QSize
         => PairConserved(s, d)'
  BY DEF PairConserved, Unread, AcksDue
<1>1. ASSUME NEW f \in Flows, NEW x \in Item, UserSend(f[1], f[2], x)
      PROVE  PairConserved(s, d)'
  BY <1>1, <1>e, <1>g DEF UserSend, Budget
<1>8. CASE UNCHANGED vars
  BY <1>8, <1>e, <1>g DEF vars, Budget
<1> HIDE DEF b, p, n, r, c, a, k, m
<1>2. ASSUME NEW i \in Node, InsertAck(i)
      PROVE  PairConserved(s, d)'
  <2> DEFINE h == Head(ackQ[i])
  <2>1. /\ h \in Node
        /\ Occurs(Deq(ackQ, i)[d], {s}) = IF d = i /\ h \in {s} THEN a - 1 ELSE a
    <3>1. Head(ackQ[i]) \in Node /\ \A v \in Node : \A S : Occurs(Deq(ackQ, i)[v], S)
             = IF v = i /\ Head(ackQ[i]) \in S THEN Occurs(ackQ[v], S) - 1 ELSE Occurs(ackQ[v], S)
      BY <1>2, <1>qa, DeqLemma DEF InsertAck
    <3> QED
      BY <3>1 DEF a
  <2>2. /\ ackQ' = Deq(ackQ, i)
        /\ packetSendQ' = Enq(packetSendQ, i, Ack(h))
        /\ UNCHANGED <<net, recvQ, sendBudgetUp, sendBudgetDown, flowStrideCounter>>
    BY <1>2 DEF InsertAck
  <2>3. b' = b /\ n' = n /\ r' = r /\ c' = c /\ m' = m
    BY <2>2 DEF b, n, r, c, m, Budget
  <2> HIDE DEF h
  <2>4. Ack(h) \in Packet /\ Ack(h) \notin DataTo(d) /\ (Ack(h) \in {Ack(s)} <=> h = s)
    <3>1. Ack(h).control /\ Ack(h).dst = h
      BY DEF Ack
    <3> QED
      BY <2>1, <3>1, PacketIntro, PacketClasses
  <2>5. /\ Occurs(Enq(packetSendQ, i, Ack(h))[d], {Ack(s)}) = IF d = i /\ h = s THEN k + 1 ELSE k
        /\ Occurs(Enq(packetSendQ, i, Ack(h))[s], DataTo(d)) = p
    <3>1. \A v \in Node : \A S : Occurs(Enq(packetSendQ, i, Ack(h))[v], S)
             = IF v = i /\ Ack(h) \in S THEN Occurs(packetSendQ[v], S) + 1 ELSE Occurs(packetSendQ[v], S)
      BY <1>qp, <2>4, EnqLemma
    <3> QED
      BY <2>4, <3>1 DEF k, p
  <2>6. /\ a' = IF d = i /\ h = s THEN a - 1 ELSE a
        /\ k' = IF d = i /\ h = s THEN k + 1 ELSE k
        /\ p' = p
    BY <2>1, <2>2, <2>5 DEF a, k, p
  <2>7. a' + k' + m' = a + k + m
    BY <1>t, <2>3, <2>6
  <2> QED
    BY <1>e, <1>g, <2>3, <2>6, <2>7
<1>3. ASSUME NEW i \in Node, InsertData(i)
      PROVE  PairConserved(s, d)'
  <2> DEFINE e == Head(sendQ[i])[1]
             x == Head(sendQ[i])[2]
             h == Data(e, x)
  <2>1. Head(sendQ[i]) \in Node \X Item
    BY <1>3, <1>qs, DeqLemma DEF InsertData
  <2>2. e \in Node /\ h \in Packet
    BY <2>1, PacketIntro
  <2>3. ~h.control /\ h.dst = e
    BY DEF Data
  <2>4. /\ packetSendQ' = Enq(packetSendQ, i, h)
        /\ Budget(i, e) > 0
        /\ sendBudgetDown' = [sendBudgetDown EXCEPT ![i][e] = (@ + 1) % BudgetMod]
        /\ UNCHANGED <<net, recvQ, ackQ, sendBudgetUp, flowStrideCounter>>
    BY <1>3 DEF InsertData
  <2> HIDE DEF e, x, h
  <2>5. n' = n /\ r' = r /\ c' = c /\ a' = a /\ m' = m
    BY <2>4 DEF n, r, c, a, m
  <2>6. h \notin {Ack(s)} /\ (h \in DataTo(d) <=> e = d)
    BY <2>2, <2>3, PacketClasses
  <2>7. /\ Occurs(Enq(packetSendQ, i, h)[d], {Ack(s)}) = k
        /\ Occurs(Enq(packetSendQ, i, h)[s], DataTo(d)) = IF s = i /\ e = d THEN p + 1 ELSE p
    <3>1. \A v \in Node : \A S : Occurs(Enq(packetSendQ, i, h)[v], S)
             = IF v = i /\ h \in S THEN Occurs(packetSendQ[v], S) + 1 ELSE Occurs(packetSendQ[v], S)
      BY <1>qp, <2>2, EnqLemma
    <3> QED
      BY <2>6, <3>1 DEF k, p
  <2>8. k' = k /\ p' = IF s = i /\ e = d THEN p + 1 ELSE p
    BY <2>4, <2>7 DEF k, p
  <2>9. b' = IF s = i /\ e = d THEN b - 1 ELSE b
    <3>1. CASE s = i /\ e = d
      <4>1. /\ sendBudgetUp[s][d] \in 0..(BudgetMod - 1)
            /\ sendBudgetDown[s][d] \in 0..(BudgetMod - 1)
            /\ (sendBudgetUp[s][d] - sendBudgetDown[s][d]) % BudgetMod > 0
        BY <1>bu, <1>bd, <2>4, <3>1 DEF Budget
      <4>2. /\ sendBudgetUp'[s][d] = sendBudgetUp[s][d]
            /\ sendBudgetDown'[s][d] = (sendBudgetDown[s][d] + 1) % BudgetMod
        BY <1>bd, <2>4, <3>1
      <4> DEFINE u == sendBudgetUp[s][d]
                 w == sendBudgetDown[s][d]
      <4>a. /\ BudgetMod \in Nat \ {0} /\ u \in 0..(BudgetMod - 1)
            /\ w \in 0..(BudgetMod - 1) /\ (u - w) % BudgetMod > 0
        BY <1>f, <4>1
      <4> HIDE DEF u, w
      <4>b. (u - ((w + 1) % BudgetMod)) % BudgetMod = ((u - w) % BudgetMod) - 1
        BY <4>a, SpendOne
      <4>3. (sendBudgetUp[s][d] - ((sendBudgetDown[s][d] + 1) % BudgetMod)) % BudgetMod
              = ((sendBudgetUp[s][d] - sendBudgetDown[s][d]) % BudgetMod) - 1
        BY <4>b DEF u, w
      <4> QED
        BY <3>1, <4>2, <4>3 DEF b, Budget
    <3>2. CASE ~(s = i /\ e = d)
      <4>1. sendBudgetDown'[s][d] = sendBudgetDown[s][d]
        BY <1>bd, <2>2, <2>4, <3>2
      <4> QED
        BY <2>4, <3>2, <4>1 DEF b, Budget
    <3> QED
      BY <3>1, <3>2
  <2> QED
    BY <1>e, <1>g, <1>t, <2>5, <2>8, <2>9
<1>4. ASSUME NEW i \in Node, EnterFabric(i)
      PROVE  PairConserved(s, d)'
  <2> DEFINE h == Head(packetSendQ[i])
             e == h.dst
  <2>1. h \in Packet
    BY <1>4, <1>qp, DeqLemma DEF EnterFabric
  <2>2. /\ Occurs(Deq(packetSendQ, i)[s], DataTo(d)) = IF s = i /\ h \in DataTo(d) THEN p - 1 ELSE p
        /\ Occurs(Deq(packetSendQ, i)[d], {Ack(s)}) = IF d = i /\ h \in {Ack(s)} THEN k - 1 ELSE k
    <3>1. \A v \in Node : \A S : Occurs(Deq(packetSendQ, i)[v], S)
             = IF v = i /\ Head(packetSendQ[i]) \in S THEN Occurs(packetSendQ[v], S) - 1 ELSE Occurs(packetSendQ[v], S)
      BY <1>4, <1>qp, DeqLemma DEF EnterFabric
    <3> QED
      BY <3>1 DEF p, k
  <2>3. /\ packetSendQ' = Deq(packetSendQ, i)
        /\ net' = Enq(net, <<i, e>>, h)
        /\ UNCHANGED <<recvQ, ackQ, sendBudgetUp, sendBudgetDown, flowStrideCounter>>
    BY <1>4 DEF EnterFabric
  <2>4. b' = b /\ r' = r /\ c' = c /\ a' = a
    BY <2>3 DEF b, r, c, a, Budget
  <2>5. e \in Node /\ <<i, e>> \in Pair
    BY <2>1, PacketShape DEF Pair
  <2>6. /\ h \in DataTo(d) <=> ~h.control /\ e = d
        /\ h \in {Ack(s)} <=> h.control /\ e = s
        /\ h \in AnyData <=> ~h.control
        /\ h \in AnyAck <=> h.control
    BY <2>1, PacketClasses
  <2> HIDE DEF h, e
  <2>7. /\ Occurs(Enq(net, <<i, e>>, h)[<<s, d>>], AnyData)
              = IF <<s, d>> = <<i, e>> /\ h \in AnyData THEN n + 1 ELSE n
        /\ Occurs(Enq(net, <<i, e>>, h)[<<d, s>>], AnyAck)
              = IF <<d, s>> = <<i, e>> /\ h \in AnyAck THEN m + 1 ELSE m
    <3>1. \A v \in Pair : \A S : Occurs(Enq(net, <<i, e>>, h)[v], S)
             = IF v = <<i, e>> /\ h \in S THEN Occurs(net[v], S) + 1 ELSE Occurs(net[v], S)
      BY <1>qn, <2>1, <2>5, EnqLemma
    <3> QED
      BY <1>sd, <3>1 DEF n, m
  <2>8. /\ p' = IF s = i /\ e = d /\ ~h.control THEN p - 1 ELSE p
        /\ n' = IF s = i /\ e = d /\ ~h.control THEN n + 1 ELSE n
    BY <2>2, <2>3, <2>6, <2>7 DEF p, n
  <2>9. /\ k' = IF d = i /\ e = s /\ h.control THEN k - 1 ELSE k
        /\ m' = IF d = i /\ e = s /\ h.control THEN m + 1 ELSE m
    BY <2>2, <2>3, <2>6, <2>7 DEF k, m
  <2>10. p' + n' = p + n /\ a' + k' + m' = a + k + m
    BY <1>t, <2>4, <2>8, <2>9
  <2>11. p' \in Int /\ n' \in Int
    BY <1>t, <2>8
  <2> QED
    BY <1>e, <1>g, <1>t, <2>4, <2>10, <2>11
<1>5. ASSUME NEW i \in Node, NEW j \in Node, DeliverAck(i, j)
      PROVE  PairConserved(s, d)'
  <2> DEFINE h == Head(net[<<i, j>>])
  <2>1. <<i, j>> \in Pair
    BY DEF Pair
  <2>2. /\ h \in Packet /\ h.control
        /\ net' = Deq(net, <<i, j>>) /\ net' \in FifoFamily(Pair, Packet)
        /\ sendBudgetUp' = [sendBudgetUp EXCEPT ![j][i] = (@ + FlowStride) % BudgetMod]
        /\ UNCHANGED <<packetSendQ, recvQ, ackQ, sendBudgetDown, flowStrideCounter>>
    BY <1>5, <1>qn, <2>1, DeqLemma DEF DeliverAck
  <2>3. /\ Occurs(Deq(net, <<i, j>>)[<<s, d>>], AnyData)
              = IF <<s, d>> = <<i, j>> /\ h \in AnyData THEN n - 1 ELSE n
        /\ Occurs(Deq(net, <<i, j>>)[<<d, s>>], AnyAck)
              = IF <<d, s>> = <<i, j>> /\ h \in AnyAck THEN m - 1 ELSE m
    <3>1. \A v \in Pair : \A S : Occurs(Deq(net, <<i, j>>)[v], S)
             = IF v = <<i, j>> /\ Head(net[<<i, j>>]) \in S THEN Occurs(net[v], S) - 1 ELSE Occurs(net[v], S)
      BY <1>5, <1>qn, <2>1, DeqLemma DEF DeliverAck
    <3> QED
      BY <1>sd, <3>1 DEF n, m
  <2>4. h \notin AnyData /\ h \in AnyAck
    BY <2>2, PacketClasses
  <2>5. p' = p /\ r' = r /\ c' = c /\ a' = a /\ k' = k
    BY <2>2 DEF p, r, c, a, k
  <2> HIDE DEF h
  <2>6. n' = n /\ m' = IF d = i /\ s = j THEN m - 1 ELSE m
    BY <2>2, <2>3, <2>4 DEF n, m
  <2>7. m' \in Nat
    BY <1>sd, <2>2, FamilyCount DEF m
  <2>8. CASE d = i /\ s = j
    <3>1. m' = m - 1 /\ a' + k' + m' = (a + k + m) - 1 /\ a + k + m \in Nat \ {0}
      BY <1>t, <2>5, <2>6, <2>7, <2>8
    <3>2. FlowStride * (a' + k' + m') = FlowStride * (a + k + m) - FlowStride
      BY <1>f, <3>1
    <3>3. FlowStride * (a' + k' + m') \in Nat
      <4>1. a' + k' + m' \in Nat
        BY <3>1
      <4> QED
        BY <1>f, <4>1
    <3>4. FlowStride * (a + k + m) \in Nat
      BY <1>f, <1>t
    <3>5. b + FlowStride < BudgetMod
      BY <1>e, <1>f, <1>t, <3>2, <3>3, <3>4
    <3>6. /\ sendBudgetUp[s][d] \in 0..(BudgetMod - 1)
          /\ sendBudgetDown[s][d] \in 0..(BudgetMod - 1)
          /\ ((sendBudgetUp[s][d] - sendBudgetDown[s][d]) % BudgetMod) + FlowStride < BudgetMod
      BY <1>bu, <1>bd, <3>5 DEF b, Budget
    <3>7. /\ sendBudgetUp'[s][d] = (sendBudgetUp[s][d] + FlowStride) % BudgetMod
          /\ sendBudgetDown'[s][d] = sendBudgetDown[s][d]
      BY <1>bu, <2>2, <2>8
    <3> DEFINE u == sendBudgetUp[s][d]
               w == sendBudgetDown[s][d]
    <3>a. /\ BudgetMod \in Nat \ {0} /\ FlowStride \in Nat
          /\ u \in 0..(BudgetMod - 1) /\ w \in 0..(BudgetMod - 1)
          /\ ((u - w) % BudgetMod) + FlowStride < BudgetMod
      BY <1>f, <3>6
    <3> HIDE DEF u, w
    <3>b. (((u + FlowStride) % BudgetMod) - w) % BudgetMod = ((u - w) % BudgetMod) + FlowStride
      BY <3>a, GainSome
    <3>8. (((sendBudgetUp[s][d] + FlowStride) % BudgetMod) - sendBudgetDown[s][d]) % BudgetMod
            = ((sendBudgetUp[s][d] - sendBudgetDown[s][d]) % BudgetMod) + FlowStride
      BY <3>b DEF u, w
    <3>9. b' = b + FlowStride
      BY <3>7, <3>8 DEF b, Budget
    <3>10. b + (p + n + r) + c + FlowStride * (a + k + m)
             = b' + (p' + n' + r') + c' + FlowStride * (a' + k' + m')
      BY <1>f, <1>t, <2>5, <2>6, <3>2, <3>3, <3>4, <3>9
    <3> QED
      BY <1>e, <1>g, <3>10
  <2>9. CASE ~(d = i /\ s = j)
    <3>1. sendBudgetUp'[s][d] = sendBudgetUp[s][d]
      BY <1>bu, <2>2, <2>9
    <3>2. b' = b
      BY <2>2, <3>1 DEF b, Budget
    <3> QED
      BY <1>e, <1>g, <2>5, <2>6, <2>9, <3>2
  <2> QED
    BY <2>8, <2>9
<1>6. ASSUME NEW i \in Node, NEW j \in Node, DeliverData(i, j)
      PROVE  PairConserved(s, d)'
  <2> DEFINE h == Head(net[<<i, j>>])
             x == <<i, h.item>>
  <2>1. <<i, j>> \in Pair
    BY DEF Pair
  <2>2. /\ h \in Packet /\ ~h.control
        /\ net' = Deq(net, <<i, j>>)
        /\ recvQ' = Enq(recvQ, j, x)
        /\ UNCHANGED <<packetSendQ, ackQ, sendBudgetUp, sendBudgetDown, flowStrideCounter>>
    BY <1>6, <1>qn, <2>1, DeqLemma DEF DeliverData
  <2>3. /\ Occurs(Deq(net, <<i, j>>)[<<s, d>>], AnyData)
              = IF <<s, d>> = <<i, j>> /\ h \in AnyData THEN n - 1 ELSE n
        /\ Occurs(Deq(net, <<i, j>>)[<<d, s>>], AnyAck)
              = IF <<d, s>> = <<i, j>> /\ h \in AnyAck THEN m - 1 ELSE m
    <3>1. \A v \in Pair : \A S : Occurs(Deq(net, <<i, j>>)[v], S)
             = IF v = <<i, j>> /\ Head(net[<<i, j>>]) \in S THEN Occurs(net[v], S) - 1 ELSE Occurs(net[v], S)
      BY <1>6, <1>qn, <2>1, DeqLemma DEF DeliverData
    <3> QED
      BY <1>sd, <3>1 DEF n, m
  <2>4. h \in AnyData /\ h \notin AnyAck
    BY <2>2, PacketClasses
  <2>5. x \in Node \X Item /\ (x \in From(s) <=> i = s)
    BY <2>2, PacketShape DEF From
  <2>6. b' = b /\ p' = p /\ c' = c /\ a' = a /\ k' = k
    BY <2>2 DEF b, p, c, a, k, Budget
  <2> HIDE DEF h, x
  <2>7. Occurs(Enq(recvQ, j, x)[d], From(s)) = IF d = j /\ i = s THEN r + 1 ELSE r
    BY <1>qr, <2>5, EnqLemma DEF r
  <2>8. /\ n' = IF d = j /\ i = s THEN n - 1 ELSE n
        /\ r' = IF d = j /\ i = s THEN r + 1 ELSE r
        /\ m' = m
    BY <2>2, <2>3, <2>4, <2>7 DEF n, r, m
  <2>9. p' + n' + r' = p + n + r
    BY <1>t, <2>6, <2>8
  <2> QED
    BY <1>e, <1>g, <2>6, <2>8, <2>9
<1>7. ASSUME NEW i \in Node, UserReceive(i)
      PROVE  PairConserved(s, d)'
  <2> DEFINE h == Head(recvQ[i])
             e == h[1]
  <2>1. h \in Node \X Item
    BY <1>7, <1>qr, DeqLemma DEF UserReceive
  <2>2. Occurs(Deq(recvQ, i)[d], From(s)) = IF d = i /\ h \in From(s) THEN r - 1 ELSE r
    BY <1>7, <1>qr, DeqLemma DEF UserReceive, r
  <2>3. e \in Node /\ (h \in From(s) <=> e = s)
    BY <2>1 DEF From
  <2>3a. e \in Node
    BY <2>3
  <2>3b. \A y \in Node : \A v \in Node : \A S : Occurs(Enq(ackQ, i, y)[v], S)
             = IF v = i /\ y \in S THEN Occurs(ackQ[v], S) + 1 ELSE Occurs(ackQ[v], S)
    BY <1>qa, AckEnqCount
  <2>4. /\ recvQ' = Deq(recvQ, i)
        /\ UNCHANGED <<packetSendQ, net, sendBudgetUp, sendBudgetDown>>
        /\ \/ /\ flowStrideCounter[i][e] + 1 >= FlowStride
              /\ ackQ' = Enq(ackQ, i, e)
              /\ flowStrideCounter' = [flowStrideCounter EXCEPT ![i][e] = 0]
           \/ /\ flowStrideCounter' = [flowStrideCounter EXCEPT ![i][e] = @ + 1]
              /\ UNCHANGED ackQ
    BY <1>7 DEF UserReceive, StrideDone
  <2>5. b' = b /\ p' = p /\ n' = n /\ k' = k /\ m' = m
    BY <2>4 DEF b, p, n, k, m, Budget
  <2> HIDE DEF h, e
  <2>6. r' = IF d = i /\ e = s THEN r - 1 ELSE r
    BY <2>2, <2>3, <2>4 DEF r
  <2>7. CASE ~(d = i /\ e = s)
    <3>1. c' = c
      BY <1>c, <2>3, <2>4, <2>7 DEF c
    <3>2. CASE ackQ' = Enq(ackQ, i, e)
      <4>1. Occurs(Enq(ackQ, i, e)[d], {s}) = a
        BY <2>3a, <2>3b, <2>7 DEF a
      <4> QED
        BY <1>e, <1>g, <2>5, <2>6, <2>7, <3>1, <3>2, <4>1 DEF a
    <3>3. CASE UNCHANGED ackQ
      BY <1>e, <1>g, <2>5, <2>6, <2>7, <3>1, <3>3 DEF a
    <3> QED
      BY <2>4, <3>2, <3>3
  <2>8. CASE d = i /\ e = s
    <3>1. CASE /\ flowStrideCounter[i][e] + 1 >= FlowStride
               /\ ackQ' = Enq(ackQ, i, e)
               /\ flowStrideCounter' = [flowStrideCounter EXCEPT ![i][e] = 0]
      <4>1. Occurs(Enq(ackQ, i, e)[d], {s}) = a + 1
        BY <2>3a, <2>3b, <2>8 DEF a
      <4>2. a' = a + 1
        BY <3>1, <4>1 DEF a
      <4>3. c' = 0 /\ c = FlowStride - 1
        BY <1>c, <1>f, <1>t, <2>3, <2>8, <3>1 DEF c
      <4>4. a' + k' + m' = (a + k + m) + 1 /\ a + k + m \in Nat
        BY <1>t, <2>5, <4>2
      <4>5. FlowStride * (a' + k' + m') = FlowStride * (a + k + m) + FlowStride
        BY <1>f, <4>4
      <4>6. FlowStride * (a + k + m) \in Nat
        BY <1>f, <4>4
      <4> QED
        BY <1>e, <1>f, <1>g, <1>t, <2>5, <2>6, <2>8, <4>3, <4>5, <4>6
    <3>2. CASE /\ flowStrideCounter' = [flowStrideCounter EXCEPT ![i][e] = @ + 1]
               /\ UNCHANGED ackQ
      <4>1. c' = c + 1
        BY <1>c, <2>3, <2>8, <3>2 DEF c
      <4>2. a' = a
        BY <3>2 DEF a
      <4>3. FlowStride * (a + k + m) \in Nat
        BY <1>f, <1>t
      <4> QED
        BY <1>e, <1>f, <1>g, <1>t, <2>5, <2>6, <2>8, <4>1, <4>2, <4>3
    <3> QED
      BY <2>4, <3>1, <3>2
  <2> QED
    BY <2>7, <2>8
<1> QED
  BY <1>1, <1>2, <1>3, <1>4, <1>5, <1>6, <1>7, <1>8 DEF Next
-----------------------------------------------------------------------------
LEMMA InitHolds == Init => TypeOK /\ CreditsConserved
<1> SUFFICES ASSUME Init PROVE TypeOK /\ CreditsConserved
  OBVIOUS
<1>1. FlowStride \in Nat \ {0} /\ QSize \in 0..(BudgetMod - 1) /\ 0 \in 0..(BudgetMod - 1)
      /\ BudgetMod \in Nat \ {0}
  BY FlowStrideType, StaticAssumption
<1>2. TypeOK
  BY <1>1 DEF Init, TypeOK, FifoFamily
<1>3. ASSUME NEW s \in Node, NEW d \in Node
      PROVE  PairConserved(s, d)
  <2>1. <<s, d>> \in Pair /\ <<d, s>> \in Pair
    BY DEF Pair
  <2>2. Unread(s, d) = 0 /\ AcksDue(s, d) = 0
    BY <2>1, OccursEmpty DEF Init, Unread, AcksDue
  <2>3. Budget(s, d) = QSize
    <3>1. sendBudgetUp[s][d] = QSize /\ sendBudgetDown[s][d] = 0
      BY DEF Init
    <3>2. (QSize - 0) % BudgetMod = QSize
      BY <1>1, DistanceType
    <3> QED
      BY <3>1, <3>2 DEF Budget
  <2>4. flowStrideCounter[d][s] = 0
    BY DEF Init
  <2> QED
    BY <1>1, <2>2, <2>3, <2>4, StaticAssumption DEF PairConserved
<1> QED
  BY <1>2, <1>3 DEF CreditsConserved

(* The registers and FIFOs of every node keep their declared contents. *)
THEOREM TypeCorrect == Spec => []TypeOK
<1>1. Init => TypeOK
  BY InitHolds
<1>2. TypeOK /\ [Next]_vars => TypeOK'
  BY TypeStep
<1> QED
  BY <1>1, <1>2, PTL DEF Spec

(* Credits are neither created nor lost, whatever the quota and the stride. *)
THEOREM Conservation == Spec => [](TypeOK /\ CreditsConserved)
<1>1. Init => TypeOK /\ CreditsConserved
  BY InitHolds
<1>2. TypeOK /\ CreditsConserved /\ [Next]_vars => (TypeOK /\ CreditsConserved)'
  BY TypeStep, ConservationStep
<1> QED
  BY <1>1, <1>2, PTL DEF Spec

(* The consequences of the law for one pair: neither the unread data nor    *)
(* the acks that are due can exceed what the quota pays for.                *)
LEMMA PairBounds ==
  ASSUME TypeOK, CreditsConserved, NEW s \in Node, NEW d \in Node
  PROVE  /\ Unread(s, d) <= QSize
         /\ Occurs(recvQ[d], From(s)) <= QSize
         /\ Occurs(ackQ[d], {s}) <= QSize \div FlowStride
<1> DEFINE p == Occurs(packetSendQ[s], DataTo(d))
           n == Occurs(net[<<s, d>>], AnyData)
           r == Occurs(recvQ[d], From(s))
           a == Occurs(ackQ[d], {s})
           k == Occurs(packetSendQ[d], {Ack(s)})
           m == Occurs(net[<<d, s>>], AnyAck)
<1>0. /\ p \in Nat /\ n \in Nat /\ r \in Nat /\ a \in Nat /\ k \in Nat /\ m \in Nat
      /\ Budget(s, d) \in 0..(BudgetMod - 1) /\ flowStrideCounter[d][s] \in 0..(FlowStride - 1)
  BY CountTypes
<1>1. /\ p \in Nat /\ n \in Nat /\ r \in Nat /\ a \in Nat /\ k \in Nat /\ m \in Nat
      /\ Budget(s, d) \in Nat /\ flowStrideCounter[d][s] \in Nat
  BY <1>0
<1>2. Budget(s, d) + (p + n + r) + flowStrideCounter[d][s] + FlowStride * (a + k + m) = QSize
  BY DEF CreditsConserved, PairConserved, Unread, AcksDue
<1>3. Unread(s, d) = p + n + r
  BY DEF Unread
<1>f. FlowStride \in Nat \ {0} /\ QSize \in Nat
  BY FlowStrideType, StaticAssumption
<1> HIDE DEF p, n, r, a, k, m
<1>4. FlowStride * (a + k + m) \in Nat
  <2>1. a + k + m \in Nat
    BY <1>1
  <2> QED
    BY <1>f, <2>1
<1>5. p + n + r <= QSize /\ FlowStride * (a + k + m) <= QSize
  BY <1>1, <1>2, <1>4, <1>f
<1>6. FlowStride * (a + k + m) = FlowStride * a + FlowStride * (k + m)
      /\ FlowStride * (k + m) \in Nat /\ FlowStride * a \in Nat
  BY <1>1, <1>f
<1>7. FlowStride * a <= QSize
  BY <1>5, <1>6, <1>f
<1>8. a <= QSize \div FlowStride
  BY <1>1, <1>7, <1>f
<1>9. Unread(s, d) <= QSize /\ r <= QSize
  BY <1>1, <1>3, <1>5, <1>f
<1> QED
  BY <1>8, <1>9 DEF r, a

-----------------------------------------------------------------------------
(* No source exceeds its quota of a sink's receive queue. *)
THEOREM QuotaHolds == Spec => []QuotaKept
<1>1. TypeOK /\ CreditsConserved => QuotaKept
  BY PairBounds DEF QuotaKept
<1> QED
  BY <1>1, Conservation, PTL

(* The sources divide a receive queue between them, so the quotas bound it. *)
LEMMA QueueOfQuotas ==
  ASSUME NEW q \in Seq(Node \X Item), \A n \in Node : Occurs(q, From(n)) <= QSize
  PROVE  Len(q) <= RecvQDepth
<1> DEFINE T == Node \X Item
           cls == [e \in T |-> e[1]]
<1>1. IsFiniteSet(Node) /\ QSize \in Nat /\ cls \in [T -> Node]
  BY StaticAssumption
<1>2. \A n \in Node : {e \in T : cls[e] = n} = From(n)
  BY DEF From
<1> HIDE DEF cls, T
<1>3. \A n \in Node : Occurs(q, {e \in T : cls[e] = n}) <= QSize
  BY <1>2
<1>4. q \in Seq(T)
  BY DEF T
<1>5. Len(q) <= Cardinality(Node) * QSize
  BY <1>1, <1>3, <1>4, QuotaBound
<1> QED
  BY <1>5 DEF RecvQDepth

(* The head of the fabric is paid for by a quota, so its slot is free. *)
LEMMA FabricStep == TypeOK /\ CreditsConserved => FabricNeverBlocked
<1> SUFFICES ASSUME TypeOK, CreditsConserved, NEW d \in Node
             PROVE  /\ Len(recvQ[d]) <= RecvQDepth
                    /\ \A s \in Node : (net[<<s, d>>] # <<>> /\ ~Head(net[<<s, d>>]).control)
                                         => RecvQReady(d)
  BY DEF FabricNeverBlocked
<1>qr. recvQ \in FifoFamily(Node, Node \X Item)
  BY DEF TypeOK
<1>qn. net \in FifoFamily(Pair, Packet)
  BY DEF TypeOK
<1>f. QSize \in Nat
  BY StaticAssumption
<1>1. recvQ[d] \in Seq(Node \X Item)
  BY <1>qr DEF FifoFamily
<1>2. \A t \in Node : Occurs(recvQ[d], From(t)) <= QSize
  BY PairBounds
<1>3. Len(recvQ[d]) <= RecvQDepth
  BY <1>1, <1>2, QueueOfQuotas
<1>4. ASSUME NEW s \in Node, net[<<s, d>>] # <<>>, ~Head(net[<<s, d>>]).control
      PROVE  RecvQReady(d)
  <2> DEFINE h == Head(net[<<s, d>>])
             p == Occurs(packetSendQ[s], DataTo(d))
             n == Occurs(net[<<s, d>>], AnyData)
             r == Occurs(recvQ[d], From(s))
  <2>1. <<s, d>> \in Pair
    BY DEF Pair
  <2>2. h \in Packet
    BY <1>qn, <1>4, <2>1, DeqLemma
  <2>3. h \in AnyData /\ \E x \in Item : TRUE
    <3>1. h.dst \in Node /\ h.item \in Item /\ h = Data(h.dst, h.item)
      BY <1>4, <2>2, PacketShape
    <3> HIDE DEF h
    <3> QED
      BY <3>1 DEF AnyData, DataTo
  <2>4. PICK x \in Item : TRUE
    BY <2>3
  <2>5. /\ Deq(net, <<s, d>>) \in FifoFamily(Pair, Packet)
        /\ Occurs(Deq(net, <<s, d>>)[<<s, d>>], AnyData) = n - 1
    <3>1. /\ Deq(net, <<s, d>>) \in FifoFamily(Pair, Packet)
          /\ \A v \in Pair : \A S : Occurs(Deq(net, <<s, d>>)[v], S)
               = IF v = <<s, d>> /\ Head(net[<<s, d>>]) \in S
                 THEN Occurs(net[v], S) - 1 ELSE Occurs(net[v], S)
      BY <1>qn, <1>4, <2>1, DeqLemma
    <3> QED
      BY <2>1, <2>3, <3>1
  <2>6. Occurs(Deq(net, <<s, d>>)[<<s, d>>], AnyData) \in Nat
    BY <2>1, <2>5, FamilyCount
  <2>7. /\ p \in Nat /\ n \in Nat /\ r \in Nat
    BY CountTypes
  <2>8. Unread(s, d) = p + n + r /\ Unread(s, d) <= QSize
    BY PairBounds DEF Unread
  <2> HIDE DEF h, p, n, r
  <2>9. r + 1 <= QSize
    BY <1>f, <2>5, <2>6, <2>7, <2>8
  <2> DEFINE q == Append(recvQ[d], <<s, x>>)
  <2>10. <<s, x>> \in Node \X Item
    BY <2>4
  <2>11. q \in Seq(Node \X Item) /\ Len(q) = Len(recvQ[d]) + 1 /\ Len(recvQ[d]) \in Nat
    BY <1>1, <2>10, AppendProperties, LenProperties
  <2>12. ASSUME NEW t \in Node
         PROVE  Occurs(q, From(t)) <= QSize
    <3>1. Occurs(q, From(t)) = Occurs(recvQ[d], From(t)) + (IF <<s, x>> \in From(t) THEN 1 ELSE 0)
      BY <1>1, <2>10, OccursAppend
    <3>2. <<s, x>> \in From(t) <=> t = s
      BY DEF From
    <3>3. Occurs(recvQ[d], From(t)) \in Nat
      BY <1>1, OccursType
    <3>4. Occurs(recvQ[d], From(t)) <= QSize
      BY <1>2
    <3>5. CASE t = s
      BY <2>9, <3>1, <3>2, <3>5 DEF r
    <3>6. CASE t # s
      BY <3>1, <3>2, <3>3, <3>4, <3>6
    <3> QED
      BY <3>5, <3>6
  <2> HIDE DEF q
  <2>13. Len(q) <= RecvQDepth
    BY <2>11, <2>12, QueueOfQuotas
  <2>14. RecvQDepth \in Nat
    BY <1>f, FS_CardinalityType, StaticAssumption DEF RecvQDepth
  <2> QED
    BY <2>11, <2>13, <2>14 DEF RecvQReady
<1> QED
  BY <1>3, <1>4

(* A packet at the end of the fabric always finds room. *)
THEOREM FabricFree == Spec => []FabricNeverBlocked
  BY FabricStep, Conservation, PTL

(* At most QSize / FlowStride acks per source wait at a sink. *)
LEMMA AckRoom == TypeOK /\ CreditsConserved => ReceiveNeverWaitsForAcks
<1> SUFFICES ASSUME TypeOK, CreditsConserved, NEW d \in Node
             PROVE  AckQReady(d)
  BY DEF ReceiveNeverWaitsForAcks
<1> DEFINE cls == [e \in Node |-> e]
           Q == QSize \div FlowStride
<1>1. Q \in Nat
  BY FlowStrideType, StaticAssumption
<1>2. IsFiniteSet(Node) /\ cls \in [Node -> Node]
  BY StaticAssumption
<1>3. \A n \in Node : {e \in Node : cls[e] = n} = {n}
  OBVIOUS
<1>4. ackQ[d] \in Seq(Node)
  BY DEF TypeOK, FifoFamily
<1>5. \A n \in Node : Occurs(ackQ[d], {n}) <= Q
  BY PairBounds
<1> HIDE DEF cls, Q
<1>6. \A n \in Node : Occurs(ackQ[d], {e \in Node : cls[e] = n}) <= Q
  BY <1>3, <1>5
<1>7. Len(ackQ[d]) <= Cardinality(Node) * Q
  BY <1>1, <1>2, <1>4, <1>6, QuotaBound
<1>8. Cardinality(Node) \in Nat /\ Cardinality(Node) # 0
  BY <1>2, FS_CardinalityType, FS_EmptySet
<1>9. Cardinality(Node) * (1 + Q) = Cardinality(Node) + Cardinality(Node) * Q
      /\ Cardinality(Node) * Q \in Nat
  BY <1>1, <1>8
<1>10. Len(ackQ[d]) \in Nat
  BY <1>4, LenProperties
<1>11. Len(ackQ[d]) < Cardinality(Node) * (1 + Q)
  BY <1>7, <1>8, <1>9, <1>10
<1> QED
  BY <1>11 DEF AckQReady, AckQDepth, Q

(* Receiving never depends on room in the ack queue. *)
THEOREM ReceiveFree == Spec => []ReceiveNeverWaitsForAcks
  BY AckRoom, Conservation, PTL

(* So neither what arrives nor what is taken is ever held up. *)
THEOREM NothingHeldUp == Spec => []NeverHeldUp
<1>1. FabricNeverBlocked /\ ReceiveNeverWaitsForAcks => NeverHeldUp
  BY DEF NeverHeldUp
<1> QED
  BY <1>1, FabricFree, ReceiveFree, PTL
-----------------------------------------------------------------------------
(* The entries of the queues between an endpoint and its user. *)
Entry == Node \X Item

(* What an entry of a receive or send queue and a data packet carry. *)
EntryItem == [e \in Entry |-> e[2]]
PacketItem == [m \in Packet |-> m.item]

LEMMA CarriedItems ==
  /\ \A n \in Node : \A e \in Entry \cap From(n) : EntryItem[e] \in Item
  /\ \A n \in Node : \A m \in Packet \cap DataTo(n) : PacketItem[m] \in Item
BY DEF Entry, EntryItem, PacketItem, DataTo, Data, From

(* The items of a flow in the FIFOs of one node. *)
LEMMA ReceivedIs ==
  ASSUME NEW q \in Seq(Entry), NEW s \in Node
  PROVE  ReceivedFrom(s, q) = Picked(q, From(s), EntryItem)
<1>1. PICK c : c = Those(q, From(s))
  OBVIOUS
<1>2. c \in Seq(Entry \cap From(s))
  BY <1>1, ThoseType
<1>3. PICK n \in Nat : n = Len(c)
  BY <1>2, LenProperties
<1>4. \A i \in 1..n : c[i] \in Entry
  BY <1>2, <1>3, ElementOfSeq
<1>5. [i \in 1..n |-> c[i][2]] = [i \in 1..n |-> EntryItem[c[i]]]
  BY <1>4 DEF EntryItem
<1> QED
  BY <1>1, <1>3, <1>5 DEF ReceivedFrom, Second, Picked

LEMMA HandedIs ==
  ASSUME NEW q \in Seq(Entry), NEW d \in Node
  PROVE  HandedFor(d, q) = Picked(q, From(d), EntryItem)
<1>1. HandedFor(d, q) = ReceivedFrom(d, q)
  BY DEF HandedFor, ReceivedFrom, From, Entry
<1> QED
  BY <1>1, ReceivedIs

LEMMA PackedIs ==
  ASSUME NEW q \in Seq(Packet), NEW d \in Node
  PROVE  PackedFor(d, q) = Picked(q, DataTo(d), PacketItem)
<1>1. PICK c : c = Those(q, DataTo(d))
  OBVIOUS
<1>2. c \in Seq(Packet \cap DataTo(d))
  BY <1>1, ThoseType
<1>3. PICK n \in Nat : n = Len(c)
  BY <1>2, LenProperties
<1>4. \A i \in 1..n : c[i] \in Packet
  BY <1>2, <1>3, ElementOfSeq
<1>5. [i \in 1..n |-> c[i].item] = [i \in 1..n |-> PacketItem[c[i]]]
  BY <1>4 DEF PacketItem
<1> QED
  BY <1>1, <1>3, <1>5 DEF PackedFor, ItemsOf, Picked

LEMMA FlowTypes ==
  ASSUME NEW n \in Node
  PROVE  /\ \A q \in Seq(Entry) : ReceivedFrom(n, q) \in Seq(Item) /\ HandedFor(n, q) = ReceivedFrom(n, q)
         /\ \A q \in Seq(Packet) : PackedFor(n, q) \in Seq(Item)
<1>1. ASSUME NEW q \in Seq(Entry)
      PROVE  ReceivedFrom(n, q) \in Seq(Item) /\ HandedFor(n, q) = ReceivedFrom(n, q)
  <2>1. Picked(q, From(n), EntryItem) \in Seq(Item)
    BY CarriedItems, PickedType
  <2>2. ReceivedFrom(n, q) \in Seq(Item)
    BY <2>1, ReceivedIs
  <2> QED
    BY <2>2, HandedIs, ReceivedIs
<1>2. ASSUME NEW q \in Seq(Packet)
      PROVE  PackedFor(n, q) \in Seq(Item)
  BY PackedIs, CarriedItems, PickedType
<1> QED
  BY <1>1, <1>2

(* What enqueueing and dequeueing do to the items of a flow. *)
LEMMA EntryFamilyEnq ==
  ASSUME NEW D, NEW q, q \in FifoFamily(D, Entry), NEW k \in D, NEW e \in Entry,
         NEW n \in Node, NEW i \in D
  PROVE  ReceivedFrom(n, Enq(q, k, e)[i]) =
           IF i = k /\ e[1] = n THEN Append(ReceivedFrom(n, q[i]), e[2]) ELSE ReceivedFrom(n, q[i])
<1>1. EntryItem[e] = e[2] /\ (e \in From(n) <=> e[1] = n)
  BY DEF EntryItem, From, Entry
<1>0. PICK o : o = q[i]
  OBVIOUS
<1>2. /\ o \in Seq(Entry) /\ Append(o, e) \in Seq(Entry)
      /\ Enq(q, k, e)[i] = IF i = k THEN Append(o, e) ELSE o
  BY <1>0, AppendProperties DEF Enq, FifoFamily
<1>3. Picked(Append(o, e), From(n), EntryItem) =
        IF e \in From(n) THEN Append(Picked(o, From(n), EntryItem), EntryItem[e])
        ELSE Picked(o, From(n), EntryItem)
  BY <1>2, PickedAppend
<1> QED
  BY <1>0, <1>1, <1>2, <1>3, ReceivedIs

LEMMA EntryFamilyDeq ==
  ASSUME NEW D, NEW q, q \in FifoFamily(D, Entry), NEW k \in D, q[k] # <<>>,
         NEW e, e = Head(q[k]), NEW n \in Node, NEW i \in D
  PROVE  /\ e[1] \in Node /\ e[2] \in Item /\ e = <<e[1], e[2]>>
         /\ ReceivedFrom(n, q[i]) =
              IF i = k /\ e[1] = n THEN Led(e[2], ReceivedFrom(n, Deq(q, k)[i]))
              ELSE ReceivedFrom(n, Deq(q, k)[i])
<1>1. e \in Entry /\ Deq(q, k)[i] \in Seq(Entry)
  BY PickedDeq
<1>2. EntryItem[e] = e[2] /\ (e \in From(n) <=> e[1] = n)
  BY <1>1 DEF EntryItem, From, Entry
<1>3. Picked(q[i], From(n), EntryItem) =
        IF i = k /\ e \in From(n) THEN Led(EntryItem[e], Picked(Deq(q, k)[i], From(n), EntryItem))
        ELSE Picked(Deq(q, k)[i], From(n), EntryItem)
  BY PickedDeq
<1>4. q[i] \in Seq(Entry)
  BY DEF FifoFamily
<1>5. e[1] \in Node /\ e[2] \in Item /\ e = <<e[1], e[2]>>
  BY <1>1 DEF Entry
<1> QED
  BY <1>1, <1>2, <1>3, <1>4, <1>5, ReceivedIs

LEMMA PacketFamilyEnq ==
  ASSUME NEW D, NEW q, q \in FifoFamily(D, Packet), NEW k \in D, NEW m \in Packet,
         NEW d \in Node, NEW i \in D
  PROVE  PackedFor(d, Enq(q, k, m)[i]) =
           IF i = k /\ ~m.control /\ m.dst = d THEN Append(PackedFor(d, q[i]), m.item)
           ELSE PackedFor(d, q[i])
<1>1. PacketItem[m] = m.item /\ (m \in DataTo(d) <=> ~m.control /\ m.dst = d)
  BY PacketClasses DEF PacketItem
<1>0. PICK o : o = q[i]
  OBVIOUS
<1>2. /\ o \in Seq(Packet) /\ Append(o, m) \in Seq(Packet)
      /\ Enq(q, k, m)[i] = IF i = k THEN Append(o, m) ELSE o
  BY <1>0, AppendProperties DEF Enq, FifoFamily
<1>3. Picked(Append(o, m), DataTo(d), PacketItem) =
        IF m \in DataTo(d) THEN Append(Picked(o, DataTo(d), PacketItem), PacketItem[m])
        ELSE Picked(o, DataTo(d), PacketItem)
  BY <1>2, PickedAppend
<1> QED
  BY <1>0, <1>1, <1>2, <1>3, PackedIs

LEMMA PacketFamilyDeq ==
  ASSUME NEW D, NEW q, q \in FifoFamily(D, Packet), NEW k \in D, q[k] # <<>>,
         NEW m, m = Head(q[k]), NEW d \in Node, NEW i \in D
  PROVE  /\ m \in Packet
         /\ PackedFor(d, q[i]) = IF i = k /\ ~m.control /\ m.dst = d
                                 THEN Led(m.item, PackedFor(d, Deq(q, k)[i]))
                                 ELSE PackedFor(d, Deq(q, k)[i])
<1>1. m \in Packet /\ Deq(q, k)[i] \in Seq(Packet)
  BY PickedDeq
<1>2. PacketItem[m] = m.item /\ (m \in DataTo(d) <=> ~m.control /\ m.dst = d)
  BY <1>1, PacketClasses DEF PacketItem
<1>3. Picked(q[i], DataTo(d), PacketItem) =
        IF i = k /\ m \in DataTo(d) THEN Led(PacketItem[m], Picked(Deq(q, k)[i], DataTo(d), PacketItem))
        ELSE Picked(Deq(q, k)[i], DataTo(d), PacketItem)
  BY PickedDeq
<1>4. q[i] \in Seq(Packet)
  BY DEF FifoFamily
<1> QED
  BY <1>1, <1>2, <1>3, <1>4, PackedIs

(* A packet in the fabric is on the link to its destination. *)
NetRouted == \A p \in Pair : \A i \in 1..Len(net[p]) : net[p][i].dst = p[2]

RInv == TypeOK /\ NetRouted

LEMMA RoutedStep == RInv /\ [Next]_vars => NetRouted'
<1> SUFFICES ASSUME RInv, [Next]_vars PROVE NetRouted'
  OBVIOUS
<1>1. net \in [Pair -> Seq(Packet)] /\ packetSendQ \in [Node -> Seq(Packet)]
  BY DEF RInv, TypeOK, FifoFamily
<1>2. ASSUME UNCHANGED net PROVE NetRouted'
  BY <1>2 DEF RInv, NetRouted
<1>3. ASSUME NEW n \in Node, EnterFabric(n)
      PROVE  NetRouted'
  <2>1. PICK m : m = Head(packetSendQ[n])
    OBVIOUS
  <2>2. packetSendQ[n] # <<>> /\ net' = Enq(net, <<n, m.dst>>, m)
    BY <1>3, <2>1 DEF EnterFabric
  <2>3. m \in Packet
    BY <1>1, <2>1, <2>2, HeadTailProperties
  <2>4. PICK k : k = <<n, m.dst>>
    OBVIOUS
  <2>5. k \in Pair /\ k[2] = m.dst
    BY <2>3, <2>4, PacketShape DEF Pair
  <2>6. ASSUME NEW p \in Pair, NEW i \in 1..Len(net'[p])
        PROVE  net'[p][i].dst = p[2]
    <3>1. CASE p # k
      <4>1. net'[p] = net[p]
        BY <1>1, <2>2, <2>4, <3>1 DEF Enq
      <4> QED
        BY <2>6, <4>1 DEF RInv, NetRouted
    <3>2. CASE p = k
      <4>1. net'[p] = Append(net[p], m) /\ net[p] \in Seq(Packet)
        BY <1>1, <2>2, <2>4, <2>5, <3>2 DEF Enq
      <4>2. /\ Len(net'[p]) = Len(net[p]) + 1 /\ Len(net[p]) \in Nat
            /\ \A j \in 1..Len(net[p]) : net'[p][j] = net[p][j]
            /\ net'[p][Len(net[p]) + 1] = m
        BY <2>3, <4>1, AppendProperties, LenProperties
      <4>3. CASE i \in 1..Len(net[p])
        BY <4>2, <4>3 DEF RInv, NetRouted
      <4>4. CASE i = Len(net[p]) + 1
        BY <2>5, <3>2, <4>2, <4>4
      <4> QED
        BY <2>6, <4>2, <4>3, <4>4
    <3> QED
      BY <3>1, <3>2
  <2> QED
    BY <2>6 DEF NetRouted
<1>4. ASSUME NEW s \in Node, NEW d \in Node, net[<<s, d>>] # <<>>, net' = Deq(net, <<s, d>>)
      PROVE  NetRouted'
  <2>1. ASSUME NEW p \in Pair, NEW i \in 1..Len(net'[p])
        PROVE  net'[p][i].dst = p[2]
    <3>1. CASE p # <<s, d>>
      <4>1. net'[p] = net[p]
        BY <1>1, <1>4, <3>1 DEF Deq
      <4> QED
        BY <2>1, <4>1 DEF RInv, NetRouted
    <3>2. CASE p = <<s, d>>
      <4>1. net'[p] = Tail(net[p]) /\ net[p] \in Seq(Packet) /\ net[p] # <<>>
        BY <1>1, <1>4, <3>2 DEF Deq
      <4>2. /\ Len(net'[p]) = Len(net[p]) - 1 /\ Len(net[p]) \in Nat
            /\ \A j \in 1..Len(net'[p]) : net'[p][j] = net[p][j + 1]
        BY <4>1, HeadTailProperties, LenProperties
      <4>3. i + 1 \in 1..Len(net[p])
        BY <2>1, <4>2
      <4> QED
        BY <2>1, <4>2, <4>3 DEF RInv, NetRouted
    <3> QED
      BY <3>1, <3>2
  <2> QED
    BY <2>1 DEF NetRouted
<1>5. ASSUME NEW f \in Flows, NEW x \in Item, UserSend(f[1], f[2], x) PROVE UNCHANGED net
  BY <1>5 DEF UserSend
<1>6. ASSUME NEW n \in Node, InsertAck(n) \/ InsertData(n) \/ UserReceive(n) PROVE UNCHANGED net
  BY <1>6 DEF InsertAck, InsertData, UserReceive
<1>7. ASSUME NEW s \in Node, NEW d \in Node, DeliverAck(s, d) \/ DeliverData(s, d)
      PROVE  net[<<s, d>>] # <<>> /\ net' = Deq(net, <<s, d>>)
  BY <1>7 DEF DeliverAck, DeliverData
<1>8. ASSUME UNCHANGED vars PROVE UNCHANGED net
  BY <1>8 DEF vars
<1> QED
  BY <1>2, <1>3, <1>4, <1>5, <1>6, <1>7, <1>8 DEF Next

(* The row of a flow. *)
LEMMA RowTypes ==
  ASSUME NEW rq, rq \in FifoFamily(Node, Entry), NEW nt, nt \in FifoFamily(Pair, Packet),
         NEW pq, pq \in FifoFamily(Node, Packet), NEW sq, sq \in FifoFamily(Node, Entry),
         NEW s \in Node, NEW d \in Node
  PROVE  /\ ReceivedFrom(s, rq[d]) \in Seq(Item)
         /\ PackedFor(d, nt[<<s, d>>]) \in Seq(Item)
         /\ PackedFor(d, pq[s]) \in Seq(Item)
         /\ HandedFor(d, sq[s]) \in Seq(Item)
         /\ HandedFor(d, sq[s]) = ReceivedFrom(d, sq[s])
<1>1. rq[d] \in Seq(Entry) /\ sq[s] \in Seq(Entry)
  BY DEF FifoFamily
<1>2. nt[<<s, d>>] \in Seq(Packet) /\ pq[s] \in Seq(Packet)
  BY DEF FifoFamily, Pair
<1> QED
  BY <1>1, <1>2, FlowTypes

LEMMA RowIs ==
  ASSUME RInv, NEW s \in Node, NEW d \in Node
  PROVE  /\ ReceivedFrom(s, recvQ[d]) \in Seq(Item)
         /\ PackedFor(d, net[<<s, d>>]) \in Seq(Item)
         /\ PackedFor(d, packetSendQ[s]) \in Seq(Item)
         /\ HandedFor(d, sendQ[s]) \in Seq(Item)
         /\ HandedFor(d, sendQ[s]) = ReceivedFrom(d, sendQ[s])
BY RowTypes DEF RInv, TypeOK, Entry

LEMMA RowWillBe ==
  ASSUME RInv', NEW s \in Node, NEW d \in Node
  PROVE  /\ ReceivedFrom(s, recvQ'[d]) \in Seq(Item)
         /\ PackedFor(d, net'[<<s, d>>]) \in Seq(Item)
         /\ PackedFor(d, packetSendQ'[s]) \in Seq(Item)
         /\ HandedFor(d, sendQ'[s]) \in Seq(Item)
         /\ HandedFor(d, sendQ'[s]) = ReceivedFrom(d, sendQ'[s])
BY RowTypes DEF RInv, TypeOK, Entry

UserSendPut(s, d, f, x) ==
  OnItsWay(s, d)' = IF s = f[1] /\ d = f[2] THEN Append(OnItsWay(s, d), x) ELSE OnItsWay(s, d)

LEMMA UserSendPuts ==
  ASSUME RInv, RInv', NEW f \in Flows, NEW x \in Item, UserSend(f[1], f[2], x),
         NEW s \in Node, NEW d \in Node
  PROVE  UserSendPut(s, d, f, x)
<1>0. PICK a, b : a = f[1] /\ b = f[2]
  OBVIOUS
<1>1. a \in Node /\ b \in Node
  BY <1>0, StaticAssumption
<1>2. UNCHANGED <<recvQ, net, packetSendQ>> /\ sendQ' = Enq(sendQ, a, <<b, x>>)
  BY <1>0 DEF UserSend
<1>3. sendQ \in FifoFamily(Node, Entry)
  BY DEF RInv, TypeOK, Entry
<1>4. PICK e : e = <<b, x>>
  OBVIOUS
<1>4a. e \in Entry /\ e[1] = b /\ e[2] = x
  BY <1>1, <1>4 DEF Entry
<1>4b. ReceivedFrom(d, sendQ'[s]) = IF s = a /\ b = d THEN Append(ReceivedFrom(d, sendQ[s]), x)
                                   ELSE ReceivedFrom(d, sendQ[s])
  BY <1>1, <1>2, <1>3, <1>4, <1>4a, EntryFamilyEnq
<1>5. HandedFor(d, sendQ[s]) = ReceivedFrom(d, sendQ[s]) /\ HandedFor(d, sendQ'[s]) = ReceivedFrom(d, sendQ'[s])
  BY RowIs, RowWillBe
<1>6. PICK r, n, p, h : /\ r = ReceivedFrom(s, recvQ[d]) /\ n = PackedFor(d, net[<<s, d>>])
                        /\ p = PackedFor(d, packetSendQ[s]) /\ h = HandedFor(d, sendQ[s])
  OBVIOUS
<1>7. r \in Seq(Item) /\ n \in Seq(Item) /\ p \in Seq(Item) /\ h \in Seq(Item)
  BY <1>6, RowIs
<1>8. OnItsWay(s, d) = Row(r, n, p, h)
  BY <1>6 DEF OnItsWay, Row
<1>9. OnItsWay(s, d)' = Row(r, n, p, HandedFor(d, sendQ'[s]))
  BY <1>2, <1>6 DEF OnItsWay, Row
<1>10. Grown(Row(r, n, p, Append(h, x)), Row(r, n, p, h), x)
  BY <1>7, RowPut
<1> QED
  BY <1>0, <1>4b, <1>5, <1>6, <1>8, <1>9, <1>10 DEF UserSendPut, Grown

(* An ack has no item. *)
LEMMA InsertAckKeeps ==
  ASSUME RInv, NEW k \in Node, InsertAck(k), NEW s \in Node, NEW d \in Node
  PROVE  OnItsWay(s, d)' = OnItsWay(s, d)
<1>1. UNCHANGED <<recvQ, net, sendQ>> /\ packetSendQ' = Enq(packetSendQ, k, Ack(Head(ackQ[k])))
      /\ ackQ[k] # <<>>
  BY DEF InsertAck
<1>2. packetSendQ \in FifoFamily(Node, Packet) /\ ackQ[k] \in Seq(Node)
  BY DEF RInv, TypeOK, FifoFamily
<1>3. PICK m : m = Ack(Head(ackQ[k]))
  OBVIOUS
<1>4. m \in Packet /\ m.control
  <2>1. Head(ackQ[k]) \in Node
    BY <1>1, <1>2, HeadTailProperties
  <2> QED
    BY <1>3, <2>1, PacketIntro DEF Ack
<1>5. PackedFor(d, packetSendQ'[s]) = PackedFor(d, packetSendQ[s])
  BY <1>1, <1>2, <1>3, <1>4, PacketFamilyEnq
<1> QED
  BY <1>1, <1>5 DEF OnItsWay

LEMMA InsertDataKeeps ==
  ASSUME RInv, RInv', NEW k \in Node, InsertData(k), NEW s \in Node, NEW d \in Node
  PROVE  OnItsWay(s, d)' = OnItsWay(s, d)
<1>1. PICK e, b, x : e = Head(sendQ[k]) /\ b = e[1] /\ x = e[2]
  OBVIOUS
<1>2. /\ UNCHANGED <<recvQ, net>> /\ packetSendQ' = Enq(packetSendQ, k, Data(b, x))
      /\ sendQ[k] # <<>> /\ sendQ' = Deq(sendQ, k)
  BY <1>1 DEF InsertData
<1>3. packetSendQ \in FifoFamily(Node, Packet) /\ sendQ \in FifoFamily(Node, Entry)
  BY DEF RInv, TypeOK, Entry
<1>4. /\ b \in Node /\ x \in Item
      /\ ReceivedFrom(d, sendQ[s]) = IF s = k /\ b = d THEN Led(x, ReceivedFrom(d, sendQ'[s]))
                                     ELSE ReceivedFrom(d, sendQ'[s])
  BY <1>1, <1>2, <1>3, EntryFamilyDeq
<1>5. PICK m : m = Data(b, x)
  OBVIOUS
<1>6. m \in Packet /\ ~m.control /\ m.dst = b /\ m.item = x
  BY <1>4, <1>5, PacketIntro DEF Data
<1>7. PackedFor(d, packetSendQ'[s]) = IF s = k /\ b = d THEN Append(PackedFor(d, packetSendQ[s]), x)
                                      ELSE PackedFor(d, packetSendQ[s])
  BY <1>2, <1>3, <1>5, <1>6, PacketFamilyEnq
<1>8. HandedFor(d, sendQ[s]) = ReceivedFrom(d, sendQ[s]) /\ HandedFor(d, sendQ'[s]) = ReceivedFrom(d, sendQ'[s])
      /\ HandedFor(d, sendQ'[s]) \in Seq(Item)
  BY RowIs, RowWillBe
<1>9. PICK r, n, p, h : /\ r = ReceivedFrom(s, recvQ[d]) /\ n = PackedFor(d, net[<<s, d>>])
                        /\ p = PackedFor(d, packetSendQ[s]) /\ h = HandedFor(d, sendQ'[s])
  OBVIOUS
<1>10. r \in Seq(Item) /\ n \in Seq(Item) /\ p \in Seq(Item) /\ h \in Seq(Item)
  BY <1>8, <1>9, RowIs
<1>11. OnItsWay(s, d) = Row(r, n, p, HandedFor(d, sendQ[s]))
  BY <1>9 DEF OnItsWay, Row
<1>12. OnItsWay(s, d)' = Row(r, n, PackedFor(d, packetSendQ'[s]), h)
  BY <1>2, <1>9 DEF OnItsWay, Row
<1>13. Row(r, n, Append(p, x), h) = Row(r, n, p, Led(x, h))
  BY <1>4, <1>10, RowMoves
<1> QED
  BY <1>4, <1>7, <1>8, <1>9, <1>11, <1>12, <1>13

LEMMA EnterFabricKeeps ==
  ASSUME RInv, RInv', NEW k \in Node, EnterFabric(k), NEW s \in Node, NEW d \in Node
  PROVE  OnItsWay(s, d)' = OnItsWay(s, d)
<1>1. PICK m : m = Head(packetSendQ[k])
  OBVIOUS
<1>2. /\ UNCHANGED <<recvQ, sendQ>> /\ packetSendQ[k] # <<>> /\ packetSendQ' = Deq(packetSendQ, k)
      /\ net' = Enq(net, <<k, m.dst>>, m)
  BY <1>1 DEF EnterFabric
<1>3. packetSendQ \in FifoFamily(Node, Packet) /\ net \in FifoFamily(Pair, Packet)
  BY DEF RInv, TypeOK, Entry
<1>4. /\ m \in Packet
      /\ PackedFor(d, packetSendQ[s]) = IF s = k /\ ~m.control /\ m.dst = d
                                        THEN Led(m.item, PackedFor(d, packetSendQ'[s]))
                                        ELSE PackedFor(d, packetSendQ'[s])
  BY <1>1, <1>2, <1>3, PacketFamilyDeq
<1>5. PICK l : l = <<k, m.dst>>
  OBVIOUS
<1>6. l \in Pair /\ <<s, d>> \in Pair /\ (<<s, d>> = l <=> s = k /\ d = m.dst)
  BY <1>4, <1>5, PacketShape DEF Pair
<1>7. PackedFor(d, net'[<<s, d>>]) = IF s = k /\ ~m.control /\ m.dst = d
                                     THEN Append(PackedFor(d, net[<<s, d>>]), m.item)
                                     ELSE PackedFor(d, net[<<s, d>>])
  BY <1>2, <1>3, <1>4, <1>5, <1>6, PacketFamilyEnq
<1>8. PICK r, n, p, h : /\ r = ReceivedFrom(s, recvQ[d]) /\ n = PackedFor(d, net[<<s, d>>])
                        /\ p = PackedFor(d, packetSendQ'[s]) /\ h = HandedFor(d, sendQ[s])
  OBVIOUS
<1>9. r \in Seq(Item) /\ n \in Seq(Item) /\ h \in Seq(Item)
  BY <1>8, RowIs
<1>10. p \in Seq(Item)
  BY <1>8, RowWillBe
<1>11. OnItsWay(s, d) = Row(r, n, PackedFor(d, packetSendQ[s]), h)
  BY <1>8 DEF OnItsWay, Row
<1>12. OnItsWay(s, d)' = Row(r, PackedFor(d, net'[<<s, d>>]), p, h)
  BY <1>2, <1>8 DEF OnItsWay, Row
<1>13. ~m.control => Row(r, Append(n, m.item), p, h) = Row(r, n, Led(m.item, p), h)
  <2>1. ~m.control => m.item \in Item
    BY <1>4, PacketShape
  <2> QED
    BY <1>9, <1>10, <2>1, RowMoves
<1> QED
  BY <1>4, <1>7, <1>8, <1>11, <1>12, <1>13

LEMMA DeliverAckKeeps ==
  ASSUME RInv, NEW a \in Node, NEW b \in Node, DeliverAck(a, b), NEW s \in Node, NEW d \in Node
  PROVE  OnItsWay(s, d)' = OnItsWay(s, d)
<1>1. PICK l : l = <<a, b>>
  OBVIOUS
<1>2. /\ UNCHANGED <<recvQ, sendQ, packetSendQ>> /\ net[l] # <<>> /\ net' = Deq(net, l)
      /\ Head(net[l]).control
  BY <1>1 DEF DeliverAck
<1>3. net \in FifoFamily(Pair, Packet) /\ l \in Pair /\ <<s, d>> \in Pair
  BY <1>1 DEF RInv, TypeOK, Pair, Entry
<1>4. PackedFor(d, net'[<<s, d>>]) = PackedFor(d, net[<<s, d>>])
  BY <1>2, <1>3, PacketFamilyDeq
<1> QED
  BY <1>2, <1>4 DEF OnItsWay

(* Here the fabric must have delivered the packet to the node it names. *)
LEMMA DeliverDataKeeps ==
  ASSUME RInv, RInv', NEW a \in Node, NEW b \in Node, DeliverData(a, b), NEW s \in Node, NEW d \in Node
  PROVE  OnItsWay(s, d)' = OnItsWay(s, d)
<1>1. PICK l : l = <<a, b>>
  OBVIOUS
<1>2. PICK m : m = Head(net[l])
  OBVIOUS
<1>3. /\ UNCHANGED <<packetSendQ, sendQ>> /\ net[l] # <<>> /\ net' = Deq(net, l)
      /\ ~m.control /\ recvQ' = Enq(recvQ, b, <<a, m.item>>)
  BY <1>1, <1>2 DEF DeliverData
<1>4. net \in FifoFamily(Pair, Packet) /\ recvQ \in FifoFamily(Node, Entry)
      /\ l \in Pair /\ <<s, d>> \in Pair /\ (<<s, d>> = l <=> s = a /\ d = b) /\ l[2] = b
  BY <1>1 DEF RInv, TypeOK, Pair, Entry
<1>5. /\ m \in Packet
      /\ PackedFor(d, net[<<s, d>>]) = IF s = a /\ d = b /\ m.dst = d
                                       THEN Led(m.item, PackedFor(d, net'[<<s, d>>]))
                                       ELSE PackedFor(d, net'[<<s, d>>])
  BY <1>2, <1>3, <1>4, PacketFamilyDeq
<1>6. m.dst = b
  <2>1. net[l] \in Seq(Packet)
    BY <1>4 DEF FifoFamily
  <2>2. 1 \in 1..Len(net[l]) /\ m = net[l][1]
    BY <1>2, <1>3, <2>1
  <2> QED
    BY <1>4, <2>2 DEF RInv, NetRouted
<1>7. m.item \in Item
  BY <1>3, <1>5, PacketShape
<1>8a. PICK e : e = <<a, m.item>>
  OBVIOUS
<1>8b. e \in Entry /\ e[1] = a /\ e[2] = m.item
  BY <1>7, <1>8a DEF Entry
<1>8. ReceivedFrom(s, recvQ'[d]) = IF d = b /\ s = a THEN Append(ReceivedFrom(s, recvQ[d]), m.item)
                                   ELSE ReceivedFrom(s, recvQ[d])
  BY <1>3, <1>4, <1>8a, <1>8b, EntryFamilyEnq
<1>9. PICK r, n, p, h : /\ r = ReceivedFrom(s, recvQ[d]) /\ n = PackedFor(d, net'[<<s, d>>])
                        /\ p = PackedFor(d, packetSendQ[s]) /\ h = HandedFor(d, sendQ[s])
  OBVIOUS
<1>10. r \in Seq(Item) /\ p \in Seq(Item) /\ h \in Seq(Item)
  BY <1>9, RowIs
<1>11. n \in Seq(Item)
  BY <1>9, RowWillBe
<1>12. OnItsWay(s, d) = Row(r, PackedFor(d, net[<<s, d>>]), p, h)
  BY <1>9 DEF OnItsWay, Row
<1>13. OnItsWay(s, d)' = Row(ReceivedFrom(s, recvQ'[d]), n, p, h)
  BY <1>3, <1>9 DEF OnItsWay, Row
<1>14. Row(Append(r, m.item), n, p, h) = Row(r, Led(m.item, n), p, h)
  BY <1>7, <1>10, <1>11, RowMoves
<1> QED
  BY <1>5, <1>6, <1>8, <1>9, <1>12, <1>13, <1>14

LEMMA UserReceiveTakes ==
  ASSUME RInv, RInv', NEW k \in Node, UserReceive(k), NEW s \in Node, NEW d \in Node
  PROVE  IF d = k /\ s = Head(recvQ[k])[1]
         THEN OnItsWay(s, d) # <<>> /\ OnItsWay(s, d)' = Tail(OnItsWay(s, d))
         ELSE OnItsWay(s, d)' = OnItsWay(s, d)
<1>1. PICK e, b, x : e = Head(recvQ[k]) /\ b = e[1] /\ x = e[2]
  OBVIOUS
<1>2. UNCHANGED <<net, packetSendQ, sendQ>> /\ recvQ[k] # <<>> /\ recvQ' = Deq(recvQ, k)
  BY DEF UserReceive
<1>3. recvQ \in FifoFamily(Node, Entry)
  BY DEF RInv, TypeOK, Entry
<1>4. /\ x \in Item
      /\ ReceivedFrom(s, recvQ[d]) = IF d = k /\ b = s THEN Led(x, ReceivedFrom(s, recvQ'[d]))
                                     ELSE ReceivedFrom(s, recvQ'[d])
  BY <1>1, <1>2, <1>3, EntryFamilyDeq
<1>5. PICK r, n, p, h : /\ r = ReceivedFrom(s, recvQ'[d]) /\ n = PackedFor(d, net[<<s, d>>])
                        /\ p = PackedFor(d, packetSendQ[s]) /\ h = HandedFor(d, sendQ[s])
  OBVIOUS
<1>6. n \in Seq(Item) /\ p \in Seq(Item) /\ h \in Seq(Item)
  BY <1>5, RowIs
<1>7. r \in Seq(Item)
  BY <1>5, RowWillBe
<1>8. OnItsWay(s, d) = Row(ReceivedFrom(s, recvQ[d]), n, p, h)
  BY <1>5 DEF OnItsWay, Row
<1>9. OnItsWay(s, d)' = Row(r, n, p, h)
  BY <1>2, <1>5 DEF OnItsWay, Row
<1>10. PICK w : w = Row(r, n, p, h)
  OBVIOUS
<1>11. Row(Led(x, r), n, p, h) = Led(x, w) /\ w \in Seq(Item)
  <2>1. w \in Seq(Item)
    BY <1>6, <1>7, <1>10, RowType
  <2> QED
    BY <1>4, <1>6, <1>7, <1>10, <2>1, RowTake
<1>12. Led(x, w) # <<>> /\ Tail(Led(x, w)) = w
  BY <1>4, <1>11, LedBy
<1> QED
  BY <1>1, <1>4, <1>5, <1>8, <1>9, <1>10, <1>11, <1>12

LEMMA RInvHolds == Spec => []RInv
<1>1. Init => RInv
  <2>1. Init => NetRouted
    <3> SUFFICES ASSUME Init PROVE NetRouted
      OBVIOUS
    <3>1. \A p \in Pair : net[p] = <<>> /\ 1..Len(net[p]) = {}
      BY DEF Init
    <3> QED
      BY <3>1 DEF NetRouted
  <2> QED
    BY <2>1, InitHolds DEF RInv
<1>2. RInv /\ [Next]_vars => RInv'
  BY RoutedStep, TypeStep DEF RInv
<1> QED
  BY <1>1, <1>2, PTL DEF Spec

(* The channels that the state stands for. *)
Carried == [f \in Flows |-> OnItsWay(f[1], f[2])]

LEMMA CarriedTypes ==
  ASSUME RInv, NEW f \in Flows
  PROVE  /\ f[1] \in Node /\ f[2] \in Node /\ f = <<f[1], f[2]>>
         /\ Carried[f] = OnItsWay(f[1], f[2])
BY StaticAssumption DEF Carried

LEMMA CarriedInit == Init => Carried = [f \in Flows |-> <<>>]
<1> SUFFICES ASSUME Init, NEW f \in Flows PROVE OnItsWay(f[1], f[2]) = <<>>
  BY DEF Carried
<1>1. PICK s, d : s = f[1] /\ d = f[2]
  OBVIOUS
<1>2. s \in Node /\ d \in Node /\ <<s, d>> \in Pair
  BY <1>1, StaticAssumption DEF Pair
<1>3. recvQ[d] = <<>> /\ net[<<s, d>>] = <<>> /\ packetSendQ[s] = <<>> /\ sendQ[s] = <<>>
  BY <1>2 DEF Init
<1>4. \A T : Second(Those(<<>>, T)) = <<>> /\ ItemsOf(Those(<<>>, T)) = <<>>
  BY ThoseEmpty DEF Second, ItemsOf
<1>5. OnItsWay(s, d) = <<>> \o <<>> \o <<>> \o <<>>
  BY <1>3, <1>4, Zenon DEF OnItsWay, ReceivedFrom, PackedFor, HandedFor
<1>6. <<>> \o <<>> = <<>>
  OBVIOUS
<1> QED
  BY <1>1, <1>5, <1>6

(* The endpoints and the fabric, whatever their sizes: every step hands an  *)
(* item to one channel, takes the oldest item of one channel, or moves      *)
(* items without changing any channel.  (Which item is taken when is a      *)
(* matter of fairness, and stays with the model checker.)                   *)
THEOREM StaticImplementsChannels == Spec => Channels!Spec
<1>1. Init => Channels!Init
  BY CarriedInit DEF Channels!Init, Carried
<1>2. RInv /\ RInv' /\ [Next]_vars => Channels!Next \/ Carried' = Carried
  <2> SUFFICES ASSUME RInv, RInv', [Next]_vars PROVE Channels!Next \/ Carried' = Carried
    OBVIOUS
  <2>0. \A f \in Flows : Carried'[f] = OnItsWay(f[1], f[2])'
    BY DEF Carried
  <2>1. ASSUME \A s, d \in Node : OnItsWay(s, d)' = OnItsWay(s, d)
        PROVE  Carried' = Carried
    <3>1. \A f \in Flows : OnItsWay(f[1], f[2])' = OnItsWay(f[1], f[2])
      BY <2>1, StaticAssumption
    <3> QED
      BY <3>1 DEF Carried
  <2>2. ASSUME NEW g \in Flows, NEW x \in Item, UserSend(g[1], g[2], x)
        PROVE  Channels!Next
    <3>1. ASSUME NEW f \in Flows
          PROVE  Carried'[f] = IF f = g THEN Append(Carried[f], x) ELSE Carried[f]
      <4>1. UserSendPut(f[1], f[2], g, x)
        BY <2>2, UserSendPuts, CarriedTypes
      <4>2. f = g <=> f[1] = g[1] /\ f[2] = g[2]
        BY CarriedTypes
      <4> QED
        BY <2>0, <4>1, <4>2, CarriedTypes DEF UserSendPut
    <3>2. Carried' = [Carried EXCEPT ![g] = Append(@, x)]
      BY <3>1 DEF Carried
    <3> QED
      BY <3>2 DEF Channels!Next, Channels!Send, Carried
  <2>3. ASSUME NEW k \in Node, UserReceive(k)
        PROVE  Channels!Next \/ Carried' = Carried
    <3> DEFINE g == <<Head(recvQ[k])[1], k>>
    <3>1. ASSUME NEW f \in Flows
          PROVE  IF f = g THEN Carried[f] # <<>> /\ Carried'[f] = Tail(Carried[f])
                 ELSE Carried'[f] = Carried[f]
      <4>1. f = g <=> f[2] = k /\ f[1] = Head(recvQ[k])[1]
        BY CarriedTypes
      <4>2. IF f[2] = k /\ f[1] = Head(recvQ[k])[1]
            THEN OnItsWay(f[1], f[2]) # <<>> /\ OnItsWay(f[1], f[2])' = Tail(OnItsWay(f[1], f[2]))
            ELSE OnItsWay(f[1], f[2])' = OnItsWay(f[1], f[2])
        BY <2>3, UserReceiveTakes, CarriedTypes
      <4> QED
        BY <2>0, <4>1, <4>2, CarriedTypes
    <3> HIDE DEF g
    <3>2. CASE g \in Flows
      <4>1. Carried' = [Carried EXCEPT ![g] = Tail(@)]
        BY <3>1, <3>2 DEF Carried
      <4>2. Carried[g] # <<>>
        BY <3>1, <3>2
      <4>3. Channels!Receive(g)
        BY <4>1, <4>2 DEF Channels!Receive, Carried
      <4> QED
        BY <3>2, <4>3 DEF Channels!Next
    <3>3. CASE g \notin Flows
      BY <3>1, <3>3 DEF Carried
    <3> QED
      BY <3>2, <3>3
  <2>4. ASSUME NEW k \in Node, InsertAck(k) \/ InsertData(k) \/ EnterFabric(k)
        PROVE  Carried' = Carried
    BY <2>1, <2>4, InsertAckKeeps, InsertDataKeeps, EnterFabricKeeps
  <2>5. ASSUME NEW a \in Node, NEW b \in Node, DeliverAck(a, b) \/ DeliverData(a, b)
        PROVE  Carried' = Carried
    BY <2>1, <2>5, DeliverAckKeeps, DeliverDataKeeps
  <2>6. CASE UNCHANGED vars
    BY <2>6 DEF vars, Carried, OnItsWay
  <2> QED
    BY <2>2, <2>3, <2>4, <2>5, <2>6 DEF Next
<1>3. RInv /\ RInv' /\ [Next]_vars => [Channels!Next]_([f \in Flows |-> OnItsWay(f[1], f[2])])
  BY <1>2 DEF Carried
<1> QED
  BY <1>1, <1>3, RInvHolds, PTL DEF Spec, Channels!Spec
=============================================================================
