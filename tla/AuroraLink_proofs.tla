--------------------------- MODULE AuroraLink_proofs ---------------------------
(***************************************************************************)
(* For every size of the receive buffer, the windows, the registers and    *)
(* the FIFOs: the counters of the two ends agree with the credits that     *)
(* exist, no half of an item is dropped, the link is never held up, and    *)
(* the two directions are reliable FIFO channels of items.                 *)
(***************************************************************************)
EXTENDS AuroraLink, FifoLemmas

(* The halves on a wire w alternate, starting after the last half read and  *)
(* ending before the next one sent.  r says whether the receiver holds a    *)
(* first half, s whether the sender holds a second: they stand for a data   *)
(* word before the first and one after the last.                           *)
IsSecond(w, r, s, i) == IF i = 0 THEN ~r ELSE IF i = Len(w) + 1 THEN s ELSE w[i].second
IsData(w, i) == i = 0 \/ i = Len(w) + 1 \/ ~w[i].control
Adjacent(w, i, j) ==
  i < j /\ IsData(w, i) /\ IsData(w, j) /\ \A k \in (i + 1)..(j - 1) : ~IsData(w, k)
Alternates(w, r, s) ==
  \A i, j \in 0..(Len(w) + 1) :
    Adjacent(w, i, j) => (IsSecond(w, r, s, i) <=> ~IsSecond(w, r, s, j))

(* The kinds of words can be told apart by their headers. *)
LEMMA WordShape ==
  ASSUME NEW w \in Word
  PROVE  /\ w.control \in BOOLEAN /\ w.second \in BOOLEAN
         /\ w \in Controls <=> w.control
         /\ w \in Seconds <=> w.second
         /\ w.second => ~w.control
         /\ w.control => w.body = WindowSize
         /\ ~w.control => w.body \in Body
<1>a. Control(WindowSize).control = TRUE /\ Control(WindowSize).second = FALSE
      /\ Control(WindowSize).body = WindowSize
  BY DEF Control
<1>b. \A b \in Body : First(b).control = FALSE /\ First(b).second = FALSE /\ First(b).body = b
  BY DEF First
<1>c. \A b \in Body : Second(b).control = FALSE /\ Second(b).second = TRUE /\ Second(b).body = b
  BY DEF Second
<1>1. CASE w = Control(WindowSize)
  <2>1. \A b \in Body : w # Second(b)
    BY <1>a, <1>c, <1>1
  <2> QED
    BY <1>a, <1>1, <2>1 DEF Controls, Seconds
<1>2. ASSUME NEW b \in Body, w = First(b)
      PROVE  w.control = FALSE /\ w.second = FALSE /\ w.body \in Body
             /\ w \notin Controls /\ w \notin Seconds
  <2>1. w # Control(WindowSize)
    BY <1>a, <1>b, <1>2
  <2>2. \A c \in Body : w # Second(c)
    BY <1>b, <1>c, <1>2
  <2> QED
    BY <1>b, <1>2, <2>1, <2>2 DEF Controls, Seconds
<1>3. ASSUME NEW b \in Body, w = Second(b)
      PROVE  w.control = FALSE /\ w.second = TRUE /\ w.body \in Body
             /\ w \notin Controls /\ w \in Seconds
  <2>1. w # Control(WindowSize)
    BY <1>a, <1>c, <1>3
  <2> QED
    BY <1>c, <1>3, <2>1 DEF Controls, Seconds
<1>4. \/ w = Control(WindowSize)
      \/ \E b \in Body : w = First(b)
      \/ \E b \in Body : w = Second(b)
  BY DEF Word, Controls, Firsts, Seconds
<1>5. CASE \E b \in Body : w = First(b)
  BY <1>2, <1>5
<1>6. CASE \E b \in Body : w = Second(b)
  BY <1>3, <1>6
<1> QED
  BY <1>1, <1>4, <1>5, <1>6

LEMMA WordIntro ==
  /\ Control(WindowSize) \in Word
  /\ \A b \in Body : First(b) \in Word /\ Second(b) \in Word
BY DEF Word, Controls, Firsts, Seconds

(* A window put on the wire leaves the halves as they are. *)
LEMMA AlternatesAppendControl ==
  ASSUME NEW w \in Seq(Word), NEW c \in Word, c.control,
         NEW r \in BOOLEAN, NEW s \in BOOLEAN, Alternates(w, r, s)
  PROVE  Alternates(Append(w, c), r, s)
<1> DEFINE v == Append(w, c)
           old(i) == IF i = Len(w) + 2 THEN Len(w) + 1 ELSE i
<1>1. /\ Len(w) \in Nat /\ Len(v) = Len(w) + 1
      /\ \A i \in 1..Len(w) : v[i] = w[i]
      /\ v[Len(w) + 1] = c
  BY AppendProperties, LenProperties
<1> SUFFICES ASSUME NEW i \in 0..(Len(v) + 1), NEW j \in 0..(Len(v) + 1), Adjacent(v, i, j)
             PROVE  IsSecond(v, r, s, i) <=> ~IsSecond(v, r, s, j)
  BY DEF Alternates
<1>2. i < j /\ IsData(v, i) /\ IsData(v, j) /\ \A k \in (i + 1)..(j - 1) : ~IsData(v, k)
  BY DEF Adjacent
<1>3. ~IsData(v, Len(w) + 1)
  BY <1>1 DEF IsData
<1>4. i \in 0..Len(w) /\ old(i) = i /\ old(j) \in 1..(Len(w) + 1)
  BY <1>1, <1>2, <1>3
<1>5. \A k \in 0..Len(w) : IsData(w, k) <=> IsData(v, k)
  BY <1>1 DEF IsData
<1>6. IsData(w, i) /\ IsData(w, old(j))
  BY <1>1, <1>2, <1>3, <1>4, <1>5 DEF IsData
<1>7. \A k \in (i + 1)..(old(j) - 1) : ~IsData(w, k)
  BY <1>1, <1>2, <1>4, <1>5
<1>8. Adjacent(w, i, old(j))
  BY <1>1, <1>2, <1>4, <1>6, <1>7 DEF Adjacent
<1>9. IsSecond(w, r, s, i) <=> ~IsSecond(w, r, s, old(j))
  BY <1>1, <1>4, <1>8 DEF Alternates
<1>10. IsSecond(w, r, s, i) = IsSecond(v, r, s, i)
  BY <1>1, <1>4 DEF IsSecond
<1>11. IsSecond(w, r, s, old(j)) = IsSecond(v, r, s, j)
  BY <1>1, <1>2, <1>3, <1>4 DEF IsSecond
<1> QED
  BY <1>9, <1>10, <1>11

(* A half put on the wire is the one due, and the other is due next. *)
LEMMA AlternatesAppendData ==
  ASSUME NEW w \in Seq(Word), NEW c \in Word, ~c.control,
         NEW r \in BOOLEAN, NEW s \in BOOLEAN, c.second = s, Alternates(w, r, s)
  PROVE  Alternates(Append(w, c), r, ~s)
<1> DEFINE v == Append(w, c)
           n == Len(w) + 1
<1>1. /\ Len(w) \in Nat /\ Len(v) = n
      /\ \A i \in 1..Len(w) : v[i] = w[i]
      /\ v[n] = c
  BY AppendProperties, LenProperties
<1> SUFFICES ASSUME NEW i \in 0..(Len(v) + 1), NEW j \in 0..(Len(v) + 1), Adjacent(v, i, j)
             PROVE  IsSecond(v, r, ~s, i) <=> ~IsSecond(v, r, ~s, j)
  BY DEF Alternates
<1>2. i < j /\ IsData(v, i) /\ IsData(v, j) /\ \A k \in (i + 1)..(j - 1) : ~IsData(v, k)
  BY DEF Adjacent
<1>3. \A k \in 0..n : IsData(w, k) <=> IsData(v, k)
  BY <1>1 DEF IsData
<1>4. \A k \in 0..n : IsSecond(w, r, s, k) = IsSecond(v, r, ~s, k)
  BY <1>1 DEF IsSecond
<1>5. CASE j \in 0..n
  <2>1. Adjacent(w, i, j)
    BY <1>1, <1>2, <1>3, <1>5 DEF Adjacent
  <2> QED
    BY <1>1, <1>2, <1>4, <1>5, <2>1 DEF Alternates
<1>6. CASE j = n + 1
  <2>1. i = n
    BY <1>1, <1>2, <1>3, <1>6 DEF IsData
  <2> QED
    BY <1>1, <1>6, <2>1 DEF IsSecond
<1> QED
  BY <1>1, <1>5, <1>6

(* Reading a window leaves the halves as they are. *)
LEMMA AlternatesTailControl ==
  ASSUME NEW w \in Seq(Word), w # <<>>, Head(w).control,
         NEW r \in BOOLEAN, NEW s \in BOOLEAN, Alternates(w, r, s)
  PROVE  Alternates(Tail(w), r, s)
<1> DEFINE v == Tail(w)
           old(i) == IF i = 0 THEN 0 ELSE i + 1
<1>1. /\ Len(w) \in Nat \ {0} /\ Len(v) = Len(w) - 1
      /\ \A i \in 1..Len(v) : v[i] = w[i + 1]
      /\ w[1].control
  BY HeadTailProperties, EmptySeq
<1> SUFFICES Alternates(v, r, s)
  OBVIOUS
<1> HIDE DEF v
<1> SUFFICES ASSUME NEW i \in 0..(Len(v) + 1), NEW j \in 0..(Len(v) + 1), Adjacent(v, i, j)
             PROVE  IsSecond(v, r, s, i) <=> ~IsSecond(v, r, s, j)
  BY DEF Alternates
<1>2. i < j /\ IsData(v, i) /\ IsData(v, j) /\ \A k \in (i + 1)..(j - 1) : ~IsData(v, k)
  BY DEF Adjacent
<1>3. \A k \in 0..(Len(v) + 1) : /\ old(k) \in 0..(Len(w) + 1)
                                 /\ IsData(w, old(k)) <=> IsData(v, k)
                                 /\ IsSecond(w, r, s, old(k)) = IsSecond(v, r, s, k)
  <2> TAKE k \in 0..(Len(v) + 1)
  <2>1. old(k) \in 0..(Len(w) + 1) /\ (old(k) = 0 <=> k = 0)
        /\ (old(k) = Len(w) + 1 <=> k = Len(v) + 1)
    BY <1>1
  <2>2. CASE k \in {0, Len(v) + 1}
    BY <2>1, <2>2 DEF IsData, IsSecond
  <2>3. CASE k \notin {0, Len(v) + 1}
    <3>1. k \in 1..Len(v) /\ old(k) = k + 1 /\ v[k] = w[old(k)]
      BY <1>1, <2>3
    <3> HIDE DEF old
    <3> QED
      BY <2>1, <2>3, <3>1 DEF IsData, IsSecond
  <2> QED
    BY <2>2, <2>3
<1>4. ~IsData(w, 1)
  BY <1>1 DEF IsData
<1>5. \A k \in (old(i) + 1)..(old(j) - 1) : ~IsData(w, k)
  <2> TAKE k \in (old(i) + 1)..(old(j) - 1)
  <2>1. CASE k = 1
    BY <1>4, <2>1
  <2>2. CASE k # 1
    <3>1. k - 1 \in (i + 1)..(j - 1) /\ old(k - 1) = k
      BY <1>1, <1>2, <2>2
    <3>2. ~IsData(v, k - 1)
      BY <1>2, <3>1
    <3> QED
      BY <1>1, <1>3, <3>1, <3>2
  <2> QED
    BY <2>1, <2>2
<1>6. old(i) < old(j)
  BY <1>1, <1>2
<1>7. Adjacent(w, old(i), old(j))
  BY <1>2, <1>3, <1>5, <1>6 DEF Adjacent
<1>8. IsSecond(w, r, s, old(i)) <=> ~IsSecond(w, r, s, old(j))
  BY <1>3, <1>7 DEF Alternates
<1> QED
  BY <1>3, <1>8

(* A half read is the one due, and the other is due next. *)
LEMMA AlternatesTailData ==
  ASSUME NEW w \in Seq(Word), w # <<>>, ~Head(w).control,
         NEW r \in BOOLEAN, NEW s \in BOOLEAN, Alternates(w, r, s)
  PROVE  /\ Head(w).second <=> r
         /\ Alternates(Tail(w), ~r, s)
<1> DEFINE v == Tail(w)
<1>1. /\ Len(w) \in Nat \ {0} /\ Len(v) = Len(w) - 1
      /\ \A i \in 1..Len(v) : v[i] = w[i + 1]
      /\ ~w[1].control /\ Head(w) = w[1]
  BY HeadTailProperties, EmptySeq
<1> HIDE DEF v
<1>2. w[1] \in Word /\ w[1].second \in BOOLEAN
  <2>1. Head(w) \in Word
    BY HeadTailProperties, EmptySeq
  <2> QED
    BY <1>1, <2>1, WordShape
<1>3. w[1].second <=> r
  <2>1. Adjacent(w, 0, 1)
    BY <1>1 DEF Adjacent, IsData
  <2>2. IsSecond(w, r, s, 0) <=> ~IsSecond(w, r, s, 1)
    BY <1>1, <2>1 DEF Alternates
  <2> QED
    BY <1>1, <1>2, <2>2 DEF IsSecond
<1>4. \A k \in 0..(Len(v) + 1) : /\ k + 1 \in 0..(Len(w) + 1)
                                 /\ IsData(w, k + 1) <=> IsData(v, k)
                                 /\ IsSecond(w, r, s, k + 1) <=> IsSecond(v, ~r, s, k)
  <2> TAKE k \in 0..(Len(v) + 1)
  <2>1. k + 1 \in 1..(Len(w) + 1) /\ (k + 1 = Len(w) + 1 <=> k = Len(v) + 1)
    BY <1>1
  <2>2. CASE k = 0
    <3>1. k # Len(v) + 1 /\ k + 1 = 1
      BY <1>1, <2>2
    <3> QED
      BY <1>1, <1>3, <2>1, <2>2, <3>1 DEF IsData, IsSecond
  <2>3. CASE k = Len(v) + 1
    <3>1. k # 0 /\ k + 1 = Len(w) + 1 /\ k + 1 # 0
      BY <1>1, <2>3
    <3> QED
      BY <2>1, <2>3, <3>1 DEF IsData, IsSecond
  <2>4. CASE k \notin {0, Len(v) + 1}
    <3>1. k \in 1..Len(v) /\ v[k] = w[k + 1] /\ k + 1 \notin {0, Len(w) + 1}
      BY <1>1, <2>4
    <3> QED
      BY <2>1, <2>4, <3>1 DEF IsData, IsSecond
  <2> QED
    BY <2>2, <2>3, <2>4
<1>6. Alternates(v, ~r, s)
  <2> SUFFICES ASSUME NEW i \in 0..(Len(v) + 1), NEW j \in 0..(Len(v) + 1), Adjacent(v, i, j)
               PROVE  IsSecond(v, ~r, s, i) <=> ~IsSecond(v, ~r, s, j)
    BY DEF Alternates
  <2>1. i < j /\ IsData(v, i) /\ IsData(v, j) /\ \A k \in (i + 1)..(j - 1) : ~IsData(v, k)
    BY DEF Adjacent
  <2>2. \A k \in (i + 2)..j : ~IsData(w, k)
    <3> TAKE k \in (i + 2)..j
    <3>1. k - 1 \in (i + 1)..(j - 1) /\ k - 1 \in 0..(Len(v) + 1) /\ (k - 1) + 1 = k
      BY <1>1
    <3> QED
      BY <1>4, <2>1, <3>1
  <2>3. Adjacent(w, i + 1, j + 1)
    BY <1>1, <1>4, <2>1, <2>2 DEF Adjacent
  <2>4. IsSecond(w, r, s, i + 1) <=> ~IsSecond(w, r, s, j + 1)
    BY <1>4, <2>3 DEF Alternates
  <2> QED
    BY <1>4, <2>4
<1> QED
  BY <1>1, <1>3, <1>6 DEF v
-----------------------------------------------------------------------------
Register == [End -> 0..(RegMod - 1)]

LEMMA Sizes ==
  /\ WindowSize \in Nat \ {0} /\ RecvQDepth \in Nat \ {0} /\ RegMod \in Nat \ {0}
  /\ WindowSize < RegMod /\ 1 < RegMod /\ RecvQDepth + WindowSize <= RegMod
BY LinkAssumption

LEMMA Ends ==
  ASSUME NEW e \in End
  PROVE  /\ Peer(e) \in End /\ Peer(Peer(e)) = e /\ Peer(e) # e
         /\ \A f \in End : f = e \/ f = Peer(e)
BY DEF End, Peer

(* What advancing a register does to it. *)
LEMMA PlusType ==
  ASSUME NEW reg \in Register, NEW e \in End, NEW k \in {1, WindowSize}
  PROVE  /\ Plus(reg, e, k) \in Register
         /\ \A f \in End : Plus(reg, e, k)[f] = IF f = e THEN (reg[e] + k) % RegMod ELSE reg[f]
<1>1. reg[e] \in 0..(RegMod - 1)
  BY DEF Register
<1>2. (reg[e] + k) % RegMod \in 0..(RegMod - 1)
  <2>1. k \in Nat /\ k < RegMod /\ RegMod \in Nat \ {0}
    BY Sizes
  <2> DEFINE x == reg[e] + k
  <2>2. x \in 0..(2 * RegMod - 1) /\ x \in Int
    BY <1>1, <2>1
  <2> HIDE DEF x
  <2>3. /\ x \in 0..(RegMod - 1) => x % RegMod = x
        /\ x \in RegMod..(2 * RegMod - 1) => x % RegMod = x - RegMod
    BY <2>1, <2>2, OneWrap
  <2>4. x % RegMod \in 0..(RegMod - 1)
    BY <2>1, <2>2, <2>3
  <2> QED
    BY <2>4 DEF x
<1> QED
  BY <1>2 DEF Plus, Register

(* What it does to the distance of two registers, at either of them. *)
LEMMA AdvanceUp ==
  ASSUME NEW up \in Register, NEW down \in Register, NEW e \in End,
         NEW k \in {1, WindowSize}, ((up[e] - down[e]) % RegMod) + k < RegMod
  PROVE  \A f \in End : (Plus(up, e, k)[f] - down[f]) % RegMod
                          = ((up[f] - down[f]) % RegMod) + (IF f = e THEN k ELSE 0)
<1> TAKE f \in End
<1>1. up[f] \in 0..(RegMod - 1) /\ down[f] \in 0..(RegMod - 1) /\ k \in Nat /\ RegMod \in Nat \ {0}
  BY Sizes DEF Register
<1>2. CASE f = e
  <2>1. (((up[f] + k) % RegMod) - down[f]) % RegMod = ((up[f] - down[f]) % RegMod) + k
    BY <1>1, <1>2, GainSome
  <2> QED
    BY <1>2, <2>1, PlusType
<1>3. CASE f # e
  <2>1. (up[f] - down[f]) % RegMod \in 0..(RegMod - 1)
    BY <1>1, DistanceType
  <2>2. \A g \in End : Plus(up, e, k)[g] = IF g = e THEN (up[e] + k) % RegMod ELSE up[g]
    BY PlusType
  <2> QED
    BY <1>3, <2>1, <2>2
<1> QED
  BY <1>2, <1>3

LEMMA AdvanceDown ==
  ASSUME NEW up \in Register, NEW down \in Register, NEW e \in End,
         (up[e] - down[e]) % RegMod > 0
  PROVE  \A f \in End : (up[f] - Plus(down, e, 1)[f]) % RegMod
                          = ((up[f] - down[f]) % RegMod) - (IF f = e THEN 1 ELSE 0)
<1> TAKE f \in End
<1>1. up[f] \in 0..(RegMod - 1) /\ down[f] \in 0..(RegMod - 1) /\ RegMod \in Nat \ {0}
  BY Sizes DEF Register
<1>2. CASE f = e
  <2>1. (up[f] - ((down[f] + 1) % RegMod)) % RegMod = ((up[f] - down[f]) % RegMod) - 1
    BY <1>1, <1>2, SpendOne
  <2> QED
    BY <1>2, <2>1, PlusType
<1>3. CASE f # e
  <2>1. (up[f] - down[f]) % RegMod \in 0..(RegMod - 1)
    BY <1>1, DistanceType
  <2>2. Plus(down, e, 1)[f] = down[f]
    BY <1>3, PlusType
  <2> QED
    BY <1>3, <2>1, <2>2
<1> QED
  BY <1>2, <1>3

(* TypeOK, one variable at a time. *)
LEMMA TypeFacts ==
  TypeOK <=>
    /\ sendQ \in FifoFamily(End, AuroraIfc)
    /\ wire \in FifoFamily(End, Word)
    /\ flowControlQ \in FifoFamily(End, {WindowSize})
    /\ recvBufferQ \in FifoFamily(End, AuroraIfc)
    /\ recvQ \in FifoFamily(End, AuroraIfc)
    /\ packetSendBuffer \in [End -> MaybeBody]
    /\ packetRecvBuffer \in [End -> MaybeBody]
    /\ curSendBudgetUp \in Register /\ curSendBudgetDown \in Register
    /\ maxInFlightUp \in Register /\ maxInFlightDown \in Register
    /\ curInQUp \in Register /\ curInQDown \in Register
BY DEF TypeOK, Register

LEMMA MaybeShape ==
  ASSUME NEW m \in MaybeBody
  PROVE  /\ IsValid(m) \in BOOLEAN
         /\ IsValid(m) => Head(m) \in Body
         /\ Invalid \in MaybeBody /\ ~IsValid(Invalid)
         /\ \A b \in Body : Valid(b) \in MaybeBody /\ IsValid(Valid(b))
BY DEF MaybeBody, IsValid, Valid, Invalid

(* Every step keeps every register and FIFO within its declaration. *)
LEMMA TypeStep == TypeOK /\ [Next]_vars => TypeOK'
<1> SUFFICES ASSUME TypeOK, [Next]_vars PROVE TypeOK'
  OBVIOUS
<1>qs. sendQ \in FifoFamily(End, AuroraIfc)
  BY TypeFacts
<1>qw. wire \in FifoFamily(End, Word)
  BY TypeFacts
<1>qf. flowControlQ \in FifoFamily(End, {WindowSize})
  BY TypeFacts
<1>qb. recvBufferQ \in FifoFamily(End, AuroraIfc)
  BY TypeFacts
<1>qr. recvQ \in FifoFamily(End, AuroraIfc)
  BY TypeFacts
<1>sb. packetSendBuffer \in [End -> MaybeBody]
  BY TypeFacts
<1>rb. packetRecvBuffer \in [End -> MaybeBody]
  BY TypeFacts
<1>r. /\ curSendBudgetUp \in Register /\ curSendBudgetDown \in Register
      /\ maxInFlightUp \in Register /\ maxInFlightDown \in Register
      /\ curInQUp \in Register /\ curInQDown \in Register
  BY TypeFacts
<1>1. ASSUME NEW e \in End, NEW x \in Handed, Send(e, x)
      PROVE  TypeOK'
  <2>1. x \in AuroraIfc
    BY LinkAssumption
  <2>2. Enq(sendQ, e, x) \in FifoFamily(End, AuroraIfc)
    BY <1>qs, <2>1, EnqLemma
  <2> QED
    BY <1>1, <2>2 DEF Send, TypeOK, grantVars, recvVars
<1>2. ASSUME NEW e \in End, EmitFlowControlPacket(e)
      PROVE  TypeOK'
  <2>1. Enq(flowControlQ, e, WindowSize) \in FifoFamily(End, {WindowSize})
    BY <1>qf, EnqLemma
  <2>2. Plus(maxInFlightUp, e, WindowSize) \in Register
    BY <1>r, PlusType
  <2> QED
    BY <1>2, <2>1, <2>2 DEF EmitFlowControlPacket, TypeOK, sendVars, recvVars, Register
<1>3. ASSUME NEW e \in End, SendPacketPart(e), SendFlowControl(e)
      PROVE  TypeOK'
  <2>1. Head(flowControlQ[e]) = WindowSize /\ Deq(flowControlQ, e) \in FifoFamily(End, {WindowSize})
    BY <1>3, <1>qf, DeqLemma DEF SendFlowControl
  <2>2. Enq(wire, e, Control(Head(flowControlQ[e]))) \in FifoFamily(End, Word)
    BY <1>qw, <2>1, WordIntro, EnqLemma
  <2> QED
    BY <1>3, <2>1, <2>2 DEF SendPacketPart, SendFlowControl, TypeOK, sendVars, recvVars
<1>4. ASSUME NEW e \in End, SendPacketPart(e), SendSecondHalf(e)
      PROVE  TypeOK'
  <2>1. Head(packetSendBuffer[e]) \in Body
    BY <1>4, <1>sb, MaybeShape DEF SendSecondHalf
  <2>2. Second(Head(packetSendBuffer[e])) \in Word
    BY <2>1, WordIntro
  <2>3. Enq(wire, e, Second(Head(packetSendBuffer[e]))) \in FifoFamily(End, Word)
    BY <1>qw, <2>2, EnqLemma
  <2>4. Plus(curSendBudgetDown, e, 1) \in Register
    BY <1>r, PlusType
  <2>5. [packetSendBuffer EXCEPT ![e] = Invalid] \in [End -> MaybeBody]
    BY <1>sb, MaybeShape
  <2> QED
    BY <1>4, <2>3, <2>4, <2>5
    DEF SendPacketPart, SendSecondHalf, TypeOK, grantVars, recvVars, Register
<1>5. ASSUME NEW e \in End, SendPacketPart(e), SendFirstHalf(e)
      PROVE  TypeOK'
  <2>1. Head(sendQ[e]) \in AuroraIfc /\ Deq(sendQ, e) \in FifoFamily(End, AuroraIfc)
    BY <1>5, <1>qs, DeqLemma DEF SendFirstHalf
  <2>2. Head(sendQ[e])[1] \in Body /\ Head(sendQ[e])[2] \in Body
    BY <2>1 DEF AuroraIfc
  <2>3. First(Head(sendQ[e])[1]) \in Word
    BY <2>2, WordIntro
  <2>4. Enq(wire, e, First(Head(sendQ[e])[1])) \in FifoFamily(End, Word)
    BY <1>qw, <2>3, EnqLemma
  <2>5. [packetSendBuffer EXCEPT ![e] = Valid(Head(sendQ[e])[2])] \in [End -> MaybeBody]
    BY <1>sb, <2>2, MaybeShape
  <2> QED
    BY <1>5, <2>1, <2>4, <2>5
    DEF SendPacketPart, SendFirstHalf, TypeOK, grantVars, recvVars
<1>6. ASSUME NEW e \in End, RecvPacketPart(e)
      PROVE  TypeOK'
  <2> DEFINE w == Head(wire[Peer(e)])
  <2>1. Peer(e) \in End
    BY Ends
  <2>2. w \in Word /\ Deq(wire, Peer(e)) \in FifoFamily(End, Word)
    BY <1>6, <1>qw, <2>1, DeqLemma DEF RecvPacketPart
  <2>3. /\ wire' = Deq(wire, Peer(e))
        /\ UNCHANGED <<sendQ, packetSendBuffer, curSendBudgetDown, flowControlQ, maxInFlightUp,
                       curInQDown, recvQ>>
        /\ RecvControl(e, w) \/ RecvComplete(e, w) \/ RecvIncomplete(e, w)
    BY <1>6 DEF RecvPacketPart, sendVars, grantVars
  <2> HIDE DEF w
  <2>4. w.control \in BOOLEAN /\ (w.control => w.body = WindowSize) /\ (~w.control => w.body \in Body)
    BY <2>2, WordShape
  <2>5. CASE RecvControl(e, w)
    <3>1. Plus(curSendBudgetUp, e, w.body) \in Register
      BY <1>r, <2>4, <2>5, PlusType DEF RecvControl
    <3> QED
      BY <2>2, <2>3, <2>5, <3>1 DEF RecvControl, TypeOK, recvVars, Register
  <2>6. CASE RecvComplete(e, w)
    <3>1. <<Head(packetRecvBuffer[e]), w.body>> \in AuroraIfc
      BY <1>rb, <2>4, <2>6, MaybeShape DEF RecvComplete, Completes, AuroraIfc
    <3>2. Enq(recvBufferQ, e, <<Head(packetRecvBuffer[e]), w.body>>) \in FifoFamily(End, AuroraIfc)
      BY <1>qb, <3>1, EnqLemma
    <3>3. Plus(maxInFlightDown, e, 1) \in Register /\ Plus(curInQUp, e, 1) \in Register
      BY <1>r, PlusType
    <3>4. [packetRecvBuffer EXCEPT ![e] = Invalid] \in [End -> MaybeBody]
      BY <1>rb, MaybeShape
    <3> QED
      BY <2>2, <2>3, <2>6, <3>2, <3>3, <3>4 DEF RecvComplete, TypeOK, Register
  <2>7. CASE RecvIncomplete(e, w)
    <3>1. packetRecvBuffer' \in [End -> MaybeBody]
      BY <1>rb, <2>4, <2>7, MaybeShape DEF RecvIncomplete
    <3> QED
      BY <2>2, <2>3, <2>7, <3>1 DEF RecvIncomplete, TypeOK
  <2> QED
    BY <2>3, <2>5, <2>6, <2>7
<1>7. ASSUME NEW e \in End, FlushReadBuffer(e)
      PROVE  TypeOK'
  <2>1. Head(recvBufferQ[e]) \in AuroraIfc /\ Deq(recvBufferQ, e) \in FifoFamily(End, AuroraIfc)
    BY <1>7, <1>qb, DeqLemma DEF FlushReadBuffer
  <2>2. Enq(recvQ, e, Head(recvBufferQ[e])) \in FifoFamily(End, AuroraIfc)
    BY <1>qr, <2>1, EnqLemma
  <2>3. Plus(curInQDown, e, 1) \in Register
    BY <1>r, PlusType
  <2> QED
    BY <1>7, <2>1, <2>2, <2>3 DEF FlushReadBuffer, TypeOK, sendVars, grantVars, recvVars, Register
<1>8. ASSUME NEW e \in End, Receive(e)
      PROVE  TypeOK'
  <2>1. Deq(recvQ, e) \in FifoFamily(End, AuroraIfc)
    BY <1>8, <1>qr, DeqLemma DEF Receive
  <2> QED
    BY <1>8, <2>1 DEF Receive, TypeOK, sendVars, grantVars, recvVars
<1>9. CASE UNCHANGED vars
  BY <1>9 DEF vars, sendVars, grantVars, recvVars, TypeOK
<1>10. ASSUME NEW e \in End, SendPacketPart(e)
       PROVE  TypeOK'
  BY <1>3, <1>4, <1>5, <1>10 DEF SendPacketPart
<1> QED
  BY <1>1, <1>2, <1>6, <1>7, <1>8, <1>9, <1>10 DEF Next
-----------------------------------------------------------------------------
HalvesOf(p) ==
  Alternates(wire[p], IsValid(packetRecvBuffer[Peer(p)]), IsValid(packetSendBuffer[p]))
HalvesAlternate == \A p \in End : HalvesOf(p)

(* One FIFO of a family after an operation on it, and the others. *)
LEMMA WireAt ==
  ASSUME TypeOK, NEW e \in End
  PROVE  /\ wire[e] \in Seq(Word)
         /\ \A x : \A p \in End : Enq(wire, e, x)[p] = IF p = e THEN Append(wire[e], x) ELSE wire[p]
         /\ \A p \in End : Deq(wire, e)[p] = IF p = e THEN Tail(wire[e]) ELSE wire[p]
<1>1. wire \in [End -> Seq(Word)]
  BY TypeFacts DEF FifoFamily
<1> QED
  BY <1>1 DEF Enq, Deq

LEMMA BuffersAt ==
  ASSUME TypeOK, NEW e \in End
  PROVE  /\ packetSendBuffer[e] \in MaybeBody /\ packetRecvBuffer[e] \in MaybeBody
         /\ IsValid(packetSendBuffer[e]) \in BOOLEAN /\ IsValid(packetRecvBuffer[e]) \in BOOLEAN
         /\ \A m : \A p \in End :
              /\ [packetSendBuffer EXCEPT ![e] = m][p] = IF p = e THEN m ELSE packetSendBuffer[p]
              /\ [packetRecvBuffer EXCEPT ![e] = m][p] = IF p = e THEN m ELSE packetRecvBuffer[p]
<1>1. packetSendBuffer \in [End -> MaybeBody] /\ packetRecvBuffer \in [End -> MaybeBody]
  BY TypeFacts
<1> QED
  BY <1>1, MaybeShape

(* The halves keep alternating. *)
LEMMA HalvesStep == TypeOK /\ HalvesAlternate /\ [Next]_vars => HalvesAlternate'
<1> SUFFICES ASSUME TypeOK, HalvesAlternate, [Next]_vars, NEW p \in End
             PROVE  HalvesOf(p)'
  BY DEF HalvesAlternate
<1>h. HalvesOf(p)
  BY DEF HalvesAlternate
<1>e. Peer(p) \in End /\ Peer(Peer(p)) = p /\ Peer(p) # p
  BY Ends
<1>t. /\ wire[p] \in Seq(Word)
      /\ IsValid(packetSendBuffer[p]) \in BOOLEAN /\ IsValid(packetRecvBuffer[Peer(p)]) \in BOOLEAN
  BY <1>e, WireAt, BuffersAt
<1>d. DOMAIN packetRecvBuffer = End
  BY TypeFacts
<1>same. ASSUME wire'[p] = wire[p], packetSendBuffer'[p] = packetSendBuffer[p],
                packetRecvBuffer'[Peer(p)] = packetRecvBuffer[Peer(p)]
         PROVE  HalvesOf(p)'
  BY <1>h, <1>same DEF HalvesOf, Peer
<1>1. ASSUME NEW e \in End, NEW x \in Handed, Send(e, x)
      PROVE  HalvesOf(p)'
  BY <1>1, <1>same DEF Send, recvVars
<1>2. ASSUME NEW e \in End, EmitFlowControlPacket(e)
      PROVE  HalvesOf(p)'
  BY <1>2, <1>same DEF EmitFlowControlPacket, sendVars, recvVars
<1>3. ASSUME NEW e \in End, SendPacketPart(e), SendFlowControl(e)
      PROVE  HalvesOf(p)'
  <2>1. /\ wire' = Enq(wire, e, Control(Head(flowControlQ[e])))
        /\ UNCHANGED <<packetSendBuffer, packetRecvBuffer>>
    BY <1>3 DEF SendPacketPart, SendFlowControl, sendVars, recvVars
  <2>2. Head(flowControlQ[e]) = WindowSize
    <3>1. flowControlQ \in FifoFamily(End, {WindowSize}) /\ flowControlQ[e] # <<>>
      BY <1>3, TypeFacts DEF SendFlowControl
    <3> QED
      BY <3>1, DeqLemma
  <2>3. CASE p = e
    <3>1. wire'[p] = Append(wire[p], Control(WindowSize))
      BY <2>1, <2>2, <2>3, WireAt
    <3>2. Control(WindowSize) \in Word /\ Control(WindowSize).control
      BY WordIntro DEF Control
    <3>3. Alternates(Append(wire[p], Control(WindowSize)), IsValid(packetRecvBuffer[Peer(p)]),
                     IsValid(packetSendBuffer[p]))
      BY <1>h, <1>t, <3>2, AlternatesAppendControl DEF HalvesOf
    <3> QED
      BY <2>1, <3>1, <3>3 DEF HalvesOf, Peer
  <2>4. CASE p # e
    <3>1. wire'[p] = wire[p]
      BY <2>1, <2>4, WireAt
    <3> QED
      BY <2>1, <3>1, <1>same
  <2> QED
    BY <2>3, <2>4
<1>4. ASSUME NEW e \in End, NEW c \in Word, NEW m \in MaybeBody,
             wire' = Enq(wire, e, c),
             packetSendBuffer' = [packetSendBuffer EXCEPT ![e] = m],
             UNCHANGED packetRecvBuffer,
             ~c.control, c.second = IsValid(packetSendBuffer[e]), IsValid(m) = ~c.second
      PROVE  HalvesOf(p)'
  <2>3. CASE p = e
    <3>a. wire'[p] = Append(wire[p], c)
      BY <1>4, <2>3, WireAt
    <3>b. packetSendBuffer'[p] = m
      BY <1>4, <2>3, BuffersAt
    <3>1. wire'[p] = Append(wire[p], c) /\ packetSendBuffer'[p] = m
      BY <3>a, <3>b
    <3>2. c.second = IsValid(packetSendBuffer[p])
      BY <1>4, <2>3
    <3>3. Alternates(Append(wire[p], c), IsValid(packetRecvBuffer[Peer(p)]),
                     ~IsValid(packetSendBuffer[p]))
      BY <1>4, <1>h, <1>t, <3>2, AlternatesAppendData DEF HalvesOf
    <3>4. IsValid(m) = ~IsValid(packetSendBuffer[p])
      BY <1>4, <3>2
    <3> QED
      BY <1>4, <3>1, <3>3, <3>4 DEF HalvesOf, Peer
  <2>4. CASE p # e
    <3>1. wire'[p] = wire[p] /\ packetSendBuffer'[p] = packetSendBuffer[p]
      BY <1>4, <2>4, WireAt, BuffersAt
    <3> QED
      BY <1>4, <3>1, <1>same
  <2> QED
    BY <2>3, <2>4
<1>5. ASSUME NEW e \in End, SendPacketPart(e), SendSecondHalf(e)
      PROVE  HalvesOf(p)'
  <2> DEFINE b == Head(packetSendBuffer[e])
  <2>1. /\ wire' = Enq(wire, e, Second(b))
        /\ packetSendBuffer' = [packetSendBuffer EXCEPT ![e] = Invalid]
        /\ UNCHANGED packetRecvBuffer
        /\ IsValid(packetSendBuffer[e]) = TRUE
    BY <1>5, BuffersAt DEF SendPacketPart, SendSecondHalf, recvVars
  <2>2. b \in Body
    BY <2>1, BuffersAt, MaybeShape
  <2>3. /\ Second(b) \in Word /\ ~Second(b).control /\ Second(b).second = TRUE
        /\ Invalid \in MaybeBody /\ IsValid(Invalid) = FALSE
    BY <2>2, WordIntro DEF Second, MaybeBody, IsValid, Invalid
  <2> HIDE DEF b
  <2> QED
    BY <1>4, <2>1, <2>3
<1>6. ASSUME NEW e \in End, SendPacketPart(e), SendFirstHalf(e)
      PROVE  HalvesOf(p)'
  <2> DEFINE a == Head(sendQ[e])[1]
             b == Head(sendQ[e])[2]
  <2>1. /\ wire' = Enq(wire, e, First(a))
        /\ packetSendBuffer' = [packetSendBuffer EXCEPT ![e] = Valid(b)]
        /\ UNCHANGED packetRecvBuffer
        /\ IsValid(packetSendBuffer[e]) = FALSE
    BY <1>6, BuffersAt DEF SendPacketPart, SendFirstHalf, recvVars
  <2>2. a \in Body /\ b \in Body
    <3>1. sendQ \in FifoFamily(End, AuroraIfc) /\ sendQ[e] # <<>>
      BY <1>6, TypeFacts DEF SendFirstHalf
    <3>2. Head(sendQ[e]) \in AuroraIfc
      BY <3>1, DeqLemma
    <3> QED
      BY <3>2 DEF AuroraIfc
  <2>3. /\ First(a) \in Word /\ ~First(a).control /\ First(a).second = FALSE
        /\ Valid(b) \in MaybeBody /\ IsValid(Valid(b)) = TRUE
    BY <2>2, WordIntro DEF First, MaybeBody, IsValid, Valid, Invalid
  <2> HIDE DEF a, b
  <2> QED
    BY <1>4, <2>1, <2>3
<1>7. ASSUME NEW e \in End, RecvPacketPart(e)
      PROVE  HalvesOf(p)'
  <2> DEFINE q == Peer(e)
             w == Head(wire[q])
  <2>1. /\ wire[q] # <<>> /\ wire' = Deq(wire, q) /\ UNCHANGED packetSendBuffer
        /\ RecvControl(e, w) \/ RecvComplete(e, w) \/ RecvIncomplete(e, w)
    BY <1>7 DEF RecvPacketPart, sendVars
  <2>2. q \in End /\ Peer(q) = e
    BY Ends
  <2>3. packetRecvBuffer'[Peer(p)] = packetRecvBuffer[Peer(p)] \/ p = q
    <3>1. CASE Peer(p) = e
      BY <1>e, <3>1
    <3>2. CASE Peer(p) # e
      <4>1. \/ UNCHANGED packetRecvBuffer
            \/ \E m : packetRecvBuffer' = [packetRecvBuffer EXCEPT ![e] = m]
        BY <2>1 DEF RecvControl, RecvComplete, RecvIncomplete, recvVars
      <4> QED
        BY <1>e, <1>d, <3>2, <4>1
    <3> QED
      BY <3>1, <3>2
  <2>4. CASE p # q
    <3>1. wire'[p] = wire[p]
      BY <2>1, <2>2, <2>4, WireAt
    <3> QED
      BY <2>1, <2>3, <2>4, <3>1, <1>same
  <2>5. CASE p = q
    <3>1. wire'[p] = Tail(wire[p]) /\ wire[p] # <<>> /\ w = Head(wire[p]) /\ Peer(p) = e
      BY <2>1, <2>2, <2>5, WireAt
    <3>2. w \in Word /\ w.control \in BOOLEAN /\ w.second \in BOOLEAN
      <4>1. Head(wire[p]) \in Word
        BY <1>t, <3>1, HeadTailProperties, EmptySeq
      <4> QED
        BY <3>1, <4>1, WordShape
    <3> HIDE DEF q, w
    <3>3. CASE w.control
      <4>1. UNCHANGED packetRecvBuffer
        BY <2>1, <3>3 DEF RecvControl, RecvComplete, RecvIncomplete, Completes, recvVars
      <4>2. Alternates(Tail(wire[p]), IsValid(packetRecvBuffer[Peer(p)]), IsValid(packetSendBuffer[p]))
        BY <1>h, <1>t, <3>1, <3>3, AlternatesTailControl DEF HalvesOf
      <4> QED
        BY <2>1, <3>1, <4>1, <4>2 DEF HalvesOf, Peer
    <3>4. CASE ~w.control
      <4>1. /\ w.second <=> IsValid(packetRecvBuffer[Peer(p)])
            /\ Alternates(Tail(wire[p]), ~IsValid(packetRecvBuffer[Peer(p)]), IsValid(packetSendBuffer[p]))
        BY <1>h, <1>t, <3>1, <3>4, AlternatesTailData DEF HalvesOf
      <4>2. IsValid(packetRecvBuffer'[Peer(p)]) = ~IsValid(packetRecvBuffer[Peer(p)])
        <5>1. CASE w.second
          <6>1. RecvComplete(e, w)
            BY <2>1, <3>1, <3>4, <4>1, <5>1 DEF RecvControl, RecvIncomplete, Completes
          <6>2. packetRecvBuffer' = [packetRecvBuffer EXCEPT ![e] = Invalid]
            BY <6>1 DEF RecvComplete
          <6>3. packetRecvBuffer'[e] = Invalid
            BY <6>2, <1>d
          <6> QED
            BY <3>1, <4>1, <5>1, <6>3, <1>t DEF IsValid
        <5>2. CASE ~w.second
          <6>1. RecvIncomplete(e, w)
            BY <2>1, <3>4, <5>2 DEF RecvControl, RecvComplete, Completes
          <6>2. packetRecvBuffer' = [packetRecvBuffer EXCEPT ![e] = Valid(w.body)]
            BY <5>2, <6>1 DEF RecvIncomplete
          <6>3. packetRecvBuffer'[e] = Valid(w.body)
            BY <6>2, <1>d
          <6>4. IsValid(Valid(w.body)) = TRUE
            BY DEF IsValid, Valid, Invalid
          <6> QED
            BY <3>1, <4>1, <5>2, <6>3, <6>4, <1>t
        <5> QED
          BY <5>1, <5>2
      <4> QED
        BY <2>1, <3>1, <4>1, <4>2 DEF HalvesOf, Peer
    <3> QED
      BY <3>3, <3>4
  <2> QED
    BY <2>4, <2>5
<1>8. ASSUME NEW e \in End, FlushReadBuffer(e) \/ Receive(e)
      PROVE  HalvesOf(p)'
  BY <1>8, <1>same DEF FlushReadBuffer, Receive, sendVars, recvVars
<1>9. CASE UNCHANGED vars
  BY <1>9, <1>same DEF vars, sendVars, recvVars
<1>10. ASSUME NEW e \in End, SendPacketPart(e)
       PROVE  HalvesOf(p)'
  BY <1>3, <1>5, <1>6, <1>10 DEF SendPacketPart
<1> QED
  BY <1>1, <1>2, <1>7, <1>8, <1>9, <1>10 DEF Next
-----------------------------------------------------------------------------
(* The conservation law of one receiver. *)
Law(f) == /\ InFlight(f) = GrantsOut(f)
          /\ InQ(f) = Len(recvBufferQ[f])
          /\ InFlight(f) + InQ(f) < RecvQDepth

LEMMA LawTypes ==
  ASSUME TypeOK, NEW f \in End
  PROVE  /\ Len(flowControlQ[f]) \in Nat /\ Len(recvBufferQ[f]) \in Nat
         /\ Occurs(wire[f], Controls) \in Nat /\ Occurs(wire[Peer(f)], Seconds) \in Nat
         /\ Budget(f) \in 0..(RegMod - 1) /\ Budget(Peer(f)) \in 0..(RegMod - 1)
         /\ InFlight(f) \in 0..(RegMod - 1) /\ InQ(f) \in 0..(RegMod - 1)
<1>1. Peer(f) \in End /\ RegMod \in Nat \ {0}
  BY Ends, Sizes
<1>2. /\ flowControlQ[f] \in Seq({WindowSize}) /\ recvBufferQ[f] \in Seq(AuroraIfc)
      /\ wire \in FifoFamily(End, Word)
  BY TypeFacts DEF FifoFamily
<1>3. Len(flowControlQ[f]) \in Nat /\ Len(recvBufferQ[f]) \in Nat
  BY <1>2, LenProperties
<1>4. Occurs(wire[f], Controls) \in Nat
  BY <1>2, FamilyCount
<1>5. Occurs(wire[Peer(f)], Seconds) \in Nat
  BY <1>1, <1>2, FamilyCount
<1>6. \A e \in End : Budget(e) \in 0..(RegMod - 1)
  <2> TAKE e \in End
  <2>1. curSendBudgetUp[e] \in 0..(RegMod - 1) /\ curSendBudgetDown[e] \in 0..(RegMod - 1)
    BY TypeFacts DEF Register
  <2> QED
    BY <1>1, <2>1, DistanceType DEF Budget
<1>7. InFlight(f) \in 0..(RegMod - 1)
  <2>1. maxInFlightUp[f] \in 0..(RegMod - 1) /\ maxInFlightDown[f] \in 0..(RegMod - 1)
    BY TypeFacts DEF Register
  <2> QED
    BY <1>1, <2>1, DistanceType DEF InFlight
<1>8. InQ(f) \in 0..(RegMod - 1)
  <2>1. curInQUp[f] \in 0..(RegMod - 1) /\ curInQDown[f] \in 0..(RegMod - 1)
    BY TypeFacts DEF Register
  <2> QED
    BY <1>1, <2>1, DistanceType DEF InQ
<1> QED
  BY <1>1, <1>3, <1>4, <1>5, <1>6, <1>7, <1>8

LEMMA Windows ==
  \A x \in Nat : /\ WindowSize * x \in Nat
                 /\ WindowSize * (x + 1) = WindowSize * x + WindowSize
                 /\ x > 0 => WindowSize * x >= WindowSize
BY Sizes

(* What a word put on the wire of e, or taken from it, adds to the counts. *)
LEMMA WirePut ==
  ASSUME TypeOK, NEW e \in End, NEW x \in Word
  PROVE  \A p \in End :
           /\ Occurs(Enq(wire, e, x)[p], Controls)
                = Occurs(wire[p], Controls) + (IF p = e /\ x.control THEN 1 ELSE 0)
           /\ Occurs(Enq(wire, e, x)[p], Seconds)
                = Occurs(wire[p], Seconds) + (IF p = e /\ x.second THEN 1 ELSE 0)
<1> TAKE p \in End
<1>1. wire \in FifoFamily(End, Word)
  BY TypeFacts
<1>2. Occurs(wire[p], Controls) \in Nat /\ Occurs(wire[p], Seconds) \in Nat
  BY <1>1, FamilyCount
<1>3. /\ Occurs(Enq(wire, e, x)[p], Controls)
           = IF p = e /\ x \in Controls THEN Occurs(wire[p], Controls) + 1 ELSE Occurs(wire[p], Controls)
      /\ Occurs(Enq(wire, e, x)[p], Seconds)
           = IF p = e /\ x \in Seconds THEN Occurs(wire[p], Seconds) + 1 ELSE Occurs(wire[p], Seconds)
  BY <1>1, EnqLemma
<1>4. (x \in Controls <=> x.control) /\ (x \in Seconds <=> x.second)
  BY WordShape
<1> QED
  BY <1>2, <1>3, <1>4

LEMMA WireTake ==
  ASSUME TypeOK, NEW e \in End, wire[e] # <<>>
  PROVE  /\ Head(wire[e]) \in Word
         /\ \A p \in End :
              /\ Occurs(Deq(wire, e)[p], Controls) \in Nat
              /\ Occurs(Deq(wire, e)[p], Seconds) \in Nat
              /\ Occurs(wire[p], Controls)
                   = Occurs(Deq(wire, e)[p], Controls) + (IF p = e /\ Head(wire[e]).control THEN 1 ELSE 0)
              /\ Occurs(wire[p], Seconds)
                   = Occurs(Deq(wire, e)[p], Seconds) + (IF p = e /\ Head(wire[e]).second THEN 1 ELSE 0)
<1>1. wire \in FifoFamily(End, Word)
  BY TypeFacts
<1>2. Head(wire[e]) \in Word /\ Deq(wire, e) \in FifoFamily(End, Word)
  BY <1>1, DeqLemma
<1>3. ASSUME NEW p \in End
      PROVE  /\ Occurs(Deq(wire, e)[p], Controls) \in Nat
             /\ Occurs(Deq(wire, e)[p], Seconds) \in Nat
             /\ Occurs(wire[p], Controls)
                  = Occurs(Deq(wire, e)[p], Controls) + (IF p = e /\ Head(wire[e]).control THEN 1 ELSE 0)
             /\ Occurs(wire[p], Seconds)
                  = Occurs(Deq(wire, e)[p], Seconds) + (IF p = e /\ Head(wire[e]).second THEN 1 ELSE 0)
  <2>1. /\ Occurs(wire[p], Controls) \in Nat /\ Occurs(wire[p], Seconds) \in Nat
        /\ Occurs(Deq(wire, e)[p], Controls) \in Nat /\ Occurs(Deq(wire, e)[p], Seconds) \in Nat
    BY <1>1, <1>2, FamilyCount
  <2>2. /\ Occurs(Deq(wire, e)[p], Controls)
             = IF p = e /\ Head(wire[e]) \in Controls
               THEN Occurs(wire[p], Controls) - 1 ELSE Occurs(wire[p], Controls)
        /\ Occurs(Deq(wire, e)[p], Seconds)
             = IF p = e /\ Head(wire[e]) \in Seconds
               THEN Occurs(wire[p], Seconds) - 1 ELSE Occurs(wire[p], Seconds)
    BY <1>1, DeqLemma
  <2>3. /\ Head(wire[e]) \in Controls <=> Head(wire[e]).control
        /\ Head(wire[e]) \in Seconds <=> Head(wire[e]).second
    BY <1>2, WordShape
  <2> QED
    BY <2>1, <2>2, <2>3
<1> QED
  BY <1>2, <1>3

(* A step that grants, moves or spends credits of the receiver f: the terms *)
(* of the law before and after it.                                         *)
LEMMA LawBefore ==
  ASSUME TypeOK, NEW f \in End, Law(f)
  PROVE  /\ InFlight(f) = WindowSize * (Len(flowControlQ[f]) + Occurs(wire[f], Controls))
                          + Budget(Peer(f)) + Occurs(wire[Peer(f)], Seconds)
         /\ Budget(Peer(f)) + WindowSize * Occurs(wire[f], Controls) < RecvQDepth
         /\ Occurs(wire[Peer(f)], Seconds) <= InFlight(f)
         /\ InFlight(f) < RecvQDepth /\ InQ(f) < RecvQDepth
<1> DEFINE a == Len(flowControlQ[f])
           b == Occurs(wire[f], Controls)
           c == Budget(Peer(f))
           d == Occurs(wire[Peer(f)], Seconds)
<1>1. InFlight(f) = WindowSize * (a + b) + c + d /\ InFlight(f) + InQ(f) < RecvQDepth
  BY DEF Law, GrantsOut
<1>2. a \in Nat /\ b \in Nat /\ c \in Nat /\ d \in Nat /\ InFlight(f) \in Nat /\ InQ(f) \in Nat
  BY LawTypes, Sizes
<1> HIDE DEF a, b, c, d
<1>3. WindowSize * (a + b) = WindowSize * a + WindowSize * b
  BY <1>2, Sizes
<1>4. WindowSize * a \in Nat /\ WindowSize * b \in Nat /\ RecvQDepth \in Nat
  BY <1>2, Windows, Sizes
<1>5. /\ c + WindowSize * b < RecvQDepth /\ d <= InFlight(f)
      /\ InFlight(f) < RecvQDepth /\ InQ(f) < RecvQDepth
  BY <1>1, <1>2, <1>3, <1>4
<1> QED
  BY <1>1, <1>5 DEF a, b, c, d

(* The law holds after every step. *)
LEMMA LawStep ==
  ASSUME TypeOK, HalvesAlternate, \A f \in End : Law(f), [Next]_vars, NEW f \in End
  PROVE  Law(f)'
<1> DEFINE p == Peer(f)
<1>p. p \in End /\ p # f /\ Peer(p) = f
  BY Ends
<1>l. /\ InFlight(f) = WindowSize * (Len(flowControlQ[f]) + Occurs(wire[f], Controls))
                       + Budget(p) + Occurs(wire[p], Seconds)
      /\ InQ(f) = Len(recvBufferQ[f])
      /\ InFlight(f) + InQ(f) < RecvQDepth
  BY DEF Law, GrantsOut
<1>t. /\ Len(flowControlQ[f]) \in Nat /\ Len(recvBufferQ[f]) \in Nat
      /\ Occurs(wire[f], Controls) \in Nat /\ Occurs(wire[p], Seconds) \in Nat
      /\ Budget(p) \in Nat /\ InFlight(f) \in Nat /\ InQ(f) \in Nat
  BY LawTypes, Sizes
<1>r. /\ curSendBudgetUp \in Register /\ curSendBudgetDown \in Register
      /\ maxInFlightUp \in Register /\ maxInFlightDown \in Register
      /\ curInQUp \in Register /\ curInQDown \in Register
  BY TypeFacts
<1>same. ASSUME InFlight(f)' = InFlight(f), Budget(p)' = Budget(p), InQ(f)' = InQ(f),
                flowControlQ'[f] = flowControlQ[f], recvBufferQ'[f] = recvBufferQ[f],
                Occurs(wire'[f], Controls) = Occurs(wire[f], Controls),
                Occurs(wire'[p], Seconds) = Occurs(wire[p], Seconds)
         PROVE  Law(f)'
  BY <1>l, <1>same DEF Law, GrantsOut, Peer
<1> HIDE DEF p
<1>1. ASSUME NEW e \in End, NEW x \in Handed, Send(e, x)
      PROVE  Law(f)'
  BY <1>1, <1>same DEF Send, InFlight, Budget, InQ, grantVars, recvVars
<1>2. ASSUME NEW e \in End, EmitFlowControlPacket(e)
      PROVE  Law(f)'
  <2>1. /\ (InFlight(e) + InQ(e) + WindowSize) % RegMod < RecvQDepth
        /\ flowControlQ' = Enq(flowControlQ, e, WindowSize)
        /\ maxInFlightUp' = Plus(maxInFlightUp, e, WindowSize)
        /\ UNCHANGED <<maxInFlightDown, curSendBudgetUp, curSendBudgetDown, curInQUp, curInQDown,
                       wire, recvBufferQ>>
    BY <1>2 DEF EmitFlowControlPacket, WindowFits, sendVars, recvVars
  <2>2. InFlight(e) + InQ(e) + WindowSize < RecvQDepth /\ InFlight(e) + WindowSize < RegMod
    <3> DEFINE x == InFlight(e) + InQ(e) + WindowSize
    <3>1. InFlight(e) \in Nat /\ InQ(e) \in Nat /\ InFlight(e) + InQ(e) < RecvQDepth
      BY LawTypes DEF Law
    <3>2. x \in 0..(RegMod - 1) /\ x \in Int /\ InFlight(e) + WindowSize < RegMod
      BY <3>1, Sizes
    <3>3. x % RegMod < RecvQDepth
      BY <2>1
    <3> HIDE DEF x
    <3>4. x % RegMod = x
      BY <3>2, Sizes, OneWrap
    <3>5. x < RecvQDepth
      BY <3>3, <3>4
    <3> QED
      BY <3>2, <3>5 DEF x
  <2>3. InFlight(f)' = InFlight(f) + (IF f = e THEN WindowSize ELSE 0)
    <3>1. ((maxInFlightUp[e] - maxInFlightDown[e]) % RegMod) + WindowSize < RegMod
      BY <2>2 DEF InFlight
    <3>2. (Plus(maxInFlightUp, e, WindowSize)[f] - maxInFlightDown[f]) % RegMod
            = ((maxInFlightUp[f] - maxInFlightDown[f]) % RegMod) + (IF f = e THEN WindowSize ELSE 0)
      BY <1>r, <3>1, AdvanceUp
    <3> QED
      BY <2>1, <3>2 DEF InFlight
  <2>4. Len(flowControlQ'[f]) = IF f = e THEN Len(flowControlQ[f]) + 1 ELSE Len(flowControlQ[f])
    <3>1. flowControlQ \in FifoFamily(End, {WindowSize})
      BY TypeFacts
    <3> QED
      BY <2>1, <3>1, EnqLength
  <2>5. Budget(p)' = Budget(p) /\ InQ(f)' = InQ(f)
    BY <2>1 DEF Budget, InQ
  <2>6. CASE f = e
    <3> DEFINE a == Len(flowControlQ[f])
               b == Occurs(wire[f], Controls)
    <3>1. a \in Nat /\ b \in Nat /\ WindowSize * ((a + 1) + b) = WindowSize * (a + b) + WindowSize
      BY <1>t, Sizes
    <3>2. InFlight(f)' = WindowSize * ((a + 1) + b) + Budget(p) + Occurs(wire[p], Seconds)
      <4> DEFINE c == Budget(p)
                 d == Occurs(wire[p], Seconds)
      <4>1. InFlight(f)' = InFlight(f) + WindowSize
        BY <2>3, <2>6
      <4>2. InFlight(f) = WindowSize * (a + b) + c + d
        BY <1>l
      <4>3. c \in Nat /\ d \in Nat /\ a + b \in Nat
        BY <1>t, <3>1
      <4> HIDE DEF a, b, c, d
      <4>4. WindowSize * (a + b) \in Nat
        BY <4>3, Windows
      <4> DEFINE y == WindowSize * (a + b)
                 z == WindowSize * ((a + 1) + b)
      <4>5. z = y + WindowSize /\ y \in Nat /\ InFlight(f)' = (y + c + d) + WindowSize
        BY <3>1, <4>1, <4>2, <4>4
      <4> HIDE DEF y, z
      <4>6. InFlight(f)' = z + c + d
        BY <4>3, <4>5, Sizes
      <4> QED
        BY <4>6 DEF c, d, z
    <3>3. InFlight(f)' + InQ(f)' < RecvQDepth
      BY <1>t, <2>2, <2>3, <2>5, <2>6, Sizes
    <3> QED
      BY <1>l, <2>1, <2>4, <2>5, <2>6, <3>2, <3>3 DEF Law, GrantsOut, p, Peer
  <2>7. CASE f # e
    <3>1. flowControlQ'[f] = flowControlQ[f]
      BY <2>1, <2>7, TypeFacts DEF Enq, FifoFamily
    <3>2. InFlight(f)' = InFlight(f)
      BY <1>t, <2>3, <2>7
    <3> QED
      BY <1>same, <2>1, <2>5, <3>1, <3>2
  <2> QED
    BY <2>6, <2>7
<1>new. ASSUME InFlight(f)' = WindowSize * (Len(flowControlQ'[f]) + Occurs(wire'[f], Controls))
                              + Budget(p)' + Occurs(wire'[p], Seconds),
               InQ(f)' = Len(recvBufferQ'[f]),
               InFlight(f)' + InQ(f)' < RecvQDepth
        PROVE  Law(f)'
  BY <1>new DEF Law, GrantsOut, p, Peer
<1>3. ASSUME NEW e \in End, SendPacketPart(e), SendFlowControl(e)
      PROVE  Law(f)'
  <2>1. /\ flowControlQ[e] # <<>> /\ flowControlQ' = Deq(flowControlQ, e)
        /\ wire' = Enq(wire, e, Control(Head(flowControlQ[e])))
        /\ UNCHANGED <<maxInFlightUp, maxInFlightDown, curSendBudgetUp, curSendBudgetDown,
                       curInQUp, curInQDown, recvBufferQ>>
    BY <1>3 DEF SendPacketPart, SendFlowControl, sendVars, recvVars
  <2>2. flowControlQ \in FifoFamily(End, {WindowSize})
    BY TypeFacts
  <2>3. Head(flowControlQ[e]) = WindowSize
    BY <2>1, <2>2, DeqLemma
  <2>4. /\ Control(WindowSize) \in Word /\ Control(WindowSize).control = TRUE
        /\ Control(WindowSize).second = FALSE
    BY WordIntro DEF Control
  <2>5. /\ Occurs(wire'[f], Controls) = Occurs(wire[f], Controls) + (IF f = e THEN 1 ELSE 0)
        /\ Occurs(wire'[p], Seconds) = Occurs(wire[p], Seconds)
    <3>1. /\ Occurs(Enq(wire, e, Control(WindowSize))[f], Controls)
               = Occurs(wire[f], Controls)
                 + (IF f = e /\ Control(WindowSize).control THEN 1 ELSE 0)
          /\ Occurs(Enq(wire, e, Control(WindowSize))[p], Seconds)
               = Occurs(wire[p], Seconds)
                 + (IF p = e /\ Control(WindowSize).second THEN 1 ELSE 0)
      BY <1>p, <2>4, WirePut
    <3> QED
      BY <1>t, <2>1, <2>3, <2>4, <3>1
  <2>6. Len(flowControlQ'[f]) = Len(flowControlQ[f]) - (IF f = e THEN 1 ELSE 0)
    <3>1. Len(Deq(flowControlQ, e)[f]) = IF f = e THEN Len(flowControlQ[f]) - 1
                                                  ELSE Len(flowControlQ[f])
      BY <2>1, <2>2, DeqLength
    <3> QED
      BY <1>t, <2>1, <3>1
  <2>7. InFlight(f)' = InFlight(f) /\ Budget(p)' = Budget(p) /\ InQ(f)' = InQ(f)
    BY <2>1 DEF InFlight, Budget, InQ
  <2>8. Len(flowControlQ'[f]) + Occurs(wire'[f], Controls)
          = Len(flowControlQ[f]) + Occurs(wire[f], Controls)
    <3> DEFINE a == Len(flowControlQ[f])
               b == Occurs(wire[f], Controls)
               k == IF f = e THEN 1 ELSE 0
    <3>1. a \in Nat /\ b \in Nat /\ k \in Int
      BY <1>t
    <3>2. Len(flowControlQ'[f]) = a - k /\ Occurs(wire'[f], Controls) = b + k
      BY <2>5, <2>6
    <3> HIDE DEF a, b, k
    <3>3. (a - k) + (b + k) = a + b
      BY <3>1
    <3> QED
      BY <3>2, <3>3 DEF a, b
  <2> QED
    BY <1>l, <1>new, <2>1, <2>5, <2>7, <2>8
<1>4. ASSUME NEW e \in End, SendPacketPart(e), SendSecondHalf(e)
      PROVE  Law(f)'
  <2> DEFINE x == Second(Head(packetSendBuffer[e]))
  <2>1. /\ Budget(e) > 0 /\ IsValid(packetSendBuffer[e])
        /\ wire' = Enq(wire, e, x)
        /\ curSendBudgetDown' = Plus(curSendBudgetDown, e, 1)
        /\ UNCHANGED <<maxInFlightUp, maxInFlightDown, curSendBudgetUp, flowControlQ,
                       curInQUp, curInQDown, recvBufferQ>>
    BY <1>4 DEF SendPacketPart, SendSecondHalf, MaySendData, grantVars, recvVars
  <2>2. x \in Word /\ x.control = FALSE /\ x.second = TRUE
    <3>1. Head(packetSendBuffer[e]) \in Body
      BY <2>1, BuffersAt, MaybeShape
    <3> QED
      BY <3>1, WordIntro DEF Second
  <2> HIDE DEF x
  <2>3. /\ Occurs(wire'[f], Controls) = Occurs(wire[f], Controls)
        /\ Occurs(wire'[p], Seconds) = Occurs(wire[p], Seconds) + (IF p = e THEN 1 ELSE 0)
    <3>1. /\ Occurs(Enq(wire, e, x)[f], Controls)
               = Occurs(wire[f], Controls) + (IF f = e /\ x.control THEN 1 ELSE 0)
          /\ Occurs(Enq(wire, e, x)[p], Seconds)
               = Occurs(wire[p], Seconds) + (IF p = e /\ x.second THEN 1 ELSE 0)
      BY <1>p, <2>2, WirePut
    <3> QED
      BY <1>t, <2>1, <2>2, <3>1
  <2>4. Budget(p)' = Budget(p) - (IF p = e THEN 1 ELSE 0)
    <3>1. (curSendBudgetUp[e] - curSendBudgetDown[e]) % RegMod > 0
      BY <2>1 DEF Budget
    <3>2. (curSendBudgetUp[p] - Plus(curSendBudgetDown, e, 1)[p]) % RegMod
            = ((curSendBudgetUp[p] - curSendBudgetDown[p]) % RegMod) - (IF p = e THEN 1 ELSE 0)
      BY <1>p, <1>r, <3>1, AdvanceDown
    <3> QED
      BY <2>1, <3>2 DEF Budget
  <2>5. Budget(p)' + Occurs(wire'[p], Seconds) = Budget(p) + Occurs(wire[p], Seconds)
    BY <1>t, <2>3, <2>4
  <2>6. InFlight(f)' = InFlight(f) /\ InQ(f)' = InQ(f)
    BY <2>1 DEF InFlight, InQ
  <2>7. InFlight(f) = WindowSize * (Len(flowControlQ'[f]) + Occurs(wire'[f], Controls))
                      + Budget(p)' + Occurs(wire'[p], Seconds)
    <3> DEFINE a == WindowSize * (Len(flowControlQ'[f]) + Occurs(wire'[f], Controls))
               c == Budget(p)'
               d == Occurs(wire'[p], Seconds)
    <3>1. InFlight(f) = a + Budget(p) + Occurs(wire[p], Seconds)
      BY <1>l, <2>1, <2>3
    <3>2. c + d = Budget(p) + Occurs(wire[p], Seconds)
      BY <2>5
    <3>3. a \in Nat
      <4>1. a = WindowSize * (Len(flowControlQ[f]) + Occurs(wire[f], Controls))
        BY <2>1, <2>3
      <4>2. Len(flowControlQ[f]) + Occurs(wire[f], Controls) \in Nat
        BY <1>t
      <4> QED
        BY <4>1, <4>2, Windows
    <3>4. c \in Int /\ d \in Int
      BY <1>t, <2>3, <2>4
    <3> HIDE DEF a, c, d
    <3>5. InFlight(f) = a + c + d
      BY <1>t, <3>1, <3>2, <3>3, <3>4
    <3> QED
      BY <3>5 DEF a, c, d
  <2> QED
    BY <1>l, <1>new, <2>1, <2>6, <2>7
<1>5. ASSUME NEW e \in End, SendPacketPart(e), SendFirstHalf(e)
      PROVE  Law(f)'
  <2> DEFINE x == First(Head(sendQ[e])[1])
  <2>1. /\ sendQ[e] # <<>> /\ wire' = Enq(wire, e, x)
        /\ UNCHANGED <<maxInFlightUp, maxInFlightDown, curSendBudgetUp, curSendBudgetDown,
                       flowControlQ, curInQUp, curInQDown, recvBufferQ>>
    BY <1>5 DEF SendPacketPart, SendFirstHalf, grantVars, recvVars
  <2>2. x \in Word /\ x.control = FALSE /\ x.second = FALSE
    <3>1. sendQ \in FifoFamily(End, AuroraIfc)
      BY TypeFacts
    <3>2. Head(sendQ[e]) \in AuroraIfc
      BY <2>1, <3>1, DeqLemma
    <3>3. Head(sendQ[e])[1] \in Body
      BY <3>2 DEF AuroraIfc
    <3> QED
      BY <3>3, WordIntro DEF First
  <2> HIDE DEF x
  <2>3. /\ Occurs(wire'[f], Controls) = Occurs(wire[f], Controls)
        /\ Occurs(wire'[p], Seconds) = Occurs(wire[p], Seconds)
    <3>1. /\ Occurs(Enq(wire, e, x)[f], Controls)
               = Occurs(wire[f], Controls) + (IF f = e /\ x.control THEN 1 ELSE 0)
          /\ Occurs(Enq(wire, e, x)[p], Seconds)
               = Occurs(wire[p], Seconds) + (IF p = e /\ x.second THEN 1 ELSE 0)
      BY <1>p, <2>2, WirePut
    <3> QED
      BY <1>t, <2>1, <2>2, <3>1
  <2>4. InFlight(f)' = InFlight(f) /\ Budget(p)' = Budget(p) /\ InQ(f)' = InQ(f)
    BY <2>1 DEF InFlight, Budget, InQ
  <2> QED
    BY <1>same, <2>1, <2>3, <2>4
<1>6. ASSUME NEW e \in End, RecvPacketPart(e)
      PROVE  Law(f)'
  <2> DEFINE q == Peer(e)
             w == Head(wire[q])
  <2>1. /\ wire[q] # <<>> /\ wire' = Deq(wire, q)
        /\ RecvControl(e, w) \/ RecvComplete(e, w) \/ RecvIncomplete(e, w)
        /\ UNCHANGED <<curSendBudgetDown, flowControlQ, maxInFlightUp, curInQDown>>
    BY <1>6 DEF RecvPacketPart, sendVars, grantVars
  <2>2. q \in End /\ Peer(q) = e /\ (p = q <=> f = e) /\ (f = q <=> p = e)
    BY Ends, <1>p DEF p, End, Peer
  <2> HIDE DEF q
  <2>3. /\ w \in Word
        /\ Occurs(wire'[f], Controls) \in Nat /\ Occurs(wire'[p], Seconds) \in Nat
        /\ Occurs(wire[f], Controls)
             = Occurs(wire'[f], Controls) + (IF p = e /\ w.control THEN 1 ELSE 0)
        /\ Occurs(wire[p], Seconds)
             = Occurs(wire'[p], Seconds) + (IF f = e /\ w.second THEN 1 ELSE 0)
    <3>1. /\ w \in Word
          /\ \A g \in End :
               /\ Occurs(Deq(wire, q)[g], Controls) \in Nat
               /\ Occurs(Deq(wire, q)[g], Seconds) \in Nat
               /\ Occurs(wire[g], Controls)
                    = Occurs(Deq(wire, q)[g], Controls) + (IF g = q /\ w.control THEN 1 ELSE 0)
               /\ Occurs(wire[g], Seconds)
                    = Occurs(Deq(wire, q)[g], Seconds) + (IF g = q /\ w.second THEN 1 ELSE 0)
      BY <2>1, <2>2, WireTake
    <3> HIDE DEF w
    <3> QED
      BY <1>p, <2>1, <2>2, <3>1
  <2>4. /\ w.control => ~w.second /\ w.body = WindowSize
        /\ w.control \in BOOLEAN /\ w.second \in BOOLEAN
    BY <2>3, WordShape
  <2>5. w.second => IsValid(packetRecvBuffer[e])
    <3>1. CASE w.control
      BY <2>4, <3>1
    <3>2. CASE ~w.control
      <4>1. /\ wire[q] \in Seq(Word) /\ IsValid(packetRecvBuffer[e]) \in BOOLEAN
            /\ IsValid(packetSendBuffer[q]) \in BOOLEAN
        BY <2>2, WireAt, BuffersAt
      <4>2. Alternates(wire[q], IsValid(packetRecvBuffer[e]), IsValid(packetSendBuffer[q]))
        BY <2>2 DEF HalvesAlternate, HalvesOf
      <4>3. Head(wire[q]).second <=> IsValid(packetRecvBuffer[e])
        BY <2>1, <3>2, <4>1, <4>2, AlternatesTailData
      <4> QED
        BY <4>3
    <3> QED
      BY <3>1, <3>2
  <2> HIDE DEF w
  <2>6. CASE RecvControl(e, w)
    <3>1. /\ w.control /\ curSendBudgetUp' = Plus(curSendBudgetUp, e, WindowSize)
          /\ UNCHANGED <<maxInFlightDown, curInQUp, recvBufferQ>>
      BY <2>4, <2>6 DEF RecvControl, recvVars
    <3>2. InFlight(f)' = InFlight(f) /\ InQ(f)' = InQ(f)
      BY <2>1, <3>1 DEF InFlight, InQ
    <3>3. Occurs(wire'[p], Seconds) = Occurs(wire[p], Seconds)
      BY <2>3, <2>4, <3>1
    <3>4. Budget(p)' = Budget(p) + (IF p = e THEN WindowSize ELSE 0)
      <4>1. Budget(e) + WindowSize < RegMod
        <5> DEFINE b == Occurs(wire[q], Controls)
        <5>1. Budget(e) + WindowSize * b < RecvQDepth
          BY <2>2, LawBefore
        <5>2. b > 0 /\ b \in Nat
          <6>1. Occurs(Deq(wire, q)[q], Controls) \in Nat
                /\ b = Occurs(Deq(wire, q)[q], Controls) + 1
            BY <2>1, <2>2, <3>1, WireTake DEF w
          <6> QED
            BY <6>1
        <5>3. Budget(e) \in Nat
          BY LawTypes, Sizes
        <5> HIDE DEF b
        <5>4. WindowSize * b >= WindowSize /\ WindowSize * b \in Nat
          BY <5>2, Windows
        <5> QED
          BY <5>1, <5>3, <5>4, Sizes
      <4>2. ((curSendBudgetUp[e] - curSendBudgetDown[e]) % RegMod) + WindowSize < RegMod
        BY <4>1 DEF Budget
      <4>3. (Plus(curSendBudgetUp, e, WindowSize)[p] - curSendBudgetDown[p]) % RegMod
              = ((curSendBudgetUp[p] - curSendBudgetDown[p]) % RegMod)
                + (IF p = e THEN WindowSize ELSE 0)
        BY <1>p, <1>r, <4>2, AdvanceUp
      <4> QED
        BY <2>1, <3>1, <4>3 DEF Budget
    <3>5. CASE p = e
      <4> DEFINE a == Len(flowControlQ[f])
                 b == Occurs(wire'[f], Controls)
                 c == Budget(p)
                 d == Occurs(wire[p], Seconds)
      <4>1. a \in Nat /\ b \in Nat /\ c \in Nat /\ d \in Nat /\ InFlight(f) \in Nat
        BY <1>t, <2>3
      <4>2. InFlight(f) = WindowSize * (a + (b + 1)) + c + d
        BY <1>l, <2>3, <3>1, <3>5
      <4>3. Budget(p)' = c + WindowSize
        BY <3>4, <3>5
      <4> HIDE DEF a, b, c, d
      <4>4. WindowSize * (a + (b + 1)) = WindowSize * (a + b) + WindowSize
        BY <4>1, Sizes
      <4>5. WindowSize * (a + b) \in Nat
        BY <4>1, Windows
      <4>6. InFlight(f) = WindowSize * (a + b) + (c + WindowSize) + d
        BY <4>1, <4>2, <4>4, <4>5, Sizes
      <4>7. InFlight(f)' = WindowSize * (Len(flowControlQ'[f]) + Occurs(wire'[f], Controls))
                           + Budget(p)' + Occurs(wire'[p], Seconds)
        BY <2>1, <3>2, <3>3, <4>3, <4>6 DEF a, b, c, d
      <4> QED
        BY <1>l, <1>new, <3>1, <3>2, <4>7
    <3>6. CASE p # e
      <4>1. Occurs(wire'[f], Controls) = Occurs(wire[f], Controls) /\ Budget(p)' = Budget(p)
        BY <1>t, <2>3, <3>4, <3>6
      <4> QED
        BY <1>same, <2>1, <3>1, <3>2, <3>3, <4>1
    <3> QED
      BY <3>5, <3>6
  <2>7. CASE RecvComplete(e, w)
    <3> DEFINE x == <<Head(packetRecvBuffer[e]), w.body>>
    <3>1. /\ ~w.control /\ w.second /\ IsValid(packetRecvBuffer[e])
          /\ recvBufferQ' = Enq(recvBufferQ, e, x)
          /\ maxInFlightDown' = Plus(maxInFlightDown, e, 1)
          /\ curInQUp' = Plus(curInQUp, e, 1)
          /\ UNCHANGED curSendBudgetUp
      BY <2>7 DEF RecvComplete, Completes
    <3>2. x \in AuroraIfc
      <4>1. w.body \in Body
        BY <2>3, <3>1, WordShape
      <4>2. Head(packetRecvBuffer[e]) \in Body
        BY <3>1, BuffersAt, MaybeShape
      <4> QED
        BY <4>1, <4>2 DEF AuroraIfc
    <3>3. Len(recvBufferQ'[f]) = Len(recvBufferQ[f]) + (IF f = e THEN 1 ELSE 0)
      <4>1. recvBufferQ \in FifoFamily(End, AuroraIfc)
        BY TypeFacts
      <4> HIDE DEF x
      <4>2. Len(Enq(recvBufferQ, e, x)[f]) = IF f = e THEN Len(recvBufferQ[f]) + 1
                                                     ELSE Len(recvBufferQ[f])
        BY <3>2, <4>1, EnqLength
      <4>3. recvBufferQ' = Enq(recvBufferQ, e, x)
        BY <3>1
      <4>4. CASE f = e
        BY <4>2, <4>3, <4>4
      <4>5. CASE f # e
        BY <1>t, <4>2, <4>3, <4>5
      <4> QED
        BY <4>4, <4>5
    <3> HIDE DEF x
    <3>4. /\ InFlight(e) > 0 /\ InFlight(e) \in Nat /\ InQ(e) \in Nat
          /\ InFlight(e) + InQ(e) < RecvQDepth
      <4>1. Occurs(wire[q], Seconds) <= InFlight(e)
        BY LawBefore DEF q
      <4>2. Occurs(Deq(wire, q)[q], Seconds) \in Nat
            /\ Occurs(wire[q], Seconds) = Occurs(Deq(wire, q)[q], Seconds) + 1
        BY <2>1, <2>2, <3>1, WireTake DEF w
      <4>3. InFlight(e) \in Nat /\ InQ(e) \in Nat
        BY LawTypes, Sizes
      <4>4. InFlight(e) + InQ(e) < RecvQDepth
        BY DEF Law
      <4> QED
        BY <4>1, <4>2, <4>3, <4>4
    <3>5. InFlight(f)' = InFlight(f) - (IF f = e THEN 1 ELSE 0)
      <4>1. (maxInFlightUp[e] - maxInFlightDown[e]) % RegMod > 0
        BY <3>4 DEF InFlight
      <4>2. (maxInFlightUp[f] - Plus(maxInFlightDown, e, 1)[f]) % RegMod
              = ((maxInFlightUp[f] - maxInFlightDown[f]) % RegMod) - (IF f = e THEN 1 ELSE 0)
        BY <1>r, <4>1, AdvanceDown
      <4> QED
        BY <2>1, <3>1, <4>2 DEF InFlight
    <3>6. InQ(f)' = InQ(f) + (IF f = e THEN 1 ELSE 0)
      <4>1. InQ(e) + 1 < RegMod
        BY <3>4, Sizes
      <4>2. ((curInQUp[e] - curInQDown[e]) % RegMod) + 1 < RegMod
        BY <4>1 DEF InQ
      <4>3. (Plus(curInQUp, e, 1)[f] - curInQDown[f]) % RegMod
              = ((curInQUp[f] - curInQDown[f]) % RegMod) + (IF f = e THEN 1 ELSE 0)
        BY <1>r, <4>2, AdvanceUp
      <4> QED
        BY <2>1, <3>1, <4>3 DEF InQ
    <3>7. Budget(p)' = Budget(p)
      BY <2>1, <3>1 DEF Budget
    <3>8. Occurs(wire'[f], Controls) = Occurs(wire[f], Controls)
      BY <2>3, <3>1
    <3>9. Occurs(wire'[p], Seconds) = Occurs(wire[p], Seconds) - (IF f = e THEN 1 ELSE 0)
      BY <1>t, <2>3, <3>1
    <3>10. InFlight(f)' = WindowSize * (Len(flowControlQ'[f]) + Occurs(wire'[f], Controls))
                          + Budget(p)' + Occurs(wire'[p], Seconds)
      <4> DEFINE a == WindowSize * (Len(flowControlQ'[f]) + Occurs(wire'[f], Controls))
                 k == IF f = e THEN 1 ELSE 0
      <4>1. a \in Nat
        <5>1. a = WindowSize * (Len(flowControlQ[f]) + Occurs(wire[f], Controls))
          BY <2>1, <3>8
        <5>2. Len(flowControlQ[f]) + Occurs(wire[f], Controls) \in Nat
          BY <1>t
        <5> QED
          BY <5>1, <5>2, Windows
      <4>2. InFlight(f) = a + Budget(p) + Occurs(wire[p], Seconds)
        BY <1>l, <2>1, <3>8
      <4>3. k \in Int /\ InFlight(f)' = InFlight(f) - k
            /\ Occurs(wire'[p], Seconds) = Occurs(wire[p], Seconds) - k
        BY <3>5, <3>9
      <4> HIDE DEF a, k
      <4>4. InFlight(f)' = a + Budget(p)' + Occurs(wire'[p], Seconds)
        BY <1>t, <3>7, <4>1, <4>2, <4>3
      <4> QED
        BY <4>4 DEF a
    <3>11. InQ(f)' = Len(recvBufferQ'[f])
      BY <1>l, <3>3, <3>6
    <3>12. InFlight(f)' + InQ(f)' = InFlight(f) + InQ(f)
      <4> DEFINE k == IF f = e THEN 1 ELSE 0
      <4>1. k \in Int /\ InFlight(f)' = InFlight(f) - k /\ InQ(f)' = InQ(f) + k
        BY <3>5, <3>6
      <4> HIDE DEF k
      <4> QED
        BY <1>t, <4>1
    <3> QED
      BY <1>l, <1>new, <3>10, <3>11, <3>12
  <2>8. CASE RecvIncomplete(e, w)
    <3>1. /\ ~w.control /\ ~w.second
          /\ UNCHANGED <<maxInFlightDown, curInQUp, recvBufferQ, curSendBudgetUp>>
      BY <2>4, <2>5, <2>8 DEF RecvIncomplete, Completes
    <3>2. InFlight(f)' = InFlight(f) /\ Budget(p)' = Budget(p) /\ InQ(f)' = InQ(f)
      BY <2>1, <3>1 DEF InFlight, Budget, InQ
    <3>3. /\ Occurs(wire'[f], Controls) = Occurs(wire[f], Controls)
          /\ Occurs(wire'[p], Seconds) = Occurs(wire[p], Seconds)
      BY <2>3, <3>1
    <3> QED
      BY <1>same, <2>1, <3>1, <3>2, <3>3
  <2> QED
    BY <2>1, <2>6, <2>7, <2>8
<1>7. ASSUME NEW e \in End, FlushReadBuffer(e)
      PROVE  Law(f)'
  <2>1. /\ recvBufferQ[e] # <<>> /\ recvBufferQ' = Deq(recvBufferQ, e)
        /\ curInQDown' = Plus(curInQDown, e, 1)
        /\ UNCHANGED <<curSendBudgetUp, curSendBudgetDown, maxInFlightUp, maxInFlightDown,
                       curInQUp, flowControlQ, wire>>
    BY <1>7 DEF FlushReadBuffer, sendVars, grantVars, recvVars
  <2>2. /\ Len(recvBufferQ[e]) > 0
        /\ Len(recvBufferQ'[f]) = Len(recvBufferQ[f]) - (IF f = e THEN 1 ELSE 0)
    <3>1. recvBufferQ \in FifoFamily(End, AuroraIfc)
      BY TypeFacts
    <3>2. /\ Len(recvBufferQ[e]) > 0
          /\ Len(Deq(recvBufferQ, e)[f]) = IF f = e THEN Len(recvBufferQ[f]) - 1
                                                    ELSE Len(recvBufferQ[f])
      BY <2>1, <3>1, DeqLength
    <3> QED
      BY <1>t, <2>1, <3>2
  <2>3. InQ(f)' = InQ(f) - (IF f = e THEN 1 ELSE 0)
    <3>1. (curInQUp[e] - curInQDown[e]) % RegMod > 0
      BY <2>2 DEF Law, InQ
    <3>2. (curInQUp[f] - Plus(curInQDown, e, 1)[f]) % RegMod
            = ((curInQUp[f] - curInQDown[f]) % RegMod) - (IF f = e THEN 1 ELSE 0)
      BY <1>r, <3>1, AdvanceDown
    <3> QED
      BY <2>1, <3>2 DEF InQ
  <2>4. InFlight(f)' = InFlight(f) /\ Budget(p)' = Budget(p)
    BY <2>1 DEF InFlight, Budget
  <2>5. InQ(f)' = Len(recvBufferQ'[f])
    BY <1>l, <2>2, <2>3
  <2>6. InFlight(f)' + InQ(f)' < RecvQDepth
    <3> DEFINE k == IF f = e THEN 1 ELSE 0
    <3>1. k \in Nat /\ InFlight(f)' = InFlight(f) /\ InQ(f)' = InQ(f) - k
      BY <2>3, <2>4
    <3> HIDE DEF k
    <3>2. InFlight(f) + (InQ(f) - k) < RecvQDepth
      BY <1>l, <1>t, <3>1, Sizes
    <3> QED
      BY <3>1, <3>2
  <2> QED
    BY <1>l, <1>new, <2>1, <2>4, <2>5, <2>6
<1>8. ASSUME NEW e \in End, Receive(e)
      PROVE  Law(f)'
  BY <1>8, <1>same DEF Receive, InFlight, Budget, InQ, sendVars, grantVars, recvVars
<1>9. CASE UNCHANGED vars
  BY <1>9, <1>same DEF vars, InFlight, Budget, InQ, sendVars, grantVars, recvVars
<1>10. ASSUME NEW e \in End, SendPacketPart(e)
       PROVE  Law(f)'
  BY <1>3, <1>4, <1>5, <1>10 DEF SendPacketPart
<1> QED
  BY <1>1, <1>2, <1>6, <1>7, <1>8, <1>9, <1>10 DEF Next
-----------------------------------------------------------------------------
(* Nothing is under way to begin with. *)
LEMMA InitLaw == Init => TypeOK /\ HalvesAlternate /\ LinkConserved
<1> SUFFICES ASSUME Init PROVE TypeOK /\ HalvesAlternate /\ LinkConserved
  OBVIOUS
<1>i. /\ sendQ = [e \in End |-> <<>>] /\ wire = [e \in End |-> <<>>]
      /\ flowControlQ = [e \in End |-> <<>>] /\ recvBufferQ = [e \in End |-> <<>>]
      /\ recvQ = [e \in End |-> <<>>]
      /\ packetSendBuffer = [e \in End |-> Invalid] /\ packetRecvBuffer = [e \in End |-> Invalid]
      /\ curSendBudgetUp = [e \in End |-> 0] /\ curSendBudgetDown = [e \in End |-> 0]
      /\ maxInFlightUp = [e \in End |-> 0] /\ maxInFlightDown = [e \in End |-> 0]
      /\ curInQUp = [e \in End |-> 0] /\ curInQDown = [e \in End |-> 0]
  BY DEF Init
<1>1. TypeOK
  <2>1. \A T : [e \in End |-> <<>>] \in FifoFamily(End, T)
    BY DEF FifoFamily
  <2>2. [e \in End |-> Invalid] \in [End -> MaybeBody]
    BY DEF MaybeBody
  <2>3. [e \in End |-> 0] \in Register
    BY Sizes DEF Register
  <2> QED
    BY <1>i, <2>1, <2>2, <2>3, TypeFacts
<1>2. HalvesAlternate
  <2> SUFFICES ASSUME NEW p \in End PROVE HalvesOf(p)
    BY DEF HalvesAlternate
  <2>1. wire[p] = <<>> /\ packetSendBuffer[p] = Invalid /\ packetRecvBuffer[Peer(p)] = Invalid
    BY <1>i, Ends
  <2>2. ~IsValid(Invalid)
    BY DEF IsValid
  <2>3. Alternates(<<>>, FALSE, FALSE)
    <3>1. Len(<<>>) = 0
      OBVIOUS
    <3>2. IsSecond(<<>>, FALSE, FALSE, 0) <=> ~IsSecond(<<>>, FALSE, FALSE, 1)
      BY <3>1 DEF IsSecond
    <3>3. ASSUME NEW i \in 0..(Len(<<>>) + 1), NEW j \in 0..(Len(<<>>) + 1),
                 Adjacent(<<>>, i, j)
          PROVE  IsSecond(<<>>, FALSE, FALSE, i) <=> ~IsSecond(<<>>, FALSE, FALSE, j)
      <4>1. i < j
        BY <3>3 DEF Adjacent
      <4>2. i = 0 /\ j = 1
        BY <3>1, <4>1
      <4> QED
        BY <3>2, <4>2
    <3> QED
      BY <3>3 DEF Alternates
  <2>4. IsValid(Invalid) = FALSE
    BY DEF IsValid
  <2> QED
    BY <2>1, <2>3, <2>4 DEF HalvesOf
<1>3. LinkConserved
  <2> SUFFICES ASSUME NEW f \in End
               PROVE  /\ InFlight(f) = GrantsOut(f)
                      /\ InQ(f) = Len(recvBufferQ[f])
                      /\ InFlight(f) + InQ(f) < RecvQDepth
    BY DEF LinkConserved
  <2>1. Peer(f) \in End
    BY Ends
  <2>2. (0 - 0) % RegMod = 0
    BY Sizes
  <2>3. InFlight(f) = 0 /\ InQ(f) = 0 /\ Budget(Peer(f)) = 0
    BY <1>i, <2>1, <2>2 DEF InFlight, InQ, Budget
  <2>4. Occurs(wire[f], Controls) = 0 /\ Occurs(wire[Peer(f)], Seconds) = 0
    BY <1>i, <2>1, OccursEmpty
  <2>5. Len(flowControlQ[f]) = 0 /\ Len(recvBufferQ[f]) = 0
    BY <1>i
  <2> QED
    BY <2>3, <2>4, <2>5, Sizes DEF GrantsOut
<1> QED
  BY <1>1, <1>2, <1>3

(* The inductive invariant: the credits balance because every second half  *)
(* completes an item, which is what the alternation says.                  *)
IInv == TypeOK /\ HalvesAlternate /\ LinkConserved

LEMMA IInvStep == IInv /\ [Next]_vars => IInv'
<1> SUFFICES ASSUME TypeOK, HalvesAlternate, LinkConserved, [Next]_vars
             PROVE  TypeOK' /\ HalvesAlternate' /\ LinkConserved'
  BY DEF IInv
<1>1. \A f \in End : Law(f)
  BY DEF LinkConserved, Law
<1>2. \A f \in End : Law(f)'
  BY <1>1, LawStep
<1>3. LinkConserved'
  BY <1>2 DEF LinkConserved, Law
<1> QED
  BY <1>3, TypeStep, HalvesStep

LEMMA IInvHolds == Spec => []IInv
<1>1. Init => IInv
  BY InitLaw DEF IInv
<1> QED
  BY <1>1, IInvStep, PTL DEF Spec
-----------------------------------------------------------------------------
(* The registers of both ends never leave their width, and every FIFO holds *)
(* only what its declaration says.                                         *)
THEOREM LinkTypeCorrect == Spec => []TypeOK
<1>1. IInv => TypeOK
  BY DEF IInv
<1> QED
  BY <1>1, IInvHolds, PTL

(* The counters of the receiver tell at all times how many of its credits   *)
(* exist in the whole system, and never promise more than recvBufferQ holds.*)
THEOREM LinkConservation == Spec => []LinkConserved
<1>1. IInv => LinkConserved
  BY DEF IInv
<1> QED
  BY <1>1, IInvHolds, PTL

(* The word that completes an item always finds room: recvPacketPart never  *)
(* holds up a link that cannot be held up.                                 *)
THEOREM LinkFree == Spec => []LinkNeverOverruns
<1>1. IInv => LinkNeverOverruns
  <2> SUFFICES ASSUME TypeOK, LinkConserved, NEW e \in End PROVE RecvBufferReady(e)
    BY DEF IInv, LinkNeverOverruns
  <2>1. InQ(e) = Len(recvBufferQ[e]) /\ InFlight(e) + InQ(e) < RecvQDepth
    BY DEF LinkConserved
  <2>2. InFlight(e) \in Nat /\ InQ(e) \in Nat
    BY LawTypes, Sizes
  <2> QED
    BY <2>1, <2>2, Sizes DEF RecvBufferReady
<1> QED
  BY <1>1, IInvHolds, PTL

(* The first data word on a wire is a second half exactly when recvPacketPart *)
(* keeps a first: the halves alternate.                                     *)
LEMMA NoneDropped == IInv => NoHalfDropped
<1> SUFFICES ASSUME TypeOK, HalvesAlternate, NEW e \in End, wire[Peer(e)] # <<>>,
                    ~Head(wire[Peer(e)]).control
             PROVE  Head(wire[Peer(e)]).second <=> IsValid(packetRecvBuffer[e])
  BY DEF IInv, NoHalfDropped
<1> DEFINE q == Peer(e)
<1>1. q \in End /\ Peer(q) = e
  BY Ends
<1>2. /\ wire[q] \in Seq(Word) /\ IsValid(packetRecvBuffer[e]) \in BOOLEAN
      /\ IsValid(packetSendBuffer[q]) \in BOOLEAN
  BY <1>1, WireAt, BuffersAt
<1>3. Alternates(wire[q], IsValid(packetRecvBuffer[e]), IsValid(packetSendBuffer[q]))
  BY <1>1 DEF HalvesAlternate, HalvesOf
<1> QED
  BY <1>2, <1>3, AlternatesTailData

(* No half of an item is dropped: recvPacketPart never meets a second half *)
(* alone, nor a first half while it keeps another.                         *)
THEOREM LinkHalves == Spec => []NoHalfDropped
BY NoneDropped, IInvHolds, PTL

-------------------------------------------------------------------------------

(* The items whose halves a sequence has in turn. *)
Paired(h) == [i \in 1..(Len(h) \div 2) |-> <<h[2 * i - 1], h[2 * i]>>]
(* A number of halves that makes whole items. *)
Even(h) == \E n \in Nat : Len(h) = 2 * n

(* The items are as many as half the halves, each a first and a second. *)
LEMMA PairedShape ==
  ASSUME NEW h \in Seq(Body), NEW n \in Nat, Len(h) = 2 * n
  PROVE  /\ Paired(h) \in Seq(AuroraIfc) /\ Len(Paired(h)) = n
         /\ \A i \in 1..n : Paired(h)[i] = <<h[2 * i - 1], h[2 * i]>>
<1>1. Len(h) \div 2 = n
  OBVIOUS
<1>2. PICK p : p = Paired(h)
  OBVIOUS
<1>3. p = [i \in 1..n |-> <<h[2 * i - 1], h[2 * i]>>]
  BY <1>1, <1>2 DEF Paired
<1>4. ASSUME NEW i \in 1..n
      PROVE  <<h[2 * i - 1], h[2 * i]>> \in AuroraIfc
  <2>1. 2 * i - 1 \in 1..Len(h) /\ 2 * i \in 1..Len(h)
    OBVIOUS
  <2>2. h[2 * i - 1] \in Body /\ h[2 * i] \in Body
    BY <2>1, ElementOfSeq
  <2> QED
    BY <2>2 DEF AuroraIfc
<1>5. p \in Seq(AuroraIfc) /\ Len(p) = n
  BY <1>3, <1>4
<1> QED
  BY <1>2, <1>3, <1>5

(* A whole item behind whole items, and in front of them. *)
LEMMA PairedBehind ==
  ASSUME NEW h \in Seq(Body), Even(h), NEW a \in Body, NEW b \in Body,
         NEW g \in Seq(Body), Grown(g, h, a), NEW k \in Seq(Body), Grown(k, g, b)
  PROVE  Even(k) /\ Grown(Paired(k), Paired(h), <<a, b>>)
<1>1. PICK n \in Nat : Len(h) = 2 * n
  BY DEF Even
<1>2. Len(g) = 2 * n + 1 /\ g[2 * n + 1] = a /\ \A i \in 1..(2 * n) : g[i] = h[i]
  BY <1>1, AppendProperties DEF Grown
<1>3. Len(k) = 2 * n + 2 /\ k[2 * n + 2] = b /\ \A i \in 1..(2 * n + 1) : k[i] = g[i]
  BY <1>2, AppendProperties DEF Grown
<1>4. Len(k) = 2 * (n + 1) /\ n + 1 \in Nat
  BY <1>3
<1>5. PICK p, q, x : p = Paired(h) /\ q = Paired(k) /\ x = <<a, b>>
  OBVIOUS
<1>6. p \in Seq(AuroraIfc) /\ Len(p) = n /\ \A i \in 1..n : p[i] = <<h[2 * i - 1], h[2 * i]>>
  BY <1>1, <1>5, PairedShape
<1>7. q \in Seq(AuroraIfc) /\ Len(q) = n + 1 /\ \A i \in 1..(n + 1) : q[i] = <<k[2 * i - 1], k[2 * i]>>
  BY <1>4, <1>5, PairedShape
<1>8. x \in AuroraIfc
  BY <1>5 DEF AuroraIfc
<1>9. PICK r : r = Append(p, x)
  OBVIOUS
<1>10. r \in Seq(AuroraIfc) /\ Len(r) = n + 1 /\ r[n + 1] = x /\ \A i \in 1..n : r[i] = p[i]
  BY <1>6, <1>8, <1>9, AppendProperties
<1>11. ASSUME NEW i \in 1..(n + 1)
       PROVE  q[i] = r[i]
  <2>1. CASE i = n + 1
    <3>1. 2 * i - 1 = 2 * n + 1 /\ 2 * i = 2 * n + 2 /\ 2 * n + 1 \in 1..(2 * n + 1)
      BY <2>1
    <3>2. k[2 * i - 1] = a /\ k[2 * i] = b
      BY <1>2, <1>3, <3>1
    <3> QED
      BY <1>5, <1>7, <1>10, <2>1, <3>2
  <2>2. CASE i # n + 1
    <3>1. i \in 1..n
      BY <2>2
    <3>2. /\ 2 * i - 1 \in 1..(2 * n) /\ 2 * i \in 1..(2 * n)
          /\ 2 * i - 1 \in 1..(2 * n + 1) /\ 2 * i \in 1..(2 * n + 1)
      BY <3>1
    <3>3. k[2 * i - 1] = h[2 * i - 1] /\ k[2 * i] = h[2 * i]
      BY <1>2, <1>3, <3>2
    <3> QED
      BY <1>6, <1>7, <1>10, <3>1, <3>3
  <2> QED
    BY <2>1, <2>2
<1>12. q = r
  BY <1>7, <1>10, <1>11, SeqEqual
<1> QED
  BY <1>4, <1>5, <1>9, <1>12 DEF Even, Grown

(* The two oldest halves are the oldest item. *)
LEMMA PairedLed ==
  ASSUME NEW h \in Seq(Body), NEW a \in Body, NEW b \in Body,
         NEW g, g = Led(b, h), NEW k, k = Led(a, g), Even(k)
  PROVE  Even(h) /\ Paired(k) = Led(<<a, b>>, Paired(h))
<1>1. PICK m \in Nat : m = Len(h)
  BY LenProperties
<1>2. g \in Seq(Body) /\ Len(g) = m + 1 /\ g[1] = b /\ \A i \in 1..m : g[i + 1] = h[i]
  <2>1. g \in Seq(Body)
    BY LedType
  <2>2. Leads(g, b, h, m)
    BY <1>1, LedShape
  <2> QED
    BY <2>1, <2>2 DEF Leads
<1>3. k \in Seq(Body) /\ Len(k) = (m + 1) + 1 /\ k[1] = a /\ \A i \in 1..(m + 1) : k[i + 1] = g[i]
  <2>1. k \in Seq(Body)
    BY <1>2, LedType
  <2>2. Leads(k, a, g, m + 1)
    BY <1>2, LedShape
  <2> QED
    BY <2>1, <2>2 DEF Leads
<1>4. PICK n \in Nat : Len(k) = 2 * n
  BY DEF Even
<1>5. PICK j \in Nat : n = j + 1 /\ m = 2 * j
  <2>1. n - 1 \in Nat /\ n = (n - 1) + 1 /\ m = 2 * (n - 1)
    BY <1>3, <1>4
  <2> QED
    BY <2>1
<1>6. PICK p, q, x : p = Paired(h) /\ q = Paired(k) /\ x = <<a, b>>
  OBVIOUS
<1>7. p \in Seq(AuroraIfc) /\ Len(p) = j /\ \A i \in 1..j : p[i] = <<h[2 * i - 1], h[2 * i]>>
  BY <1>1, <1>5, <1>6, PairedShape
<1>8. q \in Seq(AuroraIfc) /\ Len(q) = j + 1 /\ \A i \in 1..(j + 1) : q[i] = <<k[2 * i - 1], k[2 * i]>>
  BY <1>3, <1>4, <1>5, <1>6, PairedShape
<1>9. x \in AuroraIfc
  BY <1>6 DEF AuroraIfc
<1>10. PICK r : r = Led(x, p)
  OBVIOUS
<1>11. r \in Seq(AuroraIfc) /\ Len(r) = j + 1 /\ r[1] = x /\ \A i \in 1..j : r[i + 1] = p[i]
  <2>1. r \in Seq(AuroraIfc)
    BY <1>7, <1>9, <1>10, LedType
  <2>2. Leads(r, x, p, j)
    BY <1>7, <1>9, <1>10, LedShape
  <2> QED
    BY <2>1, <2>2 DEF Leads
<1>12. ASSUME NEW i \in 1..(j + 1)
       PROVE  q[i] = r[i]
  <2>1. CASE i = 1
    <3>1. 1 \in 1..(m + 1) /\ 2 * i - 1 = 1 /\ 2 * i = 1 + 1
      BY <2>1
    <3>2. k[2 * i - 1] = a /\ k[2 * i] = b
      BY <1>2, <1>3, <3>1
    <3> QED
      BY <1>6, <1>8, <1>11, <2>1, <3>2
  <2>2. CASE i # 1
    <3>1. PICK l \in 1..j : i = l + 1
      <4>1. i - 1 \in 1..j /\ i = (i - 1) + 1
        BY <2>2
      <4> QED
        BY <4>1
    <3>2. /\ 2 * i - 1 = ((2 * l - 1) + 1) + 1 /\ 2 * i = (2 * l + 1) + 1
          /\ 2 * l - 1 \in 1..m /\ 2 * l \in 1..m
          /\ (2 * l - 1) + 1 \in 1..(m + 1) /\ 2 * l + 1 \in 1..(m + 1)
      BY <1>5, <3>1
    <3>3. k[2 * i - 1] = g[(2 * l - 1) + 1] /\ k[2 * i] = g[2 * l + 1]
      BY <1>3, <3>2
    <3>4. g[(2 * l - 1) + 1] = h[2 * l - 1] /\ g[2 * l + 1] = h[2 * l]
      BY <1>2, <3>2
    <3>5. p[l] = <<h[2 * l - 1], h[2 * l]>> /\ r[i] = p[l]
      BY <1>7, <1>11, <3>1
    <3> QED
      BY <1>8, <3>3, <3>4, <3>5
  <2> QED
    BY <2>1, <2>2
<1>13. q = r
  BY <1>8, <1>11, <1>12, SeqEqual
<1> QED
  BY <1>1, <1>5, <1>6, <1>10, <1>13 DEF Even

(* The halves on a wire. *)
WordBody == [w \in Word |-> w.body]
Bodies(q) == Picked(q, Firsts \cup Seconds, WordBody)

(* Only the words that carry halves count. *)
LEMMA DataWords ==
  ASSUME NEW w \in Word
  PROVE  /\ w \in Firsts \cup Seconds <=> ~w.control
         /\ WordBody[w] = w.body
         /\ ~w.control => w.body \in Body
<1>1. w \in Firsts \cup Seconds => ~w.control
  BY DEF Firsts, Seconds, First, Second
<1>2. ~w.control => w \in Firsts \cup Seconds
  BY WordShape DEF Word
<1> QED
  BY <1>1, <1>2, WordShape DEF WordBody

LEMMA BodiesType ==
  ASSUME NEW q \in Seq(Word)
  PROVE  Bodies(q) \in Seq(Body)
<1>1. \A w \in Word \cap (Firsts \cup Seconds) : WordBody[w] \in Body
  BY DataWords
<1> QED
  BY <1>1, PickedType DEF Bodies

(* Sent at the far end, read at the near one; windows are skipped. *)
LEMMA BodiesPut ==
  ASSUME NEW q \in Seq(Word), NEW w \in Word
  PROVE  Bodies(Append(q, w)) = IF w.control THEN Bodies(q) ELSE Append(Bodies(q), w.body)
<1>1. Picked(Append(q, w), Firsts \cup Seconds, WordBody) =
        IF w \in Firsts \cup Seconds THEN Append(Picked(q, Firsts \cup Seconds, WordBody), WordBody[w])
        ELSE Picked(q, Firsts \cup Seconds, WordBody)
  BY PickedAppend
<1> QED
  BY <1>1, DataWords DEF Bodies

LEMMA BodiesTake ==
  ASSUME NEW q \in Seq(Word), q # <<>>, NEW w, w = Head(q)
  PROVE  /\ w \in Word
         /\ Bodies(q) = IF w.control THEN Bodies(Tail(q)) ELSE Led(w.body, Bodies(Tail(q)))
<1>1. w \in Word
  BY HeadTailProperties
<1>2. Picked(q, Firsts \cup Seconds, WordBody) =
        IF w \in Firsts \cup Seconds
        THEN Led(WordBody[w], Picked(Tail(q), Firsts \cup Seconds, WordBody))
        ELSE Picked(Tail(q), Firsts \cup Seconds, WordBody)
  BY PickedTail
<1> QED
  BY <1>1, <1>2, DataWords DEF Bodies

LEMMA BodiesIs ==
  ASSUME NEW q \in Seq(Word)
  PROVE  [i \in 1..Len(Those(q, Firsts \cup Seconds)) |-> Those(q, Firsts \cup Seconds)[i].body] = Bodies(q)
<1>1. PICK c : c = Those(q, Firsts \cup Seconds)
  OBVIOUS
<1>2. c \in Seq(Word \cap (Firsts \cup Seconds))
  BY <1>1, ThoseType
<1>3. PICK n \in Nat : n = Len(c)
  BY <1>2, LenProperties
<1>4. \A i \in 1..n : c[i] \in Word
  BY <1>2, <1>3, ElementOfSeq
<1>5. [i \in 1..n |-> c[i].body] = [i \in 1..n |-> WordBody[c[i]]]
  BY <1>4 DEF WordBody
<1> QED
  BY <1>1, <1>3, <1>5 DEF Bodies, Picked

(* A register that may hold a half is a sequence of at most one. *)
LEMMA MaybeSeq ==
  ASSUME NEW m \in MaybeBody
  PROVE  /\ m \in Seq(Body)
         /\ ~IsValid(m) => m = <<>>
         /\ IsValid(m) => Head(m) \in Body /\ m = Led(Head(m), <<>>)
<1>1. CASE m = Invalid
  BY <1>1 DEF Invalid, IsValid
<1>2. ASSUME NEW b \in Body, m = Valid(b)
      PROVE  m \in Seq(Body) /\ IsValid(m) /\ Head(m) = b /\ m = Led(b, <<>>)
  <2>1. m = <<b>> /\ m \in Seq(Body) /\ Head(m) = b /\ m # <<>>
    BY <1>2 DEF Valid
  <2>2. <<b>> \o <<>> = <<b>>
    BY <2>1, ConcatEmptySeq
  <2> QED
    BY <2>1, <2>2 DEF IsValid, Invalid, Led
<1> QED
  BY <1>1, <1>2 DEF MaybeBody

(* What is on its way to e, as a row of FIFOs. *)
LEMMA HalvesIs ==
  ASSUME TypeOK, NEW e \in End
  PROVE  /\ Halves(e) = Pipe(packetRecvBuffer[e], Bodies(wire[Peer(e)]), packetSendBuffer[Peer(e)])
         /\ packetRecvBuffer[e] \in Seq(Body) /\ packetSendBuffer[Peer(e)] \in Seq(Body)
         /\ Bodies(wire[Peer(e)]) \in Seq(Body)
         /\ Halves(e) \in Seq(Body)
<1>1. wire[Peer(e)] \in Seq(Word) /\ packetRecvBuffer[e] \in MaybeBody /\ packetSendBuffer[Peer(e)] \in MaybeBody
  BY Ends, WireAt, BuffersAt
<1>2. PICK q : q = wire[Peer(e)]
  OBVIOUS
<1>3. [i \in 1..Len(Those(q, Firsts \cup Seconds)) |-> Those(q, Firsts \cup Seconds)[i].body] = Bodies(q)
  BY <1>1, <1>2, BodiesIs
<1>4. Halves(e) = Pipe(packetRecvBuffer[e], Bodies(q), packetSendBuffer[Peer(e)])
  BY <1>2, <1>3 DEF Halves, Pipe
<1>5. packetRecvBuffer[e] \in Seq(Body) /\ packetSendBuffer[Peer(e)] \in Seq(Body) /\ Bodies(q) \in Seq(Body)
  BY <1>1, <1>2, MaybeSeq, BodiesType
<1>6. Pipe(packetRecvBuffer[e], Bodies(q), packetSendBuffer[Peer(e)]) \in Seq(Body)
  BY <1>5, PipeType
<1> QED
  BY <1>2, <1>4, <1>5, <1>6

(* And as it will be. *)
(* The halves on their way to e, in this state and, by HalvesWillBe, the next. *)
HalvesFact(e) ==
  /\ Halves(e) = Pipe(packetRecvBuffer[e], Bodies(wire[Peer(e)]), packetSendBuffer[Peer(e)])
  /\ packetRecvBuffer[e] \in Seq(Body) /\ packetSendBuffer[Peer(e)] \in Seq(Body)
  /\ Bodies(wire[Peer(e)]) \in Seq(Body)
  /\ Halves(e) \in Seq(Body)
HalvesFacts == \A e \in End : HalvesFact(e)

LEMMA HalvesAre == TypeOK => HalvesFacts
BY HalvesIs DEF HalvesFacts, HalvesFact

LEMMA HalvesBecome == TypeOK' => HalvesFacts'
BY HalvesAre, PTL

LEMMA HalvesWillBe ==
  ASSUME TypeOK', NEW e \in End
  PROVE  /\ Halves(e)' = Pipe(packetRecvBuffer'[e], Bodies(wire'[Peer(e)]), packetSendBuffer'[Peer(e)])
         /\ packetRecvBuffer'[e] \in Seq(Body) /\ packetSendBuffer'[Peer(e)] \in Seq(Body)
         /\ Bodies(wire'[Peer(e)]) \in Seq(Body)
         /\ Halves(e)' \in Seq(Body)
BY HalvesBecome DEF HalvesFacts, HalvesFact

(* OnItsWay is a row of FIFOs: user's queue, recvBufferQ, halves, sendQ. *)
LEMMA RowIs ==
  ASSUME NEW e
  PROVE  /\ OnItsWay(e) = Row(recvQ[e], recvBufferQ[e], Paired(Halves(e)), sendQ[Peer(e)])
         /\ OnItsWay(e)' = Row(recvQ'[e], recvBufferQ'[e], Paired(Halves(e)'), sendQ'[Peer(e)])
BY DEF OnItsWay, Row, Items, Paired

LEMMA RowTypes ==
  ASSUME TypeOK, NEW e \in End, Even(Halves(e))
  PROVE  /\ recvQ[e] \in Seq(AuroraIfc) /\ recvBufferQ[e] \in Seq(AuroraIfc)
         /\ sendQ[Peer(e)] \in Seq(AuroraIfc) /\ Paired(Halves(e)) \in Seq(AuroraIfc)
<1>1. Peer(e) \in End
  BY Ends
<1>2. recvQ[e] \in Seq(AuroraIfc) /\ recvBufferQ[e] \in Seq(AuroraIfc) /\ sendQ[Peer(e)] \in Seq(AuroraIfc)
  BY <1>1, TypeFacts DEF FifoFamily
<1>3. PICK h : h = Halves(e)
  OBVIOUS
<1>4. h \in Seq(Body)
  BY <1>3, HalvesIs
<1>5. PICK n \in Nat : Len(h) = 2 * n
  BY <1>3 DEF Even
<1>6. Paired(h) \in Seq(AuroraIfc)
  BY <1>4, <1>5, PairedShape
<1> QED
  BY <1>2, <1>3, <1>6

(* A step that neither hands over nor takes an item bound for f. *)
Undisturbed(f) == OnItsWay(f)' = OnItsWay(f) /\ Even(Halves(f)')

(* An end whose variables do not change is not disturbed. *)
LEMMA OtherEnd ==
  ASSUME NEW f, Even(Halves(f)),
         recvQ'[f] = recvQ[f], recvBufferQ'[f] = recvBufferQ[f], packetRecvBuffer'[f] = packetRecvBuffer[f],
         wire'[Peer(f)] = wire[Peer(f)], packetSendBuffer'[Peer(f)] = packetSendBuffer[Peer(f)],
         sendQ'[Peer(f)] = sendQ[Peer(f)]
  PROVE  Undisturbed(f)
BY DEF Undisturbed, OnItsWay, Items, Halves

(* What e sends stays on its way to the peer: a second half keeps its place *)
(* behind the first, and an item is split into two halves.                 *)
LEMMA SendPartKeeps ==
  ASSUME TypeOK, TypeOK', NEW e \in End, SendPacketPart(e), NEW f \in End, f = Peer(e), Even(Halves(f))
  PROVE  Undisturbed(f)
<1>1. Peer(f) = e /\ f # e
  BY Ends
<1>2. wire[e] \in Seq(Word) /\ packetSendBuffer[e] \in MaybeBody
  BY WireAt, BuffersAt
<1>3. UNCHANGED <<recvQ, recvBufferQ, packetRecvBuffer>>
  BY DEF SendPacketPart, recvVars
<1>4. PICK r, w, s : r = packetRecvBuffer[f] /\ w = Bodies(wire[e]) /\ s = packetSendBuffer[e]
  OBVIOUS
<1>5. Halves(f) = Pipe(r, w, s) /\ r \in Seq(Body) /\ w \in Seq(Body) /\ s \in Seq(Body)
  BY <1>1, <1>4, HalvesIs
<1>6. PICK ww, ss : ww = Bodies(wire'[e]) /\ ss = packetSendBuffer'[e]
  OBVIOUS
<1>7. Halves(f)' = Pipe(r, ww, ss) /\ ww \in Seq(Body) /\ ss \in Seq(Body) /\ Halves(f)' \in Seq(Body)
  BY <1>1, <1>3, <1>4, <1>6, HalvesWillBe
<1>8. ASSUME NEW v \in Word, wire' = Enq(wire, e, v)
      PROVE  ww = IF v.control THEN w ELSE Append(w, v.body)
  <2>1. wire'[e] = Append(wire[e], v)
    BY <1>8, WireAt
  <2> QED
    BY <1>2, <1>4, <1>6, <2>1, BodiesPut
<1>z. PICK z : z = <<>>
  OBVIOUS
<1>y. z \in Seq(Body)
  BY <1>z
<1>9. ASSUME Pipe(r, ww, ss) = Pipe(r, w, s), UNCHANGED sendQ
      PROVE  Undisturbed(f)
  BY <1>1, <1>3, <1>5, <1>7, <1>9, RowIs DEF Undisturbed
<1>10. CASE SendFlowControl(e)
  <2>1. PICK v : v = Control(Head(flowControlQ[e]))
    OBVIOUS
  <2>2. flowControlQ[e] \in Seq({WindowSize}) /\ flowControlQ[e] # <<>>
    BY <1>10, TypeFacts DEF FifoFamily, SendFlowControl
  <2>3. Head(flowControlQ[e]) = WindowSize
    BY <2>2, HeadTailProperties
  <2>4. v \in Word /\ v.control
    BY <2>1, <2>3, WordIntro DEF Control
  <2>5. wire' = Enq(wire, e, v) /\ UNCHANGED <<sendQ, packetSendBuffer>>
    BY <1>10, <2>1 DEF SendFlowControl, sendVars
  <2> QED
    BY <1>4, <1>6, <1>8, <1>9, <2>4, <2>5
<1>11. CASE SendSecondHalf(e)
  <2>1. PICK b : b = Head(packetSendBuffer[e])
    OBVIOUS
  <2>2. PICK v : v = Second(b)
    OBVIOUS
  <2>3. b \in Body /\ s = Led(b, <<>>)
    BY <1>2, <1>4, <1>11, <2>1, MaybeSeq DEF SendSecondHalf
  <2>4. v \in Word /\ ~v.control /\ v.body = b
    BY <2>2, <2>3, WordIntro DEF Second
  <2>5. wire' = Enq(wire, e, v) /\ UNCHANGED sendQ
        /\ packetSendBuffer' = [packetSendBuffer EXCEPT ![e] = Invalid]
    BY <1>11, <2>1, <2>2 DEF SendSecondHalf
  <2>6. ss = z
    BY <1>6, <1>z, <2>5, TypeFacts DEF Invalid
  <2>7. Pipe(r, Append(w, b), z) = Pipe(r, w, Led(b, z))
    BY <1>5, <1>y, <2>3, PipeFirstMove
  <2> QED
    BY <1>8, <1>9, <1>z, <2>3, <2>4, <2>5, <2>6, <2>7
<1>12. CASE SendFirstHalf(e)
  <2>1. PICK x : x = Head(sendQ[e])
    OBVIOUS
  <2>2. PICK a, b : a = x[1] /\ b = x[2]
    OBVIOUS
  <2>3. sendQ[e] # <<>> /\ sendQ' = Deq(sendQ, e) /\ wire' = Enq(wire, e, First(a)) /\ ~IsValid(packetSendBuffer[e])
        /\ packetSendBuffer' = [packetSendBuffer EXCEPT ![e] = Valid(b)]
    BY <1>12, <2>1, <2>2 DEF SendFirstHalf
  <2>4. sendQ \in [End -> Seq(AuroraIfc)]
    BY TypeFacts DEF FifoFamily
  <2>5. x \in AuroraIfc /\ Tail(sendQ[e]) \in Seq(AuroraIfc) /\ sendQ'[e] = Tail(sendQ[e])
    BY <2>1, <2>3, <2>4, HeadTailProperties DEF Deq
  <2>6. a \in Body /\ b \in Body /\ x = <<a, b>>
    BY <2>2, <2>5 DEF AuroraIfc
  <2>7. sendQ[e] = Led(x, sendQ'[e])
    BY <2>1, <2>3, <2>4, <2>5, LedHead
  <2>8. s = <<>> /\ ss = <<b>>
    <3>1. s = <<>>
      BY <1>2, <1>4, <2>3, MaybeSeq
    <3>2. ss = Valid(b)
      BY <1>6, <2>3, TypeFacts
    <3> QED
      BY <3>1, <3>2 DEF Valid
  <2>9. ww = Append(w, a)
    <3>1. First(a) \in Word /\ First(a).control = FALSE /\ First(a).body = a
      BY <2>6, WordIntro DEF First
    <3> QED
      BY <1>8, <2>3, <3>1
  <2>10. PICK h : h = Halves(f)
    OBVIOUS
  <2>11. PICK g : g = Pipe(r, ww, <<>>)
    OBVIOUS
  <2>12. h = Pipe(r, w, <<>>) /\ h \in Seq(Body) /\ g \in Seq(Body)
    BY <1>1, <1>5, <1>7, <2>8, <2>10, <2>11, HalvesIs, PipeType
  <2>13. Grown(g, h, a)
    <3>1. Append(w, a) \in Seq(Body)
      BY <1>7, <2>9
    <3>2. Pipe(r, Append(w, a), z) = Pipe(r, w, Led(a, z))
      BY <1>5, <1>y, <2>6, PipeFirstMove
    <3>3. Grown(Pipe(r, w, Append(<<>>, a)), Pipe(r, w, <<>>), a)
      BY <1>5, <1>7, <2>6, <2>8, PipePut
    <3>4. Append(<<>>, a) = Led(a, <<>>)
      <4>1. <<a>> \in Seq(Body) /\ Append(<<>>, a) = <<a>> /\ <<a>> \o <<>> = <<a>>
        BY <2>6, ConcatEmptySeq
      <4> QED
        BY <4>1 DEF Led
    <3> QED
      BY <1>z, <2>9, <2>11, <2>12, <3>2, <3>3, <3>4
  <2>14. PICK k : k = Halves(f)'
    OBVIOUS
  <2>15. Grown(k, g, b)
    <3>1. Grown(Pipe(r, ww, Append(<<>>, b)), Pipe(r, ww, <<>>), b)
      BY <1>5, <1>7, <2>6, <2>8, PipePut
    <3>2. Append(<<>>, b) = ss
      BY <2>6, <2>8
    <3> QED
      BY <1>7, <2>11, <2>14, <3>1, <3>2
  <2>16. k \in Seq(Body)
    BY <1>7, <2>14
  <2>17. Even(k) /\ Grown(Paired(k), Paired(h), x)
    <3>1. Even(h)
      BY <2>10
    <3> QED
      BY <2>6, <2>12, <2>13, <2>15, <2>16, <3>1, PairedBehind
  <2>18. PICK q, u, p, t : q = recvQ[f] /\ u = recvBufferQ[f] /\ p = Paired(h) /\ t = sendQ'[e]
    OBVIOUS
  <2>19. q \in Seq(AuroraIfc) /\ u \in Seq(AuroraIfc) /\ p \in Seq(AuroraIfc) /\ t \in Seq(AuroraIfc)
    BY <2>5, <2>10, <2>18, RowTypes
  <2>20. Row(q, u, Append(p, x), t) = Row(q, u, p, Led(x, t))
    BY <2>5, <2>19, RowMoves
  <2>21. OnItsWay(f) = Row(q, u, p, sendQ[e]) /\ OnItsWay(f)' = Row(q, u, Paired(k), t)
    BY <1>1, <1>3, <2>10, <2>14, <2>18, RowIs
  <2> QED
    BY <2>7, <2>14, <2>17, <2>18, <2>20, <2>21 DEF Undisturbed, Grown
<1> QED
  BY <1>10, <1>11, <1>12 DEF SendPacketPart

LEMMA LedBehindNothing ==
  ASSUME NEW b \in Body
  PROVE  Append(<<>>, b) = Led(b, <<>>)
<1>1. <<b>> \in Seq(Body) /\ Append(<<>>, b) = <<b>> /\ <<b>> \o <<>> = <<b>>
  BY ConcatEmptySeq
<1> QED
  BY <1>1 DEF Led

(* What e reads stays on its way to its user: a first half is kept until    *)
(* the second has come, and the two are the item they were split from.     *)
LEMMA RecvPartKeeps ==
  ASSUME IInv, TypeOK', NEW e \in End, RecvPacketPart(e), Even(Halves(e))
  PROVE  Undisturbed(e)
<1>0. TypeOK /\ NoHalfDropped
  BY NoneDropped DEF IInv
<1>1. PICK p : p = Peer(e)
  OBVIOUS
<1>2. p \in End /\ p # e
  BY <1>1, Ends
<1>3. PICK v : v = Head(wire[p])
  OBVIOUS
<1>4. /\ wire[p] # <<>> /\ wire' = Deq(wire, p)
      /\ UNCHANGED <<sendQ, packetSendBuffer, recvQ>>
      /\ RecvControl(e, v) \/ RecvComplete(e, v) \/ RecvIncomplete(e, v)
  BY <1>1, <1>3 DEF RecvPacketPart, sendVars
<1>5. wire[p] \in Seq(Word) /\ wire'[p] = Tail(wire[p]) /\ packetRecvBuffer[e] \in MaybeBody
  BY <1>0, <1>2, <1>4, WireAt, BuffersAt
<1>6. PICK r, w, s : r = packetRecvBuffer[e] /\ w = Bodies(wire[p]) /\ s = packetSendBuffer[p]
  OBVIOUS
<1>7. Halves(e) = Pipe(r, w, s) /\ r \in Seq(Body) /\ w \in Seq(Body) /\ s \in Seq(Body)
      /\ Halves(e) \in Seq(Body)
  BY <1>0, <1>1, <1>6, HalvesIs
<1>8. PICK rr, ww : rr = packetRecvBuffer'[e] /\ ww = Bodies(wire'[p])
  OBVIOUS
<1>9. Halves(e)' = Pipe(rr, ww, s) /\ ww \in Seq(Body) /\ rr \in Seq(Body) /\ Halves(e)' \in Seq(Body)
  BY <1>1, <1>4, <1>6, <1>8, HalvesWillBe
<1>10. /\ v \in Word
       /\ w = IF v.control THEN ww ELSE Led(v.body, ww)
  BY <1>3, <1>4, <1>5, <1>6, <1>8, BodiesTake
<1>11. ~v.control => v.body \in Body
  BY <1>10, DataWords
<1>12. ASSUME Pipe(rr, ww, s) = Pipe(r, w, s), UNCHANGED recvBufferQ
       PROVE  Undisturbed(e)
  BY <1>1, <1>4, <1>7, <1>9, <1>12, RowIs DEF Undisturbed
<1>z. PICK z : z = <<>>
  OBVIOUS
<1>y. z \in Seq(Body)
  BY <1>z
<1>13. CASE RecvControl(e, v)
  <2>1. v.control /\ UNCHANGED <<recvBufferQ, packetRecvBuffer>>
    BY <1>13 DEF RecvControl, recvVars
  <2> QED
    BY <1>6, <1>8, <1>10, <1>12, <2>1
<1>14. CASE RecvIncomplete(e, v)
  <2>1. ~v.control /\ ~Completes(e, v) /\ UNCHANGED recvBufferQ
        /\ packetRecvBuffer' = [packetRecvBuffer EXCEPT ![e] = IF v.second THEN @ ELSE Valid(v.body)]
    BY <1>14 DEF RecvIncomplete
  <2>2. ~v.second /\ ~IsValid(r)
    <3>1. v.second <=> IsValid(r)
      BY <1>0, <1>1, <1>3, <1>4, <1>6, <2>1 DEF NoHalfDropped
    <3>2. v.second \in BOOLEAN
      BY <1>10, WordShape
    <3> QED
      BY <1>6, <2>1, <3>1, <3>2 DEF Completes
  <2>3. rr = Valid(v.body)
    BY <1>0, <1>8, <2>1, <2>2, TypeFacts
  <2>4. PICK b : b = v.body
    OBVIOUS
  <2>5. b \in Body /\ r = z /\ w = Led(b, ww)
    BY <1>5, <1>6, <1>10, <1>11, <1>z, <2>1, <2>2, <2>4, MaybeSeq
  <2>6. rr = Append(z, b)
    BY <1>z, <2>3, <2>4, <2>5 DEF Valid
  <2>7. Pipe(Append(z, b), ww, s) = Pipe(z, Led(b, ww), s)
    BY <1>7, <1>9, <1>y, <2>5, PipeSecondMove
  <2> QED
    BY <1>12, <2>1, <2>5, <2>6, <2>7
<1>15. CASE RecvComplete(e, v)
  <2>1. /\ ~v.control /\ IsValid(r)
        /\ packetRecvBuffer' = [packetRecvBuffer EXCEPT ![e] = Invalid]
        /\ recvBufferQ' = Enq(recvBufferQ, e, <<Head(r), v.body>>)
    BY <1>6, <1>15 DEF RecvComplete, Completes
  <2>2. PICK a, b : a = Head(r) /\ b = v.body
    OBVIOUS
  <2>3. a \in Body /\ b \in Body /\ r = Led(a, z) /\ w = Led(b, ww)
    BY <1>5, <1>6, <1>10, <1>11, <1>z, <2>1, <2>2, MaybeSeq
  <2>4. rr = z
    BY <1>0, <1>8, <1>z, <2>1, TypeFacts DEF Invalid
  <2>5. PICK h, g, k : h = Halves(e) /\ g = Pipe(z, Led(b, ww), s) /\ k = Halves(e)'
    OBVIOUS
  <2>6. h = Led(a, g)
    <3>1. Led(b, ww) \in Seq(Body)
      BY <1>7, <2>3
    <3>2. Pipe(Led(a, z), Led(b, ww), s) = Led(a, Pipe(z, Led(b, ww), s))
      BY <1>7, <1>y, <2>3, <3>1, PipeTake
    <3> QED
      BY <1>7, <2>3, <2>5, <3>2
  <2>7. g = Led(b, k)
    <3>1. Pipe(Append(z, b), ww, s) = Pipe(z, Led(b, ww), s)
      BY <1>7, <1>9, <1>y, <2>3, PipeSecondMove
    <3>2. Pipe(Led(b, z), ww, s) = Led(b, Pipe(z, ww, s))
      BY <1>7, <1>9, <1>y, <2>3, PipeTake
    <3> QED
      BY <1>9, <1>z, <2>3, <2>4, <2>5, <3>1, <3>2, LedBehindNothing
  <2>8. PICK x : x = <<a, b>>
    OBVIOUS
  <2>9. Even(k) /\ Paired(h) = Led(x, Paired(k)) /\ x \in AuroraIfc
    <3>1. Even(k) /\ Paired(h) = Led(<<a, b>>, Paired(k))
      BY <1>9, <2>3, <2>5, <2>6, <2>7, PairedLed
    <3> QED
      BY <2>3, <2>8, <3>1 DEF AuroraIfc
  <2>10. recvBufferQ'[e] = Append(recvBufferQ[e], x)
    <3>1. recvBufferQ \in [End -> Seq(AuroraIfc)]
      BY <1>0, TypeFacts DEF FifoFamily
    <3> QED
      BY <2>1, <2>2, <2>8, <3>1 DEF Enq
  <2>11. PICK q, u, t, i : q = recvQ[e] /\ u = recvBufferQ[e] /\ t = sendQ[p] /\ i = Paired(k)
    OBVIOUS
  <2>12. q \in Seq(AuroraIfc) /\ u \in Seq(AuroraIfc) /\ t \in Seq(AuroraIfc)
    BY <1>0, <1>1, <2>11, RowTypes
  <2>13. i \in Seq(AuroraIfc)
    <3>1. PICK n \in Nat : Len(k) = 2 * n
      BY <2>9 DEF Even
    <3>2. k \in Seq(Body)
      BY <1>9, <2>5
    <3> QED
      BY <2>11, <3>1, <3>2, PairedShape
  <2>14. Row(q, Append(u, x), i, t) = Row(q, u, Led(x, i), t)
    BY <2>9, <2>12, <2>13, RowMoves
  <2>15. OnItsWay(e) = Row(q, u, Paired(h), t) /\ OnItsWay(e)' = Row(q, Append(u, x), i, t)
    BY <1>1, <1>4, <2>5, <2>10, <2>11, RowIs
  <2> QED
    BY <2>5, <2>9, <2>11, <2>14, <2>15 DEF Undisturbed
<1> QED
  BY <1>4, <1>13, <1>14, <1>15

(* From recvBufferQ to the queue of the user. *)
LEMMA FlushKeeps ==
  ASSUME TypeOK, TypeOK', NEW e \in End, FlushReadBuffer(e), Even(Halves(e))
  PROVE  Undisturbed(e)
<1>1. PICK x : x = Head(recvBufferQ[e])
  OBVIOUS
<1>2. /\ recvBufferQ[e] # <<>> /\ recvBufferQ' = Deq(recvBufferQ, e) /\ recvQ' = Enq(recvQ, e, x)
      /\ UNCHANGED <<sendQ, packetSendBuffer, packetRecvBuffer, wire>>
  BY <1>1 DEF FlushReadBuffer, sendVars, recvVars
<1>3. recvBufferQ \in [End -> Seq(AuroraIfc)] /\ recvQ \in [End -> Seq(AuroraIfc)]
  BY TypeFacts DEF FifoFamily
<1>4. /\ x \in AuroraIfc /\ Tail(recvBufferQ[e]) \in Seq(AuroraIfc)
      /\ recvBufferQ'[e] = Tail(recvBufferQ[e]) /\ recvQ'[e] = Append(recvQ[e], x)
  BY <1>1, <1>2, <1>3, HeadTailProperties DEF Enq, Deq
<1>5. recvBufferQ[e] = Led(x, recvBufferQ'[e])
  BY <1>1, <1>2, <1>3, <1>4, LedHead
<1>6. PICK q, u, i, t : /\ q = recvQ[e] /\ u = recvBufferQ'[e] /\ i = Paired(Halves(e))
                        /\ t = sendQ[Peer(e)]
  OBVIOUS
<1>7. q \in Seq(AuroraIfc) /\ i \in Seq(AuroraIfc) /\ t \in Seq(AuroraIfc) /\ u \in Seq(AuroraIfc)
  BY <1>4, <1>6, RowTypes
<1>8. Row(Append(q, x), u, i, t) = Row(q, Led(x, u), i, t)
  BY <1>4, <1>7, RowMoves
<1>9. Halves(e)' = Halves(e)
  BY <1>2 DEF Halves
<1> QED
  BY <1>2, <1>4, <1>5, <1>6, <1>8, <1>9, RowIs DEF Undisturbed

(* The user of one end hands over an item, of the other takes the oldest. *)
LEMMA SendPuts ==
  ASSUME TypeOK, NEW e \in End, NEW x \in Handed, Send(e, x), NEW f \in End, f = Peer(e), Even(Halves(f))
  PROVE  Even(Halves(f)') /\ Grown(OnItsWay(f)', OnItsWay(f), x)
<1>1. Peer(f) = e
  BY Ends
<1>2. x \in AuroraIfc /\ sendQ \in [End -> Seq(AuroraIfc)]
  BY LinkAssumption, TypeFacts DEF FifoFamily
<1>3. /\ sendQ'[e] = Append(sendQ[e], x)
      /\ UNCHANGED <<packetSendBuffer, packetRecvBuffer, wire, recvBufferQ, recvQ>>
  BY <1>2 DEF Send, Enq, recvVars
<1>4. Halves(f)' = Halves(f)
  BY <1>3 DEF Halves
<1>5. PICK q, u, i, t : /\ q = recvQ[f] /\ u = recvBufferQ[f] /\ i = Paired(Halves(f)) /\ t = sendQ[e]
  OBVIOUS
<1>6. q \in Seq(AuroraIfc) /\ u \in Seq(AuroraIfc) /\ i \in Seq(AuroraIfc) /\ t \in Seq(AuroraIfc)
  BY <1>1, <1>5, RowTypes
<1>7. Grown(Row(q, u, i, Append(t, x)), Row(q, u, i, t), x)
  BY <1>2, <1>6, RowPut
<1> QED
  BY <1>1, <1>3, <1>4, <1>5, <1>7, RowIs

LEMMA ReceiveTakes ==
  ASSUME TypeOK, TypeOK', NEW e \in End, Receive(e), Even(Halves(e))
  PROVE  /\ Even(Halves(e)')
         /\ OnItsWay(e) # <<>> /\ OnItsWay(e)' = Tail(OnItsWay(e))
<1>1. PICK x : x = Head(recvQ[e])
  OBVIOUS
<1>2. /\ recvQ[e] # <<>> /\ recvQ' = Deq(recvQ, e)
      /\ UNCHANGED <<sendQ, packetSendBuffer, packetRecvBuffer, wire, recvBufferQ>>
  BY DEF Receive, sendVars, recvVars
<1>3. recvQ \in [End -> Seq(AuroraIfc)]
  BY TypeFacts DEF FifoFamily
<1>4. /\ x \in AuroraIfc /\ Tail(recvQ[e]) \in Seq(AuroraIfc) /\ recvQ'[e] = Tail(recvQ[e])
  BY <1>1, <1>2, <1>3, HeadTailProperties DEF Deq
<1>5. recvQ[e] = Led(x, recvQ'[e])
  BY <1>1, <1>2, <1>3, <1>4, LedHead
<1>6. PICK q, u, i, t : /\ q = recvQ'[e] /\ u = recvBufferQ[e] /\ i = Paired(Halves(e))
                        /\ t = sendQ[Peer(e)]
  OBVIOUS
<1>7. q \in Seq(AuroraIfc) /\ i \in Seq(AuroraIfc) /\ t \in Seq(AuroraIfc) /\ u \in Seq(AuroraIfc)
  BY <1>4, <1>6, RowTypes
<1>8. PICK w : w = Row(q, u, i, t)
  OBVIOUS
<1>9. w \in Seq(AuroraIfc)
  BY <1>7, <1>8, RowType
<1>10. Row(Led(x, q), u, i, t) = Led(x, w)
  BY <1>4, <1>7, <1>8, RowTake
<1>11. Led(x, w) # <<>> /\ Tail(Led(x, w)) = w
  BY <1>4, <1>9, LedBy
<1>12. Halves(e)' = Halves(e)
  BY <1>2 DEF Halves
<1> QED
  BY <1>2, <1>5, <1>6, <1>8, <1>10, <1>11, <1>12, RowIs

(* Whatever is between two sendPacketParts of an item, the halves on their  *)
(* way to an end always make up whole items.                               *)
WholeItems == \A e \in End : Even(Halves(e))
LInv == IInv /\ WholeItems

(* One step, as the users of the link see it. *)
ChannelStep ==
  \/ \A f \in End : Undisturbed(f)
  \/ \E f \in End, x \in Handed :
       Grown(OnItsWay(f)', OnItsWay(f), x) /\ Even(Halves(f)') /\ Undisturbed(Peer(f))
  \/ \E f \in End :
       /\ OnItsWay(f) # <<>> /\ OnItsWay(f)' = Tail(OnItsWay(f))
       /\ Even(Halves(f)') /\ Undisturbed(Peer(f))

(* By cases on the handlers. *)
LEMMA LinkStep == LInv /\ [Next]_vars => ChannelStep
<1> SUFFICES ASSUME LInv, [Next]_vars PROVE ChannelStep
  OBVIOUS
<1>0. IInv /\ TypeOK /\ TypeOK' /\ \A e \in End : Even(Halves(e))
  BY TypeStep DEF LInv, IInv, WholeItems
<1>1. ASSUME NEW e \in End, NEW x \in Handed, Send(e, x)
      PROVE  ChannelStep
  <2>1. PICK f \in End : f = Peer(e) /\ Peer(f) = e /\ f # e
    BY Ends
  <2>2. Even(Halves(f)') /\ Grown(OnItsWay(f)', OnItsWay(f), x)
    BY <1>0, <1>1, <2>1, SendPuts
  <2>3. sendQ'[f] = sendQ[f]
    BY <1>0, <1>1, <2>1, TypeFacts DEF Send, Enq, FifoFamily
  <2>4. Undisturbed(e)
    BY <1>0, <1>1, <2>1, <2>3, OtherEnd DEF Send, recvVars
  <2> QED
    BY <2>1, <2>2, <2>4 DEF ChannelStep
<1>2. ASSUME NEW e \in End, EmitFlowControlPacket(e)
      PROVE  ChannelStep
  <2>1. UNCHANGED <<sendQ, packetSendBuffer, packetRecvBuffer, wire, recvBufferQ, recvQ>>
    BY <1>2 DEF EmitFlowControlPacket, sendVars, recvVars
  <2> QED
    BY <1>0, <2>1, OtherEnd DEF ChannelStep
<1>3. ASSUME NEW e \in End, SendPacketPart(e)
      PROVE  ChannelStep
  <2>1. PICK f \in End : f = Peer(e) /\ Peer(f) = e /\ f # e /\ \A g \in End : g = e \/ g = f
    BY Ends
  <2>2. Undisturbed(f)
    BY <1>0, <1>3, <2>1, SendPartKeeps
  <2>3. UNCHANGED <<recvQ, recvBufferQ, packetRecvBuffer>>
    BY <1>3 DEF SendPacketPart, recvVars
  <2>4. wire'[f] = wire[f] /\ packetSendBuffer'[f] = packetSendBuffer[f] /\ sendQ'[f] = sendQ[f]
    <3>1. /\ wire \in [End -> Seq(Word)] /\ sendQ \in [End -> Seq(AuroraIfc)]
          /\ packetSendBuffer \in [End -> MaybeBody]
      BY <1>0, TypeFacts DEF FifoFamily
    <3>2. CASE SendFlowControl(e)
      BY <2>1, <3>1, <3>2 DEF SendFlowControl, sendVars, Enq
    <3>3. CASE SendSecondHalf(e)
      BY <2>1, <3>1, <3>3 DEF SendSecondHalf, Enq
    <3>4. CASE SendFirstHalf(e)
      BY <2>1, <3>1, <3>4 DEF SendFirstHalf, Enq, Deq
    <3> QED
      BY <1>3, <3>2, <3>3, <3>4 DEF SendPacketPart
  <2>5. Undisturbed(e)
    BY <1>0, <2>1, <2>3, <2>4, OtherEnd
  <2> QED
    BY <2>1, <2>2, <2>5 DEF ChannelStep
<1>4. ASSUME NEW e \in End, RecvPacketPart(e)
      PROVE  ChannelStep
  <2>1. PICK f \in End : f = Peer(e) /\ Peer(f) = e /\ f # e /\ \A g \in End : g = e \/ g = f
    BY Ends
  <2>2. Undisturbed(e)
    BY <1>0, <1>4, RecvPartKeeps
  <2>3. UNCHANGED <<sendQ, packetSendBuffer, recvQ>> /\ wire' = Deq(wire, f)
    BY <1>4, <2>1 DEF RecvPacketPart, sendVars
  <2>4. wire'[e] = wire[e]
    BY <1>0, <2>1, <2>3, WireAt
  <2>5. recvBufferQ'[f] = recvBufferQ[f] /\ packetRecvBuffer'[f] = packetRecvBuffer[f]
    <3>1. recvBufferQ \in [End -> Seq(AuroraIfc)] /\ packetRecvBuffer \in [End -> MaybeBody]
      BY <1>0, TypeFacts DEF FifoFamily
    <3>2. PICK v : v = Head(wire[f])
      OBVIOUS
    <3>3. RecvControl(e, v) \/ RecvComplete(e, v) \/ RecvIncomplete(e, v)
      BY <1>4, <2>1, <3>2 DEF RecvPacketPart
    <3>4. CASE RecvControl(e, v)
      BY <3>4 DEF RecvControl, recvVars
    <3>5. CASE RecvComplete(e, v)
      BY <2>1, <3>1, <3>5 DEF RecvComplete, Enq
    <3>6. CASE RecvIncomplete(e, v)
      BY <2>1, <3>1, <3>6 DEF RecvIncomplete
    <3> QED
      BY <3>3, <3>4, <3>5, <3>6
  <2>6. Undisturbed(f)
    BY <1>0, <2>1, <2>3, <2>4, <2>5, OtherEnd
  <2> QED
    BY <2>1, <2>2, <2>6 DEF ChannelStep
<1>5. ASSUME NEW e \in End, FlushReadBuffer(e)
      PROVE  ChannelStep
  <2>1. PICK f \in End : f = Peer(e) /\ f # e /\ \A g \in End : g = e \/ g = f
    BY Ends
  <2>2. Undisturbed(e)
    BY <1>0, <1>5, FlushKeeps
  <2>3. recvBufferQ'[f] = recvBufferQ[f] /\ recvQ'[f] = recvQ[f]
    BY <1>0, <1>5, <2>1, TypeFacts DEF FlushReadBuffer, Enq, Deq, FifoFamily
  <2>4. Undisturbed(f)
    BY <1>0, <1>5, <2>3, OtherEnd DEF FlushReadBuffer, sendVars, recvVars
  <2> QED
    BY <2>1, <2>2, <2>4 DEF ChannelStep
<1>6. ASSUME NEW e \in End, Receive(e)
      PROVE  ChannelStep
  <2>1. PICK f \in End : f = Peer(e) /\ f # e
    BY Ends
  <2>2. /\ OnItsWay(e) # <<>> /\ OnItsWay(e)' = Tail(OnItsWay(e))
        /\ Even(Halves(e)')
    BY <1>0, <1>6, ReceiveTakes
  <2>3. recvQ'[f] = recvQ[f]
    BY <1>0, <1>6, <2>1, TypeFacts DEF Receive, Deq, FifoFamily
  <2>4. Undisturbed(f)
    BY <1>0, <1>6, <2>3, OtherEnd DEF Receive, sendVars, recvVars
  <2> QED
    BY <2>1, <2>2, <2>4 DEF ChannelStep
<1>7. CASE UNCHANGED vars
  <2>1. UNCHANGED <<sendQ, packetSendBuffer, packetRecvBuffer, wire, recvBufferQ, recvQ>>
    BY <1>7 DEF vars, sendVars, recvVars
  <2> QED
    BY <1>0, <2>1, OtherEnd DEF ChannelStep
<1> QED
  BY <1>1, <1>2, <1>3, <1>4, <1>5, <1>6, <1>7 DEF Next

LEMMA NothingYet ==
  ASSUME Init, NEW e \in End
  PROVE  Halves(e) = <<>> /\ OnItsWay(e) = <<>>
<1>1. Peer(e) \in End
  BY Ends
<1>2. /\ packetRecvBuffer[e] = <<>> /\ wire[Peer(e)] = <<>> /\ packetSendBuffer[Peer(e)] = <<>>
      /\ recvQ[e] = <<>> /\ recvBufferQ[e] = <<>> /\ sendQ[Peer(e)] = <<>>
  BY <1>1 DEF Init, Invalid
<1>3. Those(<<>>, Firsts \cup Seconds) = <<>> /\ <<>> \o <<>> = <<>> /\ Len(<<>>) = 0
  BY ThoseEmpty
<1>4. PICK c : c = Those(<<>>, Firsts \cup Seconds)
  OBVIOUS
<1>5. [i \in 1..Len(c) |-> c[i].body] = <<>>
  <2>1. Len(c) = 0
    BY <1>3, <1>4
  <2>2. [i \in 1..0 |-> c[i].body] = <<>>
    OBVIOUS
  <2> QED
    BY <2>1, <2>2
<1>6. Halves(e) = <<>>
  BY <1>2, <1>3, <1>4, <1>5, Zenon DEF Halves
<1>7. PICK h : h = Halves(e)
  OBVIOUS
<1>8. [i \in 1..(Len(h) \div 2) |-> <<h[2 * i - 1], h[2 * i]>>] = <<>>
  <2>1. Len(h) \div 2 = 0
    BY <1>3, <1>6, <1>7
  <2> QED
    BY <2>1
<1>9. Items(e) = <<>>
  BY <1>7, <1>8 DEF Items
<1> QED
  BY <1>2, <1>3, <1>6, <1>9, Zenon DEF OnItsWay

(* The law of the link, with whole items, is inductive. *)
LEMMA LInvHolds == Spec => []LInv
<1>1. Init => LInv
  <2>1. Init => WholeItems
    BY NothingYet DEF WholeItems, Even
  <2> QED
    BY <2>1, InitLaw DEF LInv, IInv
<1>2. LInv /\ [Next]_vars => LInv'
  <2> SUFFICES ASSUME LInv, [Next]_vars PROVE LInv'
    OBVIOUS
  <2>1. IInv'
    BY IInvStep DEF LInv
  <2>2. \A e \in End : Even(Halves(e)')
    BY LinkStep, Ends DEF ChannelStep, Undisturbed
  <2> QED
    BY <2>1, <2>2 DEF LInv, WholeItems
<1> QED
  BY <1>1, <1>2, PTL DEF Spec

(* The link, whatever the sizes of its FIFOs, windows and registers: every   *)
(* step hands an item to one direction, takes the oldest item of one, or   *)
(* leaves both as they are, though items travel in halves with windows     *)
(* between them.  (When something is taken is a matter of fairness, and    *)
(* stays with the model checker.)                                          *)
THEOREM LinkImplementsChannels == Spec => Link!Spec
<1>1. Init => Link!Init
  <2> SUFFICES ASSUME Init PROVE Link!Init
    OBVIOUS
  <2>1. OnItsWay(1) = <<>> /\ OnItsWay(2) = <<>>
    BY NothingYet DEF End
  <2> QED
    BY <2>1 DEF Link!Init, End
<1>2. LInv /\ [Next]_vars => [Link!Next]_(<<OnItsWay(1), OnItsWay(2)>>)
  <2> SUFFICES ASSUME LInv, [Next]_vars PROVE [Link!Next]_(<<OnItsWay(1), OnItsWay(2)>>)
    OBVIOUS
  <2>1. ChannelStep
    BY LinkStep
  <2> DEFINE chan == <<OnItsWay(1), OnItsWay(2)>>
  <2>2. \A f \in End : chan[f] = OnItsWay(f)
    BY DEF End
  <2>3. ASSUME NEW f \in End, NEW c, OnItsWay(f)' = c, Undisturbed(Peer(f))
        PROVE  chan' = [chan EXCEPT ![f] = c]
    <3>1. CASE f = 1
      BY <2>3, <3>1 DEF Peer, Undisturbed
    <3>2. CASE f = 2
      BY <2>3, <3>2 DEF Peer, Undisturbed
    <3> QED
      BY <3>1, <3>2 DEF End
  <2>4. CASE \A f \in End : Undisturbed(f)
    BY <2>4 DEF End, Undisturbed
  <2>5. ASSUME NEW f \in End, NEW x \in Handed, Grown(OnItsWay(f)', OnItsWay(f), x), Undisturbed(Peer(f))
        PROVE  Link!Next
    <3>1. chan' = [chan EXCEPT ![f] = Append(OnItsWay(f), x)]
      BY <2>3, <2>5 DEF Grown
    <3>2. Link!Send(f, x)
      BY <2>2, <3>1 DEF Link!Send
    <3> QED
      BY <3>2 DEF Link!Next
  <2>6. ASSUME NEW f \in End, OnItsWay(f) # <<>>, OnItsWay(f)' = Tail(OnItsWay(f)), Undisturbed(Peer(f))
        PROVE  Link!Next
    <3>1. chan' = [chan EXCEPT ![f] = Tail(OnItsWay(f))]
      BY <2>3, <2>6
    <3>2. Link!Receive(f)
      BY <2>2, <2>6, <3>1 DEF Link!Receive
    <3> QED
      BY <3>2 DEF Link!Next
  <2> QED
    BY <2>1, <2>4, <2>5, <2>6 DEF ChannelStep
<1> QED
  BY <1>1, <1>2, LInvHolds, PTL DEF Spec, Link!Spec
=============================================================================
