----------------------- MODULE AuroraArbiterBar_proofs -----------------------
(***************************************************************************)
(* The fabric delivers in order: for every length of the chain, number of  *)
(* endpoints, set of flows and depth of the FIFOs, the packets of a flow   *)
(* arrive as they were sent.                                               *)
(***************************************************************************)
EXTENDS AuroraArbiterBar, SequenceTheorems, TLAPS

-----------------------------------------------------------------------------
(* Merges. *)

(* A merge at reset is empty. *)
LEMMA EmptyMergeType ==
  ASSUME NEW S
  PROVE  EmptyMerge \in MergeOf(S)
<1>1. <<>> \in Seq(S)
  BY EmptySeq
<1> QED
  BY <1>1 DEF EmptyMerge, MergeOf, Input

(* An entry goes to the end of its input, and nothing else moves. *)
LEMMA EnteredMerge ==
  ASSUME NEW S, NEW m \in MergeOf(S), NEW i \in Input, NEW e \in S, NEW r \in Entered(m, i, e)
  PROVE  /\ r \in MergeOf(S)
         /\ r.in[i] = Append(m.in[i], e)
         /\ r.in[3 - i] = m.in[3 - i]
         /\ r.out = m.out
<1>1. PICK p \in Input : r = [m EXCEPT !.in[i] = Append(@, e), !.prio = p]
  BY DEF Entered, MergeOf
<1>2. /\ m = [in |-> m.in, out |-> m.out, prio |-> m.prio]
      /\ m.in \in [Input -> Seq(S)] /\ m.out \in Seq(S)
  BY DEF MergeOf
<1>3. r = [in |-> [m.in EXCEPT ![i] = Append(@, e)], out |-> m.out, prio |-> p]
  BY <1>1, <1>2
<1>4. Append(m.in[i], e) \in Seq(S)
  BY <1>2, AppendProperties
<1>5. 3 - i \in Input /\ 3 - i # i
  BY DEF Input
<1>6. [m.in EXCEPT ![i] = Append(@, e)] \in [Input -> Seq(S)]
  BY <1>2, <1>4
<1> QED
  BY <1>2, <1>3, <1>5, <1>6 DEF MergeOf

(* The rule merge moves the head of one input to the end of the output. *)
LEMMA MergedMerge ==
  ASSUME NEW S, NEW m \in MergeOf(S), Waiting(m)
  PROVE  /\ Chosen(m) \in Input
         /\ m.in[Chosen(m)] # <<>>
         /\ Merged(m) \in MergeOf(S)
         /\ Merged(m).in[Chosen(m)] = Tail(m.in[Chosen(m)])
         /\ Merged(m).in[3 - Chosen(m)] = m.in[3 - Chosen(m)]
         /\ Merged(m).out = Append(m.out, Head(m.in[Chosen(m)]))
<1> DEFINE i == Chosen(m)
           p == IF Waiting([m EXCEPT !.in[i] = Tail(@), !.out = Append(@, Head(m.in[i]))])
                THEN 3 - m.prio ELSE 1
           ins == [m.in EXCEPT ![i] = Tail(@)]
           out == Append(m.out, Head(m.in[i]))
<1>1. m.in \in [Input -> Seq(S)] /\ m.out \in Seq(S) /\ m.prio \in Input
  BY DEF MergeOf
<1>2. i \in Input /\ m.in[i] # <<>> /\ 3 - i \in Input /\ 3 - i # i
  BY <1>1 DEF Waiting, Chosen, Input
<1>3. Merged(m) = [[m EXCEPT !.in[i] = Tail(@), !.out = Append(@, Head(m.in[i]))] EXCEPT !.prio = p]
  BY DEF Merged, MergeOf
<1> HIDE DEF i
<1>4. p \in Input
  BY <1>1 DEF Input
<1>5. Head(m.in[i]) \in S /\ Tail(m.in[i]) \in Seq(S)
  BY <1>1, <1>2, HeadTailProperties
<1>6. out \in Seq(S)
  BY <1>1, <1>5, AppendProperties
<1>7. ins \in [Input -> Seq(S)]
  BY <1>1, <1>5
<1> HIDE DEF p
<1>8. Merged(m) \in MergeOf(S) /\ Merged(m).in = ins /\ Merged(m).out = out
  BY <1>2, <1>3, <1>4, <1>6, <1>7 DEF MergeOf
<1> QED
  BY <1>1, <1>2, <1>8 DEF i

(* deq takes the head of the output. *)
LEMMA LeftMerge ==
  ASSUME NEW S, NEW m \in MergeOf(S), m.out # <<>>
  PROVE  Left(m) \in MergeOf(S) /\ Left(m).in = m.in /\ Left(m).out = Tail(m.out)
<1>1. Tail(m.out) \in Seq(S)
  BY HeadTailProperties DEF MergeOf
<1> QED
  BY <1>1 DEF MergeOf, Left

-----------------------------------------------------------------------------
(* Order over a network of FIFOs.  F is what each FIFO holds; the packets of *)
(* a flow are ordered by the stage of the FIFO they are in, and in a FIFO by *)
(* their position.                                                         *)

(* The FIFOs of the chain, the two links of a hop taken as one. *)
Beyond(n, w) == IF w = "up" THEN n + 1 ELSE n - 1
Hop == {b \in Node \X Way : Beyond(b[1], b[2]) \in Node}
Name ==
  {"entry"} \X Node \X Level \X Input \cup {"entryOut"} \X Node \X Level \X {0}
  \cup {"join"} \X Node \X Way \X Input \cup {"joinOut"} \X Node \X Way \X {0}
  \cup {<<"lanes", b[1], b[2], 0>> : b \in Hop} \cup {"arrived"} \X Node \X Way \X {0}
  \cup {"exit"} \X Node \X {0} \X Input \cup {"exitOut"} \X Node \X {0} \X {0}

(* The nodes that a packet has come past, itself included, on a way to n. *)
Along(n, w) == IF w = "up" THEN n ELSE NodeCount + 1 - n

(* How far on its path a packet in q is. *)
Stage(q) ==
  LET past(w) == 2 * EndpointCount + 4 * Along(q[2], w)
  IN CASE q[1] = "entry" -> 2 * q[3] - 1
       [] q[1] = "entryOut" -> 2 * q[3]
       [] q[1] = "join" -> past(q[3])
       [] q[1] = "joinOut" -> past(q[3]) + 1
       [] q[1] = "lanes" -> past(q[3]) + 2
       [] q[1] = "arrived" -> past(Across(q[3])) - 1
       [] q[1] = "exit" -> past(IF q[4] = 1 THEN "down" ELSE "up")
       [] q[1] = "exitOut" -> 2 * EndpointCount + 4 * (NodeCount + 2)

(* The flow of a packet; its source is filled in after the entry merges. *)
FlowAt(q, d) ==
  IF q[1] \in {"entry", "entryOut"} THEN <<q[2], d.dst, d.ptype>> ELSE FlowOf(d)

Slots(F, f) ==
  {s \in Name \X Nat : s[2] \in 1..Len(F[s[1]]) /\ FlowAt(s[1], F[s[1]][s[2]]) = f}

At(F, s) == F[s[1]][s[2]]

Ahead(s, t) == Stage(s[1]) > Stage(t[1]) \/ (s[1] = t[1] /\ s[2] < t[2])

(* The packets of f are those of c, the oldest the furthest ahead. *)
Ordered(F, f, c) ==
  \E at \in [1..Len(c) -> Slots(F, f)] :
    /\ \A s \in Slots(F, f) : \E i \in 1..Len(c) : at[i] = s
    /\ \A i \in 1..Len(c) : At(F, at[i]).item = c[i]
    /\ \A i, j \in 1..Len(c) : i < j => Ahead(at[i], at[j])

(* What maps slots to slots and keeps packets and their order keeps f in order. *)
LEMMA Carried ==
  ASSUME NEW F, NEW G, NEW f, NEW c, Len(c) \in Nat, Ordered(F, f, c),
         NEW h \in [Slots(F, f) -> Slots(G, f)],
         \A t \in Slots(G, f) : \E s \in Slots(F, f) : h[s] = t,
         \A s \in Slots(F, f) : At(G, h[s]).item = At(F, s).item,
         \A s, t \in Slots(F, f) : Ahead(s, t) => Ahead(h[s], h[t])
  PROVE  Ordered(G, f, c)
<1>1. PICK at \in [1..Len(c) -> Slots(F, f)] :
        /\ \A s \in Slots(F, f) : \E i \in 1..Len(c) : at[i] = s
        /\ \A i \in 1..Len(c) : At(F, at[i]).item = c[i]
        /\ \A i, j \in 1..Len(c) : i < j => Ahead(at[i], at[j])
  BY DEF Ordered
<1> DEFINE to == [i \in 1..Len(c) |-> h[at[i]]]
<1>2. to \in [1..Len(c) -> Slots(G, f)]
  BY <1>1
<1>3. \A t \in Slots(G, f) : \E i \in 1..Len(c) : to[i] = t
  BY <1>1
<1>4. \A i \in 1..Len(c) : At(G, to[i]).item = c[i]
  BY <1>1
<1>5. \A i, j \in 1..Len(c) : i < j => Ahead(to[i], to[j])
  BY <1>1
<1> HIDE DEF to
<1> QED
  BY <1>2, <1>3, <1>4, <1>5 DEF Ordered

(* A head that moves on to the end of a FIFO of a later stage. *)
Moved(F, G, a, b, d) ==
  /\ F \in [Name -> Seq(Packet)] /\ G \in [Name -> Seq(Packet)]
  /\ a \in Name /\ b \in Name /\ a # b /\ d \in Packet
  /\ F[a] # <<>> /\ G[a] = Tail(F[a]) /\ G[b] = Append(F[b], d)
  /\ \A q \in Name \ {a, b} : G[q] = F[q]

(* No FIFO between the two holds packets of the flow f. *)
NoneBetween(F, f, a, b) ==
  \A s \in Slots(F, f) : s[1] \in {a, b} \/ Stage(s[1]) <= Stage(a) \/ Stage(s[1]) > Stage(b)

(* The packet that moves stays where it was among those of its flow. *)
LEMMA MoveKeepsOrder ==
  ASSUME NEW F, NEW G, NEW a, NEW b, NEW d, NEW f, NEW c, Len(c) \in Nat,
         Moved(F, G, a, b, d), Ordered(F, f, c), Stage(a) \in Int, Stage(b) \in Int,
         \A q \in Name : Stage(q) \in Int,
         FlowAt(b, d) = FlowAt(a, Head(F[a])), d.item = Head(F[a]).item, Stage(a) < Stage(b),
         FlowAt(b, d) = f => NoneBetween(F, f, a, b)
  PROVE  Ordered(G, f, c)
<1> DEFINE S == Slots(F, f)
           T == Slots(G, f)
           end == <<b, Len(F[b]) + 1>>
           h == [s \in S |-> IF s[1] = a THEN IF s[2] = 1 THEN end ELSE <<a, s[2] - 1>> ELSE s]
<1>1. /\ a \in Name /\ b \in Name /\ a # b
      /\ F[a] \in Seq(Packet) /\ F[b] \in Seq(Packet) /\ F[a] # <<>>
      /\ \A q \in Name : Len(F[q]) \in Nat
      /\ \A q \in Name \ {a, b} : G[q] = F[q]
  BY LenProperties DEF Moved
<1>2. /\ Len(G[a]) = Len(F[a]) - 1
      /\ \A i \in 1..Len(G[a]) : G[a][i] = F[a][i + 1]
      /\ Head(F[a]) = F[a][1]
  BY <1>1, HeadTailProperties DEF Moved
<1>3. /\ Len(G[b]) = Len(F[b]) + 1
      /\ \A i \in 1..Len(F[b]) : G[b][i] = F[b][i]
      /\ G[b][Len(F[b]) + 1] = d
  BY <1>1, AppendProperties DEF Moved
<1>4. \A s \in S : /\ s = <<s[1], s[2]>> /\ s[1] \in Name /\ s[2] \in 1..Len(F[s[1]])
                   /\ FlowAt(s[1], F[s[1]][s[2]]) = f
  BY DEF Slots
<1>5. \A q \in Name : \A k \in Nat : k \in 1..Len(G[q]) /\ FlowAt(q, G[q][k]) = f => <<q, k>> \in T
  BY DEF Slots
<1>6. \A q \in Name : \A k \in Nat : k \in 1..Len(F[q]) /\ FlowAt(q, F[q][k]) = f => <<q, k>> \in S
  BY DEF Slots
<1>7. ASSUME NEW s \in S
      PROVE  h[s] \in T /\ At(G, h[s]).item = At(F, s).item
  <2>1. CASE s[1] = a /\ s[2] = 1
    <3>1. h[s] = end /\ FlowAt(b, d) = f /\ At(F, s) = Head(F[a])
      BY <1>2, <1>4, <2>1 DEF At
    <3>2. end \in T /\ At(G, end) = d
      BY <1>1, <1>3, <1>5, <3>1 DEF At
    <3> QED
      BY <3>1, <3>2
  <2>2. CASE s[1] = a /\ s[2] # 1
    <3>0. s[2] \in 1..Len(F[a]) /\ Len(F[a]) \in Nat
      BY <1>1, <1>4, <2>2
    <3>1. h[s] = <<a, s[2] - 1>> /\ s[2] - 1 \in 1..Len(G[a]) /\ G[a][s[2] - 1] = F[a][s[2]]
      <4> DEFINE k == s[2] - 1
      <4>1. k \in 1..Len(G[a]) /\ k + 1 = s[2]
        BY <1>2, <2>2, <3>0
      <4>2. G[a][k] = F[a][k + 1]
        BY <1>2, <4>1
      <4> QED
        BY <2>2, <4>1, <4>2
    <3>2. FlowAt(a, G[a][s[2] - 1]) = f
      BY <1>4, <2>2, <3>1
    <3>3. <<a, s[2] - 1>> \in T
      BY <1>1, <1>5, <3>1, <3>2
    <3> QED
      BY <2>2, <3>1, <3>3 DEF At
  <2>3. CASE s[1] = b
    <3>1. h[s] = s /\ s[2] \in 1..Len(G[b]) /\ G[b][s[2]] = F[b][s[2]]
      BY <1>1, <1>3, <1>4, <2>3
    <3>2. s \in T
      BY <1>1, <1>4, <1>5, <2>3, <3>1
    <3> QED
      BY <2>3, <3>1, <3>2 DEF At
  <2>4. CASE s[1] \notin {a, b}
    <3>1. h[s] = s /\ G[s[1]] = F[s[1]]
      BY <1>1, <1>4, <2>4
    <3>2. s \in T
      BY <1>4, <1>5, <3>1
    <3> QED
      BY <3>1, <3>2 DEF At
  <2> QED
    BY <2>1, <2>2, <2>3, <2>4
<1>8. h \in [S -> T]
  <2> HIDE DEF T
  <2> QED
    BY <1>7
<1>9. ASSUME NEW t \in T
      PROVE  \E s \in S : h[s] = t
  <2>1. /\ t = <<t[1], t[2]>> /\ t[1] \in Name /\ t[2] \in 1..Len(G[t[1]])
        /\ FlowAt(t[1], G[t[1]][t[2]]) = f
    BY DEF Slots
  <2>2. CASE t[1] = a
    <3>1. t[2] + 1 \in 1..Len(F[a]) /\ F[a][t[2] + 1] = G[a][t[2]] /\ t[2] + 1 # 1
      BY <1>1, <1>2, <2>1, <2>2, SMTT(30)
    <3>2. <<a, t[2] + 1>> \in S
      BY <1>1, <1>6, <2>1, <2>2, <3>1
    <3>3. h[<<a, t[2] + 1>>] = <<a, t[2]>>
      BY <2>1, <3>1, <3>2
    <3> QED
      BY <2>1, <2>2, <3>2, <3>3
  <2>3. CASE t[1] = b /\ t[2] = Len(F[b]) + 1
    <3>1. FlowAt(b, d) = f
      BY <1>3, <2>1, <2>3
    <3>2. 1 \in 1..Len(F[a])
      BY <1>1, EmptySeq
    <3>3. <<a, 1>> \in S
      BY <1>1, <1>2, <1>6, <3>1, <3>2
    <3>4. h[<<a, 1>>] = end
      BY <3>3
    <3> QED
      BY <2>1, <2>3, <3>3, <3>4
  <2>4. CASE t[1] = b /\ t[2] # Len(F[b]) + 1
    <3>1. t[2] \in 1..Len(F[b]) /\ G[b][t[2]] = F[b][t[2]]
      BY <1>1, <1>3, <2>1, <2>4
    <3>2. t \in S
      BY <1>1, <1>6, <2>1, <2>4, <3>1
    <3> QED
      BY <1>1, <2>4, <3>2
  <2>5. CASE t[1] \notin {a, b}
    <3>1. t \in S
      BY <1>1, <1>6, <2>1, <2>5
    <3> QED
      BY <2>5, <3>1
  <2> QED
    BY <2>2, <2>3, <2>4, <2>5
<1>10. ASSUME NEW s \in S, NEW t \in S, Ahead(s, t)
       PROVE  Ahead(h[s], h[t])
  <2>1. /\ s[1] \in Name /\ t[1] \in Name /\ s[2] \in Nat \ {0} /\ t[2] \in Nat \ {0}
        /\ Stage(s[1]) \in Int /\ Stage(t[1]) \in Int
        /\ s[2] <= Len(F[s[1]]) /\ t[2] <= Len(F[t[1]])
    BY <1>1, <1>4
  <2>2. CASE s[1] = a /\ s[2] = 1
    <3>1. h[s] = end
      BY <2>2
    <3>2. NoneBetween(F, f, a, b)
      BY <1>2, <1>4, <2>2
    <3>3. ~(t[1] = a /\ t[2] = 1) /\ (t[1] = a \/ Stage(t[1]) < Stage(a))
      BY <1>10, <2>1, <2>2 DEF Ahead
    <3>4. Stage(h[t][1]) <= Stage(a)
      BY <2>1, <3>3
    <3> QED
      BY <1>4, <2>1, <3>1, <3>4 DEF Ahead
  <2>3. CASE t[1] = a /\ t[2] = 1
    <3>1. h[t] = end
      BY <2>3
    <3>2. NoneBetween(F, f, a, b)
      BY <1>2, <1>4, <2>3
    <3>3. Stage(s[1]) > Stage(a) /\ s[1] # a
      BY <1>10, <2>1, <2>3 DEF Ahead
    <3>4. h[s] = s /\ (s[1] = b \/ Stage(s[1]) > Stage(b))
      BY <2>1, <3>2, <3>3 DEF NoneBetween
    <3> QED
      BY <1>1, <2>1, <3>1, <3>4, SMTT(30) DEF Ahead
  <2>4. CASE ~(s[1] = a /\ s[2] = 1) /\ ~(t[1] = a /\ t[2] = 1)
    <3>1. /\ h[s][1] = s[1] /\ h[t][1] = t[1]
          /\ h[s][2] = (IF s[1] = a THEN s[2] - 1 ELSE s[2])
          /\ h[t][2] = (IF t[1] = a THEN t[2] - 1 ELSE t[2])
      BY <2>4
    <3> QED
      BY <1>10, <2>1, <3>1 DEF Ahead
  <2> QED
    BY <2>2, <2>3, <2>4
<1> HIDE DEF h, S, T
<1> QED
  BY <1>7, <1>8, <1>9, <1>10, Carried DEF S, T

(* A packet that is put at the end of a FIFO. *)
Put(F, G, b, d) ==
  /\ F \in [Name -> Seq(Packet)] /\ G \in [Name -> Seq(Packet)]
  /\ b \in Name /\ d \in Packet /\ G[b] = Append(F[b], d)
  /\ \A q \in Name \ {b} : G[q] = F[q]

(* A packet that enters behind all others of its flow. *)
LEMMA EntryKeepsOrder ==
  ASSUME NEW F, NEW G, NEW b, NEW d, NEW f, NEW c \in Seq(Item), d.item \in Item,
         Put(F, G, b, d), Ordered(F, f, c),
         \A q \in Name : Stage(q) \in Int,
         FlowAt(b, d) = f,
         \A s \in Slots(F, f) : s[1] = b \/ Stage(s[1]) > Stage(b)
  PROVE  Ordered(G, f, Append(c, d.item))
<1> DEFINE S == Slots(F, f)
           T == Slots(G, f)
           end == <<b, Len(F[b]) + 1>>
           e == Append(c, d.item)
<1>1. PICK at \in [1..Len(c) -> S] :
        /\ \A s \in S : \E i \in 1..Len(c) : at[i] = s
        /\ \A i \in 1..Len(c) : At(F, at[i]).item = c[i]
        /\ \A i, j \in 1..Len(c) : i < j => Ahead(at[i], at[j])
  BY DEF Ordered
<1>2. /\ Len(c) \in Nat /\ Len(e) = Len(c) + 1 /\ e[Len(c) + 1] = d.item
      /\ \A i \in 1..Len(c) : e[i] = c[i]
  BY AppendProperties, LenProperties
<1>3. /\ b \in Name /\ \A q \in Name \ {b} : G[q] = F[q]
      /\ F[b] \in Seq(Packet) /\ \A q \in Name : Len(F[q]) \in Nat
      /\ Len(G[b]) = Len(F[b]) + 1
      /\ \A i \in 1..Len(F[b]) : G[b][i] = F[b][i]
      /\ G[b][Len(F[b]) + 1] = d
  BY AppendProperties, LenProperties DEF Put
<1> HIDE DEF e
<1>4. \A s \in S : /\ s = <<s[1], s[2]>> /\ s[1] \in Name /\ s[2] \in 1..Len(F[s[1]])
                   /\ FlowAt(s[1], F[s[1]][s[2]]) = f
  BY DEF Slots
<1>5. \A q \in Name : \A k \in Nat : k \in 1..Len(G[q]) /\ FlowAt(q, G[q][k]) = f => <<q, k>> \in T
  BY DEF Slots
<1>6. \A t \in T : /\ t = <<t[1], t[2]>> /\ t[1] \in Name /\ t[2] \in 1..Len(G[t[1]])
                   /\ FlowAt(t[1], G[t[1]][t[2]]) = f
  BY DEF Slots
<1>7. \A q \in Name : \A k \in Nat : k \in 1..Len(F[q]) /\ FlowAt(q, F[q][k]) = f => <<q, k>> \in S
  BY DEF Slots
<1>8. end \in T /\ At(G, end) = d
  <2> DEFINE k == Len(F[b]) + 1
  <2>1. k \in Nat /\ k \in 1..Len(G[b]) /\ G[b][k] = d
    BY <1>3
  <2> HIDE DEF k
  <2>2. <<b, k>> \in T /\ At(G, <<b, k>>) = d
    BY <1>3, <1>5, <2>1 DEF At
  <2> QED
    BY <2>2 DEF k
<1>9. ASSUME NEW s \in S
      PROVE  s \in T /\ At(G, s) = At(F, s) /\ Ahead(s, end)
  <2>1. CASE s[1] = b
    <3>1. s[2] \in 1..Len(G[b]) /\ G[b][s[2]] = F[b][s[2]] /\ s[2] < Len(F[b]) + 1
      BY <1>3, <1>4, <2>1
    <3> QED
      BY <1>3, <1>4, <1>5, <2>1, <3>1 DEF At, Ahead
  <2>2. CASE s[1] # b
    BY <1>3, <1>4, <1>5, <2>2 DEF At, Ahead
  <2> QED
    BY <2>1, <2>2
<1>10. ASSUME NEW t \in T, t # end
       PROVE  t \in S
  <2>1. CASE t[1] = b
    <3>1. t[2] # Len(F[b]) + 1
      BY <1>6, <1>10, <2>1
    <3>2. t[2] \in 1..Len(F[b]) /\ G[b][t[2]] = F[b][t[2]]
      BY <1>3, <1>6, <2>1, <3>1, SMTT(30)
    <3> QED
      BY <1>3, <1>6, <1>7, <2>1, <3>2, SMTT(30)
  <2>2. CASE t[1] # b
    BY <1>3, <1>6, <1>7, <2>2, SMTT(30)
  <2> QED
    BY <2>1, <2>2
<1> HIDE DEF S, T, end
<1> DEFINE to == [i \in 1..Len(e) |-> IF i = Len(e) THEN end ELSE at[i]]
<1>11. \A i \in 1..Len(e) : i # Len(e) => i \in 1..Len(c) /\ to[i] = at[i]
  BY <1>2
<1>12. Len(e) \in 1..Len(e) /\ to[Len(e)] = end
  BY <1>2
<1>13. to \in [1..Len(e) -> T]
  BY <1>1, <1>2, <1>8, <1>9
<1>14. \A t \in T : \E i \in 1..Len(e) : to[i] = t
  <2> SUFFICES ASSUME NEW t \in T
               PROVE  \E i \in 1..Len(e) : to[i] = t
    OBVIOUS
  <2>1. CASE t = end
    BY <1>12, <2>1
  <2>2. CASE t # end
    <3>1. PICK i \in 1..Len(c) : at[i] = t
      BY <1>1, <1>10, <2>2
    <3>2. i \in 1..Len(e) /\ i # Len(e)
      BY <1>2
    <3> QED
      BY <1>11, <3>1, <3>2
  <2> QED
    BY <2>1, <2>2
<1> HIDE DEF to
<1>15. \A i \in 1..Len(e) : At(G, to[i]).item = e[i]
  <2> SUFFICES ASSUME NEW i \in 1..Len(e)
               PROVE  At(G, to[i]).item = e[i]
    OBVIOUS
  <2>1. CASE i = Len(e)
    BY <1>2, <1>8, <1>12, <2>1
  <2>2. CASE i # Len(e)
    BY <1>1, <1>2, <1>9, <1>11, <2>2
  <2> QED
    BY <2>1, <2>2
<1>16. \A i, j \in 1..Len(e) : i < j => Ahead(to[i], to[j])
  <2> SUFFICES ASSUME NEW i \in 1..Len(e), NEW j \in 1..Len(e), i < j
               PROVE  Ahead(to[i], to[j])
    OBVIOUS
  <2>1. i # Len(e)
    BY <1>2
  <2>2. i \in 1..Len(c) /\ to[i] = at[i] /\ at[i] \in S
    BY <1>1, <1>11, <2>1
  <2>3. CASE j = Len(e)
    BY <1>9, <1>12, <2>2, <2>3
  <2>4. CASE j # Len(e)
    BY <1>1, <1>11, <2>2, <2>4
  <2> QED
    BY <2>3, <2>4
<1> QED
  BY <1>13, <1>14, <1>15, <1>16 DEF Ordered, T, e

(* A head that is taken from its FIFO. *)
Taken(F, G, a) ==
  /\ F \in [Name -> Seq(Packet)] /\ G \in [Name -> Seq(Packet)]
  /\ a \in Name /\ F[a] # <<>> /\ G[a] = Tail(F[a])
  /\ \A q \in Name \ {a} : G[q] = F[q]

(* A head that leaves, ahead of all others of its flow, is its oldest. *)
LEMMA LeavingKeepsOrder ==
  ASSUME NEW F, NEW G, NEW a, NEW f, NEW c \in Seq(Item), Taken(F, G, a), Ordered(F, f, c),
         \A q \in Name : Stage(q) \in Int,
         FlowAt(a, Head(F[a])) = f,
         \A s \in Slots(F, f) : s[1] = a \/ Stage(s[1]) <= Stage(a)
  PROVE  /\ c # <<>> /\ Head(F[a]).item = Head(c)
         /\ Ordered(G, f, Tail(c))
<1> DEFINE S == Slots(F, f)
           T == Slots(G, f)
           first == <<a, 1>>
           e == Tail(c)
           h == [s \in S |-> IF s[1] = a THEN <<a, s[2] - 1>> ELSE s]
<1>1. PICK at \in [1..Len(c) -> S] :
        /\ \A s \in S : \E i \in 1..Len(c) : at[i] = s
        /\ \A i \in 1..Len(c) : At(F, at[i]).item = c[i]
        /\ \A i, j \in 1..Len(c) : i < j => Ahead(at[i], at[j])
  BY DEF Ordered
<1>2. /\ a \in Name /\ \A q \in Name \ {a} : G[q] = F[q]
      /\ F[a] \in Seq(Packet) /\ \A q \in Name : Len(F[q]) \in Nat
      /\ Len(F[a]) >= 1 /\ Len(G[a]) = Len(F[a]) - 1
      /\ \A i \in 1..Len(G[a]) : G[a][i] = F[a][i + 1]
      /\ Head(F[a]) = F[a][1]
  BY HeadTailProperties, LenProperties, EmptySeq DEF Taken
<1>3. Len(c) \in Nat
  BY LenProperties
<1>4. \A s \in S : /\ s = <<s[1], s[2]>> /\ s[1] \in Name /\ s[2] \in 1..Len(F[s[1]])
                   /\ FlowAt(s[1], F[s[1]][s[2]]) = f
  BY DEF Slots
<1>5. \A q \in Name : \A k \in Nat : k \in 1..Len(G[q]) /\ FlowAt(q, G[q][k]) = f => <<q, k>> \in T
  BY DEF Slots
<1>6. \A t \in T : /\ t = <<t[1], t[2]>> /\ t[1] \in Name /\ t[2] \in 1..Len(G[t[1]])
                   /\ FlowAt(t[1], G[t[1]][t[2]]) = f
  BY DEF Slots
<1>7. \A q \in Name : \A k \in Nat : k \in 1..Len(F[q]) /\ FlowAt(q, F[q][k]) = f => <<q, k>> \in S
  BY DEF Slots
<1>8. first \in S /\ At(F, first) = Head(F[a])
  BY <1>2, <1>7 DEF At
<1>9. \A s \in S : ~Ahead(s, first)
  <2> SUFFICES ASSUME NEW s \in S, Ahead(s, first)
               PROVE  FALSE
    OBVIOUS
  <2>1. s[1] \in Name /\ s[2] >= 1
    BY <1>2, <1>4
  <2>2. Stage(s[1]) > Stage(a) \/ (s[1] = a /\ s[2] < 1)
    BY DEF Ahead
  <2> QED
    BY <1>2, <1>4, <2>1, <2>2
<1>10. PICK k \in 1..Len(c) : at[k] = first
  BY <1>1, <1>8
<1>11. k = 1 /\ 1 \in 1..Len(c)
  <2>1. 1 \in 1..Len(c)
    BY <1>3
  <2> QED
    <3>1. k # 1 => Ahead(at[1], at[k])
      BY <1>1, <1>3, <2>1
    <3>2. at[1] \in S
      BY <1>1, <2>1
    <3> HIDE DEF S, first
    <3> QED
      BY <1>9, <1>10, <2>1, <3>1, <3>2
<1>12. c # <<>> /\ Head(c) = c[1] /\ Len(e) = Len(c) - 1 /\ \A i \in 1..Len(e) : e[i] = c[i + 1]
  BY <1>3, <1>11, HeadTailProperties, EmptySeq
<1>13. Head(F[a]).item = Head(c)
  <2>1. At(F, at[1]).item = c[1] /\ at[1] = first
    BY <1>1, <1>10, <1>11
  <2> HIDE DEF first
  <2> QED
    BY <1>8, <1>12, <2>1
<1>14. ASSUME NEW s \in S, s # first
       PROVE  h[s] \in T /\ At(G, h[s]) = At(F, s)
  <2>1. CASE s[1] = a
    <3> DEFINE m == s[2] - 1
    <3>1. s[2] # 1 /\ s[2] \in 1..Len(F[a]) /\ Len(F[a]) \in Nat
      BY <1>2, <1>4, <1>14, <2>1
    <3>2. m \in 1..Len(G[a]) /\ m + 1 = s[2]
      BY <1>2, <3>1, SMTT(30)
    <3>3. G[a][m] = F[a][s[2]]
      BY <1>2, <3>2
    <3>4. h[s] = <<a, m>>
      BY <2>1
    <3> QED
      <4> HIDE DEF m, T
      <4>1. FlowAt(a, G[a][m]) = f /\ m \in Nat
        BY <1>2, <1>4, <2>1, <3>2, <3>3
      <4>2. <<a, m>> \in T
        BY <1>2, <1>5, <3>2, <4>1
      <4> HIDE DEF h
      <4> QED
        BY <2>1, <3>3, <3>4, <4>2 DEF At
  <2>2. CASE s[1] # a
    <3>1. /\ s = <<s[1], s[2]>> /\ s[1] \in Name /\ s[2] \in 1..Len(F[s[1]]) /\ Len(F[s[1]]) \in Nat
          /\ FlowAt(s[1], F[s[1]][s[2]]) = f
      BY <1>2, <1>4
    <3>2. G[s[1]] = F[s[1]] /\ s[2] \in Nat
      BY <1>2, <2>2, <3>1
    <3> HIDE DEF S, T
    <3>3. s \in T
      BY <1>5, <3>1, <3>2
    <3>4. h[s] = s
      BY <2>2
    <3> HIDE DEF h
    <3> QED
      BY <3>2, <3>3, <3>4 DEF At
  <2> QED
    BY <2>1, <2>2
<1>15. ASSUME NEW t \in T
       PROVE  \E s \in S : s # first /\ h[s] = t
  <2>1. CASE t[1] = a
    <3>1. t[2] + 1 \in 1..Len(F[a]) /\ F[a][t[2] + 1] = G[a][t[2]] /\ t[2] + 1 # 1 /\ t[2] \in Nat
      BY <1>2, <1>6, <2>1, SMTT(30)
    <3>2. <<a, t[2] + 1>> \in S
      BY <1>2, <1>6, <1>7, <2>1, <3>1, SMTT(30)
    <3>3. h[<<a, t[2] + 1>>] = <<a, t[2]>>
      BY <3>1, <3>2
    <3> QED
      BY <1>6, <2>1, <3>1, <3>2, <3>3
  <2>2. CASE t[1] # a
    <3>1. t \in S
      BY <1>2, <1>6, <1>7, <2>2
    <3> QED
      BY <2>2, <3>1
  <2> QED
    BY <2>1, <2>2
<1>16. ASSUME NEW s \in S, NEW t \in S, Ahead(s, t)
       PROVE  Ahead(h[s], h[t])
  <2>1. /\ s[1] \in Name /\ t[1] \in Name /\ s[2] \in Nat \ {0} /\ t[2] \in Nat \ {0}
        /\ Stage(s[1]) \in Int /\ Stage(t[1]) \in Int
    BY <1>2, <1>4
  <2>2. /\ h[s][1] = s[1] /\ h[t][1] = t[1]
        /\ h[s][2] = (IF s[1] = a THEN s[2] - 1 ELSE s[2])
        /\ h[t][2] = (IF t[1] = a THEN t[2] - 1 ELSE t[2])
    OBVIOUS
  <2> QED
    BY <1>16, <2>1, <2>2 DEF Ahead
<1>17. \A i \in 1..Len(e) : i + 1 \in 1..Len(c) /\ at[i + 1] \in S /\ at[i + 1] # first
  <2> SUFFICES ASSUME NEW i \in 1..Len(e)
               PROVE  i + 1 \in 1..Len(c) /\ at[i + 1] \in S /\ at[i + 1] # first
    OBVIOUS
  <2>1. i + 1 \in 1..Len(c) /\ 1 < i + 1
    BY <1>3, <1>12
  <2>2. Ahead(at[1], at[i + 1]) /\ at[1] = first
    BY <1>1, <1>10, <1>11, <2>1
  <2> QED
    BY <1>1, <1>8, <1>9, <2>1, <2>2
<1> HIDE DEF S, T, first, e, h
<1> DEFINE to == [i \in 1..Len(e) |-> h[at[i + 1]]]
<1>18. to \in [1..Len(e) -> T]
  BY <1>14, <1>17
<1>19. \A t \in T : \E i \in 1..Len(e) : to[i] = t
  <2> SUFFICES ASSUME NEW t \in T
               PROVE  \E i \in 1..Len(e) : to[i] = t
    OBVIOUS
  <2>1. PICK s \in S : s # first /\ h[s] = t
    BY <1>15
  <2>2. PICK j \in 1..Len(c) : at[j] = s
    BY <1>1
  <2>3. j # 1
    BY <1>10, <1>11, <2>1, <2>2
  <2>4. j - 1 \in 1..Len(e) /\ (j - 1) + 1 = j
    BY <1>3, <1>12, <2>3
  <2>5. to[j - 1] = t
    BY <2>1, <2>2, <2>4
  <2> QED
    BY <2>4, <2>5
<1>20. \A i \in 1..Len(e) : At(G, to[i]).item = e[i]
  BY <1>1, <1>12, <1>14, <1>17
<1>21. \A i, j \in 1..Len(e) : i < j => Ahead(to[i], to[j])
  <2> SUFFICES ASSUME NEW i \in 1..Len(e), NEW j \in 1..Len(e), i < j
               PROVE  Ahead(to[i], to[j])
    OBVIOUS
  <2>1. i + 1 < j + 1
    BY <1>3, <1>12
  <2>2. Ahead(at[i + 1], at[j + 1])
    BY <1>1, <1>17, <2>1
  <2> QED
    BY <1>16, <1>17, <2>2
<1> HIDE DEF to
<1>22. Ordered(G, f, e)
  BY <1>18, <1>19, <1>20, <1>21 DEF Ordered, T
<1> QED
  BY <1>12, <1>13, <1>22 DEF e

(* A packet of another flow that enters leaves a flow in order. *)
LEMMA OtherEntry ==
  ASSUME NEW F, NEW G, NEW b, NEW d, NEW f, NEW c,
         Put(F, G, b, d), Ordered(F, f, c), FlowAt(b, d) # f
  PROVE  Ordered(G, f, c)
<1> DEFINE S == Slots(F, f)
<1>1. /\ b \in Name /\ \A q \in Name \ {b} : G[q] = F[q]
      /\ F[b] \in Seq(Packet) /\ \A q \in Name : Len(F[q]) \in Nat
      /\ Len(G[b]) = Len(F[b]) + 1
      /\ \A i \in 1..Len(F[b]) : G[b][i] = F[b][i]
      /\ G[b][Len(F[b]) + 1] = d
  BY AppendProperties, LenProperties DEF Put
<1>2. ASSUME NEW q \in Name, NEW k \in Nat
      PROVE  /\ k \in 1..Len(F[q]) => k \in 1..Len(G[q]) /\ G[q][k] = F[q][k]
             /\ k \in 1..Len(G[q]) /\ FlowAt(q, G[q][k]) = f => k \in 1..Len(F[q]) /\ G[q][k] = F[q][k]
  <2>1. CASE q = b
    BY <1>1, <2>1
  <2>2. CASE q # b
    BY <1>1, <2>2
  <2> QED
    BY <2>1, <2>2
<1>3. Slots(G, f) = S /\ \A s \in S : At(G, s) = At(F, s)
  BY <1>2 DEF Slots, At
<1>4. PICK at \in [1..Len(c) -> S] :
        /\ \A s \in S : \E i \in 1..Len(c) : at[i] = s
        /\ \A i \in 1..Len(c) : At(F, at[i]).item = c[i]
        /\ \A i, j \in 1..Len(c) : i < j => Ahead(at[i], at[j])
  BY DEF Ordered
<1> HIDE DEF S
<1>5. \A i \in 1..Len(c) : At(G, at[i]).item = c[i]
  BY <1>3, <1>4
<1> QED
  BY <1>3, <1>4, <1>5 DEF Ordered

(* Nor does one of another flow that is taken. *)
LEMMA OtherTaken ==
  ASSUME NEW F, NEW G, NEW a, NEW f, NEW c, Len(c) \in Nat,
         Taken(F, G, a), Ordered(F, f, c), FlowAt(a, Head(F[a])) # f,
         \A q \in Name : Stage(q) \in Int
  PROVE  Ordered(G, f, c)
<1> DEFINE S == Slots(F, f)
           T == Slots(G, f)
           h == [s \in S |-> IF s[1] = a THEN <<a, s[2] - 1>> ELSE s]
<1>1. /\ a \in Name /\ \A q \in Name \ {a} : G[q] = F[q]
      /\ \A q \in Name : Len(F[q]) \in Nat
      /\ Len(F[a]) >= 1 /\ Len(G[a]) = Len(F[a]) - 1
      /\ \A i \in 1..Len(G[a]) : G[a][i] = F[a][i + 1]
      /\ Head(F[a]) = F[a][1]
  BY HeadTailProperties, LenProperties, EmptySeq DEF Taken
<1>2. \A s \in S : /\ s = <<s[1], s[2]>> /\ s[1] \in Name /\ s[2] \in 1..Len(F[s[1]])
                   /\ FlowAt(s[1], F[s[1]][s[2]]) = f
  BY DEF Slots
<1>3. \A q \in Name : \A k \in Nat : k \in 1..Len(G[q]) /\ FlowAt(q, G[q][k]) = f => <<q, k>> \in T
  BY DEF Slots
<1>4. \A t \in T : /\ t = <<t[1], t[2]>> /\ t[1] \in Name /\ t[2] \in 1..Len(G[t[1]])
                   /\ FlowAt(t[1], G[t[1]][t[2]]) = f
  BY DEF Slots
<1>5. \A q \in Name : \A k \in Nat : k \in 1..Len(F[q]) /\ FlowAt(q, F[q][k]) = f => <<q, k>> \in S
  BY DEF Slots
<1>6. ASSUME NEW s \in S
      PROVE  h[s] \in T /\ At(G, h[s]) = At(F, s)
  <2>1. CASE s[1] = a
    <3> DEFINE m == s[2] - 1
    <3>1. s[2] # 1
      BY <1>1, <1>2, <2>1
    <3>2. m \in Nat /\ m \in 1..Len(G[a]) /\ m + 1 = s[2]
      BY <1>1, <1>2, <2>1, <3>1
    <3>3. G[a][m] = F[a][s[2]]
      BY <1>1, <3>2
    <3>4. h[s] = <<a, m>>
      BY <2>1
    <3> HIDE DEF m, T
    <3>5. FlowAt(a, G[a][m]) = f
      BY <1>2, <2>1, <3>3
    <3>6. <<a, m>> \in T
      BY <1>1, <1>3, <3>2, <3>5
    <3> HIDE DEF h
    <3> QED
      BY <2>1, <3>3, <3>4, <3>6 DEF At
  <2>2. CASE s[1] # a
    BY <1>1, <1>2, <1>3, <2>2 DEF At
  <2> QED
    BY <2>1, <2>2
<1>7. ASSUME NEW t \in T
      PROVE  \E s \in S : h[s] = t
  <2>1. CASE t[1] = a
    <3>1. t[2] + 1 \in 1..Len(F[a]) /\ F[a][t[2] + 1] = G[a][t[2]] /\ t[2] + 1 \in Nat
      BY <1>1, <1>4, <2>1, SMTT(30)
    <3>2. <<a, t[2] + 1>> \in S
      BY <1>1, <1>4, <1>5, <2>1, <3>1
    <3>3. h[<<a, t[2] + 1>>] = <<a, t[2]>>
      BY <1>1, <1>4, <2>1, <3>2
    <3> QED
      BY <1>4, <2>1, <3>2, <3>3
  <2>2. CASE t[1] # a
    <3>1. t \in S
      BY <1>1, <1>4, <1>5, <2>2
    <3> QED
      BY <2>2, <3>1
  <2> QED
    BY <2>1, <2>2
<1>8. ASSUME NEW s \in S, NEW t \in S, Ahead(s, t)
      PROVE  Ahead(h[s], h[t])
  <2>1. /\ s[1] \in Name /\ t[1] \in Name /\ s[2] \in Nat \ {0} /\ t[2] \in Nat \ {0}
        /\ Stage(s[1]) \in Int /\ Stage(t[1]) \in Int
    BY <1>1, <1>2
  <2>2. /\ h[s][1] = s[1] /\ h[t][1] = t[1]
        /\ h[s][2] = (IF s[1] = a THEN s[2] - 1 ELSE s[2])
        /\ h[t][2] = (IF t[1] = a THEN t[2] - 1 ELSE t[2])
    OBVIOUS
  <2> QED
    BY <1>8, <2>1, <2>2 DEF Ahead
<1>9. h \in [S -> T]
  <2> HIDE DEF S, T
  <2> QED
    BY <1>6
<1> HIDE DEF h, S, T
<1> QED
  BY <1>6, <1>7, <1>8, <1>9, Carried DEF S, T

-----------------------------------------------------------------------------
(* Two links whose packets are taken in turn, the next from s, are one FIFO. *)
Weave(s, t) ==
  [i \in 1..(Len(s) + Len(t)) |-> IF i % 2 = 1 THEN s[(i + 1) \div 2] ELSE t[i \div 2]]

InStep(s, t) == Len(s) - Len(t) \in {0, 1}

(* The weave takes the packets of the two links in turn. *)
LEMMA WeaveIsSeq ==
  ASSUME NEW S, NEW s \in Seq(S), NEW t \in Seq(S), InStep(s, t)
  PROVE  /\ Weave(s, t) \in Seq(S) /\ Len(Weave(s, t)) = Len(s) + Len(t)
         /\ \A i \in 1..(Len(s) + Len(t)) :
              Weave(s, t)[i] = IF i % 2 = 1 THEN s[(i + 1) \div 2] ELSE t[i \div 2]
         /\ \A j \in 1..Len(s) : 2 * j - 1 \in 1..(Len(s) + Len(t)) /\ Weave(s, t)[2 * j - 1] = s[j]
         /\ \A j \in 1..Len(t) : 2 * j \in 1..(Len(s) + Len(t)) /\ Weave(s, t)[2 * j] = t[j]
<1> DEFINE n == Len(s) + Len(t)
<1>1. /\ Len(s) \in Nat /\ Len(t) \in Nat /\ n \in Nat
      /\ (Len(s) = Len(t) \/ Len(s) = Len(t) + 1)
  BY LenProperties DEF InStep
<1>2. \A i \in 1..n : IF i % 2 = 1 THEN (i + 1) \div 2 \in 1..Len(s) ELSE i \div 2 \in 1..Len(t)
  BY <1>1
<1>3. (\A i \in 1..Len(s) : s[i] \in S) /\ (\A i \in 1..Len(t) : t[i] \in S)
  BY ElementOfSeq
<1>4. Weave(s, t) \in [1..n -> S]
  BY <1>2, <1>3 DEF Weave
<1>5. Weave(s, t) \in Seq(S)
  BY <1>1, <1>4, SeqDef
<1>6. Len(Weave(s, t)) = n
  <2>1. DOMAIN Weave(s, t) = 1..Len(Weave(s, t)) /\ Len(Weave(s, t)) \in Nat
    BY <1>5, LenProperties
  <2>2. DOMAIN Weave(s, t) = 1..n
    BY <1>4
  <2> DEFINE m == Len(Weave(s, t))
  <2>3. 1..m = 1..n /\ m \in Nat
    BY <2>1, <2>2
  <2> HIDE DEF m, n
  <2>4. (m = 0 \/ m \in 1..n) /\ (n = 0 \/ n \in 1..m)
    BY <1>1, <2>3
  <2> QED
    BY <1>1, <2>3, <2>4 DEF m
<1>7. \A i \in 1..n : Weave(s, t)[i] = IF i % 2 = 1 THEN s[(i + 1) \div 2] ELSE t[i \div 2]
  BY DEF Weave
<1>8. ASSUME NEW j \in 1..Len(s)
      PROVE  2 * j - 1 \in 1..n /\ Weave(s, t)[2 * j - 1] = s[j]
  <2>1. 2 * j - 1 \in 1..n /\ (2 * j - 1) % 2 = 1 /\ ((2 * j - 1) + 1) \div 2 = j
    BY <1>1
  <2> QED
    BY <1>7, <2>1
<1>9. ASSUME NEW j \in 1..Len(t)
      PROVE  2 * j \in 1..n /\ Weave(s, t)[2 * j] = t[j]
  <2>1. 2 * j \in 1..n /\ (2 * j) % 2 = 0 /\ (2 * j) \div 2 = j
    BY <1>1
  <2> QED
    BY <1>7, <2>1
<1> QED
  BY <1>5, <1>6, <1>7, <1>8, <1>9

(* What is sent next goes to the other link than the last. *)
LEMMA WeaveAppend ==
  ASSUME NEW S, NEW s \in Seq(S), NEW t \in Seq(S), NEW d \in S, InStep(s, t)
  PROVE  /\ Len(s) = Len(t) => /\ InStep(Append(s, d), t)
                               /\ Weave(Append(s, d), t) = Append(Weave(s, t), d)
         /\ Len(s) # Len(t) => /\ InStep(s, Append(t, d))
                               /\ Weave(s, Append(t, d)) = Append(Weave(s, t), d)
<1> DEFINE v == Append(Weave(s, t), d)
           n == Len(s) + Len(t)
<1>1. /\ Len(s) \in Nat /\ Len(t) \in Nat /\ n \in Nat
      /\ (Len(s) = Len(t) \/ Len(s) = Len(t) + 1)
  BY LenProperties DEF InStep
<1>2. /\ Append(s, d) \in Seq(S) /\ Len(Append(s, d)) = Len(s) + 1
      /\ Append(t, d) \in Seq(S) /\ Len(Append(t, d)) = Len(t) + 1
      /\ \A i \in 1..Len(s) : Append(s, d)[i] = s[i]
      /\ \A i \in 1..Len(t) : Append(t, d)[i] = t[i]
      /\ Append(s, d)[Len(s) + 1] = d /\ Append(t, d)[Len(t) + 1] = d
  BY AppendProperties
<1>3. /\ v \in Seq(S) /\ Len(v) = n + 1 /\ v[n + 1] = d
      /\ \A i \in 1..n : v[i] = IF i % 2 = 1 THEN s[(i + 1) \div 2] ELSE t[i \div 2]
  <2>1. /\ Weave(s, t) \in Seq(S) /\ Len(Weave(s, t)) = n
        /\ \A i \in 1..n : Weave(s, t)[i] = IF i % 2 = 1 THEN s[(i + 1) \div 2] ELSE t[i \div 2]
    BY WeaveIsSeq
  <2> DEFINE w == Weave(s, t)
  <2>0. w \in Seq(S)
    BY <2>1
  <2> HIDE DEF w
  <2>2. /\ Append(w, d) \in Seq(S) /\ Len(Append(w, d)) = Len(w) + 1 /\ Append(w, d)[Len(w) + 1] = d
        /\ \A i \in 1..Len(w) : Append(w, d)[i] = w[i]
    BY <2>0, AppendProperties
  <2>3. v = Append(w, d)
    BY DEF w
  <2> HIDE DEF v
  <2> QED
    BY <2>1, <2>2, <2>3 DEF w
<1> HIDE DEF v
<1>4. CASE Len(s) = Len(t)
  <2>1. InStep(Append(s, d), t)
    BY <1>1, <1>2, <1>4 DEF InStep
  <2> DEFINE u == Weave(Append(s, d), t)
  <2>2. /\ u \in Seq(S) /\ Len(u) = n + 1
        /\ \A i \in 1..(n + 1) : u[i] = IF i % 2 = 1 THEN Append(s, d)[(i + 1) \div 2] ELSE t[i \div 2]
    <3>1. Len(Append(s, d)) + Len(t) = n + 1
      BY <1>1, <1>2
    <3> DEFINE x == Append(s, d)
               y == t
    <3>2. x \in Seq(S) /\ y \in Seq(S) /\ InStep(x, y) /\ Len(x) + Len(y) = n + 1
      BY <1>2, <2>1, <3>1
    <3> HIDE DEF x, y, n
    <3>3. /\ Weave(x, y) \in Seq(S) /\ Len(Weave(x, y)) = n + 1
          /\ \A i \in 1..(n + 1) : Weave(x, y)[i] = IF i % 2 = 1 THEN x[(i + 1) \div 2] ELSE y[i \div 2]
      BY <3>2, WeaveIsSeq
    <3> QED
      BY <3>3 DEF x, y
  <2> HIDE DEF u
  <2>3. ASSUME NEW i \in 1..(n + 1)
        PROVE  u[i] = v[i]
    <3>1. CASE i = n + 1
      <4>1. i % 2 = 1 /\ (i + 1) \div 2 = Len(s) + 1
        BY <1>1, <1>4, <3>1
      <4> QED
        BY <1>2, <1>3, <2>2, <3>1, <4>1
    <3>2. CASE i \in 1..n
      <4>1. i % 2 = 1 => (i + 1) \div 2 \in 1..Len(s)
        BY <1>1, <1>4, <3>2
      <4> QED
        BY <1>2, <1>3, <2>2, <3>2, <4>1
    <3> QED
      BY <1>1, <3>1, <3>2
  <2>4. u = v
    BY <1>1, <1>3, <2>2, <2>3, SeqEqual
  <2> QED
    BY <1>4, <2>1, <2>4 DEF u, v
<1>5. CASE Len(s) = Len(t) + 1
  <2>1. InStep(s, Append(t, d))
    BY <1>1, <1>2, <1>5 DEF InStep
  <2> DEFINE u == Weave(s, Append(t, d))
  <2>2. /\ u \in Seq(S) /\ Len(u) = n + 1
        /\ \A i \in 1..(n + 1) : u[i] = IF i % 2 = 1 THEN s[(i + 1) \div 2] ELSE Append(t, d)[i \div 2]
    <3>1. Len(s) + Len(Append(t, d)) = n + 1
      BY <1>1, <1>2
    <3> DEFINE x == s
               y == Append(t, d)
    <3>2. x \in Seq(S) /\ y \in Seq(S) /\ InStep(x, y) /\ Len(x) + Len(y) = n + 1
      BY <1>2, <2>1, <3>1
    <3> HIDE DEF x, y, n
    <3>3. /\ Weave(x, y) \in Seq(S) /\ Len(Weave(x, y)) = n + 1
          /\ \A i \in 1..(n + 1) : Weave(x, y)[i] = IF i % 2 = 1 THEN x[(i + 1) \div 2] ELSE y[i \div 2]
      BY <3>2, WeaveIsSeq
    <3> QED
      BY <3>3 DEF x, y
  <2> HIDE DEF u
  <2>3. ASSUME NEW i \in 1..(n + 1)
        PROVE  u[i] = v[i]
    <3>1. CASE i = n + 1
      <4>1. i % 2 = 0 /\ i \div 2 = Len(t) + 1
        BY <1>1, <1>5, <3>1
      <4>2. u[i] = Append(t, d)[Len(t) + 1]
        BY <2>2, <4>1
      <4> QED
        BY <1>2, <1>3, <3>1, <4>2
    <3>2. CASE i \in 1..n
      <4>1. i % 2 # 1 => i \div 2 \in 1..Len(t)
        BY <1>1, <1>5, <3>2
      <4> QED
        BY <1>2, <1>3, <2>2, <3>2, <4>1
    <3> QED
      BY <1>1, <3>1, <3>2
  <2>4. u = v
    BY <1>1, <1>3, <2>2, <2>3, SeqEqual
  <2> QED
    BY <1>1, <1>5, <2>1, <2>4 DEF u, v
<1> QED
  BY <1>1, <1>4, <1>5

(* What is taken next comes from the other link than the last. *)
LEMMA WeaveTail ==
  ASSUME NEW S, NEW s \in Seq(S), NEW t \in Seq(S), InStep(s, t), s # <<>>
  PROVE  /\ InStep(t, Tail(s)) /\ Weave(t, Tail(s)) = Tail(Weave(s, t))
         /\ Weave(s, t) # <<>> /\ Head(Weave(s, t)) = Head(s)
<1> DEFINE v == Tail(Weave(s, t))
           r == Tail(s)
           n == Len(s) + Len(t)
<1>1. /\ Len(s) \in Nat /\ Len(t) \in Nat /\ n \in Nat /\ Len(s) >= 1
      /\ (Len(s) = Len(t) \/ Len(s) = Len(t) + 1)
  BY LenProperties, EmptySeq DEF InStep
<1>2. /\ r \in Seq(S) /\ Len(r) = Len(s) - 1 /\ Head(s) = s[1]
      /\ \A i \in 1..Len(r) : r[i] = s[i + 1]
  BY HeadTailProperties
<1> HIDE DEF r
<1>3. /\ Weave(s, t) \in Seq(S) /\ Len(Weave(s, t)) = n
      /\ \A i \in 1..n : Weave(s, t)[i] = IF i % 2 = 1 THEN s[(i + 1) \div 2] ELSE t[i \div 2]
  BY WeaveIsSeq
<1>4. Weave(s, t) # <<>>
  BY <1>1, <1>3, EmptySeq
<1>5. Head(Weave(s, t)) = Head(s)
  <2>1. 1 \in 1..n /\ 1 % 2 = 1 /\ (1 + 1) \div 2 = 1
    BY <1>1
  <2> QED
    BY <1>2, <1>3, <1>4, <2>1
<1>6. /\ v \in Seq(S) /\ Len(v) = n - 1 /\ \A i \in 1..(n - 1) : v[i] = Weave(s, t)[i + 1]
  BY <1>3, <1>4, HeadTailProperties
<1> HIDE DEF v
<1>7. InStep(t, r)
  BY <1>1, <1>2 DEF InStep
<1> DEFINE u == Weave(t, r)
<1>8. /\ u \in Seq(S) /\ Len(u) = n - 1
      /\ \A i \in 1..(n - 1) : u[i] = IF i % 2 = 1 THEN t[(i + 1) \div 2] ELSE r[i \div 2]
  <2>1. Len(t) + Len(r) = n - 1
    BY <1>1, <1>2
  <2> HIDE DEF n
  <2>2. /\ Weave(t, r) \in Seq(S) /\ Len(Weave(t, r)) = n - 1
        /\ \A i \in 1..(n - 1) : Weave(t, r)[i] = IF i % 2 = 1 THEN t[(i + 1) \div 2] ELSE r[i \div 2]
    <3>1. /\ Weave(t, r) \in Seq(S) /\ Len(Weave(t, r)) = Len(t) + Len(r)
          /\ \A i \in 1..(Len(t) + Len(r)) :
               Weave(t, r)[i] = IF i % 2 = 1 THEN t[(i + 1) \div 2] ELSE r[i \div 2]
      <4>1. r \in Seq(S)
        BY <1>2
      <4> QED
        BY <1>7, <4>1, WeaveIsSeq
    <3> QED
      BY <2>1, <3>1
  <2> QED
    BY <2>2
<1> HIDE DEF u
<1>9. ASSUME NEW i \in 1..(n - 1)
      PROVE  u[i] = v[i]
  <2>1. i + 1 \in 1..n
    BY <1>1
  <2>2. v[i] = IF (i + 1) % 2 = 1 THEN s[((i + 1) + 1) \div 2] ELSE t[(i + 1) \div 2]
    BY <1>3, <1>6, <2>1
  <2>3. CASE i % 2 = 1
    <3>1. (i + 1) % 2 = 0
      BY <1>1, <2>3
    <3>2. u[i] = t[(i + 1) \div 2]
      BY <1>8, <2>3
    <3>3. (i + 1) % 2 # 1
      BY <3>1
    <3>4. v[i] = t[(i + 1) \div 2]
      BY <2>2, <3>3
    <3> QED
      BY <3>2, <3>4
  <2>4. CASE i % 2 = 0
    <3> DEFINE j == i \div 2
    <3>1. (i + 1) % 2 = 1 /\ j \in 1..Len(r) /\ ((i + 1) + 1) \div 2 = j + 1
      <4>1. i \in Nat /\ i >= 1 /\ i <= n - 1 /\ i = 2 * j /\ j \in Nat
        BY <1>1, <2>4
      <4>2. j >= 1 /\ j <= Len(r)
        BY <1>1, <1>2, <4>1
      <4>3. (2 * j + 1) % 2 = 1 /\ (2 * j + 2) \div 2 = j + 1
        BY <4>1
      <4> HIDE DEF j
      <4> QED
        BY <1>1, <1>2, <4>1, <4>2, <4>3
    <3> HIDE DEF j
    <3>2. r[j] = s[j + 1]
      BY <1>2, <3>1
    <3>3. v[i] = s[j + 1]
      BY <2>2, <3>1
    <3>4. u[i] = r[j]
      <4>1. i % 2 # 1
        BY <2>4
      <4> QED
        BY <1>8, <4>1 DEF j
    <3> QED
      BY <3>2, <3>3, <3>4
  <2> QED
    BY <2>3, <2>4
<1>10. u = v
  BY <1>1, <1>6, <1>8, <1>9, SeqEqual
<1> QED
  BY <1>4, <1>5, <1>7, <1>10 DEF u, v, r

-----------------------------------------------------------------------------
(* The path of a flow: the FIFOs that its packets go through. *)

(* Node n sends packets of f the way w. *)
On(n, w, f) == IF w = "up" THEN f[1] <= n /\ n < f[2] ELSE f[2] < n /\ n <= f[1]

OnPath(q, f) ==
  CASE q[1] = "entry" -> /\ q[2] = f[1] /\ EntryLevel(f[3]) <= q[3]
                         /\ q[4] = IF q[3] = EntryLevel(f[3]) THEN EntryInput(f[3]) ELSE 2
    [] q[1] = "entryOut" -> q[2] = f[1] /\ EntryLevel(f[3]) <= q[3]
    [] q[1] = "join" -> On(q[2], q[3], f) /\ (q[4] = 2 <=> f[1] = q[2])
    [] q[1] \in {"joinOut", "lanes"} -> On(q[2], q[3], f)
    [] q[1] = "arrived" -> On(Beyond(q[2], q[3]), Across(q[3]), f)
    [] q[1] = "exit" -> f[2] = q[2] /\ (IF q[4] = 1 THEN f[1] > q[2] ELSE f[1] < q[2])
    [] q[1] = "exitOut" -> f[2] = q[2] /\ f[1] # q[2]

Triple == Node \X Node \X Endpoint

(* The constants and what is computed of them. *)
LEMMA ConstantTypes ==
  /\ NodeCount \in Nat \ {0} /\ EndpointCount \in Nat /\ EndpointCount >= 2
  /\ Node = 1..NodeCount /\ Endpoint = 0..(EndpointCount - 1) /\ Level = 1..(EndpointCount - 1)
  /\ Way = {"up", "down"} /\ Input = 1..2 /\ Flows \subseteq Triple
  /\ \A n \in Node : n \in Nat
  /\ \A e \in Endpoint : EntryLevel(e) \in Level /\ EntryInput(e) \in Input
  /\ \A w \in Way : Across(w) \in Way /\ Across(w) # w /\ Across(Across(w)) = w
  BY BarAssumption DEF Node, Endpoint, Level, Way, Input, Triple, EntryLevel, EntryInput, Across

(* The names of the FIFOs. *)
LEMMA Names ==
  /\ \A n \in Node, l \in Level, i \in Input : <<"entry", n, l, i>> \in Name
  /\ \A n \in Node, l \in Level : <<"entryOut", n, l, 0>> \in Name
  /\ \A n \in Node, w \in Way, i \in Input : <<"join", n, w, i>> \in Name
  /\ \A n \in Node, w \in Way : <<"joinOut", n, w, 0>> \in Name /\ <<"arrived", n, w, 0>> \in Name
  /\ \A n \in Node, w \in Way : Beyond(n, w) \in Node => <<"lanes", n, w, 0>> \in Name
  /\ \A n \in Node, i \in Input : <<"exit", n, 0, i>> \in Name
  /\ \A n \in Node : <<"exitOut", n, 0, 0>> \in Name
<1>1. \A n \in Node, w \in Way : Beyond(n, w) \in Node => <<"lanes", n, w, 0>> \in Name
  <2> SUFFICES ASSUME NEW n \in Node, NEW w \in Way, Beyond(n, w) \in Node
               PROVE  <<"lanes", n, w, 0>> \in Name
    OBVIOUS
  <2>1. <<n, w>> \in Hop
    BY DEF Hop
  <2>2. <<"lanes", n, w, 0>> \in {<<"lanes", b[1], b[2], 0>> : b \in Hop}
    BY <2>1
  <2> QED
    BY <2>2 DEF Name
<1> QED
  BY <1>1 DEF Name

(* ... and the kinds of names. *)
LEMMA NameCases ==
  ASSUME NEW q \in Name
  PROVE  /\ q = <<q[1], q[2], q[3], q[4]>> /\ q[2] \in Node
         /\ \/ q[1] = "entry" /\ q[3] \in Level /\ q[4] \in Input
            \/ q[1] = "entryOut" /\ q[3] \in Level /\ q[4] = 0
            \/ q[1] = "join" /\ q[3] \in Way /\ q[4] \in Input
            \/ q[1] = "joinOut" /\ q[3] \in Way /\ q[4] = 0
            \/ q[1] = "lanes" /\ q[3] \in Way /\ q[4] = 0 /\ Beyond(q[2], q[3]) \in Node
            \/ q[1] = "arrived" /\ q[3] \in Way /\ q[4] = 0
            \/ q[1] = "exit" /\ q[3] = 0 /\ q[4] \in Input
            \/ q[1] = "exitOut" /\ q[3] = 0 /\ q[4] = 0
<1>1. CASE q \in {<<"lanes", b[1], b[2], 0>> : b \in Hop}
  BY <1>1 DEF Hop
<1>2. CASE q \notin {<<"lanes", b[1], b[2], 0>> : b \in Hop}
  BY <1>2 DEF Name
<1> QED
  BY <1>1, <1>2

(* Stages are numbers. *)
LEMMA StageType == \A q \in Name : Stage(q) \in Int
<1> SUFFICES ASSUME NEW q \in Name PROVE Stage(q) \in Int
  OBVIOUS
<1>1. /\ Along(q[2], "up") \in Int /\ Along(q[2], "down") \in Int /\ EndpointCount \in Int
      /\ NodeCount \in Int /\ \A w \in Way : Along(q[2], w) \in Int /\ Along(q[2], Across(w)) \in Int
  BY NameCases, ConstantTypes DEF Along
<1>2. CASE q[1] \in {"entry", "entryOut"}
  BY <1>2, NameCases, ConstantTypes DEF Stage
<1>3. CASE q[1] \in {"join", "joinOut", "lanes", "arrived"}
  BY <1>1, <1>3, NameCases DEF Stage
<1>4. CASE q[1] \in {"exit", "exitOut"}
  BY <1>1, <1>4, NameCases DEF Stage
<1> QED
  BY <1>2, <1>3, <1>4, NameCases

(* Where a flow's packets may be, and how far that is. *)
LEMMA PathFacts ==
  ASSUME NEW q \in Name, NEW f \in Triple, OnPath(q, f)
  PROVE  \/ /\ q[1] = "entry" /\ q[2] = f[1] /\ q[3] \in Level /\ EntryLevel(f[3]) <= q[3]
            /\ q[4] = (IF q[3] = EntryLevel(f[3]) THEN EntryInput(f[3]) ELSE 2)
            /\ Stage(q) = 2 * q[3] - 1
         \/ /\ q[1] = "entryOut" /\ q[2] = f[1] /\ q[3] \in Level /\ EntryLevel(f[3]) <= q[3] /\ q[4] = 0
            /\ Stage(q) = 2 * q[3]
         \/ /\ q[1] = "join" /\ q[3] = "up" /\ f[1] <= q[2] /\ q[2] < f[2] /\ q[4] \in Input
            /\ (q[4] = 2 <=> f[1] = q[2]) /\ Stage(q) = 2 * EndpointCount + 4 * q[2]
         \/ /\ q[1] = "join" /\ q[3] = "down" /\ f[2] < q[2] /\ q[2] <= f[1] /\ q[4] \in Input
            /\ (q[4] = 2 <=> f[1] = q[2]) /\ Stage(q) = 2 * EndpointCount + 4 * (NodeCount + 1 - q[2])
         \/ /\ q[1] = "joinOut" /\ q[3] = "up" /\ f[1] <= q[2] /\ q[2] < f[2] /\ q[4] = 0
            /\ Stage(q) = 2 * EndpointCount + 4 * q[2] + 1
         \/ /\ q[1] = "joinOut" /\ q[3] = "down" /\ f[2] < q[2] /\ q[2] <= f[1] /\ q[4] = 0
            /\ Stage(q) = 2 * EndpointCount + 4 * (NodeCount + 1 - q[2]) + 1
         \/ /\ q[1] = "lanes" /\ q[3] = "up" /\ f[1] <= q[2] /\ q[2] < f[2] /\ q[4] = 0
            /\ Stage(q) = 2 * EndpointCount + 4 * q[2] + 2
         \/ /\ q[1] = "lanes" /\ q[3] = "down" /\ f[2] < q[2] /\ q[2] <= f[1] /\ q[4] = 0
            /\ Stage(q) = 2 * EndpointCount + 4 * (NodeCount + 1 - q[2]) + 2
         \/ /\ q[1] = "arrived" /\ q[3] = "down" /\ f[1] <= q[2] - 1 /\ q[2] - 1 < f[2] /\ q[4] = 0
            /\ Stage(q) = 2 * EndpointCount + 4 * q[2] - 1
         \/ /\ q[1] = "arrived" /\ q[3] = "up" /\ f[2] < q[2] + 1 /\ q[2] + 1 <= f[1] /\ q[4] = 0
            /\ Stage(q) = 2 * EndpointCount + 4 * (NodeCount + 1 - q[2]) - 1
         \/ /\ q[1] = "exit" /\ q[3] = 0 /\ q[4] = 2 /\ f[2] = q[2] /\ f[1] < q[2]
            /\ Stage(q) = 2 * EndpointCount + 4 * q[2]
         \/ /\ q[1] = "exit" /\ q[3] = 0 /\ q[4] = 1 /\ f[2] = q[2] /\ f[1] > q[2]
            /\ Stage(q) = 2 * EndpointCount + 4 * (NodeCount + 1 - q[2])
         \/ /\ q[1] = "exitOut" /\ q[3] = 0 /\ q[4] = 0 /\ f[2] = q[2] /\ f[1] # q[2]
            /\ Stage(q) = 2 * EndpointCount + 4 * (NodeCount + 2)
<1>1. CASE q[1] \in {"entry", "entryOut"}
  BY <1>1, NameCases DEF OnPath, Stage
<1>2. CASE q[1] = "join"
  BY <1>2, NameCases DEF OnPath, Stage, On, Along, Way
<1>3. CASE q[1] = "joinOut"
  BY <1>3, NameCases DEF OnPath, Stage, On, Along, Way
<1>4. CASE q[1] = "lanes"
  BY <1>4, NameCases DEF OnPath, Stage, On, Along, Way
<1>5. CASE q[1] = "arrived"
  <2>1. Stage(q) = 2 * EndpointCount + 4 * Along(q[2], Across(q[3])) - 1
    <3>1. EndpointCount \in Int /\ Along(q[2], Across(q[3])) \in Int
      BY <1>5, NameCases, ConstantTypes DEF Along
    <3> QED
      BY <1>5, <3>1 DEF Stage
  <2>2. On(Beyond(q[2], q[3]), Across(q[3]), f)
    BY <1>5 DEF OnPath
  <2>3. q[3] = "up" \/ q[3] = "down"
    BY <1>5, NameCases DEF Way
  <2> QED
    BY <1>5, <2>1, <2>2, <2>3, NameCases DEF On, Along, Across, Beyond
<1>6. CASE q[1] = "exit"
  BY <1>6, NameCases, ConstantTypes DEF OnPath, Stage, Along
<1>7. CASE q[1] = "exitOut"
  BY <1>7, NameCases DEF OnPath, Stage
<1> QED
  BY <1>1, <1>2, <1>3, <1>4, <1>5, <1>6, <1>7, NameCases

(* A packet of f may move from a to b: it stays on the path, and nothing of *)
(* f is between the two.                                                   *)
Step(a, b, f) ==
  /\ OnPath(b, f) /\ Stage(a) < Stage(b)
  /\ \A q \in Name : OnPath(q, f) => q \in {a, b} \/ Stage(q) <= Stage(a) \/ Stage(q) > Stage(b)

(* Through the merges of the source's endpoints. *)
LEMMA EntrySteps ==
  ASSUME NEW f \in Triple, NEW n \in Node, NEW l \in Level, NEW i \in Input
  PROVE  /\ OnPath(<<"entry", n, l, i>>, f) => Step(<<"entry", n, l, i>>, <<"entryOut", n, l, 0>>, f)
         /\ OnPath(<<"entryOut", n, l, 0>>, f) /\ l + 1 \in Level =>
              Step(<<"entryOut", n, l, 0>>, <<"entry", n, l + 1, 2>>, f)
<1>0. l \in Int /\ l < EndpointCount /\ EndpointCount \in Int /\ NodeCount \in Int
  BY ConstantTypes
<1>1. ASSUME OnPath(<<"entry", n, l, i>>, f)
      PROVE  Step(<<"entry", n, l, i>>, <<"entryOut", n, l, 0>>, f)
  <2> DEFINE a == <<"entry", n, l, i>>
             b == <<"entryOut", n, l, 0>>
  <2>1. Stage(a) = 2 * l - 1 /\ Stage(b) = 2 * l
    BY DEF Stage
  <2>2. n = f[1] /\ EntryLevel(f[3]) <= l
    BY <1>1 DEF OnPath
  <2>3. OnPath(b, f)
    BY <2>2 DEF OnPath
  <2>4. ASSUME NEW q \in Name, OnPath(q, f)
        PROVE  q = b \/ Stage(q) <= 2 * l - 1 \/ Stage(q) > 2 * l
    <3>1. q = <<q[1], q[2], q[3], q[4]>> /\ q[2] \in 1..NodeCount
      BY NameCases DEF Node
    <3>2. \/ q[1] = "entry" /\ q[3] \in Int /\ Stage(q) = 2 * q[3] - 1
          \/ q[1] = "entryOut" /\ q[2] = n /\ q[3] \in Int /\ q[4] = 0 /\ Stage(q) = 2 * q[3]
          \/ Stage(q) \in Int /\ Stage(q) >= 2 * EndpointCount
      BY <1>0, <2>2, <2>4, <3>1, PathFacts DEF Level
    <3> QED
      BY <1>0, <3>1, <3>2
  <2> HIDE DEF a, b
  <2>5. Stage(a) < Stage(b)
    BY <1>0, <2>1
  <2> QED
    BY <2>1, <2>3, <2>4, <2>5 DEF Step, a, b
<1>2. ASSUME OnPath(<<"entryOut", n, l, 0>>, f), l + 1 \in Level
      PROVE  Step(<<"entryOut", n, l, 0>>, <<"entry", n, l + 1, 2>>, f)
  <2> DEFINE a == <<"entryOut", n, l, 0>>
             b == <<"entry", n, l + 1, 2>>
  <2>1. Stage(a) = 2 * l /\ Stage(b) = 2 * (l + 1) - 1
    BY DEF Stage
  <2>2. n = f[1] /\ EntryLevel(f[3]) <= l /\ EntryLevel(f[3]) \in Int /\ l + 1 < EndpointCount
    BY <1>2, ConstantTypes DEF OnPath, Triple
  <2>3. OnPath(b, f)
    <3>1. EntryLevel(f[3]) <= l + 1 /\ EntryLevel(f[3]) # l + 1
      BY <1>0, <2>2
    <3> QED
      BY <2>2, <3>1 DEF OnPath
  <2>4. ASSUME NEW q \in Name, OnPath(q, f)
        PROVE  q = b \/ Stage(q) <= 2 * l \/ Stage(q) > 2 * (l + 1) - 1
    <3>1. q = <<q[1], q[2], q[3], q[4]>> /\ q[2] \in 1..NodeCount
      BY NameCases DEF Node
    <3>2. \/ /\ q[1] = "entry" /\ q[2] = n /\ q[3] \in Int /\ Stage(q) = 2 * q[3] - 1
             /\ (q[3] = l + 1 => q[4] = 2)
          \/ q[1] = "entryOut" /\ q[3] \in Int /\ Stage(q) = 2 * q[3]
          \/ Stage(q) \in Int /\ Stage(q) >= 2 * EndpointCount
      BY <1>0, <2>2, <2>4, <3>1, PathFacts DEF Level
    <3> QED
      BY <1>0, <2>2, <3>1, <3>2
  <2> HIDE DEF a, b
  <2>5. Stage(a) < Stage(b)
    BY <1>0, <2>1
  <2> QED
    BY <2>1, <2>3, <2>4, <2>5 DEF Step, a, b
<1> QED
  BY <1>1, <1>2

(* The way that a flow goes, and the FIFOs on it by the distance from its end *)
(* of the chain.                                                           *)
Goes(f) == IF f[1] < f[2] THEN "up" ELSE "down"
Pos(q, f) == Along(q[2], Goes(f))

(* Distances tell the nodes apart. *)
LEMMA AlongTypes ==
  ASSUME NEW w \in Way
  PROVE  /\ \A n \in Node : Along(n, w) \in 1..NodeCount
         /\ \A n, m \in Node : Along(n, w) = Along(m, w) => n = m
  BY ConstantTypes DEF Along

(* Where a flow's packets may be, by the distance. *)
LEMMA WayFacts ==
  ASSUME NEW q \in Name, NEW f \in Triple, OnPath(q, f)
  PROVE  \/ /\ q[1] \in {"entry", "entryOut"} /\ Stage(q) \in Int
            /\ Stage(q) <= 2 * (EndpointCount - 1) /\ q[2] = f[1]
         \/ /\ f[1] # f[2]
            /\ \/ /\ q[1] = "join" /\ q[3] = Goes(f) /\ q[4] \in Input
                  /\ Along(f[1], Goes(f)) <= Pos(q, f) /\ Pos(q, f) < Along(f[2], Goes(f))
                  /\ (q[4] = 2 <=> Pos(q, f) = Along(f[1], Goes(f)))
                  /\ Stage(q) = 2 * EndpointCount + 4 * Pos(q, f)
               \/ /\ q[1] = "joinOut" /\ q[3] = Goes(f) /\ q[4] = 0
                  /\ Along(f[1], Goes(f)) <= Pos(q, f) /\ Pos(q, f) < Along(f[2], Goes(f))
                  /\ Stage(q) = 2 * EndpointCount + 4 * Pos(q, f) + 1
               \/ /\ q[1] = "lanes" /\ q[3] = Goes(f) /\ q[4] = 0
                  /\ Along(f[1], Goes(f)) <= Pos(q, f) /\ Pos(q, f) < Along(f[2], Goes(f))
                  /\ Stage(q) = 2 * EndpointCount + 4 * Pos(q, f) + 2
               \/ /\ q[1] = "arrived" /\ q[3] = Across(Goes(f)) /\ q[4] = 0
                  /\ Along(f[1], Goes(f)) < Pos(q, f) /\ Pos(q, f) <= Along(f[2], Goes(f))
                  /\ Stage(q) = 2 * EndpointCount + 4 * Pos(q, f) - 1
               \/ /\ q[1] = "exit" /\ q[3] = 0 /\ q[4] = EpInput(Across(Goes(f)))
                  /\ Pos(q, f) = Along(f[2], Goes(f))
                  /\ Stage(q) = 2 * EndpointCount + 4 * Pos(q, f)
               \/ /\ q[1] = "exitOut" /\ q[3] = 0 /\ q[4] = 0 /\ Pos(q, f) = Along(f[2], Goes(f))
                  /\ Stage(q) = 2 * EndpointCount + 4 * (NodeCount + 2)
<1>0. /\ f[1] \in Int /\ f[2] \in Int /\ q[2] \in Int /\ EndpointCount \in Int /\ NodeCount \in Int
  BY NameCases, ConstantTypes DEF Triple
<1>1. CASE q[1] \in {"entry", "entryOut"}
  <2>1. q[3] \in Int /\ q[3] <= EndpointCount - 1
    BY <1>1, NameCases, ConstantTypes
  <2> QED
    BY <1>0, <1>1, <2>1, PathFacts
<1>2. CASE q[1] \in {"join", "joinOut", "lanes"}
  BY <1>0, <1>2, PathFacts DEF Goes, Pos, Along
<1>3. CASE q[1] = "arrived"
  BY <1>0, <1>3, PathFacts DEF Goes, Pos, Along, Across
<1>4. CASE q[1] \in {"exit", "exitOut"}
  BY <1>0, <1>4, PathFacts DEF Goes, Pos, Along, Across, EpInput
<1> QED
  BY <1>1, <1>2, <1>3, <1>4, NameCases

(* A step, of the stages of its ends. *)
LEMMA StepType ==
  ASSUME NEW f \in Triple, NEW a, NEW b, NEW x \in Int, NEW y \in Int,
         Stage(a) = x, Stage(b) = y, x < y, OnPath(b, f),
         \A q \in Name : OnPath(q, f) => q = b \/ Stage(q) <= x \/ Stage(q) > y
  PROVE  Step(a, b, f)
  BY DEF Step

(* Through the merge for a way and over the links of a hop. *)
LEMMA WaySteps ==
  ASSUME NEW f \in Triple, NEW n \in Node, NEW w \in Way, NEW i \in Input
  PROVE  /\ OnPath(<<"join", n, w, i>>, f) => Step(<<"join", n, w, i>>, <<"joinOut", n, w, 0>>, f)
         /\ OnPath(<<"joinOut", n, w, 0>>, f) =>
              Beyond(n, w) \in Node /\ Step(<<"joinOut", n, w, 0>>, <<"lanes", n, w, 0>>, f)
         /\ OnPath(<<"lanes", n, w, 0>>, f) /\ Beyond(n, w) \in Node =>
              Step(<<"lanes", n, w, 0>>, <<"arrived", Beyond(n, w), Across(w), 0>>, f)
<1> DEFINE x == 2 * EndpointCount + 4 * Along(n, w)
           m == Beyond(n, w)
<1>1. /\ f[1] \in Node /\ f[2] \in Node /\ w \in {"up", "down"} /\ EndpointCount \in Int /\ NodeCount \in Int
      /\ Along(n, w) \in 1..NodeCount /\ x \in Int /\ Node = 1..NodeCount
  <2>1. Along(n, w) \in 1..NodeCount
    BY AlongTypes
  <2>2. x \in Int
    BY <2>1, ConstantTypes
  <2> HIDE DEF x
  <2> QED
    BY <2>1, <2>2, ConstantTypes DEF Triple
<1>2. ASSUME On(n, w, f)
      PROVE  w = Goes(f) /\ f[1] # f[2] /\ m \in Node /\ Along(m, w) = Along(n, w) + 1
  BY <1>1, <1>2 DEF On, Goes, Beyond, Along
<1>3. /\ Stage(<<"join", n, w, i>>) = x /\ Stage(<<"joinOut", n, w, 0>>) = x + 1
      /\ Stage(<<"lanes", n, w, 0>>) = x + 2
      /\ Along(m, w) = Along(n, w) + 1 => Stage(<<"arrived", m, Across(w), 0>>) = x + 3
  <2>1. Across(Across(w)) = w
    BY ConstantTypes
  <2> HIDE DEF m
  <2> QED
    BY <1>1, <2>1 DEF Stage
<1>4. ASSUME NEW q \in Name, OnPath(q, f), On(n, w, f)
      PROVE  /\ q = <<q[1], q[2], q[3], q[4]>>
             /\ \/ q[1] \in {"entry", "entryOut"} /\ Stage(q) \in Int /\ Stage(q) < 2 * EndpointCount
                \/ q[1] = "join" /\ Stage(q) = 2 * EndpointCount + 4 * Pos(q, f)
                \/ q[1] = "joinOut" /\ q[3] = w /\ q[4] = 0 /\ Stage(q) = 2 * EndpointCount + 4 * Pos(q, f) + 1
                \/ q[1] = "lanes" /\ q[3] = w /\ q[4] = 0 /\ Stage(q) = 2 * EndpointCount + 4 * Pos(q, f) + 2
                \/ /\ q[1] = "arrived" /\ q[3] = Across(w) /\ q[4] = 0
                   /\ Stage(q) = 2 * EndpointCount + 4 * Pos(q, f) - 1
                \/ q[1] = "exit" /\ Stage(q) = 2 * EndpointCount + 4 * Pos(q, f)
                \/ q[1] = "exitOut" /\ Stage(q) = 2 * EndpointCount + 4 * (NodeCount + 2)
             /\ Pos(q, f) \in Int /\ (Pos(q, f) = Along(n, w) => q[2] = n)
             /\ (Pos(q, f) = Along(n, w) + 1 => q[2] = m)
  <2>1. q = <<q[1], q[2], q[3], q[4]>> /\ q[2] \in Node
    BY NameCases
  <2>2. w = Goes(f) /\ m \in Node /\ Along(m, w) = Along(n, w) + 1
    BY <1>2, <1>4
  <2>3. Pos(q, f) \in Int /\ (Pos(q, f) = Along(n, w) => q[2] = n)
        /\ (Pos(q, f) = Along(n, w) + 1 => q[2] = m)
    <3>1. Pos(q, f) = Along(q[2], w)
      BY <2>2 DEF Pos
    <3> HIDE DEF m
    <3> QED
      BY <1>1, <2>1, <2>2, <3>1, AlongTypes, SMTT(30)
  <2>4. \/ q[1] \in {"entry", "entryOut"} /\ Stage(q) \in Int /\ Stage(q) <= 2 * (EndpointCount - 1)
        \/ q[1] = "join" /\ Stage(q) = 2 * EndpointCount + 4 * Pos(q, f)
        \/ q[1] = "joinOut" /\ q[3] = w /\ q[4] = 0 /\ Stage(q) = 2 * EndpointCount + 4 * Pos(q, f) + 1
        \/ q[1] = "lanes" /\ q[3] = w /\ q[4] = 0 /\ Stage(q) = 2 * EndpointCount + 4 * Pos(q, f) + 2
        \/ /\ q[1] = "arrived" /\ q[3] = Across(w) /\ q[4] = 0
           /\ Stage(q) = 2 * EndpointCount + 4 * Pos(q, f) - 1
        \/ q[1] = "exit" /\ Stage(q) = 2 * EndpointCount + 4 * Pos(q, f)
        \/ q[1] = "exitOut" /\ Stage(q) = 2 * EndpointCount + 4 * (NodeCount + 2)
    BY <1>4, <2>2, WayFacts
  <2>5. \A y \in Int : y <= 2 * (EndpointCount - 1) => y < 2 * EndpointCount
    BY <1>1
  <2> QED
    BY <2>1, <2>3, <2>4, <2>5
<1> HIDE DEF x, m
<1>5. ASSUME OnPath(<<"join", n, w, i>>, f)
      PROVE  Step(<<"join", n, w, i>>, <<"joinOut", n, w, 0>>, f)
  <2>1. On(n, w, f) /\ OnPath(<<"joinOut", n, w, 0>>, f)
    BY <1>5 DEF OnPath
  <2>2. ASSUME NEW q \in Name, OnPath(q, f)
        PROVE  q = <<"joinOut", n, w, 0>> \/ Stage(q) <= x \/ Stage(q) > x + 1
    <3> DEFINE p == Pos(q, f)
               k == Along(n, w)
    <3>1. q[1] = "joinOut" /\ p = k => q = <<"joinOut", n, w, 0>>
      <4>1. q = <<q[1], q[2], q[3], q[4]>>
        BY <1>4, <2>1, <2>2
      <4>2. q[1] = "joinOut" => q[3] = w /\ q[4] = 0
        BY <1>4, <2>1, <2>2
      <4>3. p = k => q[2] = n
        BY <1>4, <2>1, <2>2
      <4> QED
        BY <4>1, <4>2, <4>3
    <3>2. \/ Stage(q) \in Int /\ Stage(q) < 2 * EndpointCount
          \/ p \in Int /\ Stage(q) = 2 * EndpointCount + 4 * p + 1 /\ q[1] = "joinOut"
          \/ \E j \in Int : Stage(q) \in {2 * EndpointCount + 4 * j, 2 * EndpointCount + 4 * j + 2, 2 * EndpointCount + 4 * j - 1}
          \/ Stage(q) = 2 * EndpointCount + 4 * (NodeCount + 2)
      BY <1>4, <2>1, <2>2
    <3> HIDE DEF p
    <3>3. k \in 1..NodeCount /\ x = 2 * EndpointCount + 4 * k
      BY <1>1 DEF x
    <3> HIDE DEF k
    <3>4. p \in Int => p < k \/ p = k \/ p = k + 1 \/ p > k + 1
      BY <1>1, <3>3
    <3>5. \A j \in Int : j <= k \/ j >= k + 1
      BY <1>1, <3>3
    <3> QED
      BY <1>1, <3>1, <3>2, <3>3, <3>4, <3>5, SMTT(30)
  <2> QED
    BY <1>1, <1>3, <2>1, <2>2, StepType, SMTT(30)
<1>6. ASSUME OnPath(<<"joinOut", n, w, 0>>, f)
      PROVE  m \in Node /\ Step(<<"joinOut", n, w, 0>>, <<"lanes", n, w, 0>>, f)
  <2>1. On(n, w, f) /\ OnPath(<<"lanes", n, w, 0>>, f)
    BY <1>6 DEF OnPath
  <2>2. ASSUME NEW q \in Name, OnPath(q, f)
        PROVE  q = <<"lanes", n, w, 0>> \/ Stage(q) <= x + 1 \/ Stage(q) > x + 2
    <3> DEFINE p == Pos(q, f)
               k == Along(n, w)
    <3>1. q[1] = "lanes" /\ p = k => q = <<"lanes", n, w, 0>>
      <4>1. q = <<q[1], q[2], q[3], q[4]>>
        BY <1>4, <2>1, <2>2
      <4>2. q[1] = "lanes" => q[3] = w /\ q[4] = 0
        BY <1>4, <2>1, <2>2
      <4>3. p = k => q[2] = n
        BY <1>4, <2>1, <2>2
      <4> QED
        BY <4>1, <4>2, <4>3
    <3>2. \/ Stage(q) \in Int /\ Stage(q) < 2 * EndpointCount
          \/ p \in Int /\ Stage(q) = 2 * EndpointCount + 4 * p + 2 /\ q[1] = "lanes"
          \/ \E j \in Int : Stage(q) \in {2 * EndpointCount + 4 * j, 2 * EndpointCount + 4 * j + 1, 2 * EndpointCount + 4 * j - 1}
          \/ Stage(q) = 2 * EndpointCount + 4 * (NodeCount + 2)
      BY <1>4, <2>1, <2>2
    <3> HIDE DEF p
    <3>3. k \in 1..NodeCount /\ x = 2 * EndpointCount + 4 * k
      BY <1>1 DEF x
    <3> HIDE DEF k
    <3>4. p \in Int => p < k \/ p = k \/ p = k + 1 \/ p > k + 1
      BY <1>1, <3>3
    <3>5. \A j \in Int : j <= k \/ j >= k + 1
      BY <1>1, <3>3
    <3> QED
      BY <1>1, <3>1, <3>2, <3>3, <3>4, <3>5, SMTT(30)
  <2>3. Step(<<"joinOut", n, w, 0>>, <<"lanes", n, w, 0>>, f)
    BY <1>1, <1>3, <2>1, <2>2, StepType
  <2> QED
    BY <1>2, <2>1, <2>3
<1>7. ASSUME OnPath(<<"lanes", n, w, 0>>, f)
      PROVE  Step(<<"lanes", n, w, 0>>, <<"arrived", m, Across(w), 0>>, f)
  <2>1. On(n, w, f)
    BY <1>7 DEF OnPath
  <2>2. OnPath(<<"arrived", m, Across(w), 0>>, f)
    BY <1>1, <2>1 DEF OnPath, On, Across, Beyond, m
  <2>3. ASSUME NEW q \in Name, OnPath(q, f)
        PROVE  q = <<"arrived", m, Across(w), 0>> \/ Stage(q) <= x + 2 \/ Stage(q) > x + 3
    <3> DEFINE p == Pos(q, f)
               k == Along(n, w)
    <3>1. q[1] = "arrived" /\ p = k + 1 => q = <<"arrived", m, Across(w), 0>>
      <4>1. q = <<q[1], q[2], q[3], q[4]>>
        BY <1>4, <2>1, <2>3
      <4>2. q[1] = "arrived" => q[3] = Across(w) /\ q[4] = 0
        BY <1>4, <2>1, <2>3
      <4>3. p = k + 1 => q[2] = m
        BY <1>4, <2>1, <2>3
      <4> QED
        BY <4>1, <4>2, <4>3
    <3>2. \/ Stage(q) \in Int /\ Stage(q) < 2 * EndpointCount
          \/ p \in Int /\ Stage(q) = 2 * EndpointCount + 4 * p - 1 /\ q[1] = "arrived"
          \/ \E j \in Int : Stage(q) \in {2 * EndpointCount + 4 * j, 2 * EndpointCount + 4 * j + 1, 2 * EndpointCount + 4 * j + 2}
          \/ Stage(q) = 2 * EndpointCount + 4 * (NodeCount + 2)
      BY <1>4, <2>1, <2>3
    <3> HIDE DEF p
    <3>3. k \in 1..NodeCount /\ x = 2 * EndpointCount + 4 * k
      BY <1>1 DEF x
    <3> HIDE DEF k
    <3>4. p \in Int => p < k \/ p = k \/ p = k + 1 \/ p > k + 1
      BY <1>1, <3>3
    <3>5. \A j \in Int : j <= k \/ j >= k + 1
      BY <1>1, <3>3
    <3> QED
      BY <1>1, <3>1, <3>2, <3>3, <3>4, <3>5, SMTT(30)
  <2>4. Stage(<<"arrived", m, Across(w), 0>>) = x + 3
    BY <1>2, <1>3, <2>1
  <2> QED
    BY <1>1, <1>3, <2>2, <2>3, <2>4, StepType
<1> QED
  BY <1>5, <1>6, <1>7 DEF m

(* Arithmetic: no FIFO has a stage just below that of a node's merge, ... *)
LEMMA Apart ==
  ASSUME NEW base \in Int, NEW p \in Int, NEW k \in Int, NEW z \in Int, k <= z, 1 <= k, NEW x,
         \/ x \in Int /\ x <= base - 2
         \/ x = base + 4 * p /\ p # k
         \/ x = base + 4 * p + 1 \/ x = base + 4 * p + 2 \/ x = base + 4 * p - 1
         \/ x = base + 4 * (z + 2)
  PROVE  x <= base + 4 * k - 1 \/ x > base + 4 * k
<1>1. \/ p <= k - 1 /\ 4 * p <= 4 * k - 4
      \/ p = k
      \/ p >= k + 1 /\ 4 * p >= 4 * k + 4
  OBVIOUS
<1> QED
  BY <1>1

(* ... and none of the way comes before the merge of the source. *)
LEMMA BeyondSource ==
  ASSUME NEW base \in Int, NEW p \in Int, NEW k \in Int, NEW z \in Int, k <= z, NEW x,
         \/ x \in Int /\ x <= base - 2
         \/ x = base + 4 * p /\ p > k
         \/ p >= k /\ (x = base + 4 * p + 1 \/ x = base + 4 * p + 2)
         \/ x = base + 4 * p - 1 /\ p > k
         \/ x = base + 4 * (z + 2)
  PROVE  x <= base - 2 \/ x > base + 4 * k
<1>1. p >= k => 4 * p >= 4 * k
  OBVIOUS
<1>2. p > k => 4 * p >= 4 * k + 4
  OBVIOUS
<1> QED
  BY <1>1, <1>2

(* From the source, or from a hop, to the merge for a way or for the endpoints. *)
LEMMA JoinSteps ==
  ASSUME NEW f \in Triple, NEW n \in Node, NEW w \in Way
  PROVE  /\ OnPath(<<"entryOut", n, EndpointCount - 1, 0>>, f) /\ On(n, w, f) =>
              Step(<<"entryOut", n, EndpointCount - 1, 0>>, <<"join", n, w, 2>>, f)
         /\ OnPath(<<"arrived", n, w, 0>>, f) /\ f[2] # n =>
              Step(<<"arrived", n, w, 0>>, <<"join", n, Across(w), 1>>, f)
         /\ OnPath(<<"arrived", n, w, 0>>, f) /\ f[2] = n =>
              Step(<<"arrived", n, w, 0>>, <<"exit", n, 0, EpInput(w)>>, f)
<1> DEFINE v == Goes(f)
           k == Along(n, v)
           s == Along(f[1], v)
           t == Along(f[2], v)
           base == 2 * EndpointCount
<1>1. /\ f[1] \in Node /\ f[2] \in Node /\ v \in Way /\ w \in {"up", "down"} /\ EndpointCount \in Int
      /\ NodeCount \in Int /\ Node = 1..NodeCount /\ base \in Int
  BY ConstantTypes DEF Triple, Goes
<1>2. k \in 1..NodeCount /\ s \in 1..NodeCount /\ t \in 1..NodeCount
  BY <1>1, AlongTypes
<1>3. /\ Stage(<<"entryOut", n, EndpointCount - 1, 0>>) = base - 2
      /\ \A i \in Input : Stage(<<"join", n, v, i>>) = base + 4 * k
  <2>1. 2 * (EndpointCount - 1) = base - 2
    BY <1>1
  <2> HIDE DEF v, base
  <2> QED
    BY <2>1 DEF Stage, base
<1>4. ASSUME NEW q \in Name, OnPath(q, f)
      PROVE  \E p \in Int :
        /\ q = <<q[1], q[2], q[3], q[4]>>
        /\ (p = k => q[2] = n)
        /\ \/ Stage(q) \in Int /\ Stage(q) <= base - 2
           \/ q[1] = "join" /\ q[3] = v /\ q[4] \in Input /\ s <= p /\ p < t /\ (q[4] = 2 <=> p = s)
              /\ Stage(q) = base + 4 * p
           \/ s <= p /\ p < t /\ (Stage(q) = base + 4 * p + 1 \/ Stage(q) = base + 4 * p + 2)
           \/ s < p /\ p <= t /\ Stage(q) = base + 4 * p - 1
           \/ /\ q[1] = "exit" /\ q[3] = 0 /\ q[4] = EpInput(Across(v)) /\ p = t
              /\ Stage(q) = base + 4 * p
           \/ p = t /\ Stage(q) = base + 4 * (NodeCount + 2)
  <2> DEFINE p == Pos(q, f)
  <2>1. q = <<q[1], q[2], q[3], q[4]>> /\ q[2] \in Node
    BY NameCases
  <2>2. p \in Int /\ (p = k => q[2] = n)
    BY <1>1, <2>1, AlongTypes DEF Pos
  <2>3. 2 * (EndpointCount - 1) = base - 2
    BY <1>1
  <2>4. /\ \/ Stage(q) \in Int /\ Stage(q) <= 2 * (EndpointCount - 1)
           \/ q[1] = "join" /\ q[3] = v /\ q[4] \in Input /\ s <= p /\ p < t /\ (q[4] = 2 <=> p = s)
              /\ Stage(q) = base + 4 * p
           \/ s <= p /\ p < t /\ (Stage(q) = base + 4 * p + 1 \/ Stage(q) = base + 4 * p + 2)
           \/ s < p /\ p <= t /\ Stage(q) = base + 4 * p - 1
           \/ /\ q[1] = "exit" /\ q[3] = 0 /\ q[4] = EpInput(Across(v)) /\ p = t
              /\ Stage(q) = base + 4 * p
           \/ p = t /\ Stage(q) = base + 4 * (NodeCount + 2)
    BY <1>4, WayFacts
  <2> HIDE DEF p, k, s, t, v, base
  <2> QED
    BY <2>1, <2>2, <2>3, <2>4
<1>5. ASSUME OnPath(<<"entryOut", n, EndpointCount - 1, 0>>, f), On(n, w, f)
      PROVE  Step(<<"entryOut", n, EndpointCount - 1, 0>>, <<"join", n, w, 2>>, f)
  <2>1. n = f[1]
    BY <1>5 DEF OnPath
  <2>2. w = v /\ s = k
    BY <1>1, <1>5, <2>1 DEF On, Goes
  <2>3. OnPath(<<"join", n, w, 2>>, f) /\ 2 \in Input
    BY <1>5, <2>1 DEF OnPath, Input
  <2> HIDE DEF k, s, t, v, base
  <2>4. ASSUME NEW q \in Name, OnPath(q, f)
        PROVE  q = <<"join", n, w, 2>> \/ Stage(q) <= base - 2 \/ Stage(q) > base + 4 * k
    <3>1. PICK p \in Int :
        /\ q = <<q[1], q[2], q[3], q[4]>>
        /\ (p = k => q[2] = n)
        /\ \/ Stage(q) \in Int /\ Stage(q) <= base - 2
           \/ q[1] = "join" /\ q[3] = v /\ q[4] \in Input /\ s <= p /\ p < t /\ (q[4] = 2 <=> p = s)
              /\ Stage(q) = base + 4 * p
           \/ s <= p /\ p < t /\ (Stage(q) = base + 4 * p + 1 \/ Stage(q) = base + 4 * p + 2)
           \/ s < p /\ p <= t /\ Stage(q) = base + 4 * p - 1
           \/ p = t /\ Stage(q) = base + 4 * p
           \/ p = t /\ Stage(q) = base + 4 * (NodeCount + 2)
      BY <1>4, <2>4
    <3>0. /\ p \in Int /\ k \in Int /\ 1 <= k /\ k <= NodeCount
          /\ base \in Int /\ NodeCount \in Int
      BY <1>1, <1>2, <3>1
    <3>2. s < t
      BY <1>1, <1>5, <2>1 DEF On, Goes, s, t, v, Along
    <3>3. CASE q[1] = "join" /\ p = k /\ Stage(q) = base + 4 * p
      <4>1. (q[3] = w /\ q[4] = 2) \/ p = t \/ Stage(q) <= base - 2
        BY <1>1, <1>2, <2>2, <3>1, <3>3
      <4> QED
        BY <1>2, <2>2, <3>1, <3>2, <3>3, <4>1
    <3>4. CASE ~(q[1] = "join" /\ p = k /\ Stage(q) = base + 4 * p)
      <4>1. \/ Stage(q) \in Int /\ Stage(q) <= base - 2
            \/ Stage(q) = base + 4 * p /\ p > k
            \/ p >= k /\ (Stage(q) = base + 4 * p + 1 \/ Stage(q) = base + 4 * p + 2)
            \/ Stage(q) = base + 4 * p - 1 /\ p > k
            \/ Stage(q) = base + 4 * (NodeCount + 2)
        BY <1>2, <2>2, <3>0, <3>1, <3>2, <3>4
      <4> QED
        BY <3>0, <4>1, BeyondSource
    <3> QED
      BY <3>3, <3>4
  <2>5. Stage(<<"join", n, w, 2>>) = base + 4 * k
    BY <1>3, <2>2, <2>3
  <2>6. base - 2 \in Int /\ base + 4 * k \in Int /\ base - 2 < base + 4 * k
    BY <1>1, <1>2
  <2> QED
    BY <1>3, <2>3, <2>4, <2>5, <2>6, StepType
<1>6. ASSUME OnPath(<<"arrived", n, w, 0>>, f)
      PROVE  /\ v = Across(w) /\ Across(v) = w /\ s < k /\ k <= t
             /\ Stage(<<"arrived", n, w, 0>>) = base + 4 * k - 1
  <2>1. On(Beyond(n, w), Across(w), f)
    BY <1>6 DEF OnPath
  <2>2. v = Across(w) /\ s < k /\ k <= t
    BY <1>1, <2>1 DEF On, Goes, Beyond, Across, Along
  <2>3. Stage(<<"arrived", n, w, 0>>) = 2 * EndpointCount + 4 * Along(n, Across(w)) - 1
    <3>1. Along(n, Across(w)) \in Int
      BY <1>2, <2>2
    <3> QED
      BY <1>1, <3>1 DEF Stage
  <2> QED
    BY <2>2, <2>3, ConstantTypes
<1>7. (f[2] = n) <=> (t = k)
  BY <1>1, AlongTypes
<1> HIDE DEF k, s, t, v, base
<1>8. ASSUME OnPath(<<"arrived", n, w, 0>>, f), f[2] # n
      PROVE  Step(<<"arrived", n, w, 0>>, <<"join", n, Across(w), 1>>, f)
  <2>1. v = Across(w) /\ s < k /\ k < t /\ Stage(<<"arrived", n, w, 0>>) = base + 4 * k - 1
    BY <1>2, <1>6, <1>7, <1>8
  <2>2. OnPath(<<"join", n, Across(w), 1>>, f) /\ 1 \in Input
    BY <1>1, <1>8 DEF OnPath, On, Beyond, Across, Input
  <2>3. ASSUME NEW q \in Name, OnPath(q, f)
        PROVE  q = <<"join", n, v, 1>> \/ Stage(q) <= base + 4 * k - 1 \/ Stage(q) > base + 4 * k
    <3>1. PICK p \in Int :
        /\ q = <<q[1], q[2], q[3], q[4]>>
        /\ (p = k => q[2] = n)
        /\ \/ Stage(q) \in Int /\ Stage(q) <= base - 2
           \/ q[1] = "join" /\ q[3] = v /\ q[4] \in Input /\ (q[4] = 2 <=> p = s)
              /\ Stage(q) = base + 4 * p
           \/ Stage(q) = base + 4 * p + 1 \/ Stage(q) = base + 4 * p + 2
           \/ Stage(q) = base + 4 * p - 1
           \/ p = t /\ Stage(q) = base + 4 * p
           \/ Stage(q) = base + 4 * (NodeCount + 2)
      BY <1>4, <2>3
    <3>0. /\ p \in Int /\ k \in Int /\ 1 <= k /\ k <= NodeCount
          /\ base \in Int /\ NodeCount \in Int
      BY <1>1, <1>2, <3>1
    <3>2. CASE q[1] = "join" /\ p = k /\ q[3] = v /\ q[4] \in Input /\ (q[4] = 2 <=> p = s)
      <4>1. q[4] = 1 /\ q[2] = n
        BY <1>2, <2>1, <3>1, <3>2 DEF Input
      <4> QED
        BY <3>1, <3>2, <4>1
    <3>3. CASE ~(q[1] = "join" /\ p = k /\ q[3] = v /\ q[4] \in Input /\ (q[4] = 2 <=> p = s))
      <4>1. \/ Stage(q) \in Int /\ Stage(q) <= base - 2
            \/ Stage(q) = base + 4 * p /\ p # k
            \/ Stage(q) = base + 4 * p + 1 \/ Stage(q) = base + 4 * p + 2
            \/ Stage(q) = base + 4 * p - 1
            \/ Stage(q) = base + 4 * (NodeCount + 2)
        BY <1>2, <2>1, <3>0, <3>1, <3>3
      <4> QED
        BY <3>0, <4>1, Apart
    <3> QED
      BY <3>2, <3>3
  <2>4. Stage(<<"join", n, v, 1>>) = base + 4 * k
    BY <1>3, <2>2
  <2>5. base + 4 * k - 1 \in Int /\ base + 4 * k \in Int /\ base + 4 * k - 1 < base + 4 * k
    BY <1>1, <1>2
  <2> QED
    BY <2>1, <2>2, <2>3, <2>4, <2>5, StepType
<1>9. ASSUME OnPath(<<"arrived", n, w, 0>>, f), f[2] = n
      PROVE  Step(<<"arrived", n, w, 0>>, <<"exit", n, 0, EpInput(w)>>, f)
  <2>1. Across(v) = w /\ v = Across(w) /\ s < k /\ k = t /\ Stage(<<"arrived", n, w, 0>>) = base + 4 * k - 1
    BY <1>2, <1>6, <1>7, <1>9
  <2>2. OnPath(<<"exit", n, 0, EpInput(w)>>, f)
    BY <1>1, <1>9 DEF OnPath, On, Beyond, Across, EpInput
  <2>3. ASSUME NEW q \in Name, OnPath(q, f)
        PROVE  q = <<"exit", n, 0, EpInput(w)>> \/ Stage(q) <= base + 4 * k - 1 \/ Stage(q) > base + 4 * k
    <3>1. PICK p \in Int :
        /\ q = <<q[1], q[2], q[3], q[4]>>
        /\ (p = k => q[2] = n)
        /\ \/ Stage(q) \in Int /\ Stage(q) <= base - 2
           \/ p < t /\ Stage(q) = base + 4 * p
           \/ Stage(q) = base + 4 * p + 1 \/ Stage(q) = base + 4 * p + 2
           \/ Stage(q) = base + 4 * p - 1
           \/ /\ q[1] = "exit" /\ q[3] = 0 /\ q[4] = EpInput(Across(v)) /\ p = t
              /\ Stage(q) = base + 4 * p
           \/ Stage(q) = base + 4 * (NodeCount + 2)
      BY <1>4, <2>3
    <3>0. /\ p \in Int /\ k \in Int /\ 1 <= k /\ k <= NodeCount
          /\ base \in Int /\ NodeCount \in Int
      BY <1>1, <1>2, <3>1
    <3>2. CASE q[1] = "exit" /\ q[3] = 0 /\ q[4] = EpInput(Across(v)) /\ p = t
      <4>1. q[2] = n /\ q[4] = EpInput(w)
        BY <2>1, <3>1, <3>2
      <4> QED
        BY <3>1, <3>2, <4>1
    <3>3. CASE ~(q[1] = "exit" /\ q[3] = 0 /\ q[4] = EpInput(Across(v)) /\ p = t)
      <4>1. \/ Stage(q) \in Int /\ Stage(q) <= base - 2
            \/ Stage(q) = base + 4 * p /\ p # k
            \/ Stage(q) = base + 4 * p + 1 \/ Stage(q) = base + 4 * p + 2
            \/ Stage(q) = base + 4 * p - 1
            \/ Stage(q) = base + 4 * (NodeCount + 2)
        BY <1>2, <2>1, <3>0, <3>1, <3>3
      <4> QED
        BY <3>0, <4>1, Apart
    <3> QED
      BY <3>2, <3>3
  <2>4. Stage(<<"exit", n, 0, EpInput(w)>>) = base + 4 * k
    <3>1. v = (IF EpInput(w) = 1 THEN "down" ELSE "up")
      BY <1>1, <2>1 DEF EpInput, Across
    <3> QED
      BY <3>1 DEF Stage, base, k
  <2>5. base + 4 * k - 1 \in Int /\ base + 4 * k \in Int /\ base + 4 * k - 1 < base + 4 * k
    BY <1>1, <1>2
  <2> QED
    BY <2>1, <2>2, <2>3, <2>4, <2>5, StepType
<1> QED
  BY <1>5, <1>8, <1>9

(* The FIFOs at which a path ends and begins. *)
Last(a, f) == \A q \in Name : OnPath(q, f) => q = a \/ Stage(q) <= Stage(a)
First(b, f) == OnPath(b, f) /\ \A q \in Name : OnPath(q, f) => q = b \/ Stage(q) > Stage(b)

(* The last step of a path, and where it ends. *)
LEMMA LastSteps ==
  ASSUME NEW f \in Triple, NEW n \in Node, NEW i \in Input
  PROVE  /\ OnPath(<<"exit", n, 0, i>>, f) => Step(<<"exit", n, 0, i>>, <<"exitOut", n, 0, 0>>, f)
         /\ OnPath(<<"exitOut", n, 0, 0>>, f) => Last(<<"exitOut", n, 0, 0>>, f)
         /\ f[1] = f[2] => Last(<<"entryOut", n, EndpointCount - 1, 0>>, f)
<1> DEFINE v == Goes(f)
           t == Along(f[2], v)
           base == 2 * EndpointCount
           final == base + 4 * (NodeCount + 2)
<1>1. /\ f[2] \in Node /\ v \in Way /\ EndpointCount \in Int /\ NodeCount \in Int /\ base \in Int
      /\ 1 <= NodeCount
  BY ConstantTypes DEF Triple, Goes
<1>2. t \in Int /\ 1 <= t /\ t <= NodeCount
  BY <1>1, AlongTypes
<1>3. Stage(<<"exitOut", n, 0, 0>>) = final /\ Stage(<<"entryOut", n, EndpointCount - 1, 0>>) = base - 2
  <2>1. 2 * (EndpointCount - 1) = base - 2
    BY <1>1
  <2> HIDE DEF base
  <2> QED
    BY <2>1 DEF Stage, base
<1>4. ASSUME NEW q \in Name, OnPath(q, f)
      PROVE  \/ Stage(q) \in Int /\ Stage(q) <= base - 2
             \/ f[1] # f[2] /\ Stage(q) \in Int /\ Stage(q) <= base + 4 * t
             \/ f[1] # f[2] /\ q = <<"exitOut", f[2], 0, 0>>
  <2> DEFINE p == Pos(q, f)
  <2>1. q = <<q[1], q[2], q[3], q[4]>> /\ q[2] \in Node
    BY NameCases
  <2>2. p \in Int /\ (p = t => q[2] = f[2])
    BY <1>1, <2>1, AlongTypes DEF Pos
  <2>3. 2 * (EndpointCount - 1) = base - 2
    BY <1>1
  <2>4. \/ Stage(q) \in Int /\ Stage(q) <= 2 * (EndpointCount - 1)
        \/ /\ f[1] # f[2] /\ p <= t
           /\ \/ Stage(q) = base + 4 * p
              \/ p < t /\ (Stage(q) = base + 4 * p + 1 \/ Stage(q) = base + 4 * p + 2)
              \/ Stage(q) = base + 4 * p - 1
        \/ f[1] # f[2] /\ q[1] = "exitOut" /\ q[3] = 0 /\ q[4] = 0 /\ p = t
    BY <1>2, <1>4, <2>2, WayFacts
  <2> HIDE DEF p, t, base
  <2>5. p <= t => 4 * p <= 4 * t
    BY <1>2, <2>2
  <2>6. p < t => 4 * p <= 4 * t - 4
    BY <1>2, <2>2
  <2> QED
    BY <1>1, <1>2, <2>1, <2>2, <2>3, <2>4, <2>5, <2>6
<1>5. base - 2 \in Int /\ final \in Int /\ base - 2 < final /\ base + 4 * t \in Int /\ base + 4 * t < final
  BY <1>1, <1>2
<1>6. ASSUME OnPath(<<"exit", n, 0, i>>, f)
      PROVE  Step(<<"exit", n, 0, i>>, <<"exitOut", n, 0, 0>>, f)
  <2>1. f[2] = n /\ f[1] # n /\ v = (IF i = 1 THEN "down" ELSE "up") /\ OnPath(<<"exitOut", n, 0, 0>>, f)
    BY <1>1, <1>6, ConstantTypes DEF OnPath, Goes, Triple
  <2>2. Stage(<<"exit", n, 0, i>>) = base + 4 * t
    BY <2>1 DEF Stage
  <2> HIDE DEF base, t, final
  <2>3. ASSUME NEW q \in Name, OnPath(q, f)
        PROVE  q = <<"exitOut", n, 0, 0>> \/ Stage(q) <= base + 4 * t
    <3>1. base - 2 <= base + 4 * t
      BY <1>1, <1>2
    <3> QED
      BY <1>4, <1>5, <2>1, <2>3, <3>1
  <2> QED
    BY <1>3, <1>5, <2>1, <2>2, <2>3, StepType
<1>7. OnPath(<<"exitOut", n, 0, 0>>, f) => Last(<<"exitOut", n, 0, 0>>, f)
  <2> HIDE DEF base, t, final
  <2>1. ASSUME OnPath(<<"exitOut", n, 0, 0>>, f), NEW q \in Name, OnPath(q, f)
        PROVE  q = <<"exitOut", n, 0, 0>> \/ Stage(q) <= final
    <3>1. f[2] = n
      BY <2>1 DEF OnPath
    <3> QED
      BY <1>4, <1>5, <2>1, <3>1
  <2> QED
    BY <1>3, <2>1 DEF Last
<1>8. f[1] = f[2] => Last(<<"entryOut", n, EndpointCount - 1, 0>>, f)
  <2> HIDE DEF base, t, final
  <2> QED
    BY <1>3, <1>4 DEF Last
<1> QED
  BY <1>6, <1>7, <1>8

(* A path begins where the endpoint's packets enter. *)
LEMMA FirstStep ==
  ASSUME NEW f \in Triple
  PROVE  First(<<"entry", f[1], EntryLevel(f[3]), EntryInput(f[3])>>, f)
<1> DEFINE l == EntryLevel(f[3])
           b == <<"entry", f[1], l, EntryInput(f[3])>>
<1>1. /\ f[1] \in Node /\ l \in Nat /\ l <= EndpointCount - 1 /\ EndpointCount \in Nat
  BY ConstantTypes DEF Triple
<1>2. OnPath(b, f)
  BY <1>1 DEF OnPath
<1>3. Stage(b) = 2 * l - 1
  BY <1>1 DEF Stage
<1>4. ASSUME NEW q \in Name, OnPath(q, f)
      PROVE  q = b \/ Stage(q) > 2 * l - 1
  <2>1. q = <<q[1], q[2], q[3], q[4]>> /\ q[2] \in Node /\ Stage(q) \in Int
    BY NameCases, StageType
  <2>2. \/ /\ q[1] = "entry" /\ q[2] = f[1] /\ q[3] \in Level /\ l <= q[3]
           /\ q[4] = (IF q[3] = l THEN EntryInput(f[3]) ELSE 2)
           /\ Stage(q) = 2 * q[3] - 1
        \/ q[1] = "entryOut" /\ q[3] \in Level /\ l <= q[3] /\ Stage(q) = 2 * q[3]
        \/ \E j \in Nat : \/ Stage(q) = 2 * EndpointCount + 4 * j
                          \/ Stage(q) = 2 * EndpointCount + 4 * j + 1
                          \/ Stage(q) = 2 * EndpointCount + 4 * j + 2
                          \/ Stage(q) = 2 * EndpointCount + 4 * j - 1
    <3>1. NodeCount \in Nat /\ q[2] \in Nat /\ NodeCount + 1 - q[2] \in Nat /\ NodeCount + 2 \in Nat
      BY <2>1, ConstantTypes
    <3> DEFINE up == q[2]
               down == NodeCount + 1 - q[2]
               end == NodeCount + 2
    <3>2. \/ /\ q[1] = "entry" /\ q[2] = f[1] /\ q[3] \in Level /\ l <= q[3]
             /\ q[4] = (IF q[3] = l THEN EntryInput(f[3]) ELSE 2)
             /\ Stage(q) = 2 * q[3] - 1
          \/ q[1] = "entryOut" /\ q[3] \in Level /\ l <= q[3] /\ Stage(q) = 2 * q[3]
          \/ Stage(q) \in {2 * EndpointCount + 4 * up, 2 * EndpointCount + 4 * up + 1,
                           2 * EndpointCount + 4 * up + 2, 2 * EndpointCount + 4 * up - 1}
          \/ Stage(q) \in {2 * EndpointCount + 4 * down, 2 * EndpointCount + 4 * down + 1,
                           2 * EndpointCount + 4 * down + 2, 2 * EndpointCount + 4 * down - 1}
          \/ Stage(q) = 2 * EndpointCount + 4 * end
      BY <1>4, PathFacts
    <3>3. up \in Nat /\ down \in Nat /\ end \in Nat
      BY <3>1
    <3> HIDE DEF up, down, end, l
    <3> QED
      BY <3>2, <3>3
  <2>3. \A k \in Level : k \in Nat
    BY ConstantTypes
  <2>4. ASSUME q[1] = "entry", q[2] = f[1], q[3] \in Level, l <= q[3],
               q[4] = (IF q[3] = l THEN EntryInput(f[3]) ELSE 2), Stage(q) = 2 * q[3] - 1
        PROVE  q = b \/ Stage(q) > 2 * l - 1
    <3>1. q[3] = l => q = b
      BY <2>1, <2>4
    <3>2. q[3] \in Nat
      BY <2>3, <2>4
    <3> HIDE DEF l, b
    <3>3. q[3] # l => Stage(q) > 2 * l - 1
      BY <1>1, <2>4, <3>2
    <3> QED
      BY <3>1, <3>3
  <2>5. ASSUME q[1] = "entryOut", q[3] \in Level, l <= q[3], Stage(q) = 2 * q[3]
        PROVE  Stage(q) > 2 * l - 1
    BY <1>1, <2>3, <2>5
  <2>6. ASSUME NEW j \in Nat,
               \/ Stage(q) = 2 * EndpointCount + 4 * j
               \/ Stage(q) = 2 * EndpointCount + 4 * j + 1
               \/ Stage(q) = 2 * EndpointCount + 4 * j + 2
               \/ Stage(q) = 2 * EndpointCount + 4 * j - 1
        PROVE  Stage(q) > 2 * l - 1
    BY <1>1, <2>6
  <2> QED
    BY <2>2, <2>4, <2>5, <2>6
<1> QED
  BY <1>2, <1>3, <1>4 DEF First

-----------------------------------------------------------------------------
(* The inductive invariant.  What the FIFOs hold, of the values of the       *)
(* variables: the two links of a hop as they will be read.                 *)
Turn(io, n, w) == io[<<Beyond(n, w), Across(w)>>]
NextLink(li, io, n, w) == li[<<n, Port(w, Turn(io, n, w))>>]
OtherLink(li, io, n, w) == li[<<n, Port(w, 1 - Turn(io, n, w))>>]

FifoOf(v, mo, li, io, iq, me, q) ==
  CASE q[1] = "entry" -> v[q[2]][q[3]].in[q[4]]
    [] q[1] = "entryOut" -> v[q[2]][q[3]].out
    [] q[1] = "join" -> mo[<<q[2], q[3]>>].in[q[4]]
    [] q[1] = "joinOut" -> mo[<<q[2], q[3]>>].out
    [] q[1] = "lanes" -> Weave(NextLink(li, io, q[2], q[3]), OtherLink(li, io, q[2], q[3]))
    [] q[1] = "arrived" -> iq[<<q[2], q[3]>>]
    [] q[1] = "exit" -> me[q[2]].in[q[4]]
    [] q[1] = "exitOut" -> me[q[2]].out

FabricOf(v, mo, li, io, iq, me) == [q \in Name |-> FifoOf(v, mo, li, io, iq, me, q)]
Fabric == FabricOf(vMerge, mergeOut, link, inQoff, inQ, mergeEpOut)

(* A node is named by its own number. *)
Named == \A n \in Node : myId[n] \in {n, NoId}

(* The two ends of a hop keep step. *)
Turns(li, io, oo) ==
  \A b \in Hop :
    LET s == NextLink(li, io, b[1], b[2])
        t == OtherLink(li, io, b[1], b[2])
    IN /\ InStep(s, t)
       /\ oo[b] = IF Len(s) = Len(t) THEN Turn(io, b[1], b[2]) ELSE 1 - Turn(io, b[1], b[2])

(* Nothing leaves the chain at its ends. *)
DeadEnds(li) ==
  \A n \in Node, w \in Way, k \in 0..1 : <<n, w>> \notin Hop => li[<<n, Port(w, k)>>] = <<>>

(* Every packet is of a flow and on its path. *)
Right(q, d) == FlowAt(q, d) \in Flows /\ OnPath(q, FlowAt(q, d))
Routed(F) == \A q \in Name : \A k \in 1..Len(F[q]) : Right(q, F[q][k])

InOrder(F, c) == \A f \in Flows : Ordered(F, f, c[f])

IInv ==
  /\ TypeOK /\ Named /\ Turns(link, inQoff, outQoff) /\ DeadEnds(link)
  /\ Routed(Fabric) /\ InOrder(Fabric, chan)

(* The head of a FIFO that is not empty is its first packet. *)
LEMMA HeadIsFirst ==
  ASSUME NEW S, NEW s \in Seq(S), s # <<>>
  PROVE  1 \in 1..Len(s) /\ Head(s) = s[1] /\ Head(s) \in S
  BY EmptySeq, HeadTailProperties, LenProperties

(* What is on its way stays on its path and in order when a packet moves a  *)
(* step along its path, ... *)
LEMMA MoveStep ==
  ASSUME NEW F, NEW G, NEW a, NEW b, NEW d, NEW c \in [Flows -> Seq(Item)],
         Moved(F, G, a, b, d), Routed(F), InOrder(F, c),
         FlowAt(b, d) = FlowAt(a, Head(F[a])), d.item = Head(F[a]).item,
         Step(a, b, FlowAt(b, d))
  PROVE  Routed(G) /\ InOrder(G, c)
<1>1. /\ a \in Name /\ b \in Name /\ a # b /\ F[a] \in Seq(Packet) /\ F[b] \in Seq(Packet) /\ F[a] # <<>>
      /\ G[a] = Tail(F[a]) /\ G[b] = Append(F[b], d)
      /\ \A q \in Name \ {a, b} : G[q] = F[q]
  BY DEF Moved
<1>2. Len(F[a]) \in Nat /\ 1 \in 1..Len(F[a]) /\ Head(F[a]) = F[a][1] /\ Len(F[b]) \in Nat
  BY <1>1, EmptySeq, HeadTailProperties, LenProperties
<1>3. FlowAt(b, d) \in Flows /\ OnPath(b, FlowAt(b, d))
  BY <1>1, <1>2 DEF Routed, Right, Step
<1>4. Routed(G)
  <2>1. ASSUME NEW k \in 1..Len(G[a])
        PROVE  Right(a, G[a][k])
    <3>1. k + 1 \in 1..Len(F[a]) /\ G[a][k] = F[a][k + 1]
      BY <1>1, <1>2, HeadTailProperties
    <3> QED
      BY <1>1, <3>1 DEF Routed
  <2>2. ASSUME NEW k \in 1..Len(G[b])
        PROVE  Right(b, G[b][k])
    <3>1. CASE k = Len(F[b]) + 1
      <4>1. G[b][Len(F[b]) + 1] = d
        BY <1>1, AppendProperties DEF Moved
      <4> QED
        BY <1>3, <3>1, <4>1 DEF Right
    <3>2. CASE k # Len(F[b]) + 1
      <4>1. d \in Packet
        BY DEF Moved
      <4>2. k \in 1..Len(F[b]) /\ G[b][k] = F[b][k]
        BY <1>1, <1>2, <3>2, <4>1, AppendProperties
      <4> QED
        BY <1>1, <4>2 DEF Routed
    <3> QED
      BY <3>1, <3>2
  <2> QED
    BY <1>1, <2>1, <2>2 DEF Routed
<1>5. ASSUME NEW f \in Flows
      PROVE  Ordered(G, f, c[f])
  <2>1. Len(c[f]) \in Nat /\ Ordered(F, f, c[f])
    BY LenProperties DEF InOrder
  <2>2. Stage(a) \in Int /\ Stage(b) \in Int /\ Stage(a) < Stage(b) /\ \A q \in Name : Stage(q) \in Int
    BY <1>1, StageType DEF Step
  <2>3. ASSUME FlowAt(b, d) = f
        PROVE  NoneBetween(F, f, a, b)
    <3>1. ASSUME NEW s \in Slots(F, f)
          PROVE  s[1] \in Name /\ OnPath(s[1], f)
      BY <3>1 DEF Slots, Routed, Right
    <3> QED
      BY <2>3, <3>1 DEF Step, NoneBetween
  <2> QED
    BY <2>1, <2>2, <2>3, MoveKeepsOrder
<1> QED
  BY <1>4, <1>5 DEF InOrder

(* ... when one enters at the beginning of its path, ... *)
LEMMA PutStep ==
  ASSUME NEW F, NEW G, NEW b, NEW d, NEW f \in Flows, NEW c \in [Flows -> Seq(Item)],
         Put(F, G, b, d), Routed(F), InOrder(F, c), FlowAt(b, d) = f, First(b, f)
  PROVE  Routed(G) /\ InOrder(G, Enq(c, f, d.item))
<1>1. /\ b \in Name /\ F[b] \in Seq(Packet) /\ d \in Packet /\ G[b] = Append(F[b], d)
      /\ d.item \in Item /\ \A q \in Name \ {b} : G[q] = F[q]
  BY DEF Put, Packet
<1>2. Len(F[b]) \in Nat
  BY <1>1, LenProperties
<1>3. Routed(G)
  <2>1. ASSUME NEW k \in 1..Len(G[b])
        PROVE  Right(b, G[b][k])
    <3>1. CASE k = Len(F[b]) + 1
      <4>1. G[b][Len(F[b]) + 1] = d
        BY <1>1, AppendProperties
      <4> QED
        BY <3>1, <4>1 DEF Right, First
    <3>2. CASE k # Len(F[b]) + 1
      <4>1. k \in 1..Len(F[b]) /\ G[b][k] = F[b][k]
        BY <1>1, <1>2, <3>2, AppendProperties
      <4> QED
        BY <1>1, <4>1 DEF Routed
    <3> QED
      BY <3>1, <3>2
  <2> QED
    BY <1>1, <2>1 DEF Routed
<1>4. ASSUME NEW g \in Flows
      PROVE  Ordered(G, g, Enq(c, f, d.item)[g])
  <2>1. Ordered(F, g, c[g]) /\ c[g] \in Seq(Item)
    BY DEF InOrder
  <2>2. CASE g = f
    <3>1. ASSUME NEW s \in Slots(F, f)
          PROVE  s[1] = b \/ Stage(s[1]) > Stage(b)
      <4>1. s[1] \in Name /\ OnPath(s[1], f)
        BY DEF Slots, Routed, Right
      <4> QED
        BY <4>1 DEF First
    <3>2. Ordered(G, f, Append(c[f], d.item))
      BY <1>1, <2>1, <2>2, <3>1, StageType, EntryKeepsOrder
    <3> QED
      BY <2>2, <3>2 DEF Enq
  <2>3. CASE g # f
    BY <2>1, <2>3, OtherEntry DEF Enq
  <2> QED
    BY <2>2, <2>3
<1> QED
  BY <1>3, <1>4 DEF InOrder

(* ... and when one is taken at its end, where it is the oldest. *)
LEMMA TakeStep ==
  ASSUME NEW F, NEW G, NEW a, NEW f, NEW c \in [Flows -> Seq(Item)],
         Taken(F, G, a), Routed(F), InOrder(F, c), FlowAt(a, Head(F[a])) = f, Last(a, f)
  PROVE  /\ f \in Flows /\ c[f] # <<>> /\ Head(F[a]).item = Head(c[f])
         /\ Routed(G) /\ InOrder(G, Deq(c, f))
<1>1. /\ a \in Name /\ F[a] \in Seq(Packet) /\ F[a] # <<>> /\ G[a] = Tail(F[a])
      /\ \A q \in Name \ {a} : G[q] = F[q]
  BY DEF Taken
<1>2. Len(F[a]) \in Nat /\ 1 \in 1..Len(F[a]) /\ Head(F[a]) = F[a][1]
  BY <1>1, EmptySeq, HeadTailProperties, LenProperties
<1>3. f \in Flows
  BY <1>1, <1>2 DEF Routed, Right
<1>4. Routed(G)
  <2>1. ASSUME NEW k \in 1..Len(G[a])
        PROVE  Right(a, G[a][k])
    <3>1. k + 1 \in 1..Len(F[a]) /\ G[a][k] = F[a][k + 1]
      BY <1>1, <1>2, HeadTailProperties
    <3> QED
      BY <1>1, <3>1 DEF Routed
  <2> QED
    BY <1>1, <2>1 DEF Routed
<1>5. /\ c[f] # <<>> /\ Head(F[a]).item = Head(c[f])
      /\ Ordered(G, f, Tail(c[f]))
  <2>1. Ordered(F, f, c[f]) /\ c[f] \in Seq(Item)
    BY <1>3 DEF InOrder
  <2>2. ASSUME NEW s \in Slots(F, f)
        PROVE  s[1] = a \/ Stage(s[1]) <= Stage(a)
    <3>1. s[1] \in Name /\ OnPath(s[1], f)
      BY DEF Slots, Routed, Right
    <3> QED
      BY <3>1 DEF Last
  <2> QED
    BY <2>1, <2>2, StageType, LeavingKeepsOrder
<1>6. ASSUME NEW g \in Flows
      PROVE  Ordered(G, g, Deq(c, f)[g])
  <2>1. Ordered(F, g, c[g]) /\ Len(c[g]) \in Nat
    BY LenProperties DEF InOrder
  <2>2. CASE g = f
    BY <1>5, <2>2 DEF Deq
  <2>3. CASE g # f
    BY <2>1, <2>3, StageType, OtherTaken DEF Deq
  <2> QED
    BY <2>2, <2>3
<1> QED
  BY <1>3, <1>4, <1>5, <1>6 DEF InOrder

(* The FIFOs of the fabric, one by one. *)
LEMMA FabricIs ==
  ASSUME NEW v, NEW mo, NEW li, NEW io, NEW iq, NEW me
  PROVE  LET F == FabricOf(v, mo, li, io, iq, me) IN
         /\ \A n \in Node, l \in Level, i \in Input : F[<<"entry", n, l, i>>] = v[n][l].in[i]
         /\ \A n \in Node, l \in Level : F[<<"entryOut", n, l, 0>>] = v[n][l].out
         /\ \A n \in Node, w \in Way, i \in Input : F[<<"join", n, w, i>>] = mo[<<n, w>>].in[i]
         /\ \A n \in Node, w \in Way : F[<<"joinOut", n, w, 0>>] = mo[<<n, w>>].out
         /\ \A n \in Node, w \in Way : Beyond(n, w) \in Node =>
              F[<<"lanes", n, w, 0>>] = Weave(NextLink(li, io, n, w), OtherLink(li, io, n, w))
         /\ \A n \in Node, w \in Way : F[<<"arrived", n, w, 0>>] = iq[<<n, w>>]
         /\ \A n \in Node, i \in Input : F[<<"exit", n, 0, i>>] = me[n].in[i]
         /\ \A n \in Node : F[<<"exitOut", n, 0, 0>>] = me[n].out
<1>1. \A q \in Name : FabricOf(v, mo, li, io, iq, me)[q] = FifoOf(v, mo, li, io, iq, me, q)
  BY DEF FabricOf
<1>2. \A n, l, i : FifoOf(v, mo, li, io, iq, me, <<"entry", n, l, i>>) = v[n][l].in[i]
  BY DEF FifoOf
<1>3. \A n, l : FifoOf(v, mo, li, io, iq, me, <<"entryOut", n, l, 0>>) = v[n][l].out
  BY DEF FifoOf
<1>4. \A n, w, i : FifoOf(v, mo, li, io, iq, me, <<"join", n, w, i>>) = mo[<<n, w>>].in[i]
  BY DEF FifoOf
<1>5. \A n, w : FifoOf(v, mo, li, io, iq, me, <<"joinOut", n, w, 0>>) = mo[<<n, w>>].out
  BY DEF FifoOf
<1>6. \A n, w : FifoOf(v, mo, li, io, iq, me, <<"lanes", n, w, 0>>)
                 = Weave(NextLink(li, io, n, w), OtherLink(li, io, n, w))
  BY DEF FifoOf
<1>7. \A n, w : FifoOf(v, mo, li, io, iq, me, <<"arrived", n, w, 0>>) = iq[<<n, w>>]
  BY DEF FifoOf
<1>8. \A n, i : FifoOf(v, mo, li, io, iq, me, <<"exit", n, 0, i>>) = me[n].in[i]
  BY DEF FifoOf
<1>9. \A n : FifoOf(v, mo, li, io, iq, me, <<"exitOut", n, 0, 0>>) = me[n].out
  BY DEF FifoOf
<1> DEFINE F == FabricOf(v, mo, li, io, iq, me)
<1> HIDE DEF F
<1>10. /\ \A n \in Node, l \in Level, i \in Input : F[<<"entry", n, l, i>>] = v[n][l].in[i]
       /\ \A n \in Node, l \in Level : F[<<"entryOut", n, l, 0>>] = v[n][l].out
  BY <1>1, <1>2, <1>3, Names DEF F
<1>11. /\ \A n \in Node, w \in Way, i \in Input : F[<<"join", n, w, i>>] = mo[<<n, w>>].in[i]
       /\ \A n \in Node, w \in Way : F[<<"joinOut", n, w, 0>>] = mo[<<n, w>>].out
       /\ \A n \in Node, w \in Way : F[<<"arrived", n, w, 0>>] = iq[<<n, w>>]
  <2>1. \A n \in Node, w \in Way, i \in Input : F[<<"join", n, w, i>>] = mo[<<n, w>>].in[i]
    <3> TAKE n \in Node, w \in Way, i \in Input
    <3>1. <<"join", n, w, i>> \in Name
      BY Names
    <3> QED
      BY <1>1, <1>4, <3>1 DEF F
  <2>2. \A n \in Node, w \in Way : F[<<"joinOut", n, w, 0>>] = mo[<<n, w>>].out
    BY <1>1, <1>5, Names DEF F
  <2>3. \A n \in Node, w \in Way : F[<<"arrived", n, w, 0>>] = iq[<<n, w>>]
    BY <1>1, <1>7, Names DEF F
  <2> QED
    BY <2>1, <2>2, <2>3
<1>12. \A n \in Node, w \in Way : Beyond(n, w) \in Node =>
         F[<<"lanes", n, w, 0>>] = Weave(NextLink(li, io, n, w), OtherLink(li, io, n, w))
  BY <1>1, <1>6, Names DEF F
<1>13. /\ \A n \in Node, i \in Input : F[<<"exit", n, 0, i>>] = me[n].in[i]
       /\ \A n \in Node : F[<<"exitOut", n, 0, 0>>] = me[n].out
  BY <1>1, <1>8, <1>9, Names DEF F
<1> QED
  BY <1>10, <1>11, <1>12, <1>13 DEF F

(* Two values of the variables that agree on a FIFO. *)
SameFifo(v, mo, li, io, iq, me, v2, mo2, li2, io2, iq2, me2, q) ==
  /\ q[1] = "entry" => v2[q[2]][q[3]].in[q[4]] = v[q[2]][q[3]].in[q[4]]
  /\ q[1] = "entryOut" => v2[q[2]][q[3]].out = v[q[2]][q[3]].out
  /\ q[1] = "join" => mo2[<<q[2], q[3]>>].in[q[4]] = mo[<<q[2], q[3]>>].in[q[4]]
  /\ q[1] = "joinOut" => mo2[<<q[2], q[3]>>].out = mo[<<q[2], q[3]>>].out
  /\ q[1] = "lanes" => /\ NextLink(li2, io2, q[2], q[3]) = NextLink(li, io, q[2], q[3])
                       /\ OtherLink(li2, io2, q[2], q[3]) = OtherLink(li, io, q[2], q[3])
  /\ q[1] = "arrived" => iq2[<<q[2], q[3]>>] = iq[<<q[2], q[3]>>]
  /\ q[1] = "exit" => me2[q[2]].in[q[4]] = me[q[2]].in[q[4]]
  /\ q[1] = "exitOut" => me2[q[2]].out = me[q[2]].out

(* What they agree on is the same in both fabrics. *)
LEMMA FabricFrame ==
  ASSUME NEW v, NEW mo, NEW li, NEW io, NEW iq, NEW me,
         NEW v2, NEW mo2, NEW li2, NEW io2, NEW iq2, NEW me2, NEW q \in Name,
         SameFifo(v, mo, li, io, iq, me, v2, mo2, li2, io2, iq2, me2, q)
  PROVE  FabricOf(v2, mo2, li2, io2, iq2, me2)[q] = FabricOf(v, mo, li, io, iq, me)[q]
<1>1. q = <<q[1], q[2], q[3], q[4]>>
  BY NameCases
<1>2. FifoOf(v2, mo2, li2, io2, iq2, me2, q) = FifoOf(v, mo, li, io, iq, me, q)
  BY NameCases DEF FifoOf, SameFifo
<1> QED
  BY <1>2 DEF FabricOf

(* The links of a hop, and the FIFOs of the fabric, hold packets. *)
LEMMA LinkTypes ==
  ASSUME NEW li \in FifoFamily(Outlet, Packet), NEW io \in [Node \X Way -> {0, 1}],
         NEW n \in Node, NEW w \in Way, Beyond(n, w) \in Node
  PROVE  /\ <<n, w>> \in Hop /\ <<Beyond(n, w), Across(w)>> \in Node \X Way
         /\ Turn(io, n, w) \in {0, 1}
         /\ <<n, Port(w, Turn(io, n, w))>> \in Outlet /\ <<n, Port(w, 1 - Turn(io, n, w))>> \in Outlet
         /\ NextLink(li, io, n, w) \in Seq(Packet) /\ OtherLink(li, io, n, w) \in Seq(Packet)
<1>1. <<n, w>> \in Hop /\ <<Beyond(n, w), Across(w)>> \in Node \X Way
  BY ConstantTypes DEF Hop
<1>2. Turn(io, n, w) \in {0, 1}
  BY <1>1 DEF Turn
<1>3. \A k \in {0, 1} : Port(w, k) \in 0..3 /\ 1 - k \in {0, 1}
  BY DEF Port
<1>4. <<n, Port(w, Turn(io, n, w))>> \in Outlet /\ <<n, Port(w, 1 - Turn(io, n, w))>> \in Outlet
  BY <1>2, <1>3 DEF Outlet
<1> QED
  BY <1>1, <1>2, <1>4 DEF NextLink, OtherLink, FifoFamily

(* Every FIFO of the fabric holds packets. *)
LEMMA FabricType ==
  ASSUME NEW v \in [Node -> [Level -> MergeOf(Packet)]], NEW mo \in [Node \X Way -> MergeOf(Packet)],
         NEW li \in FifoFamily(Outlet, Packet), NEW io \in [Node \X Way -> {0, 1}],
         NEW iq \in FifoFamily(Node \X Way, Packet), NEW me \in [Node -> MergeOf(Packet)],
         NEW oo, Turns(li, io, oo)
  PROVE  FabricOf(v, mo, li, io, iq, me) \in [Name -> Seq(Packet)]
<1>1. \A m \in MergeOf(Packet) : m.out \in Seq(Packet) /\ \A i \in Input : m.in[i] \in Seq(Packet)
  BY DEF MergeOf
<1>2. ASSUME NEW q \in Name
      PROVE  FifoOf(v, mo, li, io, iq, me, q) \in Seq(Packet)
  <2>1. CASE q[1] \in {"entry", "entryOut"}
    <3>1. v[q[2]][q[3]] \in MergeOf(Packet) /\ (q[1] = "entry" => q[4] \in Input)
      BY <2>1, NameCases
    <3> QED
      BY <1>1, <2>1, <3>1 DEF FifoOf
  <2>2. CASE q[1] \in {"join", "joinOut"}
    <3>1. mo[<<q[2], q[3]>>] \in MergeOf(Packet) /\ (q[1] = "join" => q[4] \in Input)
      BY <2>2, NameCases
    <3> QED
      BY <1>1, <2>2, <3>1 DEF FifoOf
  <2>3. CASE q[1] = "lanes"
    <3> DEFINE s == NextLink(li, io, q[2], q[3])
               t == OtherLink(li, io, q[2], q[3])
    <3>1. q[2] \in Node /\ q[3] \in Way /\ Beyond(q[2], q[3]) \in Node
      BY <2>3, NameCases
    <3>2. s \in Seq(Packet) /\ t \in Seq(Packet) /\ <<q[2], q[3]>> \in Hop
      BY <3>1, LinkTypes
    <3>3. InStep(s, t)
      BY <3>2 DEF Turns
    <3>4. Weave(s, t) \in Seq(Packet)
      BY <3>2, <3>3, WeaveIsSeq
    <3> QED
      BY <2>3, <3>4 DEF FifoOf
  <2>4. CASE q[1] = "arrived"
    <3>1. iq[<<q[2], q[3]>>] \in Seq(Packet)
      BY <2>4, NameCases DEF FifoFamily
    <3> QED
      BY <2>4, <3>1 DEF FifoOf
  <2>5. CASE q[1] \in {"exit", "exitOut"}
    <3>1. me[q[2]] \in MergeOf(Packet) /\ (q[1] = "exit" => q[4] \in Input)
      BY <2>5, NameCases
    <3> QED
      BY <1>1, <2>5, <3>1 DEF FifoOf
  <2> QED
    BY <2>1, <2>2, <2>3, <2>4, <2>5, NameCases
<1> QED
  BY <1>2 DEF FabricOf

-----------------------------------------------------------------------------
(* The steps of the nodes, one by one. *)

(* The variables' types and the two ends of each hop, and the fabric's type. *)
LEMMA FabricTyped ==
  ASSUME IInv
  PROVE  Fabric \in [Name -> Seq(Packet)]
  BY FabricType DEF IInv, TypeOK, Fabric

(* A packet that moves a step along its path keeps the invariant. *)
LEMMA MoveKeepsInv ==
  ASSUME IInv, TypeOK', Named', Turns(link', inQoff', outQoff'), DeadEnds(link'), UNCHANGED chan,
         NEW a, NEW b, NEW d, Moved(Fabric, Fabric', a, b, d),
         FlowAt(b, d) = FlowAt(a, Head(Fabric[a])), d.item = Head(Fabric[a]).item,
         \A f \in Triple : Right(a, Head(Fabric[a])) /\ f = FlowAt(b, d) => Step(a, b, f)
  PROVE  IInv'
<1>1. a \in Name /\ Fabric[a] \in Seq(Packet) /\ Fabric[a] # <<>>
  BY DEF Moved
<1>2. Right(a, Head(Fabric[a]))
  BY <1>1, HeadIsFirst DEF IInv, Routed
<1>3. FlowAt(b, d) \in Triple
  BY <1>2, ConstantTypes DEF Right
<1>4. Step(a, b, FlowAt(b, d))
  BY <1>2, <1>3
<1>5. Routed(Fabric) /\ InOrder(Fabric, chan) /\ chan \in [Flows -> Seq(Item)]
  BY DEF IInv, TypeOK
<1>6. Routed(Fabric') /\ InOrder(Fabric', chan)
  BY <1>4, <1>5, MoveStep
<1> QED
  BY <1>6 DEF IInv

(* The merges of the endpoints of a node. *)
LEMMA MergeEndpointsStep ==
  ASSUME IInv, NEW n \in Node, NEW l \in Level, MergeEndpoints(n, l)
  PROVE  IInv'
<1> DEFINE m == vMerge[n][l]
           k == Chosen(m)
           d == Head(m.in[k])
           a == <<"entry", n, l, k>>
           b == <<"entryOut", n, l, 0>>
<1>1. m \in MergeOf(Packet) /\ Waiting(m) /\ vMerge' = [vMerge EXCEPT ![n][l] = Merged(m)]
      /\ UNCHANGED <<myId, mergeOut, outQoff, link, inQoff, inQ, mergeEpOut, chan>>
  BY DEF IInv, TypeOK, MergeEndpoints
<1>2. /\ k \in Input /\ m.in[k] # <<>> /\ Merged(m) \in MergeOf(Packet)
      /\ Merged(m).in[k] = Tail(m.in[k]) /\ Merged(m).in[3 - k] = m.in[3 - k]
      /\ Merged(m).out = Append(m.out, d)
  BY <1>1, MergedMerge
<1>3. m.in[k] \in Seq(Packet) /\ d \in Packet
  BY <1>1, <1>2, HeadTailProperties DEF MergeOf
<1>4. /\ vMerge' \in [Node -> [Level -> MergeOf(Packet)]] /\ vMerge'[n][l] = Merged(m)
      /\ \A n2 \in Node, l2 \in Level : n2 # n \/ l2 # l => vMerge'[n2][l2] = vMerge[n2][l2]
  BY <1>1, <1>2 DEF IInv, TypeOK
<1>5. TypeOK' /\ Named' /\ Turns(link', inQoff', outQoff') /\ DeadEnds(link')
  BY <1>1, <1>4 DEF IInv, TypeOK, Named
<1>6. Fabric \in [Name -> Seq(Packet)] /\ Fabric' \in [Name -> Seq(Packet)]
  BY <1>5, FabricTyped, FabricType DEF Fabric, TypeOK
<1>7. /\ a \in Name /\ b \in Name /\ a # b
      /\ Fabric[a] = m.in[k] /\ Fabric[b] = m.out
      /\ Fabric'[a] = Merged(m).in[k] /\ Fabric'[b] = Merged(m).out
  <2>1. a \in Name /\ b \in Name /\ a # b
    BY <1>2, Names
  <2>2. k \in Input
    BY <1>2
  <2> HIDE DEF k
  <2>3. Fabric[a] = vMerge[n][l].in[k]
    BY <2>2, FabricIs DEF Fabric
  <2>4. Fabric[b] = vMerge[n][l].out
    BY FabricIs DEF Fabric
  <2>5. Fabric'[a] = vMerge'[n][l].in[k]
    BY <2>2, FabricIs DEF Fabric
  <2>6. Fabric'[b] = vMerge'[n][l].out
    BY FabricIs DEF Fabric
  <2> QED
    BY <1>4, <2>1, <2>3, <2>4, <2>5, <2>6
<1>8. ASSUME NEW q \in Name \ {a, b}
      PROVE  Fabric'[q] = Fabric[q]
  <2> HIDE DEF m, k
  <2>1. q \in Name /\ q = <<q[1], q[2], q[3], q[4]>> /\ q # a /\ q # b
    BY NameCases
  <2>2. ASSUME q[1] = "entry"
        PROVE  vMerge'[q[2]][q[3]].in[q[4]] = vMerge[q[2]][q[3]].in[q[4]]
    <3>1. q[2] \in Node /\ q[3] \in Level /\ q[4] \in Input
      BY <2>2, NameCases
    <3>2. CASE q[2] = n /\ q[3] = l
      <4>1. q[4] = 3 - k
        BY <1>2, <2>1, <2>2, <3>1, <3>2 DEF Input
      <4> QED
        BY <1>2, <1>4, <3>2, <4>1 DEF m
    <3> QED
      BY <1>4, <3>1, <3>2
  <2>3. ASSUME q[1] = "entryOut"
        PROVE  vMerge'[q[2]][q[3]].out = vMerge[q[2]][q[3]].out
    <3>1. q[2] \in Node /\ q[3] \in Level /\ q[4] = 0
      BY <2>3, NameCases
    <3>2. q[2] # n \/ q[3] # l
      BY <2>1, <2>3, <3>1
    <3> QED
      BY <1>4, <3>1, <3>2
  <2>4. SameFifo(vMerge, mergeOut, link, inQoff, inQ, mergeEpOut,
                 vMerge', mergeOut', link', inQoff', inQ', mergeEpOut', q)
    BY <1>1, <2>2, <2>3 DEF SameFifo
  <2> QED
    BY <2>1, <2>4, FabricFrame DEF Fabric
<1>9. Moved(Fabric, Fabric', a, b, d)
  BY <1>2, <1>3, <1>6, <1>7, <1>8 DEF Moved
<1>10. FlowAt(b, d) = FlowAt(a, Head(Fabric[a])) /\ d.item = Head(Fabric[a]).item
  BY <1>7 DEF FlowAt
<1>11. ASSUME NEW f \in Triple, Right(a, Head(Fabric[a])), f = FlowAt(b, d)
       PROVE  Step(a, b, f)
  BY <1>2, <1>10, <1>11, EntrySteps DEF Right
<1> QED
  BY <1>1, <1>5, <1>9, <1>10, <1>11, MoveKeepsInv

(* The merges that go up and down. *)
LEMMA MergeUpDownStep ==
  ASSUME IInv, NEW n \in Node, NEW w \in Way, MergeUpDown(n, w)
  PROVE  IInv'
<1> DEFINE m == mergeOut[<<n, w>>]
           k == Chosen(m)
           d == Head(m.in[k])
           a == <<"join", n, w, k>>
           b == <<"joinOut", n, w, 0>>
<1>1. m \in MergeOf(Packet) /\ Waiting(m) /\ mergeOut' = [mergeOut EXCEPT ![<<n, w>>] = Merged(m)]
      /\ UNCHANGED <<myId, vMerge, outQoff, link, inQoff, inQ, mergeEpOut, chan>>
  BY DEF IInv, TypeOK, MergeUpDown
<1>2. /\ k \in Input /\ m.in[k] # <<>> /\ Merged(m) \in MergeOf(Packet)
      /\ Merged(m).in[k] = Tail(m.in[k]) /\ Merged(m).in[3 - k] = m.in[3 - k]
      /\ Merged(m).out = Append(m.out, d)
  BY <1>1, MergedMerge
<1>3. m.in[k] \in Seq(Packet) /\ d \in Packet
  BY <1>1, <1>2, HeadTailProperties DEF MergeOf
<1>4. /\ mergeOut' \in [Node \X Way -> MergeOf(Packet)] /\ mergeOut'[<<n, w>>] = Merged(m)
      /\ \A n2 \in Node, w2 \in Way : n2 # n \/ w2 # w => mergeOut'[<<n2, w2>>] = mergeOut[<<n2, w2>>]
  BY <1>1, <1>2 DEF IInv, TypeOK
<1>5. TypeOK' /\ Named' /\ Turns(link', inQoff', outQoff') /\ DeadEnds(link')
  BY <1>1, <1>4 DEF IInv, TypeOK, Named
<1>6. Fabric \in [Name -> Seq(Packet)] /\ Fabric' \in [Name -> Seq(Packet)]
  BY <1>5, FabricTyped, FabricType DEF Fabric, TypeOK
<1>7. /\ a \in Name /\ b \in Name /\ a # b
      /\ Fabric[a] = m.in[k] /\ Fabric[b] = m.out
      /\ Fabric'[a] = Merged(m).in[k] /\ Fabric'[b] = Merged(m).out
  <2> HIDE DEF m, k
  <2>1. a \in Name /\ b \in Name /\ a # b
    BY <1>2, Names
  <2>2. Fabric[a] = m.in[k] /\ Fabric'[a] = Merged(m).in[k]
    BY <1>2, <1>4, FabricIs DEF Fabric, m
  <2>3. Fabric[b] = m.out /\ Fabric'[b] = Merged(m).out
    BY <1>4, FabricIs DEF Fabric, m
  <2> QED
    BY <2>1, <2>2, <2>3
<1>8. ASSUME NEW q \in Name \ {a, b}
      PROVE  Fabric'[q] = Fabric[q]
  <2> HIDE DEF m, k
  <2>1. q \in Name /\ q = <<q[1], q[2], q[3], q[4]>> /\ q # a /\ q # b
    BY NameCases
  <2>2. ASSUME q[1] = "join"
        PROVE  mergeOut'[<<q[2], q[3]>>].in[q[4]] = mergeOut[<<q[2], q[3]>>].in[q[4]]
    <3>1. q[2] \in Node /\ q[3] \in Way /\ q[4] \in Input
      BY <2>2, NameCases
    <3>2. CASE q[2] = n /\ q[3] = w
      <4>1. q[4] = 3 - k
        BY <1>2, <2>1, <2>2, <3>1, <3>2 DEF Input
      <4> QED
        BY <1>2, <1>4, <3>2, <4>1 DEF m
    <3> QED
      BY <1>4, <3>1, <3>2
  <2>3. ASSUME q[1] = "joinOut"
        PROVE  mergeOut'[<<q[2], q[3]>>].out = mergeOut[<<q[2], q[3]>>].out
    <3>1. q[2] \in Node /\ q[3] \in Way /\ q[4] = 0
      BY <2>3, NameCases
    <3>2. q[2] # n \/ q[3] # w
      BY <2>1, <2>3, <3>1
    <3> QED
      BY <1>4, <3>1, <3>2
  <2>4. SameFifo(vMerge, mergeOut, link, inQoff, inQ, mergeEpOut,
                 vMerge', mergeOut', link', inQoff', inQ', mergeEpOut', q)
    BY <1>1, <2>2, <2>3 DEF SameFifo
  <2> QED
    BY <2>1, <2>4, FabricFrame DEF Fabric
<1>9. Moved(Fabric, Fabric', a, b, d)
  BY <1>2, <1>3, <1>6, <1>7, <1>8 DEF Moved
<1>10. FlowAt(b, d) = FlowAt(a, Head(Fabric[a])) /\ d.item = Head(Fabric[a]).item
  BY <1>7 DEF FlowAt
<1>11. ASSUME NEW f \in Triple, Right(a, Head(Fabric[a])), f = FlowAt(b, d)
       PROVE  Step(a, b, f)
  BY <1>2, <1>10, <1>11, WaySteps DEF Right
<1> QED
  BY <1>1, <1>5, <1>9, <1>10, <1>11, MoveKeepsInv

(* The merge of what arrived for a node. *)
LEMMA MergeEpStep ==
  ASSUME IInv, NEW n \in Node, MergeEp(n)
  PROVE  IInv'
<1> DEFINE m == mergeEpOut[n]
           k == Chosen(m)
           d == Head(m.in[k])
           a == <<"exit", n, 0, k>>
           b == <<"exitOut", n, 0, 0>>
<1>1. m \in MergeOf(Packet) /\ Waiting(m) /\ mergeEpOut' = [mergeEpOut EXCEPT ![n] = Merged(m)]
      /\ UNCHANGED <<myId, vMerge, mergeOut, outQoff, link, inQoff, inQ, chan>>
  BY DEF IInv, TypeOK, MergeEp
<1>2. /\ k \in Input /\ m.in[k] # <<>> /\ Merged(m) \in MergeOf(Packet)
      /\ Merged(m).in[k] = Tail(m.in[k]) /\ Merged(m).in[3 - k] = m.in[3 - k]
      /\ Merged(m).out = Append(m.out, d)
  BY <1>1, MergedMerge
<1>3. m.in[k] \in Seq(Packet) /\ d \in Packet
  BY <1>1, <1>2, HeadTailProperties DEF MergeOf
<1>4. /\ mergeEpOut' \in [Node -> MergeOf(Packet)] /\ mergeEpOut'[n] = Merged(m)
      /\ \A n2 \in Node : n2 # n => mergeEpOut'[n2] = mergeEpOut[n2]
  BY <1>1, <1>2 DEF IInv, TypeOK
<1>5. TypeOK' /\ Named' /\ Turns(link', inQoff', outQoff') /\ DeadEnds(link')
  BY <1>1, <1>4 DEF IInv, TypeOK, Named
<1>6. Fabric \in [Name -> Seq(Packet)] /\ Fabric' \in [Name -> Seq(Packet)]
  BY <1>5, FabricTyped, FabricType DEF Fabric, TypeOK
<1>7. /\ a \in Name /\ b \in Name /\ a # b
      /\ Fabric[a] = m.in[k] /\ Fabric[b] = m.out
      /\ Fabric'[a] = Merged(m).in[k] /\ Fabric'[b] = Merged(m).out
  BY <1>2, <1>4, Names, FabricIs DEF Fabric
<1>8. ASSUME NEW q \in Name \ {a, b}
      PROVE  Fabric'[q] = Fabric[q]
  <2> HIDE DEF m, k
  <2>1. q \in Name /\ q = <<q[1], q[2], q[3], q[4]>> /\ q # a /\ q # b
    BY NameCases
  <2>2. ASSUME q[1] = "exit"
        PROVE  mergeEpOut'[q[2]].in[q[4]] = mergeEpOut[q[2]].in[q[4]]
    <3>1. q[2] \in Node /\ q[3] = 0 /\ q[4] \in Input
      BY <2>2, NameCases
    <3>2. CASE q[2] = n
      <4>1. q[4] = 3 - k
        BY <1>2, <2>1, <2>2, <3>1, <3>2 DEF Input
      <4> QED
        BY <1>2, <1>4, <3>2, <4>1 DEF m
    <3> QED
      BY <1>4, <3>1, <3>2
  <2>3. ASSUME q[1] = "exitOut"
        PROVE  mergeEpOut'[q[2]].out = mergeEpOut[q[2]].out
    <3>1. q[2] \in Node /\ q[3] = 0 /\ q[4] = 0
      BY <2>3, NameCases
    <3>2. q[2] # n
      BY <2>1, <2>3, <3>1
    <3> QED
      BY <1>4, <3>1, <3>2
  <2>4. SameFifo(vMerge, mergeOut, link, inQoff, inQ, mergeEpOut,
                 vMerge', mergeOut', link', inQoff', inQ', mergeEpOut', q)
    BY <1>1, <2>2, <2>3 DEF SameFifo
  <2> QED
    BY <2>1, <2>4, FabricFrame DEF Fabric
<1>9. Moved(Fabric, Fabric', a, b, d)
  BY <1>2, <1>3, <1>6, <1>7, <1>8 DEF Moved
<1>10. FlowAt(b, d) = FlowAt(a, Head(Fabric[a])) /\ d.item = Head(Fabric[a]).item
  BY <1>7 DEF FlowAt
<1>11. ASSUME NEW f \in Triple, Right(a, Head(Fabric[a])), f = FlowAt(b, d)
       PROVE  Step(a, b, f)
  BY <1>2, <1>10, <1>11, LastSteps DEF Right
<1> QED
  BY <1>1, <1>5, <1>9, <1>10, <1>11, MoveKeepsInv

(* From one merge of the endpoints to the next. *)
LEMMA RellStep ==
  ASSUME IInv, NEW n \in Node, NEW l \in Level, Rell(n, l)
  PROVE  IInv'
<1> DEFINE m == vMerge[n][l]
           next == vMerge[n][l + 1]
           d == Head(m.out)
           a == <<"entryOut", n, l, 0>>
           b == <<"entry", n, l + 1, 2>>
<1>0. l \in Int
  BY ConstantTypes
<1>1. /\ l + 1 \in Level /\ m.out # <<>>
      /\ \E r \in Entered(next, 2, d) : vMerge' = [vMerge EXCEPT ![n][l] = Left(@), ![n][l + 1] = r]
      /\ UNCHANGED <<myId, mergeOut, outQoff, link, inQoff, inQ, mergeEpOut, chan>>
  BY DEF Rell
<1>2. PICK r \in Entered(next, 2, d) :
        vMerge' = [vMerge EXCEPT ![n][l] = Left(@), ![n][l + 1] = r]
  BY <1>1
<1>3. m \in MergeOf(Packet) /\ next \in MergeOf(Packet) /\ 2 \in Input /\ 1 \in Input
  BY <1>1 DEF IInv, TypeOK, Input
<1>4. m.out \in Seq(Packet) /\ d \in Packet
  BY <1>1, <1>3, HeadTailProperties DEF MergeOf
<1>5. /\ r \in MergeOf(Packet) /\ r.in[2] = Append(next.in[2], d) /\ r.in[1] = next.in[1]
      /\ r.out = next.out
  <2> HIDE DEF next, d
  <2>1. r \in MergeOf(Packet) /\ r.in[2] = Append(next.in[2], d) /\ r.out = next.out
    BY <1>3, <1>4, EnteredMerge
  <2>2. r.in[3 - 2] = next.in[3 - 2]
    BY <1>3, <1>4, EnteredMerge
  <2>3. 3 - 2 = 1
    OBVIOUS
  <2> QED
    BY <2>1, <2>2, <2>3
<1>6. Left(m) \in MergeOf(Packet) /\ Left(m).in = m.in /\ Left(m).out = Tail(m.out)
  BY <1>1, <1>3, LeftMerge
<1>7. /\ vMerge' \in [Node -> [Level -> MergeOf(Packet)]]
      /\ vMerge'[n][l] = Left(m) /\ vMerge'[n][l + 1] = r
      /\ \A n2 \in Node, l2 \in Level : n2 # n \/ (l2 # l /\ l2 # l + 1) => vMerge'[n2][l2] = vMerge[n2][l2]
  <2>1. vMerge \in [Node -> [Level -> MergeOf(Packet)]] /\ l # l + 1
    BY <1>0 DEF IInv, TypeOK
  <2> DEFINE row == [vMerge[n] EXCEPT ![l] = Left(m), ![l + 1] = r]
  <2>2. vMerge' = [vMerge EXCEPT ![n] = row]
    BY <1>2, <2>1
  <2>3. /\ row \in [Level -> MergeOf(Packet)] /\ row[l] = Left(m) /\ row[l + 1] = r
        /\ \A l2 \in Level : l2 # l /\ l2 # l + 1 => row[l2] = vMerge[n][l2]
    BY <1>1, <1>5, <1>6, <2>1
  <2> HIDE DEF row
  <2> QED
    BY <2>1, <2>2, <2>3
<1>8. TypeOK' /\ Named' /\ Turns(link', inQoff', outQoff') /\ DeadEnds(link')
  BY <1>1, <1>7 DEF IInv, TypeOK, Named
<1>9. Fabric \in [Name -> Seq(Packet)] /\ Fabric' \in [Name -> Seq(Packet)]
  BY <1>8, FabricTyped, FabricType DEF Fabric, TypeOK
<1> HIDE DEF d
<1>10. a \in Name /\ b \in Name /\ a # b
  BY <1>1, <1>3, Names
<1>11. Fabric[a] = m.out /\ Fabric'[a] = Tail(m.out)
  BY <1>6, <1>7, FabricIs DEF Fabric
<1>12. Fabric[b] = next.in[2] /\ Fabric'[b] = Append(next.in[2], d)
  <2>1. Fabric[b] = next.in[2]
    BY <1>1, <1>3, FabricIs DEF Fabric
  <2>2. Fabric'[b] = vMerge'[n][l + 1].in[2]
    <3>1. \A k \in Level : Fabric'[<<"entry", n, k, 2>>] = vMerge'[n][k].in[2]
      BY <1>3, FabricIs DEF Fabric
    <3> QED
      BY <1>1, <3>1
  <2> HIDE DEF next
  <2> QED
    BY <1>5, <1>7, <2>1, <2>2
<1>13. ASSUME NEW q \in Name \ {a, b}
       PROVE  Fabric'[q] = Fabric[q]
  <2> HIDE DEF m, next
  <2>1. q \in Name /\ q = <<q[1], q[2], q[3], q[4]>> /\ q # a /\ q # b
    BY NameCases
  <2>2. ASSUME q[1] = "entry"
        PROVE  vMerge'[q[2]][q[3]].in[q[4]] = vMerge[q[2]][q[3]].in[q[4]]
    <3>1. q[2] \in Node /\ q[3] \in Level /\ q[4] \in Input
      BY <2>2, NameCases
    <3>2. CASE q[2] = n /\ q[3] = l + 1
      <4>1. q[4] = 1
        BY <2>1, <2>2, <3>1, <3>2 DEF Input
      <4> QED
        BY <1>5, <1>7, <3>2, <4>1 DEF next
    <3>3. CASE q[2] = n /\ q[3] = l
      BY <1>6, <1>7, <3>3 DEF m
    <3> QED
      BY <1>7, <3>1, <3>2, <3>3
  <2>3. ASSUME q[1] = "entryOut"
        PROVE  vMerge'[q[2]][q[3]].out = vMerge[q[2]][q[3]].out
    <3>1. q[2] \in Node /\ q[3] \in Level /\ q[4] = 0
      BY <2>3, NameCases
    <3>2. q[2] # n \/ q[3] # l
      BY <2>1, <2>3, <3>1
    <3>3. CASE q[2] = n /\ q[3] = l + 1
      BY <1>5, <1>7, <3>3 DEF next
    <3> QED
      BY <1>7, <3>1, <3>2, <3>3
  <2>4. SameFifo(vMerge, mergeOut, link, inQoff, inQ, mergeEpOut,
                 vMerge', mergeOut', link', inQoff', inQ', mergeEpOut', q)
    BY <1>1, <2>2, <2>3 DEF SameFifo
  <2> QED
    BY <2>1, <2>4, FabricFrame DEF Fabric
<1>14. Moved(Fabric, Fabric', a, b, d)
  BY <1>1, <1>4, <1>9, <1>10, <1>11, <1>12, <1>13 DEF Moved
<1>15. FlowAt(b, d) = FlowAt(a, Head(Fabric[a])) /\ d.item = Head(Fabric[a]).item
  BY <1>11 DEF FlowAt, d
<1>16. ASSUME NEW f \in Triple, Right(a, Head(Fabric[a])), f = FlowAt(b, d)
       PROVE  Step(a, b, f)
  BY <1>1, <1>3, <1>15, <1>16, EntrySteps DEF Right
<1> QED
  BY <1>1, <1>8, <1>14, <1>15, <1>16, MoveKeepsInv

(* An endpoint sends. *)
LEMMA RinStep ==
  ASSUME IInv, NEW f \in Flows, NEW x \in Handed[f], Rin(f, x)
  PROVE  IInv' /\ x \in Item /\ chan' = Enq(chan, f, x)
<1> DEFINE n == f[1]
           l == EntryLevel(f[3])
           i == EntryInput(f[3])
           m == vMerge[n][l]
           d == [src |-> NoId, dst |-> f[2], ptype |-> f[3], item |-> x]
           b == <<"entry", n, l, i>>
<1>1. /\ \E r \in Entered(m, i, d) : vMerge' = [vMerge EXCEPT ![n][l] = r]
      /\ chan' = Enq(chan, f, x)
      /\ UNCHANGED <<myId, mergeOut, outQoff, link, inQoff, inQ, mergeEpOut>>
  BY DEF Rin
<1>2. PICK r \in Entered(m, i, d) : vMerge' = [vMerge EXCEPT ![n][l] = r]
  BY <1>1
<1>3. /\ f \in Triple /\ n \in Node /\ f[2] \in Node /\ f[3] \in Endpoint
      /\ l \in Level /\ i \in Input /\ f = <<f[1], f[2], f[3]>> /\ x \in Item
  BY ConstantTypes, BarAssumption, SMTT(30) DEF Triple
<1>4. m \in MergeOf(Packet) /\ d \in Packet
  BY <1>3 DEF IInv, TypeOK, Packet
<1> HIDE DEF n, l, i, d
<1>5. /\ r \in MergeOf(Packet) /\ r.in[i] = Append(m.in[i], d) /\ r.in[3 - i] = m.in[3 - i]
      /\ r.out = m.out
  BY <1>3, <1>4, EnteredMerge, SMTT(30)
<1>6. /\ vMerge' \in [Node -> [Level -> MergeOf(Packet)]] /\ vMerge'[n][l] = r
      /\ \A n2 \in Node, l2 \in Level : n2 # n \/ l2 # l => vMerge'[n2][l2] = vMerge[n2][l2]
  BY <1>2, <1>3, <1>5 DEF IInv, TypeOK
<1>7. chan \in [Flows -> Seq(Item)] /\ chan' \in [Flows -> Seq(Item)]
  <2>1. chan \in [Flows -> Seq(Item)]
    BY DEF IInv, TypeOK
  <2>2. Append(chan[f], x) \in Seq(Item)
    BY <1>3, <2>1, AppendProperties
  <2> QED
    BY <1>1, <2>1, <2>2 DEF Enq
<1>8. TypeOK' /\ Named' /\ Turns(link', inQoff', outQoff') /\ DeadEnds(link')
  BY <1>1, <1>6, <1>7 DEF IInv, TypeOK, Named
<1>9. Fabric \in [Name -> Seq(Packet)] /\ Fabric' \in [Name -> Seq(Packet)]
  BY <1>8, FabricTyped, FabricType DEF Fabric, TypeOK
<1>10. b \in Name /\ Fabric[b] = m.in[i] /\ Fabric'[b] = Append(m.in[i], d)
  <2>1. b \in Name
    BY <1>3, Names
  <2>2. Fabric[b] = vMerge[n][l].in[i]
    BY <1>3, FabricIs DEF Fabric
  <2>3. Fabric'[b] = vMerge'[n][l].in[i]
    BY <1>3, FabricIs DEF Fabric
  <2> QED
    BY <1>5, <1>6, <2>1, <2>2, <2>3
<1>11. ASSUME NEW q \in Name \ {b}
       PROVE  Fabric'[q] = Fabric[q]
  <2> HIDE DEF m
  <2>1. q \in Name /\ q = <<q[1], q[2], q[3], q[4]>> /\ q # b
    BY NameCases
  <2>2. ASSUME q[1] = "entry"
        PROVE  vMerge'[q[2]][q[3]].in[q[4]] = vMerge[q[2]][q[3]].in[q[4]]
    <3>1. q[2] \in Node /\ q[3] \in Level /\ q[4] \in Input
      BY <2>2, NameCases
    <3>2. CASE q[2] = n /\ q[3] = l
      <4>1. q[4] = 3 - i
        BY <1>3, <2>1, <2>2, <3>1, <3>2 DEF Input
      <4> QED
        BY <1>5, <1>6, <3>2, <4>1 DEF m
    <3> QED
      BY <1>6, <3>1, <3>2
  <2>3. ASSUME q[1] = "entryOut"
        PROVE  vMerge'[q[2]][q[3]].out = vMerge[q[2]][q[3]].out
    <3>1. q[2] \in Node /\ q[3] \in Level
      BY <2>3, NameCases
    <3>2. CASE q[2] = n /\ q[3] = l
      BY <1>5, <1>6, <3>2 DEF m
    <3> QED
      BY <1>6, <3>1, <3>2
  <2>4. SameFifo(vMerge, mergeOut, link, inQoff, inQ, mergeEpOut,
                 vMerge', mergeOut', link', inQoff', inQ', mergeEpOut', q)
    BY <1>1, <2>2, <2>3 DEF SameFifo
  <2> QED
    BY <2>1, <2>4, FabricFrame DEF Fabric
<1>12. Put(Fabric, Fabric', b, d)
  BY <1>4, <1>9, <1>10, <1>11 DEF Put
<1>13. FlowAt(b, d) = f /\ d.item = x
  BY <1>3 DEF FlowAt, n, d
<1>14. First(b, f)
  BY <1>3, FirstStep DEF n, l, i
<1>15. Routed(Fabric') /\ InOrder(Fabric', chan')
  <2>1. Routed(Fabric) /\ InOrder(Fabric, chan) /\ chan' = Enq(chan, f, d.item)
    BY <1>1, <1>13 DEF IInv
  <2> QED
    BY <1>7, <1>12, <1>13, <1>14, <2>1, PutStep
<1>16. IInv'
  BY <1>8, <1>15 DEF IInv
<1> QED
  BY <1>1, <1>3, <1>16

(* An endpoint takes what arrived. *)
LEMMA ROutStep ==
  ASSUME IInv, NEW n \in Node, ROut(n)
  PROVE  /\ IInv'
         /\ LET d == Head(mergeEpOut[n].out) IN
            /\ FlowOf(d) \in Flows /\ FlowOf(d)[1] # FlowOf(d)[2] /\ d.dst = n
            /\ chan[FlowOf(d)] # <<>> /\ d.item = Head(chan[FlowOf(d)])
            /\ chan' = Deq(chan, FlowOf(d))
<1> DEFINE m == mergeEpOut[n]
           d == Head(m.out)
           f == FlowOf(d)
           a == <<"exitOut", n, 0, 0>>
<1>1. /\ m.out # <<>> /\ mergeEpOut' = [mergeEpOut EXCEPT ![n] = Left(m)] /\ chan' = Deq(chan, f)
      /\ UNCHANGED <<myId, vMerge, mergeOut, outQoff, link, inQoff, inQ>>
  BY DEF ROut
<1>2. m \in MergeOf(Packet)
  BY DEF IInv, TypeOK
<1>3. Left(m) \in MergeOf(Packet) /\ Left(m).in = m.in /\ Left(m).out = Tail(m.out)
  BY <1>1, <1>2, LeftMerge
<1>4. m.out \in Seq(Packet) /\ d \in Packet
  BY <1>1, <1>2, HeadTailProperties DEF MergeOf
<1>5. /\ mergeEpOut' \in [Node -> MergeOf(Packet)] /\ mergeEpOut'[n] = Left(m)
      /\ \A n2 \in Node : n2 # n => mergeEpOut'[n2] = mergeEpOut[n2]
  BY <1>1, <1>3 DEF IInv, TypeOK
<1>6. Turns(link', inQoff', outQoff') /\ DeadEnds(link') /\ Named'
  BY <1>1 DEF IInv, Named
<1>7. Fabric \in [Name -> Seq(Packet)] /\ Fabric' \in [Name -> Seq(Packet)]
  BY <1>1, <1>5, <1>6, FabricTyped, FabricType DEF Fabric, IInv, TypeOK
<1>8. a \in Name /\ Fabric[a] = m.out /\ Fabric'[a] = Tail(m.out)
  BY <1>3, <1>5, Names, FabricIs DEF Fabric
<1>9. ASSUME NEW q \in Name \ {a}
      PROVE  Fabric'[q] = Fabric[q]
  <2> HIDE DEF m
  <2>1. q \in Name /\ q = <<q[1], q[2], q[3], q[4]>> /\ q # a
    BY NameCases
  <2>2. ASSUME q[1] = "exit"
        PROVE  mergeEpOut'[q[2]].in[q[4]] = mergeEpOut[q[2]].in[q[4]]
    <3>1. q[2] \in Node
      BY NameCases
    <3> QED
      BY <1>3, <1>5, <3>1 DEF m
  <2>3. ASSUME q[1] = "exitOut"
        PROVE  mergeEpOut'[q[2]].out = mergeEpOut[q[2]].out
    <3>1. q[2] \in Node /\ q[3] = 0 /\ q[4] = 0
      BY <2>3, NameCases
    <3> QED
      BY <1>5, <2>1, <2>3, <3>1
  <2>4. SameFifo(vMerge, mergeOut, link, inQoff, inQ, mergeEpOut,
                 vMerge', mergeOut', link', inQoff', inQ', mergeEpOut', q)
    BY <1>1, <2>2, <2>3 DEF SameFifo
  <2> QED
    BY <2>1, <2>4, FabricFrame DEF Fabric
<1>10. Taken(Fabric, Fabric', a)
  BY <1>1, <1>7, <1>8, <1>9 DEF Taken
<1>11. FlowAt(a, Head(Fabric[a])) = f
  BY <1>8 DEF FlowAt
<1>12. f \in Triple /\ Right(a, d) /\ OnPath(a, f)
  <2>1. Right(a, d)
    BY <1>1, <1>4, <1>8, HeadIsFirst DEF IInv, Routed
  <2> QED
    BY <1>8, <1>11, <2>1, ConstantTypes DEF Right
<1>13. Last(a, f)
  <2>1. 1 \in Input
    BY DEF Input
  <2> QED
    BY <1>12, <2>1, LastSteps
<1>14. /\ f \in Flows /\ chan[f] # <<>> /\ d.item = Head(chan[f])
       /\ Routed(Fabric') /\ InOrder(Fabric', chan')
  <2>1. Routed(Fabric) /\ InOrder(Fabric, chan) /\ chan \in [Flows -> Seq(Item)]
    BY DEF IInv, TypeOK
  <2> HIDE DEF f, d
  <2> QED
    BY <1>1, <1>8, <1>10, <1>11, <1>13, <2>1, TakeStep DEF d
<1>15. chan' \in [Flows -> Seq(Item)]
  <2>1. chan \in [Flows -> Seq(Item)]
    BY DEF IInv, TypeOK
  <2>2. Tail(chan[f]) \in Seq(Item)
    BY <1>14, <2>1, HeadTailProperties
  <2> QED
    BY <1>1, <2>1, <2>2 DEF Deq
<1>16. IInv'
  BY <1>1, <1>5, <1>6, <1>14, <1>15 DEF IInv, TypeOK
<1>17. f[1] # f[2] /\ d.dst = n
  BY <1>12 DEF OnPath, FlowOf
<1> QED
  BY <1>1, <1>14, <1>16, <1>17

(* A packet is handed to the merge that goes the way w. *)
LEMMA PassOnIs ==
  ASSUME mergeOut \in [Node \X Way -> MergeOf(Packet)],
         NEW n \in Node, NEW w \in Way, NEW i \in Input, NEW d \in Packet, PassOn(n, w, i, d)
  PROVE  /\ mergeOut' \in [Node \X Way -> MergeOf(Packet)]
         /\ mergeOut'[<<n, w>>].in[i] = Append(mergeOut[<<n, w>>].in[i], d)
         /\ \A q \in Name : q # <<"join", n, w, i>> =>
              /\ q[1] = "join" => mergeOut'[<<q[2], q[3]>>].in[q[4]] = mergeOut[<<q[2], q[3]>>].in[q[4]]
              /\ q[1] = "joinOut" => mergeOut'[<<q[2], q[3]>>].out = mergeOut[<<q[2], q[3]>>].out
<1> DEFINE m == mergeOut[<<n, w>>]
<1>1. PICK r \in Entered(m, i, d) : mergeOut' = [mergeOut EXCEPT ![<<n, w>>] = r]
  BY DEF PassOn
<1>2. m \in MergeOf(Packet)
  OBVIOUS
<1> HIDE DEF m
<1>3. /\ r \in MergeOf(Packet) /\ r.in[i] = Append(m.in[i], d) /\ r.in[3 - i] = m.in[3 - i]
      /\ r.out = m.out
  BY <1>2, EnteredMerge
<1>4. /\ mergeOut' \in [Node \X Way -> MergeOf(Packet)] /\ mergeOut'[<<n, w>>] = r
      /\ \A n2 \in Node, w2 \in Way : n2 # n \/ w2 # w => mergeOut'[<<n2, w2>>] = mergeOut[<<n2, w2>>]
  BY <1>1, <1>3 DEF m
<1>5. ASSUME NEW q \in Name, q # <<"join", n, w, i>>
      PROVE  /\ q[1] = "join" => mergeOut'[<<q[2], q[3]>>].in[q[4]] = mergeOut[<<q[2], q[3]>>].in[q[4]]
             /\ q[1] = "joinOut" => mergeOut'[<<q[2], q[3]>>].out = mergeOut[<<q[2], q[3]>>].out
  <2>1. q = <<q[1], q[2], q[3], q[4]>>
    BY NameCases
  <2>2. ASSUME q[1] = "join"
        PROVE  mergeOut'[<<q[2], q[3]>>].in[q[4]] = mergeOut[<<q[2], q[3]>>].in[q[4]]
    <3>1. q[2] \in Node /\ q[3] \in Way /\ q[4] \in Input
      BY <2>2, NameCases
    <3>2. CASE q[2] = n /\ q[3] = w
      <4>1. q[4] = 3 - i
        BY <1>5, <2>1, <2>2, <3>1, <3>2 DEF Input
      <4> QED
        BY <1>3, <1>4, <3>2, <4>1 DEF m
    <3> QED
      BY <1>4, <3>1, <3>2
  <2>3. ASSUME q[1] = "joinOut"
        PROVE  mergeOut'[<<q[2], q[3]>>].out = mergeOut[<<q[2], q[3]>>].out
    <3>1. q[2] \in Node /\ q[3] \in Way
      BY <2>3, NameCases
    <3>2. CASE q[2] = n /\ q[3] = w
      BY <1>3, <1>4, <3>2 DEF m
    <3> QED
      BY <1>4, <3>1, <3>2
  <2> QED
    BY <2>2, <2>3
<1> QED
  BY <1>3, <1>4, <1>5 DEF m

(* The last merge of the endpoints gives away its head. *)
LEMMA LeftEndpoints ==
  ASSUME vMerge \in [Node -> [Level -> MergeOf(Packet)]], NEW n \in Node, NEW l \in Level,
         vMerge[n][l].out # <<>>, vMerge' = [vMerge EXCEPT ![n][l] = Left(@)]
  PROVE  /\ vMerge' \in [Node -> [Level -> MergeOf(Packet)]]
         /\ vMerge'[n][l].out = Tail(vMerge[n][l].out)
         /\ vMerge[n][l].out \in Seq(Packet) /\ Head(vMerge[n][l].out) \in Packet
         /\ \A q \in Name : q # <<"entryOut", n, l, 0>> =>
              /\ q[1] = "entry" => vMerge'[q[2]][q[3]].in[q[4]] = vMerge[q[2]][q[3]].in[q[4]]
              /\ q[1] = "entryOut" => vMerge'[q[2]][q[3]].out = vMerge[q[2]][q[3]].out
<1> DEFINE m == vMerge[n][l]
<1>1. m \in MergeOf(Packet)
  OBVIOUS
<1>2. Left(m) \in MergeOf(Packet) /\ Left(m).in = m.in /\ Left(m).out = Tail(m.out)
  BY <1>1, LeftMerge
<1>3. /\ vMerge' \in [Node -> [Level -> MergeOf(Packet)]] /\ vMerge'[n][l] = Left(m)
      /\ \A n2 \in Node, l2 \in Level : n2 # n \/ l2 # l => vMerge'[n2][l2] = vMerge[n2][l2]
  BY <1>2
<1>4. m.out \in Seq(Packet) /\ Head(m.out) \in Packet
  BY <1>1, HeadTailProperties DEF MergeOf
<1>5. ASSUME NEW q \in Name, q # <<"entryOut", n, l, 0>>
      PROVE  /\ q[1] = "entry" => vMerge'[q[2]][q[3]].in[q[4]] = vMerge[q[2]][q[3]].in[q[4]]
             /\ q[1] = "entryOut" => vMerge'[q[2]][q[3]].out = vMerge[q[2]][q[3]].out
  <2> HIDE DEF m
  <2>1. q = <<q[1], q[2], q[3], q[4]>>
    BY NameCases
  <2>2. ASSUME q[1] = "entry"
        PROVE  vMerge'[q[2]][q[3]].in[q[4]] = vMerge[q[2]][q[3]].in[q[4]]
    <3>1. q[2] \in Node /\ q[3] \in Level
      BY <2>2, NameCases
    <3>2. CASE q[2] = n /\ q[3] = l
      BY <1>2, <1>3, <3>2 DEF m
    <3> QED
      BY <1>3, <3>1, <3>2
  <2>3. ASSUME q[1] = "entryOut"
        PROVE  vMerge'[q[2]][q[3]].out = vMerge[q[2]][q[3]].out
    <3>1. q[2] \in Node /\ q[3] \in Level /\ q[4] = 0
      BY <2>3, NameCases
    <3>2. q[2] # n \/ q[3] # l
      BY <1>5, <2>1, <2>3, <3>1
    <3> QED
      BY <1>3, <3>1, <3>2
  <2> QED
    BY <2>2, <2>3
<1> QED
  BY <1>2, <1>3, <1>4, <1>5

(* A node deals with what its endpoints send: it goes up or down, ... *)
LEMMA PassOwn ==
  ASSUME IInv, NEW n \in Node, NEW w \in Way, HandleEpIn(n),
         NEW d, d = [Head(vMerge[n][EndpointCount - 1].out) EXCEPT !.src = myId[n]],
         PassOn(n, w, 2, d), UNCHANGED chan, IF w = "up" THEN d.dst > myId[n] ELSE d.dst < myId[n]
  PROVE  IInv'
<1> DEFINE l == EndpointCount - 1
           old == Head(vMerge[n][l].out)
           a == <<"entryOut", n, l, 0>>
           b == <<"join", n, w, 2>>
<1>1. l \in Level /\ 2 \in Input
  BY ConstantTypes
<1>2. /\ myId[n] = n /\ vMerge[n][l].out # <<>> /\ vMerge' = [vMerge EXCEPT ![n][l] = Left(@)]
      /\ UNCHANGED <<myId, outQoff, link, inQoff, inQ, mergeEpOut, chan>>
  BY DEF HandleEpIn, IInv, Named
<1>3. vMerge \in [Node -> [Level -> MergeOf(Packet)]] /\ mergeOut \in [Node \X Way -> MergeOf(Packet)]
  BY DEF IInv, TypeOK
<1>4. /\ vMerge' \in [Node -> [Level -> MergeOf(Packet)]]
      /\ vMerge'[n][l].out = Tail(vMerge[n][l].out)
      /\ vMerge[n][l].out \in Seq(Packet) /\ old \in Packet
      /\ \A q \in Name : q # a =>
           /\ q[1] = "entry" => vMerge'[q[2]][q[3]].in[q[4]] = vMerge[q[2]][q[3]].in[q[4]]
           /\ q[1] = "entryOut" => vMerge'[q[2]][q[3]].out = vMerge[q[2]][q[3]].out
  BY <1>1, <1>2, <1>3, LeftEndpoints
<1>5. d \in Packet /\ d.src = n /\ d.dst = old.dst /\ d.ptype = old.ptype /\ d.item = old.item
  <2> HIDE DEF old
  <2> QED
    BY <1>2, <1>4 DEF Packet, old
<1> HIDE DEF l
<1>6. /\ mergeOut' \in [Node \X Way -> MergeOf(Packet)]
      /\ mergeOut'[<<n, w>>].in[2] = Append(mergeOut[<<n, w>>].in[2], d)
      /\ \A q \in Name : q # b =>
           /\ q[1] = "join" => mergeOut'[<<q[2], q[3]>>].in[q[4]] = mergeOut[<<q[2], q[3]>>].in[q[4]]
           /\ q[1] = "joinOut" => mergeOut'[<<q[2], q[3]>>].out = mergeOut[<<q[2], q[3]>>].out
  BY <1>1, <1>3, <1>5, PassOnIs
<1>7. TypeOK' /\ Named' /\ Turns(link', inQoff', outQoff') /\ DeadEnds(link')
  BY <1>2, <1>4, <1>6 DEF IInv, TypeOK, Named
<1>8. Fabric \in [Name -> Seq(Packet)] /\ Fabric' \in [Name -> Seq(Packet)]
  BY <1>7, FabricTyped, FabricType DEF Fabric, TypeOK
<1>9. a \in Name /\ b \in Name /\ a # b
  BY <1>1, Names
<1>10. Fabric[a] = vMerge[n][l].out /\ Fabric'[a] = Tail(vMerge[n][l].out)
  <2>1. Fabric[a] = vMerge[n][l].out
    BY <1>1, FabricIs DEF Fabric
  <2>2. Fabric'[a] = vMerge'[n][l].out
    BY <1>1, FabricIs DEF Fabric
  <2> QED
    BY <1>4, <2>1, <2>2
<1>11. Fabric[b] = mergeOut[<<n, w>>].in[2] /\ Fabric'[b] = Append(mergeOut[<<n, w>>].in[2], d)
  <2>1. \A i \in Input : /\ Fabric[<<"join", n, w, i>>] = mergeOut[<<n, w>>].in[i]
                         /\ Fabric'[<<"join", n, w, i>>] = mergeOut'[<<n, w>>].in[i]
    BY FabricIs DEF Fabric
  <2> QED
    BY <1>1, <1>6, <2>1
<1>12. ASSUME NEW q \in Name \ {a, b}
       PROVE  Fabric'[q] = Fabric[q]
  <2>1. SameFifo(vMerge, mergeOut, link, inQoff, inQ, mergeEpOut,
                 vMerge', mergeOut', link', inQoff', inQ', mergeEpOut', q)
    BY <1>2, <1>4, <1>6 DEF SameFifo
  <2> QED
    BY <2>1, FabricFrame DEF Fabric
<1>13. Moved(Fabric, Fabric', a, b, d)
  BY <1>2, <1>5, <1>8, <1>9, <1>10, <1>11, <1>12 DEF Moved
<1>14. FlowAt(b, d) = FlowAt(a, Head(Fabric[a])) /\ d.item = Head(Fabric[a]).item
  <2>1. Head(Fabric[a]) = old
    BY <1>10
  <2> HIDE DEF old
  <2>2. FlowAt(a, Head(Fabric[a])) = <<n, old.dst, old.ptype>>
    BY <2>1 DEF FlowAt
  <2>3. FlowAt(b, d) = <<d.src, d.dst, d.ptype>>
    BY DEF FlowAt, FlowOf
  <2> QED
    BY <1>5, <2>1, <2>2, <2>3
<1>15. ASSUME NEW f \in Triple, Right(a, Head(Fabric[a])), f = FlowAt(b, d)
       PROVE  Step(a, b, f)
  <2>1. OnPath(a, f)
    BY <1>14, <1>15 DEF Right
  <2>2. f[1] = n /\ f[2] = d.dst
    BY <1>5, <1>15 DEF FlowAt, FlowOf
  <2>3. On(n, w, f)
    BY <1>2, <2>2, ConstantTypes DEF On
  <2> QED
    BY <2>1, <2>3, JoinSteps DEF l
<1> QED
  BY <1>2, <1>7, <1>13, <1>14, <1>15, MoveKeepsInv

(* ... or, for the node itself, it is dropped. *)
LEMMA DropOwn ==
  ASSUME IInv, NEW n \in Node, HandleEpIn(n),
         NEW d, d = [Head(vMerge[n][EndpointCount - 1].out) EXCEPT !.src = myId[n]],
         d.dst = myId[n], UNCHANGED mergeOut, chan' = Deq(chan, FlowOf(d))
  PROVE  IInv' /\ FlowOf(d) \in Flows /\ FlowOf(d)[1] = FlowOf(d)[2]
<1> DEFINE l == EndpointCount - 1
           old == Head(vMerge[n][l].out)
           a == <<"entryOut", n, l, 0>>
           f == FlowOf(d)
<1>1. l \in Level /\ 2 \in Input
  BY ConstantTypes
<1>2. /\ myId[n] = n /\ vMerge[n][l].out # <<>> /\ vMerge' = [vMerge EXCEPT ![n][l] = Left(@)]
      /\ UNCHANGED <<myId, outQoff, link, inQoff, inQ, mergeEpOut>>
  BY DEF HandleEpIn, IInv, Named
<1>3. vMerge \in [Node -> [Level -> MergeOf(Packet)]] /\ chan \in [Flows -> Seq(Item)]
  BY DEF IInv, TypeOK
<1>4. /\ vMerge' \in [Node -> [Level -> MergeOf(Packet)]]
      /\ vMerge'[n][l].out = Tail(vMerge[n][l].out)
      /\ vMerge[n][l].out \in Seq(Packet) /\ old \in Packet
      /\ \A q \in Name : q # a =>
           /\ q[1] = "entry" => vMerge'[q[2]][q[3]].in[q[4]] = vMerge[q[2]][q[3]].in[q[4]]
           /\ q[1] = "entryOut" => vMerge'[q[2]][q[3]].out = vMerge[q[2]][q[3]].out
  BY <1>1, <1>2, <1>3, LeftEndpoints
<1>5. d.src = n /\ d.dst = n /\ d.dst = old.dst /\ d.ptype = old.ptype /\ d.item = old.item
  <2> HIDE DEF old
  <2> QED
    BY <1>2, <1>4 DEF Packet, old
<1> HIDE DEF l
<1>6. Named' /\ Turns(link', inQoff', outQoff') /\ DeadEnds(link')
  BY <1>2 DEF IInv, Named
<1>7. Fabric \in [Name -> Seq(Packet)] /\ Fabric' \in [Name -> Seq(Packet)]
  BY <1>2, <1>4, <1>6, FabricTyped, FabricType DEF Fabric, IInv, TypeOK
<1>8. a \in Name /\ Fabric[a] = vMerge[n][l].out /\ Fabric'[a] = Tail(vMerge[n][l].out)
  <2>1. a \in Name
    BY <1>1, Names
  <2>2. Fabric[a] = vMerge[n][l].out
    BY <1>1, FabricIs DEF Fabric
  <2>3. Fabric'[a] = vMerge'[n][l].out
    BY <1>1, FabricIs DEF Fabric
  <2> QED
    BY <1>4, <2>1, <2>2, <2>3
<1>9. ASSUME NEW q \in Name \ {a}
      PROVE  Fabric'[q] = Fabric[q]
  <2>1. SameFifo(vMerge, mergeOut, link, inQoff, inQ, mergeEpOut,
                 vMerge', mergeOut', link', inQoff', inQ', mergeEpOut', q)
    BY <1>2, <1>4 DEF SameFifo
  <2> QED
    BY <2>1, FabricFrame DEF Fabric
<1>10. Taken(Fabric, Fabric', a)
  BY <1>2, <1>7, <1>8, <1>9 DEF Taken
<1>11. FlowAt(a, Head(Fabric[a])) = f /\ f = <<n, n, d.ptype>>
  BY <1>5, <1>8 DEF FlowAt, FlowOf
<1>12. f \in Triple
  <2>1. Right(a, Head(Fabric[a]))
    <3>1. Fabric[a] \in Seq(Packet) /\ Fabric[a] # <<>>
      BY <1>2, <1>4, <1>8
    <3>2. 1 \in 1..Len(Fabric[a]) /\ Head(Fabric[a]) = Fabric[a][1]
      BY <3>1, HeadIsFirst
    <3> QED
      BY <1>8, <3>2 DEF IInv, Routed
  <2> QED
    BY <1>11, <2>1, ConstantTypes DEF Right
<1>13. Last(a, f)
  <2>1. f[1] = f[2]
    BY <1>11
  <2> HIDE DEF f
  <2> QED
    BY <1>1, <1>12, <2>1, LastSteps DEF l
<1>14. /\ f \in Flows /\ chan[f] # <<>>
       /\ Routed(Fabric') /\ InOrder(Fabric', chan')
  <2>1. Routed(Fabric) /\ InOrder(Fabric, chan)
    BY DEF IInv
  <2> QED
    BY <1>3, <1>10, <1>11, <1>13, <2>1, TakeStep
<1>15. chan' \in [Flows -> Seq(Item)]
  <2>1. Tail(chan[f]) \in Seq(Item)
    BY <1>3, <1>14, HeadTailProperties
  <2> QED
    BY <1>3, <2>1 DEF Deq
<1>16. IInv'
  BY <1>2, <1>4, <1>6, <1>14, <1>15 DEF IInv, TypeOK
<1> QED
  BY <1>11, <1>14, <1>16

(* What leaves the merges of the endpoints goes up, goes down or is dropped. *)
LEMMA HandleEpInStep ==
  ASSUME IInv, NEW n \in Node, HandleEpIn(n)
  PROVE  /\ IInv'
         /\ \/ UNCHANGED chan
            \/ \E f \in Flows : f[1] = f[2] /\ chan' = Deq(chan, f)
<1> DEFINE d == [Head(vMerge[n][EndpointCount - 1].out) EXCEPT !.src = myId[n]]
<1>1. \/ d.dst > myId[n] /\ PassOn(n, "up", 2, d) /\ UNCHANGED chan
      \/ d.dst < myId[n] /\ PassOn(n, "down", 2, d) /\ UNCHANGED chan
      \/ d.dst = myId[n] /\ UNCHANGED mergeOut /\ chan' = Deq(chan, FlowOf(d))
  BY DEF HandleEpIn
<1>2. "up" \in Way /\ "down" \in Way
  BY DEF Way
<1>3. CASE d.dst > myId[n] /\ PassOn(n, "up", 2, d) /\ UNCHANGED chan
  BY <1>2, <1>3, PassOwn
<1>4. CASE d.dst < myId[n] /\ PassOn(n, "down", 2, d) /\ UNCHANGED chan
  BY <1>2, <1>4, PassOwn
<1>5. CASE d.dst = myId[n] /\ UNCHANGED mergeOut /\ chan' = Deq(chan, FlowOf(d))
  BY <1>5, DropOwn
<1> QED
  BY <1>1, <1>3, <1>4, <1>5

(* What arrived at a node goes on to the other side, ... *)
LEMMA PassFurther ==
  ASSUME IInv, NEW n \in Node, NEW w \in Way, HandleIn(n, w),
         Head(inQ[<<n, w>>]).dst # n, PassOn(n, Across(w), 1, Head(inQ[<<n, w>>])),
         UNCHANGED mergeEpOut
  PROVE  IInv'
<1> DEFINE d == Head(inQ[<<n, w>>])
           a == <<"arrived", n, w, 0>>
           b == <<"join", n, Across(w), 1>>
<1>1. Across(w) \in Way /\ 1 \in Input
  BY ConstantTypes
<1>2. /\ myId[n] = n /\ inQ[<<n, w>>] # <<>> /\ inQ' = Deq(inQ, <<n, w>>)
      /\ UNCHANGED <<myId, vMerge, outQoff, link, inQoff, chan, mergeEpOut>>
  BY DEF HandleIn, IInv, Named
<1>3. inQ \in FifoFamily(Node \X Way, Packet) /\ mergeOut \in [Node \X Way -> MergeOf(Packet)]
  BY DEF IInv, TypeOK
<1>4. d \in Packet /\ Tail(inQ[<<n, w>>]) \in Seq(Packet)
  BY <1>2, <1>3, HeadTailProperties DEF FifoFamily
<1>5. /\ inQ' \in FifoFamily(Node \X Way, Packet) /\ inQ'[<<n, w>>] = Tail(inQ[<<n, w>>])
      /\ \A n2 \in Node, w2 \in Way : n2 # n \/ w2 # w => inQ'[<<n2, w2>>] = inQ[<<n2, w2>>]
  BY <1>2, <1>3, <1>4 DEF FifoFamily, Deq
<1> HIDE DEF d
<1>6. PassOn(n, Across(w), 1, d)
  BY DEF d
<1>7. /\ mergeOut' \in [Node \X Way -> MergeOf(Packet)]
      /\ mergeOut'[<<n, Across(w)>>].in[1] = Append(mergeOut[<<n, Across(w)>>].in[1], d)
      /\ \A q \in Name : q # b =>
           /\ q[1] = "join" => mergeOut'[<<q[2], q[3]>>].in[q[4]] = mergeOut[<<q[2], q[3]>>].in[q[4]]
           /\ q[1] = "joinOut" => mergeOut'[<<q[2], q[3]>>].out = mergeOut[<<q[2], q[3]>>].out
  BY <1>1, <1>3, <1>4, <1>6, PassOnIs
<1>8. TypeOK' /\ Named' /\ Turns(link', inQoff', outQoff') /\ DeadEnds(link')
  BY <1>2, <1>5, <1>7 DEF IInv, TypeOK, Named
<1>9. Fabric \in [Name -> Seq(Packet)] /\ Fabric' \in [Name -> Seq(Packet)]
  BY <1>8, FabricTyped, FabricType DEF Fabric, TypeOK
<1>10. a \in Name /\ b \in Name /\ a # b
  BY <1>1, Names
<1>11. Fabric[a] = inQ[<<n, w>>] /\ Fabric'[a] = Tail(inQ[<<n, w>>])
  BY <1>5, FabricIs DEF Fabric
<1>12. Fabric[b] = mergeOut[<<n, Across(w)>>].in[1]
       /\ Fabric'[b] = Append(mergeOut[<<n, Across(w)>>].in[1], d)
  <2>1. \A v \in Way, i \in Input : /\ Fabric[<<"join", n, v, i>>] = mergeOut[<<n, v>>].in[i]
                                    /\ Fabric'[<<"join", n, v, i>>] = mergeOut'[<<n, v>>].in[i]
    BY FabricIs DEF Fabric
  <2> QED
    BY <1>1, <1>7, <2>1
<1>13. ASSUME NEW q \in Name \ {a, b}
       PROVE  Fabric'[q] = Fabric[q]
  <2>1. q[1] = "arrived" => inQ'[<<q[2], q[3]>>] = inQ[<<q[2], q[3]>>]
    <3>1. q = <<q[1], q[2], q[3], q[4]>>
      BY NameCases
    <3>2. q[1] = "arrived" => q[2] \in Node /\ q[3] \in Way /\ q[4] = 0
      BY NameCases
    <3> QED
      BY <1>5, <1>13, <3>1, <3>2
  <2>2. SameFifo(vMerge, mergeOut, link, inQoff, inQ, mergeEpOut,
                 vMerge', mergeOut', link', inQoff', inQ', mergeEpOut', q)
    BY <1>2, <1>7, <2>1 DEF SameFifo
  <2> QED
    BY <2>2, FabricFrame DEF Fabric
<1>14. Moved(Fabric, Fabric', a, b, d)
  BY <1>2, <1>4, <1>9, <1>10, <1>11, <1>12, <1>13 DEF Moved
<1>15. FlowAt(b, d) = FlowAt(a, Head(Fabric[a])) /\ d.item = Head(Fabric[a]).item
  BY <1>11 DEF FlowAt, d
<1>16. ASSUME NEW f \in Triple, Right(a, Head(Fabric[a])), f = FlowAt(b, d)
       PROVE  Step(a, b, f)
  <2>1. OnPath(a, f) /\ f[2] # n
    BY <1>15, <1>16 DEF Right, FlowAt, FlowOf, d
  <2> QED
    BY <2>1, JoinSteps
<1> QED
  BY <1>2, <1>8, <1>14, <1>15, <1>16, MoveKeepsInv

(* ... or to the endpoints of the node. *)
LEMMA PassIn ==
  ASSUME IInv, NEW n \in Node, NEW w \in Way, HandleIn(n, w),
         Head(inQ[<<n, w>>]).dst = n, UNCHANGED mergeOut,
         mergeEpOut' \in {[mergeEpOut EXCEPT ![n] = m] :
                            m \in Entered(mergeEpOut[n], EpInput(w), Head(inQ[<<n, w>>]))}
  PROVE  IInv'
<1> DEFINE d == Head(inQ[<<n, w>>])
           i == EpInput(w)
           m == mergeEpOut[n]
           a == <<"arrived", n, w, 0>>
           b == <<"exit", n, 0, i>>
<1>1. i \in Input
  BY DEF Input, EpInput
<1>2. /\ inQ[<<n, w>>] # <<>> /\ inQ' = Deq(inQ, <<n, w>>)
      /\ UNCHANGED <<myId, vMerge, outQoff, link, inQoff, chan, mergeOut>>
  BY DEF HandleIn
<1>3. inQ \in FifoFamily(Node \X Way, Packet) /\ mergeEpOut \in [Node -> MergeOf(Packet)]
  BY DEF IInv, TypeOK
<1>4. d \in Packet /\ Tail(inQ[<<n, w>>]) \in Seq(Packet)
  BY <1>2, <1>3, HeadTailProperties DEF FifoFamily
<1>5. /\ inQ' \in FifoFamily(Node \X Way, Packet) /\ inQ'[<<n, w>>] = Tail(inQ[<<n, w>>])
      /\ \A n2 \in Node, w2 \in Way : n2 # n \/ w2 # w => inQ'[<<n2, w2>>] = inQ[<<n2, w2>>]
  BY <1>2, <1>3, <1>4 DEF FifoFamily, Deq
<1>6. PICK r \in Entered(m, i, d) : mergeEpOut' = [mergeEpOut EXCEPT ![n] = r]
  OBVIOUS
<1> HIDE DEF d, i
<1>7. m \in MergeOf(Packet)
  BY <1>3
<1> HIDE DEF m
<1>8. /\ r \in MergeOf(Packet) /\ r.in[i] = Append(m.in[i], d) /\ r.in[3 - i] = m.in[3 - i]
      /\ r.out = m.out
  BY <1>1, <1>4, <1>7, EnteredMerge
<1>9. /\ mergeEpOut' \in [Node -> MergeOf(Packet)] /\ mergeEpOut'[n] = r
      /\ \A n2 \in Node : n2 # n => mergeEpOut'[n2] = mergeEpOut[n2]
  BY <1>3, <1>6, <1>8
<1>10. TypeOK' /\ Named' /\ Turns(link', inQoff', outQoff') /\ DeadEnds(link')
  BY <1>2, <1>5, <1>9 DEF IInv, TypeOK, Named
<1>11. Fabric \in [Name -> Seq(Packet)] /\ Fabric' \in [Name -> Seq(Packet)]
  BY <1>10, FabricTyped, FabricType DEF Fabric, TypeOK
<1>12. a \in Name /\ b \in Name /\ a # b
  BY <1>1, Names
<1>13. Fabric[a] = inQ[<<n, w>>] /\ Fabric'[a] = Tail(inQ[<<n, w>>])
  BY <1>5, FabricIs DEF Fabric
<1>14. Fabric[b] = m.in[i] /\ Fabric'[b] = Append(m.in[i], d)
  <2>1. Fabric[b] = m.in[i]
    BY <1>1, FabricIs DEF Fabric, m
  <2>2. Fabric'[b] = mergeEpOut'[n].in[i]
    BY <1>1, FabricIs DEF Fabric
  <2> QED
    BY <1>8, <1>9, <2>1, <2>2
<1>15. ASSUME NEW q \in Name \ {a, b}
       PROVE  Fabric'[q] = Fabric[q]
  <2>1. q = <<q[1], q[2], q[3], q[4]>> /\ q # a /\ q # b
    BY NameCases
  <2>2. q[1] = "arrived" => inQ'[<<q[2], q[3]>>] = inQ[<<q[2], q[3]>>]
    <3>1. q[1] = "arrived" => q[2] \in Node /\ q[3] \in Way /\ q[4] = 0
      BY NameCases
    <3> QED
      BY <1>5, <2>1, <3>1
  <2>3. ASSUME q[1] = "exit"
        PROVE  mergeEpOut'[q[2]].in[q[4]] = mergeEpOut[q[2]].in[q[4]]
    <3>1. q[2] \in Node /\ q[3] = 0 /\ q[4] \in Input
      BY <2>3, NameCases
    <3>2. CASE q[2] = n
      <4>1. q[4] = 3 - i
        BY <1>1, <2>1, <2>3, <3>1, <3>2 DEF Input
      <4> QED
        BY <1>8, <1>9, <3>2, <4>1 DEF m
    <3> QED
      BY <1>9, <3>1, <3>2
  <2>4. ASSUME q[1] = "exitOut"
        PROVE  mergeEpOut'[q[2]].out = mergeEpOut[q[2]].out
    <3>1. q[2] \in Node
      BY NameCases
    <3>2. CASE q[2] = n
      BY <1>8, <1>9, <3>2 DEF m
    <3> QED
      BY <1>9, <3>1, <3>2
  <2>5. SameFifo(vMerge, mergeOut, link, inQoff, inQ, mergeEpOut,
                 vMerge', mergeOut', link', inQoff', inQ', mergeEpOut', q)
    BY <1>2, <2>2, <2>3, <2>4 DEF SameFifo
  <2> QED
    BY <2>5, FabricFrame DEF Fabric
<1>16. Moved(Fabric, Fabric', a, b, d)
  BY <1>2, <1>4, <1>11, <1>12, <1>13, <1>14, <1>15 DEF Moved
<1>17. FlowAt(b, d) = FlowAt(a, Head(Fabric[a])) /\ d.item = Head(Fabric[a]).item
  BY <1>13 DEF FlowAt, d
<1>18. ASSUME NEW f \in Triple, Right(a, Head(Fabric[a])), f = FlowAt(b, d)
       PROVE  Step(a, b, f)
  <2>1. OnPath(a, f) /\ f[2] = n
    BY <1>17, <1>18 DEF Right, FlowAt, FlowOf, d
  <2> QED
    BY <2>1, JoinSteps DEF i
<1> QED
  BY <1>2, <1>10, <1>16, <1>17, <1>18, MoveKeepsInv

(* What came over a hop goes to the endpoints or on. *)
LEMMA HandleInStep ==
  ASSUME IInv, NEW n \in Node, NEW w \in Way, HandleIn(n, w)
  PROVE  IInv' /\ UNCHANGED chan
<1> DEFINE d == Head(inQ[<<n, w>>])
           a == <<"arrived", n, w, 0>>
<1>1. myId[n] = n /\ inQ[<<n, w>>] # <<>> /\ UNCHANGED chan
  BY DEF HandleIn, IInv, Named
<1>2. a \in Name /\ Fabric[a] = inQ[<<n, w>>] /\ inQ[<<n, w>>] \in Seq(Packet)
  <2>1. a \in Name
    BY Names
  <2>2. Fabric[a] = inQ[<<n, w>>]
    BY FabricIs DEF Fabric
  <2>3. inQ[<<n, w>>] \in Seq(Packet)
    BY DEF IInv, TypeOK, FifoFamily
  <2> QED
    BY <2>1, <2>2, <2>3
<1>3. d.src # n
  <2>1. Right(a, d)
    BY <1>1, <1>2, HeadIsFirst DEF IInv, Routed
  <2>2. On(Beyond(n, w), Across(w), FlowOf(d)) /\ FlowOf(d) \in Triple
    BY <2>1, ConstantTypes DEF Right, FlowAt, OnPath
  <2>3. FlowOf(d)[1] \in Node /\ FlowOf(d)[1] = d.src /\ n \in Int /\ w \in {"up", "down"}
    BY <2>2, ConstantTypes DEF Triple, FlowOf
  <2> QED
    BY <2>2, <2>3, ConstantTypes DEF On, Beyond, Across
<1>4. CASE d.dst # n
  BY <1>1, <1>4, PassFurther DEF HandleIn
<1>5. CASE d.dst = n
  <2>1. mergeEpOut' \in {[mergeEpOut EXCEPT ![n] = m] : m \in Entered(mergeEpOut[n], EpInput(w), d)}
        /\ UNCHANGED mergeOut
    BY <1>1, <1>3, <1>5 DEF HandleIn
  <2> QED
    BY <1>1, <1>5, <2>1, PassIn
<1> QED
  BY <1>1, <1>4, <1>5

(* No two ways share a port, and each cable joins the ports of two ways. *)
LEMMA Ports ==
  /\ \A w, v \in Way, j, k \in {0, 1} : Port(w, j) = Port(v, k) => w = v /\ j = k
  /\ \A n \in Node, w \in Way, k \in {0, 1} :
       Cable(n, Port(w, k)) = <<Beyond(n, w), Port(Across(w), k)>>
  /\ \A n \in Node, w \in Way : Beyond(Beyond(n, w), Across(w)) = n
  /\ \A n, m \in Node, w, v \in Way :
       Beyond(n, w) = Beyond(m, v) /\ Across(w) = Across(v) => n = m /\ w = v
<1>1. \A w, v \in Way, j, k \in {0, 1} : Port(w, j) = Port(v, k) => w = v /\ j = k
  BY DEF Way, Port
<1>2. ASSUME NEW n \in Node, NEW w \in Way, NEW k \in {0, 1}
      PROVE  Cable(n, Port(w, k)) = <<Beyond(n, w), Port(Across(w), k)>>
  <2>1. n \in Int /\ k \in 0..1 /\ ~(3 - k <= 1) /\ k <= 1 /\ 3 - (3 - k) = k
    BY ConstantTypes
  <2>2. CASE w = "up"
    BY <2>1, <2>2 DEF Port, Cable, Beyond, Across
  <2>3. CASE w = "down"
    BY <2>1, <2>3 DEF Port, Cable, Beyond, Across
  <2> QED
    BY <2>2, <2>3 DEF Way
<1>3. \A n \in Node, w \in Way : Beyond(Beyond(n, w), Across(w)) = n
  BY ConstantTypes DEF Beyond, Across, Way
<1>4. ASSUME NEW n \in Node, NEW m \in Node, NEW w \in Way, NEW v \in Way,
             Beyond(n, w) = Beyond(m, v), Across(w) = Across(v)
      PROVE  n = m /\ w = v
  <2>1. w = v
    BY <1>4 DEF Across, Way
  <2> QED
    BY <1>4, <2>1, ConstantTypes DEF Beyond
<1> QED
  BY <1>1, <1>2, <1>3, <1>4

(* The links of a way take turns at the node that sends, ... *)
LEMMA ScatterStep ==
  ASSUME IInv, NEW n \in Node, NEW w \in Way, Scatter(n, w)
  PROVE  IInv' /\ UNCHANGED chan
<1> DEFINE m == mergeOut[<<n, w>>]
           d == Head(m.out)
           k == Turn(inQoff, n, w)
           s == NextLink(link, inQoff, n, w)
           t == OtherLink(link, inQoff, n, w)
           o == <<n, Port(w, outQoff[<<n, w>>])>>
           a == <<"joinOut", n, w, 0>>
           b == <<"lanes", n, w, 0>>
<1>1. /\ m.out # <<>> /\ link' = Enq(link, o, d)
      /\ outQoff' = [outQoff EXCEPT ![<<n, w>>] = 1 - @]
      /\ mergeOut' = [mergeOut EXCEPT ![<<n, w>>] = Left(m)]
      /\ UNCHANGED <<myId, vMerge, inQoff, inQ, mergeEpOut, chan>>
  BY DEF Scatter
<1>2. m \in MergeOf(Packet) /\ mergeOut \in [Node \X Way -> MergeOf(Packet)]
      /\ link \in FifoFamily(Outlet, Packet) /\ inQoff \in [Node \X Way -> {0, 1}]
      /\ outQoff \in [Node \X Way -> {0, 1}]
  BY DEF IInv, TypeOK
<1>3. Left(m) \in MergeOf(Packet) /\ Left(m).in = m.in /\ Left(m).out = Tail(m.out)
  BY <1>1, <1>2, LeftMerge
<1>4. m.out \in Seq(Packet) /\ d \in Packet
  BY <1>1, <1>2, HeadTailProperties DEF MergeOf
<1>5. /\ mergeOut' \in [Node \X Way -> MergeOf(Packet)] /\ mergeOut'[<<n, w>>] = Left(m)
      /\ \A n2 \in Node, w2 \in Way : n2 # n \/ w2 # w => mergeOut'[<<n2, w2>>] = mergeOut[<<n2, w2>>]
  BY <1>1, <1>2, <1>3
<1>6. a \in Name /\ Fabric[a] = m.out
  <2>1. a \in Name
    BY Names
  <2>2. Fabric[a] = m.out
    BY FabricIs DEF Fabric
  <2> QED
    BY <2>1, <2>2
<1>7. Beyond(n, w) \in Node
  <2>1. Right(a, d)
    BY <1>1, <1>4, <1>6, HeadIsFirst DEF IInv, Routed
  <2>2. OnPath(a, FlowAt(a, d)) /\ FlowAt(a, d) \in Triple
    BY <2>1, ConstantTypes DEF Right
  <2>3. 1 \in Input
    BY DEF Input
  <2> QED
    BY <2>2, <2>3, WaySteps
<1>8. /\ <<n, w>> \in Hop /\ k \in {0, 1} /\ s \in Seq(Packet) /\ t \in Seq(Packet)
      /\ <<n, Port(w, k)>> \in Outlet /\ <<n, Port(w, 1 - k)>> \in Outlet
      /\ Port(w, k) # Port(w, 1 - k) /\ 1 - k \in {0, 1} /\ 1 - (1 - k) = k
  <2>1. /\ <<n, w>> \in Hop /\ k \in {0, 1} /\ s \in Seq(Packet) /\ t \in Seq(Packet)
        /\ <<n, Port(w, k)>> \in Outlet /\ <<n, Port(w, 1 - k)>> \in Outlet
    BY <1>2, <1>7, LinkTypes
  <2> HIDE DEF k
  <2>2. 1 - k \in {0, 1} /\ 1 - (1 - k) = k /\ k # 1 - k
    BY <2>1
  <2> QED
    BY <2>1, <2>2, Ports
<1>9. /\ InStep(s, t)
      /\ outQoff[<<n, w>>] = IF Len(s) = Len(t) THEN k ELSE 1 - k
  BY <1>8 DEF IInv, Turns
<1>10. s = link[<<n, Port(w, k)>>] /\ t = link[<<n, Port(w, 1 - k)>>]
  BY DEF NextLink, OtherLink
<1>11. /\ link' \in FifoFamily(Outlet, Packet)
       /\ o \in Outlet
       /\ \A p \in Outlet : link'[p] = IF p = o THEN Append(link[p], d) ELSE link[p]
  <2> HIDE DEF d
  <2>1. o \in Outlet /\ link \in [Outlet -> Seq(Packet)]
    BY <1>2, <1>8, <1>9 DEF FifoFamily
  <2>2. Append(link[o], d) \in Seq(Packet)
    BY <1>4, <2>1, AppendProperties
  <2> QED
    BY <1>1, <2>1, <2>2 DEF FifoFamily, Enq
<1> HIDE DEF d, s, t, k, m
<1>12. /\ NextLink(link', inQoff', n, w) = link'[<<n, Port(w, k)>>]
       /\ OtherLink(link', inQoff', n, w) = link'[<<n, Port(w, 1 - k)>>]
       /\ Turn(inQoff', n, w) = k
  BY <1>1 DEF NextLink, OtherLink, Turn, k
<1>13. /\ InStep(NextLink(link', inQoff', n, w), OtherLink(link', inQoff', n, w))
       /\ Weave(NextLink(link', inQoff', n, w), OtherLink(link', inQoff', n, w)) = Append(Weave(s, t), d)
       /\ outQoff'[<<n, w>>] = IF Len(NextLink(link', inQoff', n, w)) = Len(OtherLink(link', inQoff', n, w))
                               THEN k ELSE 1 - k
  <2>1. outQoff'[<<n, w>>] = 1 - outQoff[<<n, w>>]
    BY <1>1, <1>2
  <2>2. Len(s) \in Nat /\ Len(t) \in Nat
    BY <1>8, LenProperties
  <2>3. CASE Len(s) = Len(t)
    <3>1. o = <<n, Port(w, k)>> /\ <<n, Port(w, 1 - k)>> # o
      BY <1>8, <1>9, <2>3
    <3>2. NextLink(link', inQoff', n, w) = Append(s, d) /\ OtherLink(link', inQoff', n, w) = t
      BY <1>8, <1>10, <1>11, <1>12, <3>1
    <3>3. Len(Append(s, d)) = Len(s) + 1
      BY <1>4, <1>8, AppendProperties
    <3>4. InStep(Append(s, d), t) /\ Weave(Append(s, d), t) = Append(Weave(s, t), d)
      BY <1>4, <1>8, <1>9, <2>3, WeaveAppend
    <3>5. Len(Append(s, d)) # Len(t)
      BY <2>2, <2>3, <3>3
    <3>6. outQoff'[<<n, w>>] = 1 - k
      BY <1>9, <2>1, <2>3
    <3> QED
      BY <3>2, <3>4, <3>5, <3>6
  <2>4. CASE Len(s) # Len(t)
    <3>1. o = <<n, Port(w, 1 - k)>> /\ <<n, Port(w, k)>> # o
      BY <1>8, <1>9, <2>4
    <3>2. NextLink(link', inQoff', n, w) = s /\ OtherLink(link', inQoff', n, w) = Append(t, d)
      BY <1>8, <1>10, <1>11, <1>12, <3>1
    <3>3. Len(Append(t, d)) = Len(t) + 1
      BY <1>4, <1>8, AppendProperties
    <3>4. InStep(s, Append(t, d)) /\ Weave(s, Append(t, d)) = Append(Weave(s, t), d)
      BY <1>4, <1>8, <1>9, <2>4, WeaveAppend
    <3>5. Len(s) = Len(Append(t, d))
      BY <1>9, <2>2, <2>4, <3>3 DEF InStep
    <3>6. outQoff'[<<n, w>>] = k
      BY <1>8, <1>9, <2>1, <2>4
    <3> QED
      BY <3>2, <3>4, <3>5, <3>6
  <2> QED
    BY <2>3, <2>4
<1>14. ASSUME NEW n2 \in Node, NEW w2 \in Way, n2 # n \/ w2 # w, NEW j \in {0, 1}
       PROVE  link'[<<n2, Port(w2, j)>>] = link[<<n2, Port(w2, j)>>]
  <2>1. <<n2, Port(w2, j)>> \in Outlet
    BY DEF Outlet, Port
  <2>2. <<n2, Port(w2, j)>> # o
    BY <1>2, <1>14, Ports
  <2> QED
    BY <1>11, <2>1, <2>2
<1>15. ASSUME NEW n2 \in Node, NEW w2 \in Way, n2 # n \/ w2 # w, Beyond(n2, w2) \in Node
       PROVE  /\ NextLink(link', inQoff', n2, w2) = NextLink(link, inQoff, n2, w2)
              /\ OtherLink(link', inQoff', n2, w2) = OtherLink(link, inQoff, n2, w2)
  <2>1. Turn(inQoff, n2, w2) \in {0, 1} /\ Turn(inQoff', n2, w2) = Turn(inQoff, n2, w2)
    BY <1>1, <1>2, <1>15, LinkTypes DEF Turn
  <2>2. 1 - Turn(inQoff, n2, w2) \in {0, 1}
    BY <2>1
  <2> QED
    BY <1>14, <1>15, <2>1, <2>2 DEF NextLink, OtherLink
<1>16. Turns(link', inQoff', outQoff')
  <2> SUFFICES ASSUME NEW c \in Hop
               PROVE  /\ InStep(NextLink(link', inQoff', c[1], c[2]), OtherLink(link', inQoff', c[1], c[2]))
                      /\ outQoff'[c] = IF Len(NextLink(link', inQoff', c[1], c[2]))
                                          = Len(OtherLink(link', inQoff', c[1], c[2]))
                                       THEN Turn(inQoff', c[1], c[2]) ELSE 1 - Turn(inQoff', c[1], c[2])
    BY DEF Turns
  <2>1. c = <<c[1], c[2]>> /\ c[1] \in Node /\ c[2] \in Way /\ Beyond(c[1], c[2]) \in Node
    BY DEF Hop
  <2>2. CASE c = <<n, w>>
    BY <1>12, <1>13, <2>2
  <2>3. CASE c # <<n, w>>
    <3>1. c[1] # n \/ c[2] # w
      BY <2>1, <2>3
    <3>2. outQoff'[c] = outQoff[c] /\ inQoff' = inQoff
      BY <1>1, <1>2, <2>1, <2>3
    <3>3. /\ NextLink(link', inQoff', c[1], c[2]) = NextLink(link, inQoff, c[1], c[2])
          /\ OtherLink(link', inQoff', c[1], c[2]) = OtherLink(link, inQoff, c[1], c[2])
      BY <1>15, <2>1, <3>1
    <3> QED
      BY <3>2, <3>3 DEF IInv, Turns
  <2> QED
    BY <2>2, <2>3
<1>17. DeadEnds(link')
  <2> SUFFICES ASSUME NEW n2 \in Node, NEW w2 \in Way, NEW j \in 0..1, <<n2, w2>> \notin Hop
               PROVE  link'[<<n2, Port(w2, j)>>] = <<>>
    BY DEF DeadEnds
  <2>1. j \in {0, 1}
    OBVIOUS
  <2>2. n2 # n \/ w2 # w
    BY <1>8
  <2>3. link'[<<n2, Port(w2, j)>>] = link[<<n2, Port(w2, j)>>]
    BY <1>14, <2>1, <2>2
  <2>4. DeadEnds(link)
    BY DEF IInv
  <2>5. link[<<n2, Port(w2, j)>>] = <<>>
    BY <2>4 DEF DeadEnds
  <2> QED
    BY <2>3, <2>5
<1>18. TypeOK' /\ Named'
  <2>1. outQoff' \in [Node \X Way -> {0, 1}]
    BY <1>1, <1>2
  <2> QED
    BY <1>1, <1>5, <1>11, <2>1 DEF IInv, TypeOK, Named
<1>19. Fabric \in [Name -> Seq(Packet)] /\ Fabric' \in [Name -> Seq(Packet)]
  BY <1>16, <1>18, FabricTyped, FabricType DEF Fabric, TypeOK
<1>20. b \in Name /\ a # b /\ Fabric[b] = Weave(s, t) /\ Fabric'[b] = Append(Weave(s, t), d)
       /\ Fabric'[a] = Tail(m.out)
  <2>1. b \in Name /\ a # b
    BY <1>7, Names
  <2>2. Fabric[b] = Weave(s, t)
    BY <1>7, FabricIs DEF Fabric, s, t
  <2>3. Fabric'[b] = Append(Weave(s, t), d)
    <3>1. Fabric'[b] = Weave(NextLink(link', inQoff', n, w), OtherLink(link', inQoff', n, w))
      BY <1>7, FabricIs DEF Fabric
    <3> QED
      BY <1>13, <3>1
  <2>4. Fabric'[a] = Tail(m.out)
    BY <1>3, <1>5, FabricIs DEF Fabric
  <2> QED
    BY <2>1, <2>2, <2>3, <2>4
<1>21. ASSUME NEW q \in Name \ {a, b}
       PROVE  Fabric'[q] = Fabric[q]
  <2>1. q = <<q[1], q[2], q[3], q[4]>> /\ q # a /\ q # b
    BY NameCases
  <2>2. ASSUME q[1] = "join"
        PROVE  mergeOut'[<<q[2], q[3]>>].in[q[4]] = mergeOut[<<q[2], q[3]>>].in[q[4]]
    <3>1. q[2] \in Node /\ q[3] \in Way
      BY <2>2, NameCases
    <3>2. CASE q[2] = n /\ q[3] = w
      BY <1>3, <1>5, <3>2 DEF m
    <3> QED
      BY <1>5, <3>1, <3>2
  <2>3. ASSUME q[1] = "joinOut"
        PROVE  mergeOut'[<<q[2], q[3]>>].out = mergeOut[<<q[2], q[3]>>].out
    <3>1. q[2] \in Node /\ q[3] \in Way /\ q[4] = 0
      BY <2>3, NameCases
    <3>2. q[2] # n \/ q[3] # w
      BY <2>1, <2>3, <3>1
    <3> QED
      BY <1>5, <3>1, <3>2
  <2>4. ASSUME q[1] = "lanes"
        PROVE  /\ NextLink(link', inQoff', q[2], q[3]) = NextLink(link, inQoff, q[2], q[3])
               /\ OtherLink(link', inQoff', q[2], q[3]) = OtherLink(link, inQoff, q[2], q[3])
    <3>1. q[2] \in Node /\ q[3] \in Way /\ q[4] = 0 /\ Beyond(q[2], q[3]) \in Node
      BY <2>4, NameCases
    <3>2. q[2] # n \/ q[3] # w
      BY <2>1, <2>4, <3>1
    <3> QED
      BY <1>15, <3>1, <3>2
  <2>5. SameFifo(vMerge, mergeOut, link, inQoff, inQ, mergeEpOut,
                 vMerge', mergeOut', link', inQoff', inQ', mergeEpOut', q)
    BY <1>1, <2>2, <2>3, <2>4 DEF SameFifo
  <2> QED
    BY <2>5, FabricFrame DEF Fabric
<1>22. Moved(Fabric, Fabric', a, b, d)
  BY <1>1, <1>4, <1>6, <1>19, <1>20, <1>21 DEF Moved
<1>23. FlowAt(b, d) = FlowAt(a, Head(Fabric[a])) /\ d.item = Head(Fabric[a]).item
  BY <1>6 DEF FlowAt, d
<1>24. ASSUME NEW f \in Triple, Right(a, Head(Fabric[a])), f = FlowAt(b, d)
       PROVE  Step(a, b, f)
  <2>1. OnPath(a, f) /\ 1 \in Input
    BY <1>23, <1>24 DEF Right, Input
  <2> QED
    BY <2>1, WaySteps
<1> QED
  BY <1>1, <1>16, <1>17, <1>18, <1>22, <1>23, <1>24, MoveKeepsInv

(* ... and at the node that receives. *)
LEMMA CollectStep ==
  ASSUME IInv, NEW n \in Node, NEW w \in Way, Collect(n, w)
  PROVE  IInv' /\ UNCHANGED chan
<1> DEFINE m == Beyond(n, w)
           u == Across(w)
           k == inQoff[<<n, w>>]
           o == Cable(n, Port(w, k))
           s == NextLink(link, inQoff, m, u)
           t == OtherLink(link, inQoff, m, u)
           d == Head(link[o])
           a == <<"lanes", m, u, 0>>
           b == <<"arrived", n, w, 0>>
<1>1. /\ o \in Outlet /\ link[o] # <<>> /\ inQ' = Enq(inQ, <<n, w>>, d) /\ link' = Deq(link, o)
      /\ inQoff' = [inQoff EXCEPT ![<<n, w>>] = 1 - @]
      /\ UNCHANGED <<myId, vMerge, mergeOut, outQoff, mergeEpOut, chan>>
  BY DEF Collect
<1>2. /\ link \in FifoFamily(Outlet, Packet) /\ inQoff \in [Node \X Way -> {0, 1}]
      /\ outQoff \in [Node \X Way -> {0, 1}] /\ inQ \in FifoFamily(Node \X Way, Packet)
  BY DEF IInv, TypeOK
<1>3. k \in {0, 1} /\ u \in Way /\ Across(u) = w
  BY <1>2, ConstantTypes
<1>4. o = <<m, Port(u, k)>> /\ m \in Node /\ Beyond(m, u) = n
  <2>1. o = <<m, Port(u, k)>>
    BY <1>3, Ports
  <2>2. m \in Node
    BY <1>1, <2>1 DEF Outlet
  <2> QED
    BY <2>1, <2>2, Ports
<1>5. Turn(inQoff, m, u) = k /\ Turn(inQoff', m, u) = 1 - k
  <2>1. inQoff'[<<n, w>>] = 1 - k
    BY <1>1, <1>2
  <2> QED
    BY <1>3, <1>4, <2>1 DEF Turn
<1> HIDE DEF m, u, k, o
<1>6. /\ <<m, u>> \in Hop /\ s \in Seq(Packet) /\ t \in Seq(Packet) /\ Beyond(m, u) \in Node
      /\ s = link[o] /\ t = link[<<m, Port(u, 1 - k)>>]
      /\ <<m, Port(u, 1 - k)>> \in Outlet /\ <<m, Port(u, 1 - k)>> # o
      /\ 1 - k \in {0, 1} /\ 1 - (1 - k) = k
  <2>1. <<m, u>> \in Hop /\ s \in Seq(Packet) /\ t \in Seq(Packet) /\ <<m, Port(u, 1 - k)>> \in Outlet
        /\ Beyond(m, u) \in Node
    BY <1>2, <1>3, <1>4, <1>5, LinkTypes
  <2>2. s = link[o] /\ t = link[<<m, Port(u, 1 - k)>>]
    BY <1>4, <1>5 DEF NextLink, OtherLink
  <2>3. 1 - k \in {0, 1} /\ 1 - (1 - k) = k /\ k # 1 - k
    BY <1>3
  <2>4. Port(u, 1 - k) # Port(u, k)
    BY <1>3, <2>3, Ports
  <2> QED
    BY <1>4, <2>1, <2>2, <2>3, <2>4
<1>7. InStep(s, t) /\ s # <<>> /\ d = Head(s) /\ outQoff[<<m, u>>] = IF Len(s) = Len(t) THEN k ELSE 1 - k
  BY <1>1, <1>5, <1>6 DEF IInv, Turns
<1>8. d \in Packet /\ Tail(s) \in Seq(Packet) /\ Len(Tail(s)) = Len(s) - 1 /\ Len(s) \in Nat /\ Len(t) \in Nat
  <2> HIDE DEF s, t
  <2> QED
    BY <1>6, <1>7, HeadTailProperties, LenProperties
<1>9. /\ link' \in FifoFamily(Outlet, Packet)
      /\ link'[o] = Tail(s) /\ \A p \in Outlet : p # o => link'[p] = link[p]
  <2> HIDE DEF s
  <2> QED
    BY <1>1, <1>2, <1>6, <1>8 DEF FifoFamily, Deq
<1>10. /\ inQ' \in FifoFamily(Node \X Way, Packet)
       /\ inQ'[<<n, w>>] = Append(inQ[<<n, w>>], d)
       /\ \A n2 \in Node, w2 \in Way : n2 # n \/ w2 # w => inQ'[<<n2, w2>>] = inQ[<<n2, w2>>]
  <2> HIDE DEF d
  <2>1. Append(inQ[<<n, w>>], d) \in Seq(Packet)
    BY <1>2, <1>8, AppendProperties DEF FifoFamily
  <2> QED
    BY <1>1, <1>2, <2>1 DEF FifoFamily, Enq
<1>11. NextLink(link', inQoff', m, u) = t /\ OtherLink(link', inQoff', m, u) = Tail(s)
  <2> HIDE DEF s, t
  <2>1. link'[<<m, Port(u, 1 - k)>>] = t
    BY <1>6, <1>9
  <2>2. link'[<<m, Port(u, 1 - (1 - k))>>] = Tail(s)
    BY <1>4, <1>6, <1>9
  <2> QED
    BY <1>5, <2>1, <2>2 DEF NextLink, OtherLink
<1> HIDE DEF d, s, t
<1>12. /\ InStep(t, Tail(s)) /\ Weave(t, Tail(s)) = Tail(Weave(s, t))
       /\ Weave(s, t) # <<>> /\ Head(Weave(s, t)) = d
  BY <1>6, <1>7, WeaveTail
<1>13. outQoff[<<m, u>>] = IF Len(t) = Len(Tail(s)) THEN 1 - k ELSE 1 - (1 - k)
  BY <1>6, <1>7, <1>8, <1>12 DEF InStep
<1>14. ASSUME NEW n2 \in Node, NEW w2 \in Way, n2 # m \/ w2 # u, NEW j \in {0, 1}
       PROVE  link'[<<n2, Port(w2, j)>>] = link[<<n2, Port(w2, j)>>]
  <2>1. <<n2, Port(w2, j)>> \in Outlet
    BY DEF Outlet, Port
  <2>2. <<n2, Port(w2, j)>> # o
    BY <1>3, <1>4, <1>14, Ports
  <2> QED
    BY <1>9, <2>1, <2>2
<1>15. ASSUME NEW n2 \in Node, NEW w2 \in Way, n2 # m \/ w2 # u, Beyond(n2, w2) \in Node
       PROVE  /\ Turn(inQoff', n2, w2) = Turn(inQoff, n2, w2)
              /\ NextLink(link', inQoff', n2, w2) = NextLink(link, inQoff, n2, w2)
              /\ OtherLink(link', inQoff', n2, w2) = OtherLink(link, inQoff, n2, w2)
  <2>1. Turn(inQoff, n2, w2) \in {0, 1} /\ <<Beyond(n2, w2), Across(w2)>> \in Node \X Way
    BY <1>2, <1>15, LinkTypes
  <2>2. <<Beyond(n2, w2), Across(w2)>> # <<n, w>>
    BY <1>3, <1>4, <1>15, Ports
  <2>3. Turn(inQoff', n2, w2) = Turn(inQoff, n2, w2)
    BY <1>1, <1>2, <2>1, <2>2 DEF Turn
  <2>4. 1 - Turn(inQoff, n2, w2) \in {0, 1}
    BY <2>1
  <2> QED
    BY <1>14, <1>15, <2>1, <2>3, <2>4 DEF NextLink, OtherLink
<1>16. Turns(link', inQoff', outQoff')
  <2> SUFFICES ASSUME NEW c \in Hop
               PROVE  /\ InStep(NextLink(link', inQoff', c[1], c[2]), OtherLink(link', inQoff', c[1], c[2]))
                      /\ outQoff'[c] = IF Len(NextLink(link', inQoff', c[1], c[2]))
                                          = Len(OtherLink(link', inQoff', c[1], c[2]))
                                       THEN Turn(inQoff', c[1], c[2]) ELSE 1 - Turn(inQoff', c[1], c[2])
    BY DEF Turns
  <2>1. c = <<c[1], c[2]>> /\ c[1] \in Node /\ c[2] \in Way /\ Beyond(c[1], c[2]) \in Node
    BY DEF Hop
  <2>2. outQoff' = outQoff
    BY <1>1
  <2>3. CASE c = <<m, u>>
    BY <1>5, <1>11, <1>12, <1>13, <2>2, <2>3
  <2>4. CASE c # <<m, u>>
    <3>1. c[1] # m \/ c[2] # u
      BY <2>1, <2>4
    <3>2. /\ NextLink(link', inQoff', c[1], c[2]) = NextLink(link, inQoff, c[1], c[2])
          /\ OtherLink(link', inQoff', c[1], c[2]) = OtherLink(link, inQoff, c[1], c[2])
          /\ Turn(inQoff', c[1], c[2]) = Turn(inQoff, c[1], c[2])
      BY <1>15, <2>1, <3>1
    <3> QED
      BY <2>2, <3>2 DEF IInv, Turns
  <2> QED
    BY <2>3, <2>4
<1>17. DeadEnds(link')
  <2> SUFFICES ASSUME NEW n2 \in Node, NEW w2 \in Way, NEW j \in 0..1, <<n2, w2>> \notin Hop
               PROVE  link'[<<n2, Port(w2, j)>>] = <<>>
    BY DEF DeadEnds
  <2>1. j \in {0, 1}
    OBVIOUS
  <2>2. n2 # m \/ w2 # u
    BY <1>6
  <2>3. link'[<<n2, Port(w2, j)>>] = link[<<n2, Port(w2, j)>>]
    BY <1>14, <2>1, <2>2
  <2>4. DeadEnds(link)
    BY DEF IInv
  <2>5. link[<<n2, Port(w2, j)>>] = <<>>
    BY <2>4 DEF DeadEnds
  <2> QED
    BY <2>3, <2>5
<1>18. TypeOK' /\ Named'
  <2>1. inQoff' \in [Node \X Way -> {0, 1}]
    BY <1>1, <1>2
  <2> QED
    BY <1>1, <1>9, <1>10, <2>1 DEF IInv, TypeOK, Named
<1>19. Fabric \in [Name -> Seq(Packet)] /\ Fabric' \in [Name -> Seq(Packet)]
  BY <1>16, <1>18, FabricTyped, FabricType DEF Fabric, TypeOK
<1>20. a \in Name /\ b \in Name /\ a # b
  BY <1>3, <1>4, <1>6, Names
<1>21. Fabric[a] = Weave(s, t) /\ Fabric'[a] = Weave(t, Tail(s))
  <2>1. Fabric[a] = Weave(s, t)
    BY <1>3, <1>4, <1>6, FabricIs DEF Fabric, s, t
  <2>2. Fabric'[a] = Weave(NextLink(link', inQoff', m, u), OtherLink(link', inQoff', m, u))
    BY <1>3, <1>4, <1>6, FabricIs DEF Fabric
  <2> QED
    BY <1>11, <2>1, <2>2
<1>22. Fabric[b] = inQ[<<n, w>>] /\ Fabric'[b] = Append(inQ[<<n, w>>], d)
  <2>1. Fabric[b] = inQ[<<n, w>>]
    BY FabricIs DEF Fabric
  <2>2. Fabric'[b] = inQ'[<<n, w>>]
    BY FabricIs DEF Fabric
  <2> QED
    BY <1>10, <2>1, <2>2
<1>23. ASSUME NEW q \in Name \ {a, b}
       PROVE  Fabric'[q] = Fabric[q]
  <2>1. q = <<q[1], q[2], q[3], q[4]>> /\ q # a /\ q # b
    BY NameCases
  <2>2. ASSUME q[1] = "lanes"
        PROVE  /\ NextLink(link', inQoff', q[2], q[3]) = NextLink(link, inQoff, q[2], q[3])
               /\ OtherLink(link', inQoff', q[2], q[3]) = OtherLink(link, inQoff, q[2], q[3])
    <3>1. q[2] \in Node /\ q[3] \in Way /\ q[4] = 0 /\ Beyond(q[2], q[3]) \in Node
      BY <2>2, NameCases
    <3>2. q[2] # m \/ q[3] # u
      BY <2>1, <2>2, <3>1
    <3> QED
      BY <1>15, <3>1, <3>2
  <2>3. ASSUME q[1] = "arrived"
        PROVE  inQ'[<<q[2], q[3]>>] = inQ[<<q[2], q[3]>>]
    <3>1. q[2] \in Node /\ q[3] \in Way /\ q[4] = 0
      BY <2>3, NameCases
    <3>2. q[2] # n \/ q[3] # w
      BY <2>1, <2>3, <3>1
    <3> QED
      BY <1>10, <3>1, <3>2
  <2>4. SameFifo(vMerge, mergeOut, link, inQoff, inQ, mergeEpOut,
                 vMerge', mergeOut', link', inQoff', inQ', mergeEpOut', q)
    BY <1>1, <2>2, <2>3 DEF SameFifo
  <2> QED
    BY <2>4, FabricFrame DEF Fabric
<1>24. Moved(Fabric, Fabric', a, b, d)
  BY <1>8, <1>12, <1>19, <1>20, <1>21, <1>22, <1>23 DEF Moved
<1>25. Head(Fabric[a]) = d
  BY <1>12, <1>21
<1>26. FlowAt(b, d) = FlowAt(a, Head(Fabric[a])) /\ d.item = Head(Fabric[a]).item
  BY <1>25 DEF FlowAt
<1>27. ASSUME NEW f \in Triple, Right(a, Head(Fabric[a])), f = FlowAt(b, d)
       PROVE  Step(a, b, f)
  <2>1. OnPath(a, f) /\ 1 \in Input
    BY <1>26, <1>27 DEF Right, Input
  <2>2. Step(a, <<"arrived", Beyond(m, u), Across(u), 0>>, f)
    BY <1>3, <1>4, <1>6, <2>1, WaySteps
  <2> QED
    BY <1>3, <1>4, <2>2
<1> QED
  BY <1>1, <1>16, <1>17, <1>18, <1>24, <1>26, <1>27, MoveKeepsInv

(* The host names its node. *)
LEMMA SetMyIdStep ==
  ASSUME IInv, NEW n \in Node, SetMyId(n)
  PROVE  IInv' /\ UNCHANGED chan
<1>1. /\ myId' = [myId EXCEPT ![n] = n]
      /\ UNCHANGED <<vMerge, mergeOut, outQoff, link, inQoff, inQ, mergeEpOut, chan>>
  BY DEF SetMyId
<1>2. TypeOK' /\ Named'
  BY <1>1 DEF IInv, TypeOK, Named
<1>3. Fabric' = Fabric
  BY <1>1 DEF Fabric
<1> QED
  BY <1>1, <1>2, <1>3 DEF IInv

-----------------------------------------------------------------------------
(* The chain at reset holds nothing. *)
LEMMA InitInv == Init => IInv
<1> SUFFICES ASSUME Init PROVE IInv
  OBVIOUS
<1>1. EmptyMerge \in MergeOf(Packet) /\ \A T : <<>> \in Seq(T)
  BY EmptyMergeType, EmptySeq
<1>2. TypeOK /\ Named
  BY <1>1 DEF Init, TypeOK, Named, FifoFamily
<1>3. ASSUME NEW n \in Node, NEW w \in Way, NEW k \in {0, 1}
      PROVE  link[<<n, Port(w, k)>>] = <<>>
  <2>1. <<n, Port(w, k)>> \in Outlet
    BY DEF Outlet, Port
  <2> QED
    BY <2>1 DEF Init
<1>4. ASSUME NEW n \in Node, NEW w \in Way, Beyond(n, w) \in Node
      PROVE  /\ NextLink(link, inQoff, n, w) = <<>> /\ OtherLink(link, inQoff, n, w) = <<>>
             /\ Turn(inQoff, n, w) = 0
  <2>1. <<Beyond(n, w), Across(w)>> \in Node \X Way
    BY <1>4, ConstantTypes
  <2>2. Turn(inQoff, n, w) = 0
    BY <2>1 DEF Turn, Init
  <2> QED
    BY <1>3, <2>2 DEF NextLink, OtherLink
<1>5. Turns(link, inQoff, outQoff)
  <2> SUFFICES ASSUME NEW c \in Hop
               PROVE  /\ InStep(NextLink(link, inQoff, c[1], c[2]), OtherLink(link, inQoff, c[1], c[2]))
                      /\ outQoff[c] = IF Len(NextLink(link, inQoff, c[1], c[2]))
                                         = Len(OtherLink(link, inQoff, c[1], c[2]))
                                      THEN Turn(inQoff, c[1], c[2]) ELSE 1 - Turn(inQoff, c[1], c[2])
    BY DEF Turns
  <2>1. c[1] \in Node /\ c[2] \in Way /\ Beyond(c[1], c[2]) \in Node /\ c \in Node \X Way
    BY DEF Hop
  <2>2. outQoff[c] = 0
    BY <2>1 DEF Init
  <2>3. InStep(<<>>, <<>>)
    BY DEF InStep
  <2> QED
    BY <1>4, <2>1, <2>2, <2>3
<1>6. DeadEnds(link)
  <2>1. 0..1 = {0, 1}
    OBVIOUS
  <2> QED
    BY <1>3, <2>1 DEF DeadEnds
<1>7. ASSUME NEW q \in Name
      PROVE  Fabric[q] = <<>>
  <2>1. Fabric[q] = FifoOf(vMerge, mergeOut, link, inQoff, inQ, mergeEpOut, q)
    BY DEF Fabric, FabricOf
  <2>2. EmptyMerge.out = <<>> /\ \A i \in Input : EmptyMerge.in[i] = <<>>
    BY DEF EmptyMerge
  <2>3. CASE q[1] = "lanes"
    <3>1. q[2] \in Node /\ q[3] \in Way /\ Beyond(q[2], q[3]) \in Node
      BY <2>3, NameCases
    <3>2. Fabric[q] = Weave(<<>>, <<>>)
      BY <1>4, <2>1, <2>3, <3>1 DEF FifoOf
    <3>3. Weave(<<>>, <<>>) \in Seq(Packet) /\ Len(Weave(<<>>, <<>>)) = Len(<<>>) + Len(<<>>)
      <4>1. InStep(<<>>, <<>>)
        BY DEF InStep
      <4> QED
        BY <1>1, <4>1, WeaveIsSeq
    <3>4. Len(Weave(<<>>, <<>>)) = 0
      BY <3>3
    <3>5. Weave(<<>>, <<>>) = <<>>
      BY <3>3, <3>4, EmptySeq
    <3> QED
      BY <3>2, <3>5
  <2>4. CASE q[1] \in {"entry", "entryOut"}
    <3>1. vMerge[q[2]][q[3]] = EmptyMerge
      BY <2>4, NameCases DEF Init
    <3> QED
      BY <2>1, <2>2, <2>4, <3>1, NameCases DEF FifoOf
  <2>5. CASE q[1] \in {"join", "joinOut"}
    <3>1. mergeOut[<<q[2], q[3]>>] = EmptyMerge
      BY <2>5, NameCases DEF Init
    <3> QED
      BY <2>1, <2>2, <2>5, <3>1, NameCases DEF FifoOf
  <2>6. CASE q[1] = "arrived"
    <3>1. inQ[<<q[2], q[3]>>] = <<>>
      BY <2>6, NameCases DEF Init
    <3> QED
      BY <2>1, <2>6, <3>1 DEF FifoOf
  <2>7. CASE q[1] \in {"exit", "exitOut"}
    <3>1. mergeEpOut[q[2]] = EmptyMerge
      BY <2>7, NameCases DEF Init
    <3> QED
      BY <2>1, <2>2, <2>7, <3>1, NameCases DEF FifoOf
  <2> QED
    BY <2>3, <2>4, <2>5, <2>6, <2>7, NameCases
<1>8. \A q \in Name : 1..Len(Fabric[q]) = {}
  BY <1>7
<1>9. Routed(Fabric)
  BY <1>8 DEF Routed
<1>10. ASSUME NEW f \in Flows
       PROVE  Ordered(Fabric, f, chan[f])
  <2>1. chan[f] = <<>>
    BY DEF Init
  <2>2. Slots(Fabric, f) = {}
    BY <1>8 DEF Slots
  <2>3. 1..Len(<<>>) = {}
    OBVIOUS
  <2> DEFINE at == [i \in 1..Len(<<>>) |-> i]
  <2>4. at \in [1..Len(<<>>) -> Slots(Fabric, f)]
    BY <2>3
  <2> QED
    BY <2>1, <2>2, <2>3, <2>4 DEF Ordered
<1> QED
  BY <1>2, <1>5, <1>6, <1>9, <1>10 DEF IInv, InOrder

(* Each step of the nodes keeps it. *)
LEMMA NextInv == IInv /\ [Next]_vars => IInv'
<1> SUFFICES ASSUME IInv, [Next]_vars PROVE IInv'
  OBVIOUS
<1>1. ASSUME NEW n \in Node, SetMyId(n) PROVE IInv'
  BY <1>1, SetMyIdStep
<1>2. ASSUME NEW f \in Flows, NEW x \in Handed[f], Rin(f, x) PROVE IInv'
  BY <1>2, RinStep
<1>3. ASSUME NEW n \in Node, NEW i \in Level, Rell(n, i) PROVE IInv'
  BY <1>3, RellStep
<1>4. ASSUME NEW n \in Node, NEW i \in Level, MergeEndpoints(n, i) PROVE IInv'
  BY <1>4, MergeEndpointsStep
<1>5. ASSUME NEW n \in Node, HandleEpIn(n) PROVE IInv'
  BY <1>5, HandleEpInStep
<1>6. ASSUME NEW n \in Node, MergeEp(n) PROVE IInv'
  BY <1>6, MergeEpStep
<1>7. ASSUME NEW n \in Node, ROut(n) PROVE IInv'
  BY <1>7, ROutStep
<1>8. ASSUME NEW n \in Node, NEW w \in Way, HandleIn(n, w) PROVE IInv'
  BY <1>8, HandleInStep
<1>9. ASSUME NEW n \in Node, NEW w \in Way, MergeUpDown(n, w) PROVE IInv'
  BY <1>9, MergeUpDownStep
<1>10. ASSUME NEW n \in Node, NEW w \in Way, Scatter(n, w) PROVE IInv'
  BY <1>10, ScatterStep
<1>11. ASSUME NEW n \in Node, NEW w \in Way, Collect(n, w) PROVE IInv'
  BY <1>11, CollectStep
<1>12. CASE UNCHANGED vars
  <2>1. UNCHANGED <<myId, vMerge, mergeOut, outQoff, link, inQoff, inQ, mergeEpOut, chan>>
    BY <1>12 DEF vars
  <2>2. Fabric' = Fabric
    BY <2>1 DEF Fabric
  <2> QED
    BY <2>1, <2>2 DEF IInv, TypeOK, Named
<1> QED
  BY <1>1, <1>2, <1>3, <1>4, <1>5, <1>6, <1>7, <1>8, <1>9, <1>10, <1>11, <1>12 DEF Next

(* The inductive invariant: every packet is on the path of its flow, the     *)
(* packets of a flow lie on it in the order in which they were sent, and the *)
(* two ends of the two links of a hop keep step.                           *)
THEOREM BarInvariant == Spec => []IInv
<1> QED
  BY InitInv, NextInv, PTL DEF Spec

(* Every register and FIFO of every node holds what its declaration says. *)
THEOREM BarTypeCorrect == Spec => []TypeOK
<1>1. IInv => TypeOK
  BY DEF IInv
<1> QED
  BY <1>1, BarInvariant, PTL

-----------------------------------------------------------------------------
(* What a FIFO of the fabric holds is on its path. *)
LEMMA HeldIsRight ==
  ASSUME IInv, NEW q \in Name, NEW d \in Range(Fabric[q])
  PROVE  Right(q, d)
<1>1. Fabric[q] \in Seq(Packet)
  BY FabricTyped
<1>2. PICK k \in 1..Len(Fabric[q]) : d = Fabric[q][k]
  BY <1>1, RangeEquality
<1> QED
  BY <1>2 DEF IInv, Routed

(* What a link of a hop holds is in the weave of the two. *)
LEMMA WeaveHolds ==
  ASSUME NEW S, NEW s \in Seq(S), NEW t \in Seq(S), InStep(s, t)
  PROVE  Range(s) \subseteq Range(Weave(s, t)) /\ Range(t) \subseteq Range(Weave(s, t))
<1>1. /\ Range(s) = {s[j] : j \in 1..Len(s)} /\ Range(t) = {t[j] : j \in 1..Len(t)}
      /\ Range(Weave(s, t)) = {Weave(s, t)[i] : i \in 1..(Len(s) + Len(t))}
  BY WeaveIsSeq, RangeEquality
<1>2. /\ \A j \in 1..Len(s) : 2 * j - 1 \in 1..(Len(s) + Len(t)) /\ Weave(s, t)[2 * j - 1] = s[j]
      /\ \A j \in 1..Len(t) : 2 * j \in 1..(Len(s) + Len(t)) /\ Weave(s, t)[2 * j] = t[j]
  BY WeaveIsSeq
<1> HIDE DEF Weave
<1>3. ASSUME NEW j \in 1..Len(s)
      PROVE  s[j] \in Range(Weave(s, t))
  BY <1>1, <1>2
<1>4. ASSUME NEW j \in 1..Len(t)
      PROVE  t[j] \in Range(Weave(s, t))
  BY <1>1, <1>2
<1> QED
  BY <1>1, <1>3, <1>4

(* Every packet that a node has for a way goes to a node that lies that way,  *)
(* and comes from the other side or from the node itself.                   *)
LEMMA LeavingIsOn ==
  ASSUME IInv, NEW n \in Node, NEW w \in Way, NEW d \in Leaving(n, w)
  PROVE  On(n, w, FlowOf(d))
<1> DEFINE m == mergeOut[<<n, w>>]
<1>1. m \in MergeOf(Packet) /\ link \in FifoFamily(Outlet, Packet) /\ inQoff \in [Node \X Way -> {0, 1}]
  BY DEF IInv, TypeOK
<1>2. m.out \in Seq(Packet) /\ m.in[1] \in Seq(Packet) /\ m.in[2] \in Seq(Packet)
  BY <1>1 DEF MergeOf, Input
<1>3. Range(Through(m, 1)) = Range(m.out) \cup Range(m.in[1])
  BY <1>2, RangeConcatenation DEF Through
<1>4. ASSUME NEW i \in Input, d \in Range(m.in[i])
      PROVE  On(n, w, FlowOf(d))
  <2>1. <<"join", n, w, i>> \in Name
    BY Names
  <2>2. Fabric[<<"join", n, w, i>>] = m.in[i]
    BY FabricIs DEF Fabric
  <2>3. Right(<<"join", n, w, i>>, d)
    BY <1>4, <2>1, <2>2, HeldIsRight
  <2> QED
    BY <2>3 DEF Right, OnPath, FlowAt
<1>5. ASSUME d \in Range(m.out)
      PROVE  On(n, w, FlowOf(d))
  <2>1. <<"joinOut", n, w, 0>> \in Name
    BY Names
  <2>2. Fabric[<<"joinOut", n, w, 0>>] = m.out
    BY FabricIs DEF Fabric
  <2>3. Right(<<"joinOut", n, w, 0>>, d)
    BY <1>5, <2>1, <2>2, HeldIsRight
  <2> QED
    BY <2>3 DEF Right, OnPath, FlowAt
<1>6. ASSUME NEW k \in {0, 1}, d \in Range(link[<<n, Port(w, k)>>])
      PROVE  On(n, w, FlowOf(d))
  <2>1. Beyond(n, w) \in Node
    <3> SUFFICES ASSUME Beyond(n, w) \notin Node PROVE FALSE
      OBVIOUS
    <3>1. <<n, w>> \notin Hop
      BY DEF Hop
    <3>2. link[<<n, Port(w, k)>>] = <<>>
      <4>1. DeadEnds(link) /\ k \in 0..1
        BY DEF IInv
      <4> QED
        BY <3>1, <4>1 DEF DeadEnds
    <3>3. Range(<<>>) = {}
      BY DEF Range
    <3> QED
      BY <1>6, <3>2, <3>3
  <2> DEFINE s == NextLink(link, inQoff, n, w)
             t == OtherLink(link, inQoff, n, w)
  <2>2. s \in Seq(Packet) /\ t \in Seq(Packet) /\ <<n, w>> \in Hop /\ Turn(inQoff, n, w) \in {0, 1}
    BY <1>1, <2>1, LinkTypes
  <2>3. k = Turn(inQoff, n, w) \/ k = 1 - Turn(inQoff, n, w)
    BY <2>2
  <2>4. d \in Range(s) \/ d \in Range(t)
    BY <1>6, <2>3 DEF NextLink, OtherLink
  <2>5. InStep(s, t)
    BY <2>2 DEF IInv, Turns
  <2>6. Fabric[<<"lanes", n, w, 0>>] = Weave(s, t)
    BY <2>1, FabricIs DEF Fabric
  <2>7. <<"lanes", n, w, 0>> \in Name
    BY <2>1, Names
  <2> HIDE DEF s, t
  <2>8. d \in Range(Weave(s, t))
    BY <2>2, <2>4, <2>5, WeaveHolds
  <2>9. Right(<<"lanes", n, w, 0>>, d)
    BY <2>6, <2>7, <2>8, HeldIsRight
  <2> QED
    BY <2>9 DEF Right, OnPath, FlowAt
<1> QED
  BY <1>3, <1>4, <1>5, <1>6 DEF Leaving, Input

(* No packet is passed beyond the end of the chain, handed to another node's *)
(* endpoints, or comes back to its source: on a chain of any length.        *)
THEOREM BarHops == Spec => []EveryHopNearer
<1>1. ASSUME IInv, NEW n \in Node
      PROVE  /\ \A d \in Leaving(n, "up") : d.src <= n /\ n < d.dst
             /\ \A d \in Leaving(n, "down") : d.dst < n /\ n <= d.src
  <2>1. \A d : FlowOf(d)[1] = d.src /\ FlowOf(d)[2] = d.dst
    BY DEF FlowOf
  <2>2. "up" \in Way /\ "down" \in Way
    BY DEF Way
  <2> QED
    BY <1>1, <2>1, <2>2, LeavingIsOn DEF On
<1>2. ASSUME IInv, NEW n \in Node, NEW i \in Input, NEW d \in Range(Through(mergeEpOut[n], i))
      PROVE  d.dst = n /\ d.src # n
  <2> DEFINE m == mergeEpOut[n]
  <2>1. m.out \in Seq(Packet) /\ m.in[i] \in Seq(Packet)
    BY <1>2 DEF IInv, TypeOK, MergeOf
  <2>2. Range(Through(m, i)) = Range(m.out) \cup Range(m.in[i])
    BY <2>1, RangeConcatenation DEF Through
  <2>3. <<"exit", n, 0, i>> \in Name /\ <<"exitOut", n, 0, 0>> \in Name
    BY Names
  <2>4. Fabric[<<"exit", n, 0, i>>] = m.in[i]
    BY FabricIs DEF Fabric
  <2>5. Fabric[<<"exitOut", n, 0, 0>>] = m.out
    BY FabricIs DEF Fabric
  <2>6. CASE d \in Range(m.in[i])
    <3>1. Right(<<"exit", n, 0, i>>, d)
      BY <1>2, <2>3, <2>4, <2>6, HeldIsRight
    <3>2. FlowOf(d) \in Triple
      BY <3>1, ConstantTypes DEF Right, FlowAt
    <3>3. FlowOf(d)[1] \in Nat /\ n \in Nat
      BY <3>2, ConstantTypes DEF Triple
    <3>4. FlowOf(d)[1] = d.src /\ FlowOf(d)[2] = d.dst
      BY DEF FlowOf
    <3>5. OnPath(<<"exit", n, 0, i>>, FlowOf(d))
      BY <3>1 DEF Right, FlowAt
    <3> QED
      BY <3>3, <3>4, <3>5 DEF OnPath
  <2>7. CASE d \in Range(m.out)
    <3>1. Right(<<"exitOut", n, 0, 0>>, d)
      BY <1>2, <2>3, <2>5, <2>7, HeldIsRight
    <3>2. OnPath(<<"exitOut", n, 0, 0>>, FlowOf(d))
      BY <3>1 DEF Right, FlowAt
    <3> QED
      BY <3>2 DEF OnPath, FlowOf
  <2> QED
    BY <1>2, <2>2, <2>6, <2>7
<1>3. IInv => EveryHopNearer
  BY <1>1, <1>2 DEF EveryHopNearer
<1> QED
  BY <1>3, BarInvariant, PTL

(* What an endpoint is about to take is the oldest packet of its flow: no     *)
(* packet overtakes another, is lost or is taken twice.                     *)
THEOREM BarOldest == Spec => []OldestArrives
<1>1. ASSUME IInv, NEW n \in Node, mergeEpOut[n].out # <<>>
      PROVE  LET d == Head(mergeEpOut[n].out)
             IN FlowOf(d) \in Flows /\ chan[FlowOf(d)] # <<>> /\ d.item = Head(chan[FlowOf(d)])
  <2> DEFINE d == Head(mergeEpOut[n].out)
             f == FlowOf(d)
             a == <<"exitOut", n, 0, 0>>
             G == [Fabric EXCEPT ![a] = Tail(@)]
  <2>1. a \in Name /\ Fabric \in [Name -> Seq(Packet)]
    BY <1>1, Names, FabricTyped
  <2>2. Fabric[a] = mergeEpOut[n].out
    BY FabricIs DEF Fabric
  <2>3. Fabric[a] \in Seq(Packet) /\ Fabric[a] # <<>>
    BY <1>1, <2>1, <2>2
  <2>4. Tail(Fabric[a]) \in Seq(Packet) /\ Head(Fabric[a]) = d
    BY <2>2, <2>3, HeadTailProperties
  <2>5. Right(a, d)
    BY <1>1, <2>1, <2>2, <2>3, HeadIsFirst DEF IInv, Routed
  <2>6. FlowAt(a, Head(Fabric[a])) = f
    BY <2>2 DEF FlowAt
  <2>7. OnPath(a, f) /\ f \in Triple
    BY <2>2, <2>5, <2>6, ConstantTypes DEF Right
  <2>8. Last(a, f)
    <3>1. 1 \in Input
      BY DEF Input
    <3> QED
      BY <2>7, <3>1, LastSteps
  <2>9. Routed(Fabric) /\ InOrder(Fabric, chan) /\ chan \in [Flows -> Seq(Item)]
    BY <1>1 DEF IInv, TypeOK
  <2> HIDE DEF d, f, a
  <2>10. Taken(Fabric, G, a)
    BY <2>1, <2>3, <2>4 DEF Taken
  <2> HIDE DEF G
  <2>11. f \in Flows /\ chan[f] # <<>> /\ Head(Fabric[a]).item = Head(chan[f])
    BY <2>6, <2>8, <2>9, <2>10, TakeStep
  <2> QED
    BY <2>4, <2>11 DEF d, f
<1>2. IInv => OldestArrives
  BY <1>1 DEF OldestArrives
<1> QED
  BY <1>2, BarInvariant, PTL

-----------------------------------------------------------------------------
(* What is on its way between two nodes. *)
Remote == {f \in Flows : f[1] # f[2]}
Pending == Restrict(chan, Remote)

(* The chain is one FIFO channel for every flow between two nodes: a packet   *)
(* that enters is sent, one that an endpoint takes is received, and every    *)
(* other step of the nodes is none of the channels'.                        *)
THEOREM BarImplementsChannels == Spec => Channels!Spec
<1>1. Init => Channels!Init
  BY DEF Init, Channels!Init, Restrict
<1>2. IInv /\ [Next]_vars => [Channels!Next]_Pending
  <2> SUFFICES ASSUME IInv, [Next]_vars PROVE Channels!Next \/ Pending' = Pending
    BY DEF Pending, Remote
  <2>1. chan \in [Flows -> Seq(Item)]
    BY DEF IInv, TypeOK
  <2>2. UNCHANGED chan => Pending' = Pending
    BY DEF Pending
  <2>3. ASSUME NEW f \in Flows, NEW x \in Handed[f], Rin(f, x)
        PROVE  Channels!Next \/ Pending' = Pending
    <3>1. x \in Item /\ chan' = Enq(chan, f, x)
      BY <2>3, RinStep
    <3>2. CASE f \in Remote
      <4>1. Pending' = [Pending EXCEPT ![f] = Append(@, x)]
        BY <2>1, <3>1, <3>2 DEF Pending, Restrict, Enq, Remote
      <4>2. Channels!Send(f, x)
        BY <4>1 DEF Channels!Send, Pending, Remote
      <4> QED
        BY <3>1, <3>2, <4>2 DEF Channels!Next, Remote
    <3>3. CASE f \notin Remote
      BY <2>1, <3>1, <3>3 DEF Pending, Restrict, Enq, Remote
    <3> QED
      BY <3>2, <3>3
  <2>4. ASSUME NEW n \in Node, ROut(n)
        PROVE  Channels!Next \/ Pending' = Pending
    <3> DEFINE f == FlowOf(Head(mergeEpOut[n].out))
    <3>1. f \in Flows /\ f[1] # f[2] /\ chan[f] # <<>> /\ chan' = Deq(chan, f)
      BY <2>4, ROutStep
    <3> HIDE DEF f
    <3>2. f \in Remote /\ Pending[f] = chan[f]
      BY <3>1 DEF Remote, Pending, Restrict
    <3>3. Pending' = [Pending EXCEPT ![f] = Tail(@)]
      BY <2>1, <3>1, <3>2 DEF Pending, Restrict, Deq, Remote
    <3>4. Channels!Receive(f)
      BY <3>1, <3>2, <3>3 DEF Channels!Receive, Pending, Remote
    <3> QED
      BY <3>2, <3>4 DEF Channels!Next, Remote
  <2>5. ASSUME NEW n \in Node, HandleEpIn(n)
        PROVE  Pending' = Pending
    <3>1. ASSUME NEW f \in Flows, f[1] = f[2], chan' = Deq(chan, f)
          PROVE  Pending' = Pending
      BY <2>1, <3>1 DEF Pending, Restrict, Deq, Remote
    <3>2. UNCHANGED chan \/ \E f \in Flows : f[1] = f[2] /\ chan' = Deq(chan, f)
      BY <2>5, HandleEpInStep
    <3> QED
      BY <2>2, <3>1, <3>2
  <2>6. ASSUME NEW n \in Node, SetMyId(n) \/ MergeEp(n) PROVE UNCHANGED chan
    BY <2>6 DEF SetMyId, MergeEp
  <2>7. ASSUME NEW n \in Node, NEW i \in Level, Rell(n, i) \/ MergeEndpoints(n, i)
        PROVE  UNCHANGED chan
    BY <2>7 DEF Rell, MergeEndpoints
  <2>8. ASSUME NEW n \in Node, NEW w \in Way,
               HandleIn(n, w) \/ MergeUpDown(n, w) \/ Scatter(n, w) \/ Collect(n, w)
        PROVE  UNCHANGED chan
    BY <2>8 DEF HandleIn, MergeUpDown, Scatter, Collect
  <2>9. CASE UNCHANGED vars
    BY <2>2, <2>9 DEF vars
  <2> QED
    BY <2>2, <2>3, <2>4, <2>5, <2>6, <2>7, <2>8, <2>9 DEF Next
<1> QED
  BY <1>1, <1>2, BarInvariant, PTL DEF Spec, Channels!Spec, Pending, Remote
=============================================================================
