---------------------------- MODULE FifoLemmas -----------------------------
(***************************************************************************)
(* What a FIFO operation does to a count of its entries and to a selection *)
(* of them, and what an increment does to the distance of two wrapping      *)
(* counters.  The credit conservation theorems and the refinements of the  *)
(* reliable channels rest on these lemmas.                                 *)
(***************************************************************************)
EXTENDS Fifos, FiniteSetTheorems, SequenceTheorems, WellFoundedInduction, TLAPS

(* The positions counted are finitely many, so a count is a natural number *)
(* and never more than the length of the FIFO.                             *)
LEMMA OccursType ==
  ASSUME NEW T, NEW q \in Seq(T), NEW S
  PROVE  /\ IsFiniteSet({i \in 1..Len(q) : q[i] \in S})
         /\ Occurs(q, S) \in Nat
         /\ Occurs(q, S) <= Len(q)
<1>1. Len(q) \in Nat
  BY LenProperties
<1>2. IsFiniteSet(1..Len(q)) /\ Cardinality(1..Len(q)) = Len(q)
  BY <1>1, FS_Interval
<1>3. {i \in 1..Len(q) : q[i] \in S} \in SUBSET (1..Len(q))
  OBVIOUS
<1>4. IsFiniteSet({i \in 1..Len(q) : q[i] \in S})
      /\ Cardinality({i \in 1..Len(q) : q[i] \in S}) <= Len(q)
  BY <1>2, <1>3, FS_Subset
<1>5. Cardinality({i \in 1..Len(q) : q[i] \in S}) \in Nat
  BY <1>4, FS_CardinalityType
<1> QED
  BY <1>4, <1>5 DEF Occurs

(* An empty FIFO holds nothing of any peer. *)
LEMMA OccursEmpty ==
  ASSUME NEW S
  PROVE  Occurs(<<>>, S) = 0
<1>1. {i \in 1..Len(<<>>) : <<>>[i] \in S} = {}
  OBVIOUS
<1> QED
  BY <1>1, FS_EmptySet DEF Occurs

(* enq adds one to the count of the entry's peer and to no other. *)
LEMMA OccursAppend ==
  ASSUME NEW T, NEW q \in Seq(T), NEW e \in T, NEW S
  PROVE  Occurs(Append(q, e), S) = Occurs(q, S) + (IF e \in S THEN 1 ELSE 0)
<1> DEFINE I == {i \in 1..Len(q) : q[i] \in S}
           J == {i \in 1..Len(Append(q, e)) : Append(q, e)[i] \in S}
<1>1. /\ Len(q) \in Nat
      /\ Len(Append(q, e)) = Len(q) + 1
      /\ \A i \in 1..Len(q) : Append(q, e)[i] = q[i]
      /\ Append(q, e)[Len(q) + 1] = e
  BY AppendProperties, LenProperties
<1>2. IsFiniteSet(I) /\ Occurs(q, S) \in Nat
  BY OccursType
<1>3. CASE e \in S
  <2>1. J = I \cup {Len(q) + 1}
    BY <1>1, <1>3
  <2>2. Len(q) + 1 \notin I
    BY <1>1
  <2>3. Cardinality(J) = Cardinality(I) + 1
    BY <1>2, <2>1, <2>2, FS_AddElement
  <2> QED
    BY <2>3, <1>3 DEF Occurs
<1>4. CASE e \notin S
  <2>1. J = I
    BY <1>1, <1>4
  <2>2. Occurs(Append(q, e), S) = Cardinality(J) /\ Occurs(q, S) = Cardinality(I)
    BY DEF Occurs
  <2> HIDE DEF I, J
  <2> QED
    BY <2>1, <2>2, <1>2, <1>4
<1> QED
  BY <1>3, <1>4

(* deq takes one from the count of the head's peer and from no other. *)
LEMMA OccursTail ==
  ASSUME NEW T, NEW q \in Seq(T), q # <<>>, NEW S
  PROVE  Occurs(Tail(q), S) = Occurs(q, S) - (IF Head(q) \in S THEN 1 ELSE 0)
<1> DEFINE I == {i \in 1..Len(q) : q[i] \in S}
           J == {i \in 1..Len(Tail(q)) : Tail(q)[i] \in S}
           K == I \ {1}
           f == [j \in J |-> j + 1]
<1>1. /\ Len(q) \in Nat \ {0}
      /\ Tail(q) \in Seq(T)
      /\ Len(Tail(q)) = Len(q) - 1
      /\ \A i \in 1..Len(Tail(q)) : Tail(q)[i] = q[i + 1]
      /\ Head(q) = q[1]
  BY HeadTailProperties, EmptySeq
<1>2. IsFiniteSet(I) /\ IsFiniteSet(J) /\ Occurs(q, S) \in Nat
  BY <1>1, OccursType
<1>3. \A j \in J : j + 1 \in K
  BY <1>1
<1>4. \A k \in K : k - 1 \in J
  BY <1>1
<1>5. f \in Bijection(J, K)
  <2>1. f \in [J -> K]
    BY <1>3
  <2>2. \A a, b \in J : f[a] = f[b] => a = b
    BY <1>1
  <2>3. \A k \in K : \E j \in J : f[j] = k
    <3> TAKE k \in K
    <3> WITNESS k - 1 \in J
    <3> QED
      BY <1>1, <1>4
  <2> QED
    BY <2>1, <2>2, <2>3 DEF Bijection, Injection, IsInjective, Surjection
<1>6. Cardinality(K) = Cardinality(J)
  BY <1>2, <1>5, FS_Bijection DEF ExistsBijection
<1>7. Cardinality(K) = IF 1 \in I THEN Cardinality(I) - 1 ELSE Cardinality(I)
  BY <1>2, FS_RemoveElement
<1>8. 1 \in I <=> Head(q) \in S
  BY <1>1
<1>9. Occurs(Tail(q), S) = Cardinality(J) /\ Occurs(q, S) = Cardinality(I)
  BY DEF Occurs
<1> HIDE DEF I, J, K
<1> QED
  BY <1>2, <1>6, <1>7, <1>8, <1>9

(* The same for one FIFO of a family: the others stay as they are. *)
LEMMA EnqLemma ==
  ASSUME NEW D, NEW T, NEW q, q \in FifoFamily(D, T), NEW k \in D, NEW e \in T
  PROVE  /\ Enq(q, k, e) \in FifoFamily(D, T)
         /\ \A i \in D : \A S : Occurs(Enq(q, k, e)[i], S)
                 = IF i = k /\ e \in S THEN Occurs(q[i], S) + 1 ELSE Occurs(q[i], S)
<1>1. /\ q \in [D -> Seq(T)]
      /\ Append(q[k], e) \in Seq(T)
  BY AppendProperties DEF FifoFamily
<1>2. Enq(q, k, e) \in FifoFamily(D, T)
  BY <1>1 DEF Enq, FifoFamily
<1>3. ASSUME NEW i \in D, NEW S
      PROVE  Occurs(Enq(q, k, e)[i], S)
               = IF i = k /\ e \in S THEN Occurs(q[i], S) + 1 ELSE Occurs(q[i], S)
  <2>1. Occurs(q[i], S) \in Nat /\ q[i] \in Seq(T)
    BY <1>1, OccursType
  <2>2. CASE i = k
    <3>1. Enq(q, k, e)[i] = Append(q[i], e)
      BY <1>1, <2>2 DEF Enq
    <3> QED
      BY <2>1, <2>2, <3>1, OccursAppend
  <2>3. CASE i # k
    <3>1. Enq(q, k, e)[i] = q[i]
      BY <1>1, <2>3 DEF Enq
    <3> QED
      BY <2>1, <2>3, <3>1
  <2> QED
    BY <2>2, <2>3
<1> QED
  BY <1>2, <1>3

LEMMA DeqLemma ==
  ASSUME NEW D, NEW T, NEW q, q \in FifoFamily(D, T), NEW k \in D, q[k] # <<>>
  PROVE  /\ Head(q[k]) \in T
         /\ Deq(q, k) \in FifoFamily(D, T)
         /\ \A i \in D : \A S : Occurs(Deq(q, k)[i], S)
                 = IF i = k /\ Head(q[k]) \in S THEN Occurs(q[i], S) - 1 ELSE Occurs(q[i], S)
<1>1. /\ q \in [D -> Seq(T)]
      /\ q[k] \in Seq(T)
  BY DEF FifoFamily
<1>2. Head(q[k]) \in T /\ Tail(q[k]) \in Seq(T)
  BY <1>1, HeadTailProperties
<1>3. Deq(q, k) \in FifoFamily(D, T)
  BY <1>1, <1>2 DEF Deq, FifoFamily
<1>4. ASSUME NEW i \in D, NEW S
      PROVE  Occurs(Deq(q, k)[i], S)
               = IF i = k /\ Head(q[k]) \in S THEN Occurs(q[i], S) - 1 ELSE Occurs(q[i], S)
  <2>1. Occurs(q[i], S) \in Nat /\ q[i] \in Seq(T)
    BY <1>1, OccursType
  <2>2. CASE i = k
    <3>1. Deq(q, k)[i] = Tail(q[i])
      BY <1>1, <2>2 DEF Deq
    <3> QED
      BY <2>1, <2>2, <3>1, OccursTail
  <2>3. CASE i # k
    <3>1. Deq(q, k)[i] = q[i]
      BY <1>1, <2>3 DEF Deq
    <3> QED
      BY <2>1, <2>3, <3>1
  <2> QED
    BY <2>2, <2>3
<1> QED
  BY <1>2, <1>3, <1>4

(* The lengths of the FIFOs of a family after enq and deq on one of them. *)
LEMMA EnqLength ==
  ASSUME NEW D, NEW T, NEW q, q \in FifoFamily(D, T), NEW k \in D, NEW e \in T
  PROVE  \A i \in D : /\ Len(q[i]) \in Nat
                      /\ Len(Enq(q, k, e)[i]) = IF i = k THEN Len(q[i]) + 1 ELSE Len(q[i])
<1> TAKE i \in D
<1>1. q \in [D -> Seq(T)] /\ q[i] \in Seq(T)
  BY DEF FifoFamily
<1>2. Enq(q, k, e)[i] = IF i = k THEN Append(q[i], e) ELSE q[i]
  BY <1>1 DEF Enq
<1>3. Len(Append(q[i], e)) = Len(q[i]) + 1 /\ Len(q[i]) \in Nat
  BY <1>1, AppendProperties, LenProperties
<1> QED
  BY <1>2, <1>3

LEMMA DeqLength ==
  ASSUME NEW D, NEW T, NEW q, q \in FifoFamily(D, T), NEW k \in D, q[k] # <<>>
  PROVE  \A i \in D : /\ Len(q[i]) \in Nat
                      /\ Len(q[k]) > 0
                      /\ Len(Deq(q, k)[i]) = IF i = k THEN Len(q[i]) - 1 ELSE Len(q[i])
<1> TAKE i \in D
<1>1. q \in [D -> Seq(T)] /\ q[i] \in Seq(T) /\ q[k] \in Seq(T)
  BY DEF FifoFamily
<1>2. Deq(q, k)[i] = IF i = k THEN Tail(q[i]) ELSE q[i]
  BY <1>1 DEF Deq
<1>3. Len(Tail(q[k])) = Len(q[k]) - 1 /\ Len(q[i]) \in Nat /\ Len(q[k]) > 0
  BY <1>1, HeadTailProperties, LenProperties, EmptySeq
<1> QED
  BY <1>2, <1>3

(* Every count over a family of FIFOs is a natural number. *)
LEMMA FamilyCount ==
  ASSUME NEW D, NEW T, NEW q, q \in FifoFamily(D, T), NEW k \in D, NEW S
  PROVE  Occurs(q[k], S) \in Nat
<1>1. q[k] \in Seq(T)
  BY DEF FifoFamily
<1> QED
  BY <1>1, OccursType

(* Shares of numbered places, P[n] of them for each n in N. *)
Shares(N, P) == UNION {{n} \X (1..P[n]) : n \in N}

LEMMA SharesMember ==
  ASSUME NEW N, NEW P, NEW n, NEW k
  PROVE  <<n, k>> \in Shares(N, P) <=> n \in N /\ k \in 1..P[n]
BY DEF Shares

LEMMA SharesFinite ==
  ASSUME NEW N, IsFiniteSet(N), NEW P, \A n \in N : P[n] \in Nat
  PROVE  /\ IsFiniteSet(Shares(N, P))
         /\ Cardinality(Shares(N, P)) \in Nat
         /\ \A n \in N : /\ IsFiniteSet({n} \X (1..P[n]))
                         /\ Cardinality({n} \X (1..P[n])) = P[n]
<1>1. ASSUME NEW n \in N
      PROVE  IsFiniteSet({n} \X (1..P[n])) /\ Cardinality({n} \X (1..P[n])) = P[n]
  <2>1. PICK k \in Nat : k = P[n]
    OBVIOUS
  <2>2. IsFiniteSet(1..k) /\ Cardinality(1..k) = k
    BY FS_Interval
  <2>3. IsFiniteSet({n}) /\ Cardinality({n}) = 1
    BY FS_Singleton
  <2>4. /\ IsFiniteSet({n} \X (1..k))
        /\ Cardinality({n} \X (1..k)) = Cardinality({n}) * Cardinality(1..k)
    BY <2>2, <2>3, FS_Product
  <2> QED
    BY <2>1, <2>2, <2>3, <2>4
<1> DEFINE F == {{n} \X (1..P[n]) : n \in N}
<1>2. IsFiniteSet(F)
  <2>1. [n \in N |-> {n} \X (1..P[n])] \in Surjection(N, F)
    BY DEF Surjection
  <2> QED
    BY <2>1, FS_Surjection
<1>3. \A S \in F : IsFiniteSet(S)
  BY <1>1
<1>4. IsFiniteSet(UNION F)
  BY <1>2, <1>3, FS_UNION
<1>5. IsFiniteSet(Shares(N, P))
  BY <1>4 DEF Shares
<1>6. Cardinality(Shares(N, P)) \in Nat
  BY <1>5, FS_CardinalityType
<1> QED
  BY <1>1, <1>5, <1>6

(* One share that grows or shrinks changes the total by as much. *)
LEMMA SharesSplit ==
  ASSUME NEW N, IsFiniteSet(N), NEW P, \A n \in N : P[n] \in Nat, NEW r \in N
  PROVE  Cardinality(Shares(N, P)) = Cardinality(Shares(N \ {r}, P)) + P[r]
         /\ Cardinality(Shares(N \ {r}, P)) \in Nat
<1> DEFINE A == Shares(N \ {r}, P)
           B == {r} \X (1..P[r])
<1>1. Shares(N, P) = A \cup B
  BY DEF Shares
<1>2. A \cap B = {}
  BY DEF Shares
<1>3. IsFiniteSet(B) /\ Cardinality(B) = P[r] /\ IsFiniteSet(Shares(N, P))
  BY SharesFinite
<1>4. A \in SUBSET Shares(N, P)
  BY <1>1
<1>5. IsFiniteSet(A)
  BY <1>3, <1>4, FS_Subset
<1>6. Cardinality(A) \in Nat
  BY <1>5, FS_CardinalityType
<1>7. Cardinality(A \cup B) = Cardinality(A) + Cardinality(B) - Cardinality(A \cap B)
  BY <1>3, <1>5, FS_Union
<1>8. Cardinality(A \cap B) = 0
  BY <1>2, FS_EmptySet
<1>9. P[r] \in Nat
  OBVIOUS
<1> HIDE DEF A, B
<1>10. Cardinality(A \cup B) = Cardinality(A) + P[r]
  BY <1>3, <1>6, <1>7, <1>8, <1>9
<1> QED
  BY <1>1, <1>6, <1>10 DEF A

LEMMA SharesChange ==
  ASSUME NEW N, IsFiniteSet(N), NEW P \in [N -> Nat], NEW Q \in [N -> Nat], NEW r \in N,
         \A n \in N \ {r} : Q[n] = P[n]
  PROVE  Cardinality(Shares(N, Q)) = Cardinality(Shares(N, P)) + (Q[r] - P[r])
<1>1. Shares(N \ {r}, Q) = Shares(N \ {r}, P)
  BY DEF Shares
<1>2. Cardinality(Shares(N, P)) = Cardinality(Shares(N \ {r}, P)) + P[r]
      /\ Cardinality(Shares(N \ {r}, P)) \in Nat
  BY SharesSplit
<1>3. Cardinality(Shares(N, Q)) = Cardinality(Shares(N \ {r}, Q)) + Q[r]
  BY SharesSplit
<1>4. P[r] \in Nat /\ Q[r] \in Nat
  OBVIOUS
<1> QED
  BY <1>1, <1>2, <1>3, <1>4

LEMMA SharesMonotone ==
  ASSUME NEW N, IsFiniteSet(N), NEW P, NEW Q,
         \A n \in N : P[n] \in Nat /\ Q[n] \in Nat /\ P[n] <= Q[n]
  PROVE  Cardinality(Shares(N, P)) <= Cardinality(Shares(N, Q))
<1>1. IsFiniteSet(Shares(N, Q))
  BY SharesFinite
<1>2. ASSUME NEW n \in N
      PROVE  {n} \X (1..P[n]) \subseteq {n} \X (1..Q[n])
  <2>1. 1..P[n] \subseteq 1..Q[n]
    OBVIOUS
  <2> QED
    BY <2>1
<1>3. Shares(N, P) \in SUBSET Shares(N, Q)
  <2>1. ASSUME NEW x \in Shares(N, P)
        PROVE  x \in Shares(N, Q)
    <3>1. PICK n \in N : x \in {n} \X (1..P[n])
      BY <2>1 DEF Shares
    <3>2. x \in {n} \X (1..Q[n])
      BY <1>2, <3>1
    <3> QED
      BY <3>2 DEF Shares
  <2> QED
    BY <2>1
<1> QED
  BY <1>1, <1>3, FS_Subset

(* A shared FIFO whose entries belong to the peers N, no peer n holding more *)
(* than P[n] of them, is never longer than the places of all peers.          *)
LEMMA SharesBound ==
  ASSUME NEW T, NEW q \in Seq(T), NEW N, IsFiniteSet(N), NEW cls \in [T -> N],
         NEW P \in [N -> Nat],
         \A n \in N : Occurs(q, {e \in T : cls[e] = n}) <= P[n]
  PROVE  Len(q) <= Cardinality(Shares(N, P))
<1> DEFINE D == 1..Len(q)
           Of(i) == {j \in D : q[j] \in {e \in T : cls[e] = cls[q[i]]}}
           Upto(i) == {j \in Of(i) : j <= i}
           f == [i \in D |-> <<cls[q[i]], Cardinality(Upto(i))>>]
<1>1. Len(q) \in Nat /\ \A i \in D : q[i] \in T /\ cls[q[i]] \in N
  BY LenProperties
<1>2. \A i \in D : IsFiniteSet(Of(i)) /\ Cardinality(Of(i)) <= P[cls[q[i]]]
  <2> TAKE i \in D
  <2>1. Occurs(q, {e \in T : cls[e] = cls[q[i]]}) <= P[cls[q[i]]]
    BY <1>1
  <2>2. Cardinality(Of(i)) = Occurs(q, {e \in T : cls[e] = cls[q[i]]})
    BY DEF Occurs
  <2>3. IsFiniteSet(Of(i))
    BY OccursType
  <2> QED
    BY <2>1, <2>2, <2>3
<1>3. \A i \in D : Cardinality(Upto(i)) \in 1..P[cls[q[i]]]
  <2> TAKE i \in D
  <2>1. Upto(i) \in SUBSET Of(i) /\ i \in Upto(i)
    BY <1>1
  <2>2. IsFiniteSet(Upto(i)) /\ Cardinality(Upto(i)) <= Cardinality(Of(i))
    BY <1>2, <2>1, FS_Subset
  <2>3. Cardinality(Upto(i)) \in Nat /\ Cardinality(Upto(i)) # 0
    BY <2>1, <2>2, FS_CardinalityType, FS_EmptySet
  <2>4. Cardinality(Of(i)) \in Nat /\ Cardinality(Of(i)) <= P[cls[q[i]]]
    BY <1>2, FS_CardinalityType
  <2>5. P[cls[q[i]]] \in Nat
    BY <1>1
  <2> HIDE DEF Of, Upto
  <2> QED
    BY <2>2, <2>3, <2>4, <2>5
<1>4. \A i, k \in D : i < k /\ cls[q[i]] = cls[q[k]]
                       => Cardinality(Upto(i)) # Cardinality(Upto(k))
  <2> SUFFICES ASSUME NEW i \in D, NEW k \in D, i < k, cls[q[i]] = cls[q[k]]
               PROVE  Cardinality(Upto(i)) # Cardinality(Upto(k))
    OBVIOUS
  <2>1. Upto(i) \in SUBSET Upto(k)
    BY <1>1
  <2>2. k \in Upto(k) /\ k \notin Upto(i)
    BY <1>1
  <2>3. IsFiniteSet(Upto(k))
    <3>1. Upto(k) \in SUBSET Of(k)
      OBVIOUS
    <3> QED
      BY <1>2, <3>1, FS_Subset
  <2> QED
    BY <2>1, <2>2, <2>3, FS_Subset
<1>5. f \in Injection(D, Shares(N, P))
  <2>1. \A i \in D : <<cls[q[i]], Cardinality(Upto(i))>> \in Shares(N, P)
    BY <1>1, <1>3, SharesMember
  <2>2. f \in [D -> Shares(N, P)]
    BY <2>1
  <2>3. ASSUME NEW a \in D, NEW b \in D, f[a] = f[b]
        PROVE  a = b
    <3>1. cls[q[a]] = cls[q[b]] /\ Cardinality(Upto(a)) = Cardinality(Upto(b))
      BY <2>3
    <3>2. a \in Int /\ b \in Int
      BY <1>1
    <3> QED
      BY <1>4, <3>1, <3>2
  <2> QED
    BY <2>2, <2>3 DEF Injection, IsInjective
<1>6. IsFiniteSet(Shares(N, P))
  BY SharesFinite
<1>7. Cardinality(D) <= Cardinality(Shares(N, P))
  BY <1>5, <1>6, FS_Injection
<1>8. Cardinality(D) = Len(q)
  <2>1. PICK n \in Nat : n = Len(q)
    BY <1>1
  <2>2. Cardinality(1..n) = n
    BY FS_Interval
  <2> QED
    BY <2>1, <2>2
<1> QED
  BY <1>7, <1>8

(* The same for a FIFO in front of which others of the same shares wait: the *)
(* first of those finds a place.                                             *)
OfPeer(T, cls, n) == {e \in T : cls[e] = n}

LEMMA NextFits ==
  ASSUME NEW T, NEW q \in Seq(T), NEW r \in Seq(T), r # <<>>, NEW N, IsFiniteSet(N),
         NEW cls \in [T -> N], NEW P \in [N -> Nat],
         \A n \in N : Occurs(r, OfPeer(T, cls, n)) + Occurs(q, OfPeer(T, cls, n)) <= P[n]
  PROVE  Len(q) \in Nat /\ Len(q) + 1 <= Cardinality(Shares(N, P))
<1>1. PICK h : h = Head(r)
  OBVIOUS
<1>2. h \in T /\ Tail(r) \in Seq(T)
  BY <1>1, HeadTailProperties
<1>3. PICK a : a = Append(q, h)
  OBVIOUS
<1>4. a \in Seq(T) /\ Len(a) = Len(q) + 1 /\ Len(q) \in Nat
  BY <1>2, <1>3, AppendProperties, LenProperties
<1>5. ASSUME NEW n \in N
      PROVE  Occurs(a, {e \in T : cls[e] = n}) <= P[n]
  <2>1. PICK C : C = OfPeer(T, cls, n)
    OBVIOUS
  <2>2. Occurs(q, C) \in Nat /\ Occurs(r, C) \in Nat /\ Occurs(Tail(r), C) \in Nat
    BY <1>2, OccursType
  <2>3. Occurs(Append(q, h), C) = Occurs(q, C) + (IF h \in C THEN 1 ELSE 0)
    BY <1>2, OccursAppend
  <2>4. Occurs(Tail(r), C) = Occurs(r, C) - (IF Head(r) \in C THEN 1 ELSE 0)
    BY OccursTail
  <2>5. Occurs(r, C) + Occurs(q, C) <= P[n] /\ P[n] \in Nat
    BY <2>1
  <2>6. Occurs(Append(q, h), C) <= P[n]
    BY <1>1, <2>2, <2>3, <2>4, <2>5
  <2> QED
    BY <1>3, <2>1, <2>6 DEF OfPeer
<1>6. Len(a) <= Cardinality(Shares(N, P))
  BY <1>4, <1>5, SharesBound
<1> QED
  BY <1>4, <1>6

LEMMA EqualShares ==
  ASSUME NEW N, IsFiniteSet(N), NEW Q \in Nat
  PROVE  Cardinality(Shares(N, [n \in N |-> Q])) = Cardinality(N) * Q
<1>1. PICK P : P = [n \in N |-> Q]
  OBVIOUS
<1>2. Shares(N, P) = N \X (1..Q)
  BY <1>1 DEF Shares
<1>3. IsFiniteSet(1..Q) /\ Cardinality(1..Q) = Q
  BY FS_Interval
<1>4. Cardinality(N \X (1..Q)) = Cardinality(N) * Cardinality(1..Q)
  BY <1>3, FS_Product
<1> QED
  BY <1>1, <1>2, <1>3, <1>4

(* With equal shares: the sizing rule of a receive queue that is divided    *)
(* into per-peer quotas.                                                    *)
LEMMA QuotaBound ==
  ASSUME NEW T, NEW q \in Seq(T), NEW N, IsFiniteSet(N), NEW cls \in [T -> N],
         NEW Q \in Nat,
         \A n \in N : Occurs(q, {e \in T : cls[e] = n}) <= Q
  PROVE  Len(q) <= Cardinality(N) * Q
<1>1. PICK P : P = [n \in N |-> Q]
  OBVIOUS
<1>2. P \in [N -> Nat] /\ \A n \in N : Occurs(q, {e \in T : cls[e] = n}) <= P[n]
  BY <1>1
<1>3. Len(q) <= Cardinality(Shares(N, P))
  BY <1>2, SharesBound
<1>4. Cardinality(Shares(N, P)) = Cardinality(N) * Q
  BY <1>1, EqualShares
<1> QED
  BY <1>3, <1>4

-----------------------------------------------------------------------------
(* Reducing modulo the register width, where one wrap at most happens. *)
LEMMA OneWrap ==
  ASSUME NEW M \in Nat \ {0}, NEW x \in Int
  PROVE  /\ x \in 0..(M - 1) => x % M = x
         /\ x \in (-M)..(-1) => x % M = x + M
         /\ x \in M..(2 * M - 1) => x % M = x - M
<1>1. x \in 0..(M - 1) => x % M = x
  BY SMT
<1>2. x \in (-M)..(-1) => x % M = x + M
  BY SMT
<1>3. x \in M..(2 * M - 1) => x % M = x - M
  BY SMT
<1> QED
  BY <1>1, <1>2, <1>3

(* The distance of two wrapping counters is a number below the modulus. *)
LEMMA DistanceType ==
  ASSUME NEW M \in Nat \ {0}, NEW up \in 0..(M - 1), NEW down \in 0..(M - 1)
  PROVE  /\ (up - down) % M \in 0..(M - 1)
         /\ (up - down) % M = IF up >= down THEN up - down ELSE up - down + M
<1>1. up - down \in Int
  OBVIOUS
<1>2. CASE up >= down
  <2>1. up - down \in 0..(M - 1)
    BY <1>2
  <2> QED
    BY <1>1, <1>2, <2>1, OneWrap
<1>3. CASE up < down
  <2>1. up - down \in (-M)..(-1)
    BY <1>3
  <2>2. (up - down) % M = up - down + M
    BY <1>1, <2>1, OneWrap
  <2> QED
    BY <1>3, <2>1, <2>2
<1> QED
  BY <1>2, <1>3

(* Spending a credit brings the distance of the two counters down by one. *)
LEMMA SpendOne ==
  ASSUME NEW M \in Nat \ {0}, NEW up \in 0..(M - 1), NEW down \in 0..(M - 1),
         (up - down) % M > 0
  PROVE  /\ (down + 1) % M \in 0..(M - 1)
         /\ (up - ((down + 1) % M)) % M = ((up - down) % M) - 1
<1>1. (down + 1) % M = IF down + 1 = M THEN 0 ELSE down + 1
  BY OneWrap
<1>2. (down + 1) % M \in 0..(M - 1)
  BY <1>1
<1>3. (up - down) % M = IF up >= down THEN up - down ELSE up - down + M
  BY DistanceType
<1>4. (up - ((down + 1) % M)) % M =
        IF up >= ((down + 1) % M) THEN up - ((down + 1) % M) ELSE up - ((down + 1) % M) + M
  BY <1>2, DistanceType
<1> QED
  BY <1>1, <1>2, <1>3, <1>4

LEMMA SpendSome ==
  ASSUME NEW M \in Nat \ {0}, NEW up \in 0..(M - 1), NEW down \in 0..(M - 1),
         NEW k \in Nat, (up - down) % M >= k
  PROVE  /\ (down + k) % M \in 0..(M - 1)
         /\ (up - ((down + k) % M)) % M = ((up - down) % M) - k
<1>1. (up - down) % M = IF up >= down THEN up - down ELSE up - down + M
  BY DistanceType
<1>2. k < M
  BY <1>1
<1>3. (down + k) % M = IF down + k >= M THEN down + k - M ELSE down + k
  <2>1. down + k \in Int /\ (down + k \in 0..(M - 1) \/ down + k \in M..(2 * M - 1))
    BY <1>2
  <2> QED
    BY <2>1, OneWrap
<1>4. (down + k) % M \in 0..(M - 1)
  BY <1>2, <1>3
<1>5. (up - ((down + k) % M)) % M =
        IF up >= ((down + k) % M) THEN up - ((down + k) % M) ELSE up - ((down + k) % M) + M
  BY <1>4, DistanceType
<1> QED
  BY <1>1, <1>3, <1>4, <1>5

(* Credits returned bring the distance up by as many, if it stays in range. *)
LEMMA GainSome ==
  ASSUME NEW M \in Nat \ {0}, NEW up \in 0..(M - 1), NEW down \in 0..(M - 1),
         NEW k \in Nat, ((up - down) % M) + k < M
  PROVE  /\ (up + k) % M \in 0..(M - 1)
         /\ (((up + k) % M) - down) % M = ((up - down) % M) + k
<1>1. (up - down) % M = IF up >= down THEN up - down ELSE up - down + M
  BY DistanceType
<1>2. k < M
  BY <1>1
<1>3. (up + k) % M = IF up + k >= M THEN up + k - M ELSE up + k
  BY <1>2, OneWrap
<1>4. (up + k) % M \in 0..(M - 1)
  BY <1>2, <1>3
<1>5. (((up + k) % M) - down) % M =
        IF ((up + k) % M) >= down THEN ((up + k) % M) - down ELSE ((up + k) % M) - down + M
  BY <1>4, DistanceType
<1> QED
  BY <1>1, <1>3, <1>4, <1>5

-----------------------------------------------------------------------------
(* A nonempty set of numbers has a least one, so a set that holds 0 and    *)
(* with every number the next holds all of them.                            *)
LEMMA Least ==
  ASSUME NEW S \in SUBSET Nat, S # {}
  PROVE  \E n \in S : \A m \in S : n <= m
<1> DEFINE R == OpToRel(<, Nat)
<1>1. IsWellFoundedOn(R, Nat)
  BY NatLessThanWellFounded
<1>2. \A a, b \in Nat : a < b => <<a, b>> \in R
  BY DEF OpToRel
<1> HIDE DEF R
<1>3. PICK n \in S : \A m \in S : ~(<<m, n>> \in R)
  BY <1>1, WFMin
<1>4. \A m \in S : ~(m < n) /\ m \in Nat /\ n \in Nat
  BY <1>2, <1>3, Zenon
<1> QED
  BY <1>4

LEMMA Induction ==
  ASSUME NEW S \in SUBSET Nat, 0 \in S, \A n \in S : n + 1 \in S
  PROVE  S = Nat
<1> SUFFICES ASSUME Nat \ S # {} PROVE FALSE
  OBVIOUS
<1>1. PICK n \in Nat \ S : \A m \in Nat \ S : n <= m
  BY Least
<1>2. n # 0 /\ n - 1 \in Nat
  BY <1>1
<1>3. n - 1 \in S
  BY <1>1, <1>2
<1> QED
  BY <1>2, <1>3

LEMMA AppendedBehind ==
  ASSUME NEW S, NEW s \in Seq(S), NEW t \in Seq(S), NEW e \in S
  PROVE  s \o Append(t, e) = Append(s \o t, e)
<1>1. <<e>> \in Seq(S) /\ s \o t \in Seq(S)
  BY ConcatProperties
<1>2. Append(t, e) = t \o <<e>> /\ Append(s \o t, e) = (s \o t) \o <<e>>
  BY <1>1, AppendIsConcat
<1>3. (s \o t) \o <<e>> = s \o (t \o <<e>>)
  BY <1>1, ConcatAssociative
<1> QED
  BY <1>2, <1>3

(* The table the recursion of Those fills in: one more entry of s seen at   *)
(* each place.                                                              *)
Chosen(f, s, T, i) ==
  IF i = 0 THEN <<>> ELSE IF s[i] \in T THEN Append(f[i - 1], s[i]) ELSE f[i - 1]
Table(f, s, T, n) == f = [i \in 0..n |-> Chosen(f, s, T, i)]

LEMMA TableExists ==
  ASSUME NEW s, NEW T, NEW n \in Nat
  PROVE  \E f : Table(f, s, T, n)
<1> DEFINE S == {m \in Nat : \E f : Table(f, s, T, m)}
<1>1. 0 \in S
  <2>1. PICK f : f = [i \in 0..0 |-> <<>>]
    OBVIOUS
  <2>2. \A i \in 0..0 : i = 0
    OBVIOUS
  <2>3. f = [i \in 0..0 |-> Chosen(f, s, T, i)]
    BY <2>1, <2>2 DEF Chosen
  <2> QED
    BY <2>3 DEF Table
<1>2. ASSUME NEW m \in S
      PROVE  m + 1 \in S
  <2>1. PICK f : Table(f, s, T, m)
    OBVIOUS
  <2>2. PICK g : g = [i \in 0..(m + 1) |-> IF i <= m THEN f[i] ELSE Chosen(f, s, T, i)]
    OBVIOUS
  <2>3. \A i \in 0..m : g[i] = f[i]
    BY <2>2
  <2>4. \A i \in 0..m : f[i] = Chosen(f, s, T, i)
    BY <2>1 DEF Table
  <2>5. \A i \in 0..(m + 1) : i # 0 => i - 1 \in 0..m
    OBVIOUS
  <2>6. ASSUME NEW i \in 0..(m + 1)
        PROVE  g[i] = Chosen(g, s, T, i)
    <3>1. i # 0 => g[i - 1] = f[i - 1]
      BY <2>3, <2>5
    <3>2. Chosen(g, s, T, i) = Chosen(f, s, T, i)
      BY <3>1 DEF Chosen
    <3>3. CASE i \in 0..m
      BY <2>3, <2>4, <3>2, <3>3
    <3>4. CASE i \notin 0..m
      <4>1. ~(i <= m)
        BY <3>4
      <4> QED
        BY <2>2, <3>2, <4>1
    <3> QED
      BY <3>3, <3>4
  <2>7. Table(g, s, T, m + 1)
    BY <2>2, <2>6 DEF Table
  <2> QED
    BY <2>7
<1>3. S = Nat
  <2> HIDE DEF S
  <2>1. S \in SUBSET Nat
    BY DEF S
  <2> QED
    BY <1>1, <1>2, <2>1, Induction
<1> QED
  BY <1>3

LEMMA ThoseTable ==
  ASSUME NEW s, NEW T, Len(s) \in Nat
  PROVE  \E f : Table(f, s, T, Len(s)) /\ Those(s, T) = f[Len(s)]
<1>1. \E f : Table(f, s, T, Len(s))
  BY TableExists
<1>2. \E f : f = [i \in 0..Len(s) |->
                    IF i = 0 THEN <<>>
                    ELSE IF s[i] \in T THEN Append(f[i - 1], s[i]) ELSE f[i - 1]]
  BY <1>1, Zenon DEF Table, Chosen
<1> QED
  BY <1>2, Zenon DEF Those, Table, Chosen

(* What the table has at a place depends on the places up to it only. *)
LEMMA TablesAgree ==
  ASSUME NEW T, NEW s, NEW t, NEW m \in Nat, NEW n \in Nat, m <= n,
         \A i \in 1..m : s[i] = t[i],
         NEW f, Table(f, s, T, m), NEW g, Table(g, t, T, n)
  PROVE  f[m] = g[m]
<1> DEFINE S == {i \in Nat : i <= m => f[i] = g[i]}
<1>1. /\ \A i \in 0..m : f[i] = Chosen(f, s, T, i)
      /\ \A i \in 0..n : g[i] = Chosen(g, t, T, i)
  BY DEF Table
<1>2. 0 \in S
  BY <1>1 DEF Chosen
<1>3. ASSUME NEW i \in S
      PROVE  i + 1 \in S
  <2>1. i + 1 <= m => f[i + 1] = g[i + 1]
    <3> SUFFICES ASSUME i + 1 <= m
                 PROVE  f[i + 1] = g[i + 1]
      OBVIOUS
    <3>1. i + 1 \in 0..m /\ i + 1 \in 0..n /\ i + 1 \in 1..m /\ i + 1 # 0 /\ (i + 1) - 1 = i
      OBVIOUS
    <3>2. f[i] = g[i] /\ s[i + 1] = t[i + 1]
      BY <3>1
    <3>3. Chosen(f, s, T, i + 1) = Chosen(g, t, T, i + 1)
      BY <3>1, <3>2 DEF Chosen
    <3> QED
      BY <1>1, <3>1, <3>3
  <2> QED
    BY <2>1
<1>4. S = Nat
  <2> HIDE DEF S
  <2>1. S \in SUBSET Nat
    BY DEF S
  <2> QED
    BY <1>2, <1>3, <2>1, Induction
<1> QED
  BY <1>4

LEMMA ThoseEmpty ==
  ASSUME NEW T
  PROVE  Those(<<>>, T) = <<>>
<1>1. Len(<<>>) = 0
  OBVIOUS
<1>2. PICK f : Table(f, <<>>, T, 0) /\ Those(<<>>, T) = f[0]
  BY <1>1, ThoseTable
<1> QED
  BY <1>2 DEF Table, Chosen

(* An entry that arrives is the last of those chosen, or not chosen. *)
LEMMA ThoseAppend ==
  ASSUME NEW S, NEW s \in Seq(S), NEW c \in S, NEW T
  PROVE  Those(Append(s, c), T) = IF c \in T THEN Append(Those(s, T), c) ELSE Those(s, T)
<1>1. PICK t : t = Append(s, c)
  OBVIOUS
<1>2. PICK n \in Nat : n = Len(s)
  BY LenProperties
<1>3. Len(t) = n + 1 /\ t[n + 1] = c /\ \A i \in 1..n : t[i] = s[i]
  BY <1>1, <1>2, AppendProperties
<1>4. PICK f : Table(f, s, T, n) /\ Those(s, T) = f[n]
  BY <1>2, ThoseTable
<1>5. PICK g : Table(g, t, T, n + 1) /\ Those(t, T) = g[n + 1]
  BY <1>3, ThoseTable
<1>6. f[n] = g[n]
  BY <1>3, <1>4, <1>5, TablesAgree
<1>7. n + 1 \in 0..(n + 1) /\ n + 1 # 0 /\ (n + 1) - 1 = n
  OBVIOUS
<1>8. g[n + 1] = Chosen(g, t, T, n + 1)
  BY <1>5, <1>7 DEF Table
<1>9. g[n + 1] = IF c \in T THEN Append(g[n], c) ELSE g[n]
  BY <1>3, <1>7, <1>8 DEF Chosen
<1> QED
  BY <1>1, <1>4, <1>5, <1>6, <1>9

LEMMA ThoseType ==
  ASSUME NEW S, NEW s \in Seq(S), NEW T
  PROVE  Those(s, T) \in Seq(S \cap T)
<1>1. PICK n \in Nat : n = Len(s)
  BY LenProperties
<1>2. PICK f : Table(f, s, T, n) /\ Those(s, T) = f[n]
  BY <1>1, ThoseTable
<1> DEFINE K == {i \in Nat : i <= n => f[i] \in Seq(S \cap T)}
<1>3. \A i \in 0..n : f[i] = Chosen(f, s, T, i)
  BY <1>2 DEF Table
<1>4. 0 \in K
  <2>1. 0 \in 0..n
    OBVIOUS
  <2>2. f[0] = <<>>
    BY <1>3, <2>1 DEF Chosen
  <2>3. <<>> \in Seq(S \cap T)
    OBVIOUS
  <2> QED
    BY <2>2, <2>3
<1>5. ASSUME NEW i \in K
      PROVE  i + 1 \in K
  <2>1. ASSUME i + 1 <= n
        PROVE  f[i + 1] \in Seq(S \cap T)
    <3>1. i + 1 \in 0..n /\ i + 1 \in 1..n /\ i + 1 # 0 /\ (i + 1) - 1 = i
      BY <2>1
    <3>2. s[i + 1] \in S /\ f[i] \in Seq(S \cap T)
      BY <1>1, <2>1, <3>1, ElementOfSeq
    <3>3. f[i + 1] = IF s[i + 1] \in T THEN Append(f[i], s[i + 1]) ELSE f[i]
      BY <1>3, <3>1 DEF Chosen
    <3> QED
      BY <3>2, <3>3, AppendProperties
  <2> QED
    BY <2>1
<1>6. K = Nat
  <2> HIDE DEF K
  <2>1. K \in SUBSET Nat
    BY DEF K
  <2> QED
    BY <1>4, <1>5, <2>1, Induction
<1> QED
  BY <1>2, <1>6

(* The first entry is the first of those chosen, or not chosen. *)
LEMMA ThoseTail ==
  ASSUME NEW S, NEW s \in Seq(S), s # <<>>, NEW T
  PROVE  Those(s, T) = IF Head(s) \in T THEN <<Head(s)>> \o Those(Tail(s), T)
                       ELSE Those(Tail(s), T)
<1>1. PICK t : t = Tail(s)
  OBVIOUS
<1>2. PICK h : h = Head(s)
  OBVIOUS
<1>3. PICK n \in Nat : n = Len(t)
  BY <1>1, LenProperties, HeadTailProperties
<1>4. /\ h \in S /\ t \in Seq(S) /\ Len(s) = n + 1 /\ s[1] = h
      /\ \A i \in 1..n : t[i] = s[i + 1]
  BY <1>1, <1>2, <1>3, HeadTailProperties
<1>5. PICK f : Table(f, s, T, n + 1) /\ Those(s, T) = f[n + 1]
  BY <1>4, ThoseTable
<1>6. PICK g : Table(g, t, T, n) /\ Those(t, T) = g[n]
  BY <1>3, ThoseTable
<1> DEFINE Led(x) == IF h \in T THEN <<h>> \o x ELSE x
           K == {i \in Nat : i <= n => g[i] \in Seq(S) /\ f[i + 1] = Led(g[i])}
<1>7. /\ \A i \in 0..(n + 1) : f[i] = Chosen(f, s, T, i)
      /\ \A i \in 0..n : g[i] = Chosen(g, t, T, i)
  BY <1>5, <1>6 DEF Table
<1>8. 0 \in K
  <2>1. g[0] = <<>> /\ f[0] = <<>>
    BY <1>7 DEF Chosen
  <2>2. 1 \in 0..(n + 1) /\ 1 # 0 /\ 1 - 1 = 0
    OBVIOUS
  <2>3. f[1] = IF h \in T THEN Append(<<>>, h) ELSE <<>>
    BY <1>4, <1>7, <2>1, <2>2 DEF Chosen
  <2>4. Append(<<>>, h) = <<>> \o <<h>> /\ <<h>> \in Seq(S) /\ <<>> \in Seq(S)
    BY <1>4, AppendIsConcat
  <2>5. <<>> \o <<h>> = <<h>> /\ <<h>> \o <<>> = <<h>>
    BY <2>4, ConcatEmptySeq
  <2>6. f[0 + 1] = Led(g[0])
    BY <2>1, <2>3, <2>4, <2>5
  <2>7. g[0] \in Seq(S)
    BY <2>1
  <2> QED
    BY <2>6, <2>7
<1>9. ASSUME NEW i \in K
      PROVE  i + 1 \in K
  <2>1. ASSUME i + 1 <= n
        PROVE  g[i + 1] \in Seq(S) /\ f[(i + 1) + 1] = Led(g[i + 1])
    <3>1. /\ i + 1 \in 0..n /\ i + 1 \in 1..n /\ i + 1 # 0 /\ (i + 1) - 1 = i
          /\ i + 2 \in 0..(n + 1) /\ i + 2 # 0 /\ (i + 2) - 1 = i + 1 /\ (i + 1) + 1 = i + 2
      BY <2>1
    <3>2. PICK e : e = t[i + 1]
      OBVIOUS
    <3>3. e \in S /\ s[i + 2] = e
      BY <1>3, <1>4, <3>1, <3>2, ElementOfSeq
    <3>4. g[i] \in Seq(S) /\ f[i + 1] = Led(g[i])
      BY <2>1
    <3>5. g[i + 1] = IF e \in T THEN Append(g[i], e) ELSE g[i]
      BY <1>7, <3>1, <3>2 DEF Chosen
    <3>6. f[i + 2] = IF e \in T THEN Append(f[i + 1], e) ELSE f[i + 1]
      BY <1>7, <3>1, <3>3 DEF Chosen
    <3>7. <<h>> \o Append(g[i], e) = Append(<<h>> \o g[i], e)
      BY <1>4, <3>3, <3>4, AppendedBehind
    <3>8. g[i + 1] \in Seq(S)
      BY <3>3, <3>4, <3>5, AppendProperties
    <3>9. f[i + 2] = Led(g[i + 1])
      BY <3>4, <3>5, <3>6, <3>7
    <3> QED
      BY <3>1, <3>8, <3>9
  <2> QED
    BY <2>1
<1>10. K = Nat
  <2> HIDE DEF K
  <2>1. K \in SUBSET Nat
    BY DEF K
  <2> QED
    BY <1>8, <1>9, <2>1, Induction
<1>11. f[n + 1] = Led(g[n])
  BY <1>10
<1> QED
  BY <1>1, <1>2, <1>5, <1>6, <1>11

(* x in front of s. *)
Led(x, s) == <<x>> \o s

(* What the entries of q in T carry, oldest first. *)
Picked(q, T, v) == [i \in 1..Len(Those(q, T)) |-> v[Those(q, T)[i]]]

LEMMA PickedType ==
  ASSUME NEW S, NEW q \in Seq(S), NEW T, NEW V, NEW v, \A e \in S \cap T : v[e] \in V
  PROVE  Picked(q, T, v) \in Seq(V)
<1>1. PICK c : c = Those(q, T)
  OBVIOUS
<1>2. c \in Seq(S \cap T)
  BY <1>1, ThoseType
<1>3. PICK n \in Nat : n = Len(c)
  BY <1>2, LenProperties
<1>4. \A i \in 1..n : v[c[i]] \in V
  BY <1>2, <1>3, ElementOfSeq
<1>5. [i \in 1..n |-> v[c[i]]] \in Seq(V)
  BY <1>4
<1> QED
  BY <1>1, <1>3, <1>5 DEF Picked

LEMMA PickedEmpty ==
  ASSUME NEW T, NEW v
  PROVE  Picked(<<>>, T, v) = <<>>
<1>1. Those(<<>>, T) = <<>> /\ Len(<<>>) = 0
  BY ThoseEmpty
<1>2. [i \in 1..0 |-> v[<<>>[i]]] = <<>>
  OBVIOUS
<1> QED
  BY <1>1, <1>2 DEF Picked

LEMMA PickedAppend ==
  ASSUME NEW S, NEW q \in Seq(S), NEW e \in S, NEW T, NEW v
  PROVE  Picked(Append(q, e), T, v) = IF e \in T THEN Append(Picked(q, T, v), v[e])
                                      ELSE Picked(q, T, v)
<1>0. PICK V : V = {v[a] : a \in S \cap T}
  OBVIOUS
<1>1. CASE e \notin T
  <2>1. Those(Append(q, e), T) = Those(q, T)
    BY <1>1, ThoseAppend
  <2> QED
    BY <1>1, <2>1 DEF Picked
<1>2. CASE e \in T
  <2>1. PICK c : c = Those(q, T)
    OBVIOUS
  <2>2. c \in Seq(S \cap T) /\ Those(Append(q, e), T) = Append(c, e)
    <3>1. c \in Seq(S \cap T)
      BY <2>1, ThoseType
    <3>2. Those(Append(q, e), T) = Append(c, e)
      BY <1>2, <2>1, ThoseAppend
    <3> QED
      BY <3>1, <3>2
  <2>3. PICK n \in Nat : n = Len(c)
    BY <2>2, LenProperties
  <2>4. PICK d : d = Append(c, e)
    OBVIOUS
  <2>5. /\ d \in Seq(S \cap T) /\ Len(d) = n + 1 /\ d[n + 1] = e
        /\ \A i \in 1..n : d[i] = c[i]
    BY <1>2, <2>2, <2>3, <2>4, AppendProperties
  <2>6. PICK p : p = Picked(q, T, v)
    OBVIOUS
  <2>7. p \in Seq(V) /\ p = [i \in 1..n |-> v[c[i]]] /\ Len(p) = n /\ v[e] \in V
    <3>1. p = [i \in 1..n |-> v[c[i]]]
      BY <2>1, <2>3, <2>6 DEF Picked
    <3>2. p \in Seq(V)
      BY <1>0, <2>6, PickedType
    <3>3. Len(p) = n
      BY <3>1
    <3> QED
      BY <1>0, <1>2, <3>1, <3>2, <3>3
  <2>8. PICK r : r = Picked(Append(q, e), T, v)
    OBVIOUS
  <2>9. r = [i \in 1..(n + 1) |-> v[d[i]]]
    BY <2>2, <2>4, <2>5, <2>8 DEF Picked
  <2>10. /\ Append(p, v[e]) \in Seq(V) /\ Len(Append(p, v[e])) = n + 1
         /\ Append(p, v[e])[n + 1] = v[e] /\ \A i \in 1..n : Append(p, v[e])[i] = p[i]
    BY <2>7, AppendProperties
  <2>11. r \in Seq(V) /\ Len(r) = n + 1
    <3>1. \A i \in 1..(n + 1) : v[d[i]] \in V
      BY <1>0, <2>5, ElementOfSeq
    <3> QED
      BY <2>9, <3>1
  <2>12. ASSUME NEW i \in 1..(n + 1)
         PROVE  r[i] = Append(p, v[e])[i]
    <3>1. CASE i \in 1..n
      BY <2>5, <2>7, <2>9, <2>10, <3>1
    <3>2. CASE i = n + 1
      BY <2>5, <2>9, <2>10, <3>2
    <3>3. i \in 1..n \/ i = n + 1
      OBVIOUS
    <3> QED
      BY <3>1, <3>2, <3>3
  <2>13. r = Append(p, v[e])
    BY <2>10, <2>11, <2>12, SeqEqual
  <2> QED
    BY <1>2, <2>6, <2>8, <2>13
<1> QED
  BY <1>1, <1>2

LEMMA PickedTail ==
  ASSUME NEW S, NEW q \in Seq(S), q # <<>>, NEW T, NEW v
  PROVE  Picked(q, T, v) = IF Head(q) \in T THEN Led(v[Head(q)], Picked(Tail(q), T, v))
                           ELSE Picked(Tail(q), T, v)
<1>0. PICK V : V = {v[a] : a \in S \cap T}
  OBVIOUS
<1>1. PICK h, t : h = Head(q) /\ t = Tail(q)
  OBVIOUS
<1>2. h \in S /\ t \in Seq(S)
  BY <1>1, HeadTailProperties
<1>3. Those(q, T) = IF h \in T THEN <<h>> \o Those(t, T) ELSE Those(t, T)
  BY <1>1, ThoseTail
<1>4. CASE h \notin T
  BY <1>1, <1>3, <1>4 DEF Picked
<1>5. CASE h \in T
  <2>1. PICK c : c = Those(t, T)
    OBVIOUS
  <2>2. c \in Seq(S \cap T) /\ <<h>> \in Seq(S \cap T)
    BY <1>2, <1>5, <2>1, ThoseType
  <2>3. PICK n \in Nat : n = Len(c)
    BY <2>2, LenProperties
  <2>4. PICK d : d = <<h>> \o c
    OBVIOUS
  <2>5. /\ d \in Seq(S \cap T) /\ Len(d) = n + 1
        /\ \A i \in 1..(n + 1) : d[i] = IF i <= 1 THEN <<h>>[i] ELSE c[i - 1]
    <3>1. Len(<<h>>) = 1 /\ 1 + n = n + 1
      OBVIOUS
    <3> QED
      BY <2>2, <2>3, <2>4, <3>1, ConcatProperties
  <2>6. PICK p : p = Picked(t, T, v)
    OBVIOUS
  <2>7. p \in Seq(V) /\ p = [i \in 1..n |-> v[c[i]]] /\ Len(p) = n /\ v[h] \in V
    <3>1. p = [i \in 1..n |-> v[c[i]]]
      BY <2>1, <2>3, <2>6 DEF Picked
    <3>2. p \in Seq(V)
      BY <1>0, <1>2, <2>6, PickedType
    <3>3. Len(p) = n
      BY <3>1
    <3>4. v[h] \in V
      BY <1>0, <1>2, <1>5
    <3> QED
      BY <3>1, <3>2, <3>3, <3>4
  <2>8. PICK r : r = Picked(q, T, v)
    OBVIOUS
  <2>9. r = [i \in 1..(n + 1) |-> v[d[i]]]
    BY <1>3, <1>5, <2>1, <2>4, <2>5, <2>8 DEF Picked
  <2>10. PICK l : l = <<v[h]>> \o p
    OBVIOUS
  <2>11. /\ l \in Seq(V) /\ Len(l) = n + 1
         /\ \A i \in 1..(n + 1) : l[i] = IF i <= 1 THEN <<v[h]>>[i] ELSE p[i - 1]
    <3>1. Len(<<v[h]>>) = 1 /\ <<v[h]>> \in Seq(V) /\ 1 + n = n + 1
      BY <2>7
    <3> QED
      BY <2>7, <2>10, <3>1, ConcatProperties
  <2>12. r \in Seq(V) /\ Len(r) = n + 1
    <3>1. \A i \in 1..(n + 1) : v[d[i]] \in V
      BY <1>0, <2>5, ElementOfSeq
    <3> QED
      BY <2>9, <3>1
  <2>13. ASSUME NEW i \in 1..(n + 1)
         PROVE  r[i] = l[i]
    <3>1. CASE i = 1
      BY <2>5, <2>9, <2>11, <3>1
    <3>2. CASE i # 1
      <4>1. i - 1 \in 1..n /\ ~(i <= 1)
        BY <3>2
      <4> QED
        BY <2>5, <2>7, <2>9, <2>11, <4>1
    <3> QED
      BY <3>1, <3>2
  <2>14. r = l
    BY <2>11, <2>12, <2>13, SeqEqual
  <2> QED
    BY <1>1, <1>5, <2>6, <2>8, <2>10, <2>14 DEF Led
<1> QED
  BY <1>4, <1>5 DEF Led

(* In a row of FIFOs, an item that one passes on to the next stays where it *)
(* is between those before and those behind it.                            *)
LEMMA PassedOn ==
  ASSUME NEW V, NEW x \in V, NEW A \in Seq(V), NEW B \in Seq(V)
  PROVE  A \o Led(x, B) = Append(A, x) \o B
<1>1. <<x>> \in Seq(V)
  OBVIOUS
<1>2. Append(A, x) = A \o <<x>>
  BY AppendIsConcat
<1>3. (A \o <<x>>) \o B = A \o (<<x>> \o B)
  BY <1>1, ConcatAssociative
<1> QED
  BY <1>2, <1>3 DEF Led

(* The first item of a row of FIFOs. *)
LEMMA LedBy ==
  ASSUME NEW V, NEW a \in Seq(V), NEW x \in V
  PROVE  Led(x, a) # <<>> /\ Tail(Led(x, a)) = a
<1>1. <<x>> \in Seq(V) /\ Len(<<x>>) = 1
  OBVIOUS
<1>2. PICK n \in Nat : n = Len(a)
  BY LenProperties
<1>3. PICK l : l = <<x>> \o a
  OBVIOUS
<1>4. l \in Seq(V) /\ Len(l) = 1 + n /\ \A i \in 1..(1 + n) : l[i] = IF i <= 1 THEN <<x>>[i] ELSE a[i - 1]
  BY <1>1, <1>2, <1>3, ConcatProperties
<1>5. l # <<>>
  BY <1>4, EmptySeq
<1>6. PICK t : t = Tail(l)
  OBVIOUS
<1>7. t \in Seq(V) /\ Len(t) = n /\ \A i \in 1..n : t[i] = l[i + 1]
  BY <1>4, <1>5, <1>6, HeadTailProperties
<1>8. ASSUME NEW i \in 1..n
      PROVE  t[i] = a[i]
  <2>1. i + 1 \in 1..(1 + n) /\ ~(i + 1 <= 1) /\ (i + 1) - 1 = i
    OBVIOUS
  <2> QED
    BY <1>4, <1>7, <2>1
<1>9. t = a
  BY <1>2, <1>7, <1>8, SeqEqual
<1> QED
  BY <1>3, <1>5, <1>6, <1>9 DEF Led

(* What deq on one FIFO of a family does to what is picked from it. *)
LEMMA PickedDeq ==
  ASSUME NEW D, NEW S, NEW q, q \in FifoFamily(D, S), NEW k \in D, q[k] # <<>>,
         NEW e, e = Head(q[k]), NEW T, NEW v, NEW i \in D
  PROVE  /\ e \in S
         /\ Deq(q, k)[i] \in Seq(S)
         /\ Picked(q[i], T, v) = IF i = k /\ e \in T THEN Led(v[e], Picked(Deq(q, k)[i], T, v))
                                 ELSE Picked(Deq(q, k)[i], T, v)
<1>1. q \in [D -> Seq(S)] /\ q[i] \in Seq(S) /\ q[k] \in Seq(S)
  BY DEF FifoFamily
<1>2. Deq(q, k)[i] = IF i = k THEN Tail(q[i]) ELSE q[i]
  BY <1>1 DEF Deq
<1>3. i = k => Picked(q[i], T, v) = IF e \in T THEN Led(v[e], Picked(Tail(q[i]), T, v))
                                    ELSE Picked(Tail(q[i]), T, v)
  BY <1>1, PickedTail
<1>4. i = k => Tail(q[i]) \in Seq(S)
  BY <1>1, HeadTailProperties
<1>5. e \in S
  BY <1>1, HeadTailProperties
<1> QED
  BY <1>1, <1>2, <1>3, <1>4, <1>5

(* What the FIFOs between two users hold of one flow, in a row. *)
Row(r, n, p, h) == r \o n \o p \o h

LEMMA RowType ==
  ASSUME NEW V, NEW r \in Seq(V), NEW n \in Seq(V), NEW p \in Seq(V), NEW h \in Seq(V)
  PROVE  Row(r, n, p, h) \in Seq(V)
<1>1. r \o n \in Seq(V)
  BY ConcatProperties
<1>2. r \o n \o p \in Seq(V)
  BY <1>1, ConcatProperties
<1> QED
  BY <1>2, ConcatProperties DEF Row

(* An item that moves up in the row, enters it at its end and leaves it. *)
LEMMA RowMoves ==
  ASSUME NEW V, NEW r \in Seq(V), NEW n \in Seq(V), NEW p \in Seq(V), NEW h \in Seq(V), NEW x \in V
  PROVE  /\ Row(r, n, Append(p, x), h) = Row(r, n, p, Led(x, h))
         /\ Row(r, Append(n, x), p, h) = Row(r, n, Led(x, p), h)
         /\ Row(Append(r, x), n, p, h) = Row(r, Led(x, n), p, h)
<1>1. PICK a : a = r \o n
  OBVIOUS
<1>2. a \in Seq(V)
  BY <1>1, ConcatProperties
<1>3. PICK b : b = a \o p
  OBVIOUS
<1>4. b \in Seq(V)
  BY <1>2, <1>3, ConcatProperties
<1>5. (a \o Append(p, x)) \o h = b \o Led(x, h)
  <2>1. a \o Append(p, x) = Append(b, x)
    BY <1>2, <1>3, AppendedBehind
  <2>2. b \o Led(x, h) = Append(b, x) \o h
    BY <1>4, PassedOn
  <2> QED
    BY <2>1, <2>2
<1>6. (r \o Append(n, x)) \o p = a \o Led(x, p)
  <2>1. r \o Append(n, x) = Append(a, x)
    BY <1>1, AppendedBehind
  <2>2. a \o Led(x, p) = Append(a, x) \o p
    BY <1>2, PassedOn
  <2> QED
    BY <2>1, <2>2
<1>7. Append(r, x) \o n = r \o Led(x, n)
  BY PassedOn
<1> QED
  BY <1>1, <1>3, <1>5, <1>6, <1>7 DEF Row

(* t is s with x behind it. *)
Grown(t, s, x) == t = Append(s, x)

LEMMA RowPut ==
  ASSUME NEW V, NEW r \in Seq(V), NEW n \in Seq(V), NEW p \in Seq(V), NEW h \in Seq(V), NEW x \in V
  PROVE  Grown(Row(r, n, p, Append(h, x)), Row(r, n, p, h), x)
<1>1. r \o n \in Seq(V)
  BY ConcatProperties
<1>2. r \o n \o p \in Seq(V)
  BY <1>1, ConcatProperties
<1> QED
  BY <1>2, AppendedBehind DEF Row, Grown

LEMMA RowTake ==
  ASSUME NEW V, NEW r \in Seq(V), NEW n \in Seq(V), NEW p \in Seq(V), NEW h \in Seq(V), NEW x \in V
  PROVE  Row(Led(x, r), n, p, h) = Led(x, Row(r, n, p, h))
<1>1. PICK a : a = r \o n
  OBVIOUS
<1>2. a \in Seq(V)
  BY <1>1, ConcatProperties
<1>3. PICK b : b = a \o p
  OBVIOUS
<1>4. b \in Seq(V)
  BY <1>2, <1>3, ConcatProperties
<1>5. Led(x, r) \o n = Led(x, r \o n)
  BY ConcatAssociative DEF Led
<1>6. Led(x, a) \o p = Led(x, a \o p)
  BY <1>2, ConcatAssociative DEF Led
<1>7. Led(x, b) \o h = Led(x, b \o h)
  BY <1>4, ConcatAssociative DEF Led
<1> QED
  BY <1>1, <1>3, <1>5, <1>6, <1>7 DEF Row

(* The same for three sequences in a row. *)
Pipe(o, q, i) == o \o q \o i

LEMMA PipeType ==
  ASSUME NEW V, NEW o \in Seq(V), NEW q \in Seq(V), NEW i \in Seq(V)
  PROVE  Pipe(o, q, i) \in Seq(V)
<1>1. o \o q \in Seq(V)
  BY ConcatProperties
<1> QED
  BY <1>1, ConcatProperties DEF Pipe

LEMMA PipePut ==
  ASSUME NEW V, NEW o \in Seq(V), NEW q \in Seq(V), NEW i \in Seq(V), NEW x \in V
  PROVE  Grown(Pipe(o, q, Append(i, x)), Pipe(o, q, i), x)
<1>1. o \o q \in Seq(V)
  BY ConcatProperties
<1> QED
  BY <1>1, AppendedBehind DEF Pipe, Grown

LEMMA PipeFirstMove ==
  ASSUME NEW V, NEW o \in Seq(V), NEW q \in Seq(V), NEW i \in Seq(V), NEW x \in V
  PROVE  Pipe(o, Append(q, x), i) = Pipe(o, q, Led(x, i))
<1>1. PICK a : a = o \o q
  OBVIOUS
<1>2. a \in Seq(V)
  BY <1>1, ConcatProperties
<1>3. o \o Append(q, x) = Append(a, x)
  BY <1>1, AppendedBehind
<1>4. a \o Led(x, i) = Append(a, x) \o i
  BY <1>2, PassedOn
<1> QED
  BY <1>1, <1>3, <1>4 DEF Pipe

LEMMA PipeSecondMove ==
  ASSUME NEW V, NEW o \in Seq(V), NEW q \in Seq(V), NEW i \in Seq(V), NEW x \in V
  PROVE  Pipe(Append(o, x), q, i) = Pipe(o, Led(x, q), i)
<1>1. Append(o, x) \o q = o \o Led(x, q)
  BY PassedOn
<1> QED
  BY <1>1 DEF Pipe

LEMMA PipeTake ==
  ASSUME NEW V, NEW o \in Seq(V), NEW q \in Seq(V), NEW i \in Seq(V), NEW x \in V
  PROVE  Pipe(Led(x, o), q, i) = Led(x, Pipe(o, q, i))
<1>1. PICK a : a = o \o q
  OBVIOUS
<1>2. a \in Seq(V)
  BY <1>1, ConcatProperties
<1>3. Led(x, o) \o q = Led(x, a)
  BY <1>1, ConcatAssociative DEF Led
<1>4. Led(x, a) \o i = Led(x, a \o i)
  BY <1>2, ConcatAssociative DEF Led
<1> QED
  BY <1>1, <1>3, <1>4 DEF Pipe

(* What a sequence is with x in front of it. *)
Leads(l, x, s, n) == Len(l) = n + 1 /\ l[1] = x /\ \A i \in 1..n : l[i + 1] = s[i]

LEMMA LedType ==
  ASSUME NEW V, NEW s \in Seq(V), NEW x \in V
  PROVE  Led(x, s) \in Seq(V)
<1>1. <<x>> \in Seq(V)
  OBVIOUS
<1> QED
  BY <1>1, ConcatProperties DEF Led

LEMMA LedShape ==
  ASSUME NEW V, NEW s \in Seq(V), NEW x \in V, NEW n \in Nat, n = Len(s), NEW l, l = Led(x, s)
  PROVE  Leads(l, x, s, n)
<1>1. PICK o : o = <<x>>
  OBVIOUS
<1>2. o \in Seq(V) /\ Len(o) = 1 /\ o[1] = x
  BY <1>1
<1>3. /\ l \in Seq(V) /\ Len(l) = n + 1
      /\ \A i \in 1..(n + 1) : l[i] = IF i <= 1 THEN o[i] ELSE s[i - 1]
  <2>1. 1 + n = n + 1
    OBVIOUS
  <2> QED
    BY <1>1, <1>2, <2>1, ConcatProperties DEF Led
<1>4. l[1] = x
  BY <1>2, <1>3
<1>5. ASSUME NEW i \in 1..n
      PROVE  l[i + 1] = s[i]
  <2>1. i + 1 \in 1..(n + 1) /\ ~(i + 1 <= 1) /\ (i + 1) - 1 = i
    OBVIOUS
  <2> QED
    BY <1>3, <2>1
<1> QED
  BY <1>3, <1>4, <1>5 DEF Leads

LEMMA LedHead ==
  ASSUME NEW V, NEW s \in Seq(V), s # <<>>
  PROVE  s = Led(Head(s), Tail(s))
<1>1. PICK x, t : x = Head(s) /\ t = Tail(s)
  OBVIOUS
<1>2. PICK n \in Nat : n = Len(t)
  BY <1>1, LenProperties, HeadTailProperties
<1>3. /\ x \in V /\ t \in Seq(V) /\ Len(s) = n + 1 /\ s[1] = x
      /\ \A i \in 1..n : t[i] = s[i + 1]
  BY <1>1, <1>2, HeadTailProperties
<1>4. PICK l : l = Led(x, t)
  OBVIOUS
<1>5. l \in Seq(V)
  BY <1>3, <1>4, LedType
<1>6. Leads(l, x, t, n)
  BY <1>2, <1>3, <1>4, LedShape
<1>7. ASSUME NEW i \in 1..(n + 1)
      PROVE  s[i] = l[i]
  <2>1. CASE i = 1
    BY <1>3, <1>6, <2>1 DEF Leads
  <2>2. CASE i # 1
    <3>1. PICK j \in 1..n : i = j + 1
      <4>1. i - 1 \in 1..n /\ i = (i - 1) + 1
        BY <2>2
      <4> QED
        BY <4>1
    <3> QED
      BY <1>3, <1>6, <3>1 DEF Leads
  <2> QED
    BY <2>1, <2>2
<1>8. Len(l) = n + 1
  BY <1>6 DEF Leads
<1>9. s = l
  BY <1>3, <1>5, <1>7, <1>8, SeqEqual
<1> QED
  BY <1>1, <1>4, <1>9
=============================================================================
