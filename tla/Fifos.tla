-------------------------------- MODULE Fifos --------------------------------
(***************************************************************************)
(* Families of FIFOs, one per node, chip, lane or pair, and counting in    *)
(* them.  The hardware keeps its credits in registers and what the credits *)
(* stand for in FIFOs; the conservation laws relate the two, so they count *)
(* the entries of a FIFO that belong to one peer.  What a channel promises *)
(* is about the entries of one flow, picked from FIFOs that flows share.   *)
(***************************************************************************)
EXTENDS Integers, Sequences, FiniteSets

(* A FIFO of entries in T for every member of D. *)
FifoFamily(D, T) == [D -> Seq(T)]

(* q[k].enq(e) and q[k].deq. *)
Enq(q, k, e) == [q EXCEPT ![k] = Append(@, e)]
Deq(q, k) == [q EXCEPT ![k] = Tail(@)]

(* How many entries of the FIFO q are in the set S. *)
Occurs(q, S) == Cardinality({i \in 1..Len(q) : q[i] \in S})

(* Those entries of the FIFO q that are in the set S, oldest first. *)
Those(q, S) ==
  LET those[i \in 0..Len(q)] ==
        IF i = 0 THEN <<>>
        ELSE IF q[i] \in S THEN Append(those[i - 1], q[i]) ELSE those[i - 1]
  IN those[Len(q)]
=============================================================================
