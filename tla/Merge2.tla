-------------------------------- MODULE Merge2 --------------------------------
(***************************************************************************)
(* mkMerge2 (src/src/lib/Merge2.bsv): two FIFOs merged into one, by a rule *)
(* that prefers one input and then the other.  The rule also fires, and    *)
(* changes its preference, while both inputs are empty; so the preference  *)
(* that an entry finds there is any, and to keep the states few it is 1    *)
(* until then.                                                             *)
(***************************************************************************)
EXTENDS Sequences, Integers

Input == 1..2

(* A merge of entries in T, and the merge at reset. *)
MergeOf(T) == [in : [Input -> Seq(T)], out : Seq(T), prio : Input]
EmptyMerge == [in |-> [i \in Input |-> <<>>], out |-> <<>>, prio |-> 1]

Waiting(m) == \E i \in Input : m.in[i] # <<>>
HasRoom(m, i, depth) == Len(m.in[i]) < depth

(* enq1 and enq2: what m can be after e entered by input i. *)
Entered(m, i, e) ==
  {[m EXCEPT !.in[i] = Append(@, e), !.prio = p] : p \in IF Waiting(m) THEN {m.prio} ELSE Input}

(* The rule merge: the preferred input, or else the other, moves on. *)
Chosen(m) == IF m.in[m.prio] # <<>> THEN m.prio ELSE 3 - m.prio
Stubborn(m) ==  \* a mutant: the preference stays
  LET i == Chosen(m) IN [m EXCEPT !.in[i] = Tail(@), !.out = Append(@, Head(m.in[i]))]
Merged(m) ==
  LET moved == [m EXCEPT !.in[Chosen(m)] = Tail(@), !.out = Append(@, Head(m.in[Chosen(m)]))]
  IN [moved EXCEPT !.prio = IF Waiting(moved) THEN 3 - @ ELSE 1]

(* deq. *)
Left(m) == [m EXCEPT !.out = Tail(@)]
=============================================================================
