---------------------------- MODULE HostScripts ----------------------------
(***************************************************************************)
(* What the host programs are written in: the loops of their mains over    *)
(* nodes, buses, chips, blocks and pages, their waits, and the handlers    *)
(* their callbacks are copies of.                                          *)
(***************************************************************************)
EXTENDS CardContents, Sequences, FiniteSets, TLC

CONSTANTS
  Nodes, Buses, Chips, Blocks, Pages,  \* how many of each
  Rounds                                        \* bound: passes of a loop that reads all again

ASSUME CardAssumption == {Nodes, Buses, Chips, Blocks, Pages, Rounds} \subseteq Nat \ {0}

CardPage == [node : 0..(Nodes - 1), bus : 0..(Buses - 1), chip : 0..(Chips - 1),
         blk : 0..(Blocks - 1), page : 0..(Pages - 1)]
CardBlockOf(p) == [p EXCEPT !.page = 0]

AllPages == {p \in CardPage : p.node = 0}         \* of the only card
FirstPages == {p \in AllPages : p.page = 0}
EveryNode == {p \in CardPage : p.page = 0}

(* The pages of S in the order of nested loops, the outermost field first. *)
Precedes(p, q, fields) ==
  \E i \in DOMAIN fields : /\ p[fields[i]] < q[fields[i]]
                           /\ \A j \in 1..(i - 1) : p[fields[j]] = q[fields[j]]
Sweep(S, fields) ==
  [i \in 1..Cardinality(S) |->
     CHOOSE p \in S : Cardinality({q \in S : Precedes(q, p, fields)}) = i - 1]

BlkChipBus == <<"blk", "chip", "bus">>
BusBlkChip == <<"bus", "blk", "chip">>
BlkChipBusNode == <<"blk", "chip", "bus", "node">>
PageBlkChipBus == <<"page", "blk", "chip", "bus">>
BlkPageChipBus == <<"blk", "page", "chip", "bus">>

Each(kind, pages) == [i \in DOMAIN pages |-> [do |-> kind, pages |-> {pages[i]}]]
EraseAll(pages) == Each("erase", pages)
WriteAll(pages) == Each("write", pages)
ReadAll(pages) == Each("read", pages)
ReadRandom(S) == <<[do |-> "read", pages |-> S]>>
Drain(kind) == <<[do |-> "drain", kind |-> kind]>>
Clear == <<[do |-> "clear"]>>
Begin == <<[do |-> "begin"]>>
Verdict == <<[do |-> "report"]>>


(* Steps(i) for each i from 0 to n - 1, one after the other *)
ForEach(n, Steps(_)) ==
  LET upTo[i \in 0..n] == IF i = 0 THEN << >> ELSE upTo[i - 1] \o Steps(i - 1)
  IN  upTo[n]

(* What fills a page: the hash of its address in units of 2^16, below      *)
(* which it counts words.                                                  *)
HashBusChipBlk(p) == Data(p.bus * 256 + p.chip * 16 + p.blk)
HashNode(p) == Data(p.node * 2048 + p.bus * 256 + p.chip * 16 + p.blk)
Golden(Hash(_)) == [p \in CardPage |-> Hash(p)]

(***************************************************************************)
(* The handlers.  All but one free the tag; they differ in whether they    *)
(* count down for a tag that is not busy, stop the count at zero, or fail  *)
(* the test.                                                               *)
(***************************************************************************)
Plain == [ifBusy |-> FALSE, clamps |-> FALSE, flags |-> FALSE, frees |-> TRUE, recounts |-> FALSE]
Flagged == [Plain EXCEPT !.flags = TRUE]
Clamped == [Flagged EXCEPT !.clamps = TRUE]
Recounted == [Clamped EXCEPT !.recounts = TRUE]
Silent == [Plain EXCEPT !.ifBusy = TRUE]
Tolerant == [Silent EXCEPT !.flags = TRUE]
CountOnly == [Plain EXCEPT !.frees = FALSE]

Done(read, write, erase) == [read |-> read, write |-> write, erase |-> erase]

(* What callbacks and requests do unless a program says otherwise: no data *)
(* is checked, the status of an erase is only printed, and tags come from  *)
(* the tables.                                                             *)
Callbacks == [check |-> "none", zeroOK |-> FALSE, skipsBad |-> FALSE, eraseStatus |-> "log"]
Requests == [tracks |-> {"erase", "write"}, records |-> {"read"}, keepsBad |-> FALSE, queued |-> FALSE]
Untracked == [Requests EXCEPT !.tracks = {}, !.records = {}]
=============================================================================
