--------------------------- MODULE AuroraArbiterBar ---------------------------
(***************************************************************************)
(* mkAuroraExtArbiterBar (src/src/lib/AuroraExtArbiterBar.bsv) on every    *)
(* node of a chain: the fabric below the endpoints.  A node is joined to   *)
(* its upper and its lower neighbour by two links each; what goes one way  *)
(* is dealt out to the two links in turn and collected from them in turn.  *)
(* Packets for other nodes are passed on, merged with the node's own.      *)
(*                                                                         *)
(* A link is a FIFO channel per direction (what AuroraLink shows).  A FIFO *)
(* behind the outQ of a merge (outQup, outQdown, outQep, inQep) only moves *)
(* its packets along and is one FIFO with it; the two links of a direction *)
(* and the FIFO they are collected in are kept, since there the order is   *)
(* at stake.                                                               *)
(***************************************************************************)
EXTENDS Fifos, Functions, FiniteSetsExt, Merge2

CONSTANTS
  NodeCount,      \* the nodes of the chain
  EndpointCount,  \* tEndpointCount, 2 in remoteaccess and 5 in the multi-node projects
  Flows,          \* the <<source, sink, endpoint>> triples that are sent on
  Item,           \* payloads
  Handed,         \* Handed[f]: the payloads that are sent on f
  Window,         \* Window[f]: packets that f has out at most, its endpoint's credits
  InFlight,       \* packets on their way at any time, a bound of the model
  InDepth,        \* depth of the FIFOs into a merge, 2
  OutDepth,       \* depth of a merge's outQ and the FIFO behind it
  LinkDepth,      \* packets on a link
  NoId            \* myId before setMyId

Node == 1..NodeCount
Endpoint == 0..(EndpointCount - 1)
(* vMerge has one merge less than there are endpoints. *)
Level == 1..(EndpointCount - 1)

ASSUME BarAssumption ==
  /\ NodeCount \in Nat \ {0} /\ EndpointCount \in Nat /\ EndpointCount >= 2
  /\ Flows \subseteq Node \X Node \X Endpoint
  /\ {InFlight, InDepth, OutDepth, LinkDepth} \subseteq Nat \ {0}
  /\ Handed \in [Flows -> SUBSET Item] /\ Window \in [Flows -> Nat \ {0}]
  /\ NoId \notin Node

(* The two ways of the chain, the ports of a node and where their cables  *)
(* end: port 3 connects to port 0 and port 2 to port 1 of the lower node.  *)
Way == {"up", "down"}
SameSide(w) == w                                   \* a mutant
Across(w) == IF w = "up" THEN "down" ELSE "up"
Port(w, k) == IF w = "up" THEN k ELSE 3 - k
Cable(n, p) == IF p <= 1 THEN <<n + 1, 3 - p>> ELSE <<n - 1, 3 - p>>
Outlet == Node \X (0..3)

(* The endpoint of a packet is its type; the arbiter fills in the source. *)
Packet == [src : Node \cup {NoId}, dst : Node, ptype : Endpoint, item : Item]
FlowOf(d) == <<d.src, d.dst, d.ptype>>

VARIABLES
  myId,        \* myId[n]
  vMerge,      \* vMerge[n][i]: what the endpoints of n send
  mergeOut,    \* mergeOut[<<n, w>>]: mergeUpOut and mergeDownOut of n
  outQoff,     \* outQoff[<<n, w>>]: outQupOff and outQdownOff
  link,        \* link[<<n, p>>]: packets that left n by its port p
  inQoff,      \* inQoff[<<n, w>>]: inQupOff and inQdownOff
  inQ,         \* inQ[<<n, w>>]: inQup and inQdown
  mergeEpOut,  \* mergeEpOut[n]: packets for the endpoints of n
  chan         \* chan[f]: what is on its way on f, oldest first (history)

vars == <<myId, vMerge, mergeOut, outQoff, link, inQoff, inQ, mergeEpOut, chan>>

Init ==
  /\ myId = [n \in Node |-> NoId]
  /\ vMerge = [n \in Node |-> [i \in Level |-> EmptyMerge]]
  /\ mergeOut = [b \in Node \X Way |-> EmptyMerge]
  /\ outQoff = [b \in Node \X Way |-> 0]
  /\ link = [o \in Outlet |-> <<>>]
  /\ inQoff = [b \in Node \X Way |-> 0]
  /\ inQ = [b \in Node \X Way |-> <<>>]
  /\ mergeEpOut = [n \in Node |-> EmptyMerge]
  /\ chan = [f \in Flows |-> <<>>]
-----------------------------------------------------------------------------
(* Where the packets of endpoint e enter the merges: rin0 and rinn. *)
EntryLevel(e) == IF e = 0 THEN 1 ELSE e
EntryInput(e) == IF e = 0 THEN 2 ELSE 1

(* setMyId: the host of every node names it once (setNetId). *)
SetMyId(n) ==
  /\ myId[n] = NoId
  /\ myId' = [myId EXCEPT ![n] = n]
  /\ UNCHANGED <<vMerge, mergeOut, outQoff, link, inQoff, inQ, mergeEpOut, chan>>

(* rin0 and rinn: the endpoint of a flow, which has credit, sends a packet. *)
Rin(f, x) ==
  LET n == f[1]
      l == EntryLevel(f[3])
      d == [src |-> NoId, dst |-> f[2], ptype |-> f[3], item |-> x]
  IN /\ Len(chan[f]) < Window[f]
     /\ MapThenSumSet(LAMBDA g : Len(chan[g]), Flows) < InFlight
     /\ chan' = Enq(chan, f, x)
     /\ HasRoom(vMerge[n][l], EntryInput(f[3]), InDepth)
     /\ \E m \in Entered(vMerge[n][l], EntryInput(f[3]), d) :
          vMerge' = [vMerge EXCEPT ![n][l] = m]
     /\ UNCHANGED <<myId, mergeOut, outQoff, link, inQoff, inQ, mergeEpOut>>

(* rell: what left one merge of the endpoints enters the next. *)
Rell(n, i) ==
  LET d == Head(vMerge[n][i].out)
  IN /\ i + 1 \in Level
     /\ vMerge[n][i].out # <<>>
     /\ HasRoom(vMerge[n][i + 1], 2, InDepth)
     /\ \E m \in Entered(vMerge[n][i + 1], 2, d) :
          vMerge' = [vMerge EXCEPT ![n][i] = Left(@), ![n][i + 1] = m]
     /\ UNCHANGED <<myId, mergeOut, outQoff, link, inQoff, inQ, mergeEpOut, chan>>

(* A packet is handed to the merge of n that goes the way w. *)
PassOn(n, w, i, d) ==
  /\ HasRoom(mergeOut[<<n, w>>], i, InDepth)
  /\ \E m \in Entered(mergeOut[<<n, w>>], i, d) :
       mergeOut' = [mergeOut EXCEPT ![<<n, w>>] = m]

(* handleEpIn: an own packet goes up or down; one for the node is dropped. *)
HandleEpIn(n) ==
  LET last == EndpointCount - 1
      d == [Head(vMerge[n][last].out) EXCEPT !.src = myId[n]]
  IN /\ myId[n] # NoId
     /\ vMerge[n][last].out # <<>>
     /\ \/ d.dst > myId[n] /\ PassOn(n, "up", 2, d) /\ UNCHANGED chan
        \/ d.dst < myId[n] /\ PassOn(n, "down", 2, d) /\ UNCHANGED chan
        \/ d.dst = myId[n] /\ UNCHANGED mergeOut /\ chan' = Deq(chan, FlowOf(d))
     /\ vMerge' = [vMerge EXCEPT ![n][last] = Left(@)]
     /\ UNCHANGED <<myId, outQoff, link, inQoff, inQ, mergeEpOut>>

(* handleUpIn and handleDownIn: what came from the side w is for the node, *)
(* or goes on to the other side.  An own packet that comes back is dropped. *)
EpInput(w) == IF w = "up" THEN 1 ELSE 2

HandleIn(n, w) ==
  LET d == Head(inQ[<<n, w>>])
  IN /\ myId[n] # NoId
     /\ inQ[<<n, w>>] # <<>>
     /\ \/ /\ d.dst = myId[n]
           /\ d.src # myId[n] => HasRoom(mergeEpOut[n], EpInput(w), InDepth)
           /\ mergeEpOut' \in IF d.src = myId[n] THEN {mergeEpOut}
                             ELSE {[mergeEpOut EXCEPT ![n] = m] :
                                     m \in Entered(mergeEpOut[n], EpInput(w), d)}
           /\ UNCHANGED mergeOut
        \/ /\ d.dst # myId[n]
           /\ PassOn(n, Across(w), 1, d)
           /\ UNCHANGED mergeEpOut
     /\ inQ' = Deq(inQ, <<n, w>>)
     /\ UNCHANGED <<myId, vMerge, outQoff, link, inQoff, chan>>

(* The rule merge of each merge. *)
MergeUpDown(n, w) ==
  /\ Waiting(mergeOut[<<n, w>>])
  /\ Len(mergeOut[<<n, w>>].out) < OutDepth
  /\ mergeOut' = [mergeOut EXCEPT ![<<n, w>>] = Merged(@)]
  /\ UNCHANGED <<myId, vMerge, outQoff, link, inQoff, inQ, mergeEpOut, chan>>

MergeEp(n) ==
  /\ Waiting(mergeEpOut[n])
  /\ Len(mergeEpOut[n].out) < OutDepth
  /\ mergeEpOut' = [mergeEpOut EXCEPT ![n] = Merged(@)]
  /\ UNCHANGED <<myId, vMerge, mergeOut, outQoff, link, inQoff, inQ, chan>>

MergeEndpoints(n, i) ==
  /\ Waiting(vMerge[n][i])
  /\ Len(vMerge[n][i].out) < OutDepth
  /\ vMerge' = [vMerge EXCEPT ![n][i] = Merged(@)]
  /\ UNCHANGED <<myId, mergeOut, outQoff, link, inQoff, inQ, mergeEpOut, chan>>

(* As a mutant: the turn is counted on, not taken modulo the two links. *)
ScatterOn(n, w) ==
  LET o == <<n, Port(w, outQoff[<<n, w>>])>>
  IN /\ mergeOut[<<n, w>>].out # <<>>
     /\ Len(link[o]) < LinkDepth
     /\ link' = Enq(link, o, Head(mergeOut[<<n, w>>].out))
     /\ outQoff' = [outQoff EXCEPT ![<<n, w>>] = @ + 1]
     /\ mergeOut' = [mergeOut EXCEPT ![<<n, w>>] = Left(@)]
     /\ UNCHANGED <<myId, vMerge, inQoff, inQ, mergeEpOut, chan>>

(* scatterOutUp and scatterOutDown: the links of a way take turns. *)
Scatter(n, w) ==
  LET o == <<n, Port(w, outQoff[<<n, w>>])>>
  IN /\ mergeOut[<<n, w>>].out # <<>>
     /\ Len(link[o]) < LinkDepth
     /\ link' = Enq(link, o, Head(mergeOut[<<n, w>>].out))
     /\ outQoff' = [outQoff EXCEPT ![<<n, w>>] = 1 - @]
     /\ mergeOut' = [mergeOut EXCEPT ![<<n, w>>] = Left(@)]
     /\ UNCHANGED <<myId, vMerge, inQoff, inQ, mergeEpOut, chan>>

(* As a mutant: whichever link has a packet is read. *)
CollectAny(n, w) ==
  \E k \in 0..1 : LET o == Cable(n, Port(w, k))
    IN /\ o \in Outlet
       /\ link[o] # <<>>
       /\ inQ[<<n, w>>] = <<>>
       /\ inQ' = Enq(inQ, <<n, w>>, Head(link[o]))
       /\ link' = Deq(link, o)
       /\ UNCHANGED <<myId, vMerge, mergeOut, outQoff, inQoff, mergeEpOut, chan>>

(* collectInUp and collectInDown: so do they at the other end. *)
Collect(n, w) ==
  LET o == Cable(n, Port(w, inQoff[<<n, w>>]))
  IN /\ o \in Outlet
     /\ link[o] # <<>>
     /\ inQ[<<n, w>>] = <<>>
     /\ inQ' = Enq(inQ, <<n, w>>, Head(link[o]))
     /\ link' = Deq(link, o)
     /\ inQoff' = [inQoff EXCEPT ![<<n, w>>] = 1 - @]
     /\ UNCHANGED <<myId, vMerge, mergeOut, outQoff, mergeEpOut, chan>>

(* rOut: the endpoint that the packet's type names takes it.  It always   *)
(* can: FabricNeverBlocked and RecvQNeverFull of the endpoint modules.     *)
ROut(n) ==
  /\ mergeEpOut[n].out # <<>>
  /\ mergeEpOut' = [mergeEpOut EXCEPT ![n] = Left(@)]
  /\ chan' = Deq(chan, FlowOf(Head(mergeEpOut[n].out)))
  /\ UNCHANGED <<myId, vMerge, mergeOut, outQoff, link, inQoff, inQ>>

Next ==
  \/ \E n \in Node : SetMyId(n)
  \/ \E f \in Flows : \E x \in Handed[f] : Rin(f, x)
  \/ \E n \in Node, i \in Level : Rell(n, i) \/ MergeEndpoints(n, i)
  \/ \E n \in Node : HandleEpIn(n) \/ MergeEp(n) \/ ROut(n)
  \/ \E n \in Node, w \in Way :
       HandleIn(n, w) \/ MergeUpDown(n, w) \/ Scatter(n, w) \/ Collect(n, w)

Spec == Init /\ [][Next]_vars

(* A rule that stays enabled fires and every host names its node; nothing  *)
(* obliges an endpoint to send.                                            *)
Fairness ==
  /\ \A n \in Node : /\ WF_vars(SetMyId(n)) /\ WF_vars(HandleEpIn(n))
                     /\ WF_vars(MergeEp(n)) /\ WF_vars(ROut(n))
  /\ \A n \in Node, i \in Level : WF_vars(Rell(n, i)) /\ WF_vars(MergeEndpoints(n, i))
  /\ \A n \in Node, w \in Way : /\ WF_vars(HandleIn(n, w)) /\ WF_vars(MergeUpDown(n, w))
                                /\ WF_vars(Scatter(n, w)) /\ WF_vars(Collect(n, w))

FairSpec == Spec /\ Fairness
-----------------------------------------------------------------------------
(* Every register and FIFO holds what its declaration says. *)
TypeOK ==
  /\ myId \in [Node -> Node \cup {NoId}]
  /\ vMerge \in [Node -> [Level -> MergeOf(Packet)]]
  /\ mergeOut \in [Node \X Way -> MergeOf(Packet)]
  /\ outQoff \in [Node \X Way -> {0, 1}]
  /\ link \in FifoFamily(Outlet, Packet)
  /\ inQoff \in [Node \X Way -> {0, 1}]
  /\ inQ \in FifoFamily(Node \X Way, Packet)
  /\ mergeEpOut \in [Node -> MergeOf(Packet)]
  /\ chan \in [Flows -> Seq(Item)]

Through(m, i) == m.out \o m.in[i]

(* The packets that n has for the way w, or has sent that way. *)
Leaving(n, w) ==
  Range(Through(mergeOut[<<n, w>>], 1)) \cup Range(mergeOut[<<n, w>>].in[2])
  \cup UNION {Range(link[<<n, Port(w, k)>>]) : k \in 0..1}

(* Every hop brings a packet nearer to its sink, so none is passed beyond   *)
(* the end of the chain, and none comes back to its source, which          *)
(* handleUpIn and handleDownIn would drop ("This should not happen").      *)
EveryHopNearer ==
  \A n \in Node :
    /\ \A d \in Leaving(n, "up") : d.src <= n /\ n < d.dst
    /\ \A d \in Leaving(n, "down") : d.dst < n /\ n <= d.src
    /\ \A i \in Input : \A d \in Range(Through(mergeEpOut[n], i)) : d.dst = n /\ d.src # n

(* What an endpoint is about to take is the oldest packet of its flow: no  *)
(* packet overtakes another, is lost or taken twice.                       *)
OldestArrives ==
  \A n \in Node : mergeEpOut[n].out # <<>> =>
    LET d == Head(mergeEpOut[n].out)
    IN FlowOf(d) \in Flows /\ chan[FlowOf(d)] # <<>> /\ d.item = Head(chan[FlowOf(d)])
-----------------------------------------------------------------------------
Channels == INSTANCE ReliableChannels WITH
  Pairs <- {f \in Flows : f[1] # f[2]},
  chan <- Restrict(chan, {f \in Flows : f[1] # f[2]})

(* The chain is one reliable FIFO channel for every endpoint of every pair *)
(* of nodes, and each advances whatever the others do: the two ends of two *)
(* links never lose step, and no merge starves an input.  It is what the   *)
(* endpoint modules assume of net.                                         *)
ImplementsFairChannels == Channels!FairSpec
=============================================================================
