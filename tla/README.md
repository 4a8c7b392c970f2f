# A TLA+ verification of bluedbm

bluedbm is a distributed flash store built from FPGA cards. Every node has
flash cards behind a controller; the nodes are joined by Aurora serial links,
and hosts reach the flash of their own and of other nodes through tagged
requests. The hardware is written in Bluespec SystemVerilog (`.bsv`), where a
rule is an atomic guarded action: a rule or a method of the program becomes an
action of a module here, its guard (explicit and implicit, such as a full FIFO)
the action's guard.

## 1. The system and its hard parts

| Component | State | Operations | What must be right | Module |
|---|---|---|---|---|
| End-to-end endpoints, `src/lib/AuroraExtEndpoint.bsv` (`mkAuroraEndpointStatic`, `mkAuroraEndpointDynamic`) | send, receive and ack FIFOs; wrapping 16 bit credit registers per peer; stride counters; for the dynamic one a count of free buffers | user `send`/`receive`, `insertAckQ`, pipelines, `cmd.send`/`cmd.receive` | credits conserved over two nodes; the shared receive queue never blocks the fabric; receiving never waits for sending; FIFO, loss-free, live channels | `AuroraEndpointStatic`, `AuroraEndpointDynamic`, `AuroraPackets` |
| Serial link, `src/lib/AuroraExtGearbox.bsv`, `AuroraGearbox.bsv` | send and receive FIFOs, half-item buffers, six wrapping credit registers per end | `send`, `receive`, `emitFlowControlPacket`, `sendPacketPart`, `recvPacketPart`, `flushReadBuffer` | nothing on the wire is ever held up; halves joined rightly; both ends' counters agree | `AuroraLink` |
| Flash translation layer, `projects/aftl_bram/AFTL.bsv` | map and block table in one block RAM; phase; registers of a scan | one request at a time through phases P0 to P8 | a block belongs to one logical block at a time; tables agree; the least erased free block is chosen; every request is answered | `AFTL`, abstractly `BlockMap` |
| Map upload and download, `projects/aftl_bram/BRAM_Wrapper.bsv`, rules of `projects/amf_8192_bram/Main.bsv`, `main_example.cpp` | lock FIFO, word counters, the host's copy and file of the tables | lock, read or write every word, unlock, report; save, power cycle | what is saved is the map; no request is lost over a transfer | `AFTLMapTransfer` |
| Flash controller, `controller/src/hw_artix` (`Scoreboard`, `BusController`, `FlashController`) | per chip queues, stages, timers; the state machine of a bus; double page buffers; read buffers; tags | commands, status polls, page fetches, bursts, acks | interleaved commands never disturb a chip; pages and tags never mix; no circular wait | `FlashBus` |
| Host programs, 27 sources under `projects/` (`zynq_flash`, `zcu_flash*`, `zynq_8192_flash*`, `flash_connectal*`, `flash_xbsv`, `*_multinode`, `amf_*`, `zcu_amf_8192`) | a table of busy tags per kind of request, counts in flight, page buffers, what each block should hold, verdict, bad-block table; two threads | main: take a tag, fill a buffer, count and send a request, drain, clear buffers, report; indication thread: `readDone`, `writeDone`, `eraseDone` | one request per tag over three tables; the counts that main polls without the lock are what the device owes; a buffer is its request's until answered; verdict and saved bad blocks are true; the program ends | `FlashHost`, `HostScripts`, `HostPrograms*`, `CardContents` |
| Arbiter bar and merges, `lib/AuroraExtArbiterBar.bsv`, `lib/Merge2.bsv` | FIFOs and preference of each merge, turn counters of the links, node identity | `rin`, `rell`, `handleEpIn`, `handleUpIn`, `handleDownIn`, scatter, collect, `rOut`, `setMyId` | no packet goes astray along the chain or overtakes another of its flow on the two links; every flow advances | `AuroraArbiterBar`, `Merge2` |
| DMA helpers, `DMABurstHelper.bsv` | tag translation, buffer order, burst budgets | `startWrite`, bursts, reads | words go to the buffer they belong to; budgets do not leak | planned (1) |
| Flash splitter, `projects/zynq_multinode/FlashSplitter.bsv` | tag table, free tags | rename tags, route answers | a tag goes to one user at a time | planned (2) |
| Flash card link, `TopArtix.bsv`, `FlashCtrlVirtex.bsv` | FIFOs per kind of message over one link | serialise the controller's interface | no kind of message blocks another | planned (3) |
| Data paths of `amf_8192_bram/Main.bsv` | per tag bus and DMA offset tables | page DMA | as above, per bus | planned with (1) |

How they interact: an application hands items to an endpoint; the endpoint's
packets go through the node's arbiter to a link and arrive, in order for each
pair of nodes, at the peer's endpoint. A host sends tagged requests to the
translation layer; what it answers goes to the flash controller as a command
under the same tag, and the controller's acks and pages go back to the host, where the
portal's thread runs the program's callbacks while main goes on. main and the
callbacks share tag tables and counts under `flashReqMutex`, but main polls the
counts, and `readDone` checks its page, without it.
Map transfers lock the translation layer out of its block RAM. Everything
communicates through FIFOs; there is no time-out and no retry, so a credit, a
tag or a word lost anywhere is lost for good, and shows, if at all, as a system
that stops much later (the hosts do see an answer too many: `Repeat`). That is why most properties here are conservation laws
and liveness.

What is hard to test: credits kept by two nodes in registers that wrap; FIFOs
shared by peers, so that one slow peer could stop all; rules that read what other
rules of the same or the next cycle change; eight chips behind one state
machine; acks that must wait for chips, and everything else that must not; two host
threads and a device that answers in any order, over tables of tags that do not
know of each other; a table update that several phases complete; a file saved while it is written.
`PROJECT.json` lists the hazards by source line with the properties that cover
them, and why the others have none.

## 2. Modules

`Fifos` has the families of FIFOs, the counting of entries that the conservation laws
use and the picking of one flow's entries that the channels use. `ReliableChannels` is what the endpoints and the link
promise their users. An MC module per component defines the constants that a
`.cfg` cannot write down.

**AuroraEndpointStatic.** One endpoint per node over an in-order fabric
`net[<<s, d>>]`. `UserSend`, `UserReceive` are the `user` methods; `InsertAck`
and `InsertData` the two branches of `insertAckQ`; `EnterFabric` is
`cmd.receive` with the arbiter that calls it; `DeliverAck`, `DeliverData` the two
branches of `cmd.send`. Registers keep their width (`BudgetMod` for 2^16).
The fabric has a bounded FIFO per ordered pair: it can delay and block, but not
lose or reorder, which `AuroraArbiterBar` shows of the arbiter bar.

**AuroraEndpointDynamic.** The same interface with buffers allocated to sources
when they are free. The pipelines `recvQpipeIn`, `recvQpipeOut`, `ackQpipe` are
actions of their own since their FIFO stages decide what can block what.

**AuroraLink.** Both ends of `mkAuroraExtFlowControl`. `SendPacketPart` is one
rule with three cases (a window first, then the half kept back, then a new item),
`RecvPacketPart` one rule with its cases. An item is a pair of halves; a word is
its two header bits and a half or a window.
FIFO stages that only move words (`auroraOutQ`, the core, `auroraInQ`; `recvQ`,
`recvQ2`) are one FIFO each.

**AuroraArbiterBar, Merge2.** The fabric below the endpoints: the bar of every node of
a chain, wired as the source's comment and `bdpi.cpp` have it (ports 3 and 2 to 0
and 1 of the lower node). `Rin` and `Rell` take an endpoint's packet through the row
of merges `vMerge`, `HandleEpIn` fills in the source and chooses the way, `Scatter`
deals packets out to the two links of a way, `Collect` takes them in turn, and
`HandleIn` (`handleUpIn` and `handleDownIn`, which mirror each other) hands them to the
endpoints or passes them on; `SetMyId` comes at any time, and nothing is handled before.
FIFOs that only move packets from a merge on are one FIFO with its output. `Merge2` has a
merge as a record and what each rule makes of it; its preference flips in every
cycle, also while nothing waits, so a packet that enters an empty merge
finds it either way. `chan` is a history variable: what each flow has sent and not been
handed. It is the refinement mapping to `ReliableChannels`, and its length stands
for the credits of the flow's endpoint, which bound what it has out.

**AFTL, BlockMap.** Every rule of `mkAFTL` is an action. The block RAM is
the two tables; a read leaves what it returns in `ramOut` at once, as the RAM
serves its port in order. The reduction rules `readBlockTable1` to `4` are one
action `HalveMinEntries` over `width`, since they are the same code over
vectors of half the size. `BlockMap` serves a request in one step; the refinement
mapping treats a request as served when its answer leaves, and undoes or
anticipates the table updates of the window that follows (`BeingTaken`,
`BeingFreed`). Around it, the host keeps a tag busy until it is answered, and
of the flash only whose data a block holds is kept.

**AFTLMapTransfer.** Composes AFTL with the lock of `mkBRAM_Wrapper1`, the transfer
rules of `Main.bsv` word by word, and the host program: start from a file, upload,
work, wait for idle tags, download, save, power off and start again.
`WaitForDone` says whether the host waits for `downloadDone` before it saves
(as `main_loadsave.cpp` could) or not (as `main_example.cpp` does).

**FlashBus.** One bus: the scoreboard (`doChooseChip`, `doServiceReq` by stage),
the bus controller's states after initialisation, the page buffers and read path
of `FlashController.bsv`, and chips that are idle, reading, programming or
erasing. A word is the tag of its command and its place in the page.

**FlashHost** is the host side once for all programs; a program is a record that
says how its copy of the handlers and of main differs. `TakeTag` is
`waitIdle...` with the choice of the page, `FillBuffer` the fill of a write
buffer, `CountRequest` the locked part of `eraseBlock`, `writePage`, `readPage`,
`SendRequest` the call of the proxy after the unlock, `Drained` the poll of a count,
`ClearBuffers`, `BeginTest`, `Report` the rest of main. `Execute` is the device: it
carries out requests in any order, on a card with bad blocks. `CheckRead` and
`Answered` are a callback before and under the lock, `Repeat` one for an answer too
many. `CardContents` says what pages hold, each page's data (`hashAddrToData`) with
the collisions it has; `HostScripts` has the phases and handlers that programs share
(where loops run over cards, a loop over the small card, in the order of its
indices); `HostProgramsConnectal`, `HostProgramsZynq` and `HostProgramsAmf` give the
25 programs, each definition next to the source it stands for.
Loops whose order of addresses is left to the hardware or to `rand()` may pick
any of the phase's pages.

## 3. Runs

| Run | Question | Bounds and why they suffice |
|---|---|---|
| `static_two_way` | Do two nodes that send to each other, through FIFOs shared by data and acks, conserve credits and never deadlock? | 2 nodes, quota 2, stride 1, registers mod 4: they wrap many times; all FIFOs of depth 1 or 2 fill |
| `static_many_to_one` | Do quotas keep the shared receive queue from blocking the fabric, and does every flow advance? | 3 nodes, two sources, two distinct items, stride 3 clipped to the quota 2 |
| `dynamic_contended` | Are buffers ever promised twice; can a source starve? | 3 nodes, the fewest extra buffers that starve nobody; a view identifies states by the differences of the wrapping registers |
| `dynamic_progress` | Does each flow advance with a stride above the quota? | 3 nodes, quota 1, stride 2 |
| `link_two_way` | Do the counters of both ends agree, is the buffer never overrun, are halves joined rightly, does the link go on? | buffer 4, window 2 (128 and 64 in the code: two windows can be out, the older in part), registers mod 6, one item whose halves differ; that no word is ever dropped is a property of its own, so equal items hide nothing |
| `arbiter_bar` | Is the fabric a set of reliable, fair FIFO channels? | 3 nodes with 3 endpoints; one flow runs the whole chain, one joins it halfway, one goes the other way from the same endpoint and one is local. Every FIFO has depth 1 and 3 packets are in flight at most, two of them distinct and on the long flow: one per link, so that they can overtake, and one to contend with them. The host of a node names it at any time |
| `aftl_scan` | Does the pipelined scan find the least erased block; do the phases implement one step per request; is a block ever given twice, do the tables agree? | one chip, 2 rows of 4, one or three free blocks with every choice of erase counts, erase counts that wrap |
| `aftl_transfer` | Is what is saved the map, does data survive a restart and stay apart in the flash, is every request answered? | two chips, two segments, a dead block, an address beyond the last segment, one tag |
| `aftl_early_save` | (violation) Is the file that `main_example.cpp` saves the map? | as above, without waiting for `downloadDone` |
| `flash_bus` | Do interleaved commands disturb chips, mix pages or tags, overrun a buffer, or ack early? | 2 chips, 2 tags used for anything, pages of 2 words, FIFOs of depth 1 |
| `flash_bus_progress` | Is every command answered? | 2 chips, each tag on its own chip, so that both can be kept busy for ever |
| `host_programs` | For each of the 25 programs: do tags and buffers stay with their requests, do the polled counts match what the device owes, are verdicts and saved bad-block tables true, and does the program end? | 2 tags, so that tags are reused within and across phases while another is in flight; 1 or 2 nodes, 2 chips of 2 blocks of 1 page (the neighbours whose hashes could collide); each phase once; per execution at most one bad block or one answer too many, the latter for the programs whose handlers differ (`OneOfAKind`). A view leaves out what idle tags leave behind in buffers and addresses, since it is written before it is read (the address of an erase is kept while an answer given twice may still read it) |

Two nodes, chips or segments are the least that can contend; a third node is
there where two sources contend for one sink. Nothing in the code treats
particular indices differently, except the scan's reduction, for which 4 columns
are two levels. The larger the FIFOs the fewer the ways to block, so they are
kept at 1 or 2. For the safety of the endpoints, the link, the arbiter bar, the translation
layer with its map transfers, the bus and the host programs, and for the safety of every
refinement, the proofs (section 5) remove the bounds altogether.

`aftl_early_save` shows the one disagreement met: `main_example.cpp:511` says
that it reads the map back and saves it, but `downloadMap()` only queues the
transfer; the file is written from the host's old copy, or from a buffer that
the DMA is filling.

Deadlock is checked in every run but `host_programs`: there programs end, and some
wait for ever for a count that an answer too many has taken below zero (which
`EveryProgramEnds` allows those programs only).

## 4. Fairness and the assumptions on the surroundings

A rule whose guard holds in a clock cycle fires in that cycle unless a
conflicting rule does, so weak fairness is assumed for rules; one condition for
each machine, tag or chip, never for the user's wish to send. Users of a channel keep
receiving what has arrived (the methods are called by rules of the projects
that always can). The dynamic endpoint assumes strong fairness of delivery for
each source, because `Merge2` in front of it alternates between its inputs; `AuroraArbiterBar`
refines fair channels (`ImplementsFairChannels`) with weak fairness alone, so this is what the
fabric does. In turn its `rOut` can always hand a packet to the endpoint, by
`NeverHeldUp` and `PipelinesNeverWait` of the endpoint modules. There every host names its node,
as `setNetId` in the projects' hosts does; a node without a name holds up what passes through it.
In `AuroraEndpointStatic` and `AuroraLink`, acks and windows are preferred to
data: when traffic goes both ways only progress of the whole is claimed
(`ProgressSpec`), and per-flow progress where a source receives only acks.

For the host programs: main's thread runs (its spinning takes a lock that it gives
back), the device carries out every request, and the portal's thread runs every
callback. Nothing obliges the device to answer twice.

Assumed of the surroundings, from how the repository uses the code:

- hosts never reuse a tag in flight (this one is shown: `RequestTagsDistinct`), keep one map transfer in flight, work only
  between transfers, and power off only after a save (`main_example.cpp`,
  `main_loadsave.cpp`); a write failure of the flash is not modelled because
  no rule reacts to one but to pass it on;
- a handler of the arbiter bar waits for the FIFO that its packet enters, as with
  `-aggressive-conditions`; without the flag it would wait for room in FIFOs that it
  alone fills and that drain by themselves, which makes it later only;
- on the flash bus a busy timer is a flag that expires at any time after it was
  started; the two-register delay of the write-data ready tag has settled when a
  burst's final waits are over (a matter of hundreds of cycles); the window in
  which `doWriteFetchWait` sees the last word but one is not missed; the encoder
  keeps up with a burst (the code stops in `WRITE_ERROR` otherwise);
  `doServiceReq` waits only in the branches that look at a status, as
  `-aggressive-conditions` in the controller's Makefiles has it.

## 5. Proofs

Each component has its theorems in a module `..._proofs`; `FifoLemmas` has what several
of them rest on. A theorem `... => Abs!Spec` states the safety of a refinement: the
initial states map to initial states and every step to a step of the abstract
specification or a stutter. That the abstract fairness or progress is implemented too is
checked by TLC (`ImplementsChannels`, `ImplementsFairChannels`, `ImplementsLink`,
`ImplementsBlockMap`).

`AuroraEndpointStatic_proofs` proves for every finite set of nodes, quota,
stride and register width that satisfy `StaticAssumption`:

- `TypeCorrect`: the type invariant;
- `Conservation`: `Spec => []CreditsConserved`. The conservation law is itself
  the inductive invariant, with the types: the credits a source holds, its unread
  data, the items counted towards the next ack and the credits of the acks due
  add up to the quota. Each action moves an amount from one of these places
  to another, and a register never wraps past the other, because the law bounds
  their distance by the quota, which is below the width;
- `QuotaHolds`: the other terms are not negative, so unread data is at most the
  quota;
- `FabricFree`, `ReceiveFree` and, of both, `NothingHeldUp` (`NeverHeldUp`): the entries of a shared FIFO, divided into classes
  of at most a quota each, are at most as many as the classes times the quota
  (`QuotaBound`), so a packet at the fabric's end and an ack always find room;
- `StaticImplementsChannels`: `Spec => Channels!Spec`. What a flow has on its way is a row
  of FIFOs, each of which holds the entries of the flow among those of others, picked by
  `Those`: `recvQ`, the packets in the fabric, in `packetSendQ` and in `sendQ`. A handler
  passes the head of one FIFO of the row on to the end of the next (`RowMoves`), adds to the
  last (`RowPut`) or takes from the first (`RowTake`); for every other flow it changes
  nothing. The invariant beside the types is `NetRouted`: a packet in the fabric is on the
  link to its destination, or `DeliverData` would add it to the wrong row.

`AuroraEndpointDynamic_proofs` proves for every finite set of nodes, number of credits,
stride, number of extra buffers and register width that satisfy `DynamicAssumption`:

- `DynamicTypeCorrect`: the type invariant;
- `DynamicCredits` and `DynamicBuffers`: `Spec => []CreditsConserved` and
  `Spec => []BuffersConserved`. Neither law is inductive alone: crediting an ack does not
  wrap the credit register because the first bounds what a pair holds, and
  freeing a buffer does not wrap the buffer register because the second bounds what is free.
  One lemma per action says what it moves between the terms (`InsertAckMoves`,
  `UserReceiveMoves`, ...), from which both laws follow. The buffers promised are counted
  as a set of places numbered per source, so a grant or a read changes the size of one
  share (`SharesChange`), and no sum over the nodes is needed;
- `DynamicRecvQRoom`, `DynamicAckQRoom` and, of both, `DynamicNoWait` (`PipelinesNeverWait`): what waits in front of a queue has a place in
  it, as each source's entries fit into its share (`NextFits`);
- `DynamicNoStarvation`: `Spec => []NoStarvation` for every instance with
  `QSize + ExtraSize >= FlowStride + (|Node| - 2) * (FlowStride - 1)`. By the first law a
  source holds at most `FlowStride - 1` credits beyond its quota; a node's credits for
  itself lie idle (`NoSelfTraffic`, inductive beside the laws), so what the |Node| - 2 others can hold
  leaves a stride free (`StrideFree`). With one buffer less TLC finds a source
  starved in the instance of `dynamic_contended`;
- `DynamicImplementsChannels`: as for the static endpoint. The receive pipeline
  adds `recvQin` and `recvQout` to the row, in which the items of all sources move on
  in one line (`Pipe`).

`AuroraLink_proofs` proves for every size of the receive buffer, window, register
width and FIFO depth that satisfy `LinkAssumption`:

- `LinkTypeCorrect`: the type invariant;
- `LinkConservation`: `Spec => []LinkConserved`. The law alone is not inductive: a
  second half on the wire stands for a spent credit, and only if the receiver holds
  the first half does reading it return that credit to the count. So
  the invariant has `HalvesAlternate` beside it: with the half the receiver
  holds as the word before the wire and the half the sender keeps back as the one
  after it, any two data words with only windows between them are one first and
  one second half. Appending and reading a word keep this (`AlternatesAppendData`,
  `AlternatesTailData` and the same for windows), and the law follows action by
  action from what each does to its five terms;
- `LinkFree`: what is buffered is below `recvQDepth` by the law, so there is room;
- `LinkHalves`: the first data word on the wire is the half that the receiver lacks;
- `LinkImplementsChannels`: `Spec => Link!Spec`. The halves on their way to an end (the one the
  receiver holds, those on the wire without the windows, the one the sender keeps back)
  always make whole items (`WholeItems`, inductive with the above). Sending the
  second half or reading the first leaves this sequence as it is; starting a new item adds both
  its halves at the end (`PairedBehind`), and the second half read completes the item of
  the two oldest (`PairedLed`) because, by `NoHalfDropped`, the first is the half held.

`AuroraArbiterBar_proofs` proves for every length of the chain, number of endpoints, set of
flows and depth of the FIFOs that satisfy `BarAssumption`:

- `BarInvariant`: the inductive invariant `IInv`. The fabric is seen as one family of FIFOs by
  name: entries and stages of the merges, hops, arrivals, exits. The two links of a
  hop are one FIFO of it, their `Weave`, which takes packets from both in turn; `Turns` says
  that `outQoff` of the sender and `inQoff` of the receiver agree about whose turn it
  is, so that `Scatter` appends to the weave (`WeaveAppend`) and `Collect` takes its head
  (`WeaveTail`). `Routed` has every packet on the path of its flow, `InOrder` has
  what the path holds of a flow, oldest first, equal to its `chan`; `Named` and `DeadEnds`
  are what routing needs: a node has its own number or none, and nothing is on a
  link off the chain. Each action moves a packet a step along its path (`MoveStep`), puts one
  at its beginning (`PutStep`) or takes one from its end (`TakeStep`); which FIFOs share an
  arbiter, and whose turn it is there, does not matter to the order;
- `BarTypeCorrect` (`TypeOK`), `BarHops` (`EveryHopNearer`) and `BarOldest` (`OldestArrives`)
  follow from it;
- `BarImplementsChannels`: `Spec => Channels!Spec`, so what the endpoint models assume of `net`,
  FIFO and loss-free per pair, is what a chain of any length is. Its fairness stays with TLC.

`FlashHost_proofs` proves for every number of tags, card, set of bad blocks, number of
answers too many, and set of programs that satisfy `ProgramsAssumption` (which TLC
evaluates on the 25): a program waits for its requests of one kind before it makes
those of another (`Drains`), and frees tags that it queues (`WellFormed`).

- `IInvHolds`: the inductive invariant, of eight parts. The busy tags of a kind are
  owned by the request being made and by requests sent or answered (`TagsOwned`), so
  within a kind tags differ; hence
- `CountsAreRight`: `Spec => []CountersMatchDevice`, also with answers too many where
  handlers look at the busy flag first;
- a drain that sees zero therefore leaves nothing of its kind at the device;
  `PhasesKept` carries this from the script's positions passed to the position main
  is at, and `OneKind` follows: all requests at the device are of one kind. So
- `TagsAreDistinct`: `Spec => []RequestTagsDistinct`, though the three tables do not know
  of each other, and
- `BuffersAreOwned`: `Spec => []BuffersBelong`.
- `VerdictsAreTrue`: `Spec => []ReportsTrue`, for programs that also satisfy
  `VerdictAssumption`. That assumption looks at the script and at the program's switches
  only, and TLC evaluates it on the 25: a write or an erase is of one page
  (`NamesBlocks`); a program that checks its reads has written the page, or erased its
  block last, and keeps the tables the check looks at (`KnowsWhatItReads`); and before it
  reports it has read from every block it erased a page that would show the block as bad,
  in the same test, and has waited for the answers (`JudgesWhatItErased`). That the
  verdict is then true, whatever the order in which the card does its work and the
  callbacks run, is the theorem. Its invariant `VInv` holds while no answer has
  come twice, and says of main's position in the script: each request owed was made
  at a position not drained since (`Sourced`), so all that is owed is of one kind
  (`SameKind`, `OwedAlike`); a page that no request on its way will change holds what the
  script wrote to it last, or ones, or zeros if its block is bad (`FlashKnown`);
  `flashStatus` names which (`StatusKnown`), the bad blocks too once their erases were
  answered, which needs `eraseTagTable` to hold the page of every erase owed
  (`ErasesRecorded`). Hence `checkReadData` passes a good block's page (`PassesGood`) and
  not one that reveals a bad block (`FailsBad`), so that a read of such a page has cleared
  the verdict or is owed an answer that will (`BadIsCaught`); `TableRight` is the same for
  the table of bad blocks. The three other theorems do not use `VerdictAssumption`.

For the cases with answers too many that a program miscounts, the parts of the
invariant are conditional (`Counted`, `Sound`), as the properties are.

`AFTL_proofs` proves for every number of segments, pages, chips, rows and tags, every
uploaded block table and every mix of requests that satisfy `AFTLAssumption`:

- `AFTLInv`: the inductive invariant `IInv`. One request is in `procQ` from P0 to P0
  (`OneRequest`), and what the RAM has yet to return shows the tables as they are now
  (`RamCurrent`), since nothing writes them between a read and its use. So the entry in hand is
  the map's (`EntryCurrent`), and each column's minimum is the best free block of the rows
  seen, later of the columns merged into it (`MinimaBest`): `BestOfRow` adds a row,
  `BestOfTwo` merges two columns, and `GroupsMerge` says which columns a register stands for;
- `LeastErasedIsFound`: at P7 the group left is the whole chip;
- `MapStaysInjective` and `TablesStayInAgreement`: the block bound is a free one, a free
  block is bound to nothing, and the windows are exactly the phases between the two writes
  (`Binding`, `Unbinding`).

Its second part goes on to what the flash sees, later than the tables change:

- `FlashInv`: an outstanding tag is in one place (`OnePlace`), and the host's table still
  has the request of each command on its way (`HostKnows`). `FlashFollows` is the argument
  proper: there is a sequence of flash contents, from what the flash holds now through what
  each queued command leaves in it; every command finds in it what it needs, and
  the last one is what the map says (`Settled`). A command sent extends the
  sequence by what the map now says, and the flash taking one drops its first element;
- `DataKeptApart` (`FlashHoldsOwnData`) and `AFTLTypeCorrect` (`TypeOK`) are its first element;
- `ServesLikeBlockMap`: `Spec => Blocks!Spec`, the phases as one atomic step per request. A
  request is served when its answer leaves: then the abstract layer uses the binding
  (`UseMappedServes`), binds a least erased free block (`UpdateMapTableServes`), frees one
  (`ProcEraseServes`) or refuses (`RefusalServes`). Every other phase is a stutter; for the ones that
  close a window (`ProcErase3Stutters`, `UpdateBlockTableStutters`) that is because the table
  they write now says what the mapping anticipated. `IInv` has parts for this: during the
  scan the map still says that nothing is bound (`EntryCurrent`), and at P8 the
  entry to write back is the table's own with its erase count (`TakenOnce`).

Its third part proves `AFTLMapTransfer` for all the same constants, and any number of words in
the tables. All its theorems assume `WaitForDone`; that the host waits is needed,
as the violation in `aftl_early_save` shows.

- `TransferInv`: the inductive invariant `TInv`. While the tables are in the RAM (`Booted`)
  the invariant of the flash holds of them; between a power cycle and
  the end of the upload the tables in the file are injective, agree and say what the
  flash holds (`Restarting`, `Consistent`), and nothing else moves. `UploadFollows`: the words
  written so far are the file's (`WordWritten`, with the arithmetic of word, chip and row).
  `DownloadFollows`: the words in the DMA buffer and in the RAM's port are the tables' words from
  the count of the words already in memory on, in order. `Handshake`: a
  transfer starts only when all is quiet and while it has the lock the translation is in P0, so it
  cannot touch the tables under it (`LockedKeeps`). `Clean`: a host that has not written
  since its last download has only reads in flight, and reads leave the tables as they
  are (`ReadsKeepTables`);
- `SavedFileIsMap` (`SavedIsMap`), `TransferTypeCorrect` (`TransferTypeOK`), `TablesOutliveRestarts`
  (`MapInjective` and `TablesAgree` whenever the tables are there, over any number of restarts) and
  `DataOutlivesRestarts` (`FlashHoldsOwnData` of commands that find their data by tables that
  went through a file).

`FlashBus_proofs` proves one bus for every number of chips and tags, page size,
FIFO depth and work of the host. It takes `NoTag` to be no command (`CommandAssumption`).
Four invariants build on each other:

- `FlashBusControl`: `Ops`, the operation in progress followed by the queued ones, is
  the scoreboard's promise to the chips. Each names the command at the head of its chip's
  queue; operations of one chip are ordered by `Rank` (fetch the page, start the
  chip, poll it) and none is ahead of the chip's stage; a chip works only from its
  second rank on, and an unread poll result is the only one. Hence
  `ChipsUndisturbed`, and what a chip has finished is what it was last started on;
- `FlashBusReads`: at most two pages are on their way from the chips to the host, the
  older one first; the word at each place of the two FIFOs is the one that `readTagQ` and
  `rdWdCnt` count off. The guard of `doReadDataWaitBuf` keeps it so: a burst starts on an
  empty buffer and fills it at most. Hence `WordsAlwaysTagged`;
- `FlashBusTags`: the command of a tag in flight is in one place, which may be the answer
  on its way, and it is the one the host recorded; tags not in flight are nowhere.
  With the first, `OnlyFinishedWorkAcked`;
- `FlashBusWrites`: the words in the two page buffers are one stream, of up to three pages,
  that starts with the rest of the page the bus is programming; the words that
  left it are in `encodeOutQ` and the chip's register, in order. The ready tag names the page
  in the front buffer, or lags behind it by the page being programmed; a queued
  program operation finds its page there, because its tag's command heads
  one queue only (`FlashBusTags`). Hence `OwnPagesProgrammed`.

`FifoLemmas`: what enqueueing and dequeueing do to a count of entries, the bound for a divided
FIFO, the arithmetic of two wrapping counters, and what they do to the entries picked
from a FIFO and to a row of FIFOs. `Those` is a recursive function; what it picks for every FIFO is
proved by induction over the set of the lengths for which the claim holds
(`Induction`, from the well-foundedness of the naturals), since the library's
induction rules take an operator that the provers cannot instantiate. The assumptions on
the constants are evaluated by TLC in every run of the module.

Out of the prover's reach, so model-checked only: liveness (that requests are answered,
transfers and programs end), the fairness or progress part of each refinement, and
anything with ENABLED. Every invariant that a run checks is a theorem; what the models'
own data say (that the 25 programs satisfy the assumptions above) is a computation, which
TLC does.

## 6. Not modelled, and what is left of the plan

Left, in this order:

1. DMA helpers: the write engine with its buffer manager (the translation of a
   tag that is started in the cycle in which its words arrive), the burst budget
   of the read engine; with the page data paths of `Main.bsv`.
2. `FlashSplitter`: renaming and return of tags, with late look-ups.
3. The flash card link on top of the link model.

Of the hosts: two hosts of the multi-node tests at once are not modelled. Nothing keeps
`local_test` of one from running into `many_to_many_test` of another, so what
a verdict means then depends on how they are started by hand. `flash_multinode`'s
`init_dma` keeps the indication objects in local variables (flash.cpp:135); the model
has them live, as zynq_multinode's copy does. Map transfers within the hosts of the
translation layer are `AFTLMapTransfer`'s. The hosts of the string search, of
remoteaccess and of the kernel interface depend on code of other repositories or on
a user at the keyboard.

Out of scope: the PHY, calibration and initialisation of the bus (cycle timing), the
Reed-Solomon code (arithmetic on data that is abstracted to tags), simulation
models, the older translation layers, matrix multiplication and other demonstration
projects, generated and third-party cores.
