-------------------------------- MODULE AFTL --------------------------------
(***************************************************************************)
(* mkAFTL (src/projects/aftl_bram/AFTL.bsv): the append-only flash         *)
(* translation layer.  One request at a time walks through phases that     *)
(* read and write two tables in a block RAM: the map from logical blocks   *)
(* to physical blocks and the status and erase count of every physical     *)
(* block.  A write to an unmapped block scans the chip's rows for the      *)
(* least erased free block and reduces the columns pairwise to one.        *)
(*                                                                         *)
(* Around it: the host, which keeps a table of busy tags, and the flash,   *)
(* of which only whose data each block holds is kept.                      *)
(***************************************************************************)
EXTENDS Integers, Sequences

CONSTANTS
  Tag,            \* the tags of the host
  Lpa,            \* the logical page addresses the host uses
  Segs,           \* NumSegment (4096)
  Pages,          \* pages per block (256)
  Chips,          \* BlocksPerSegment: one logical block per chip (64)
  Rows, Cols,     \* block table rows per chip (128), entries per row (32)
  EraseMod,       \* 2^14: the width of an erase count
  Uploaded,       \* block tables the host may have uploaded: [Chip -> [Block -> BlkEntry]]
  DeadBlocks,     \* logical blocks the uploaded map marks DEAD
  ReqDepth, RespDepth, \* depths of reqs (8) and of the two response FIFOs (8)
  RamDepth,       \* responses the block RAM and respA hold
  NoCmd           \* an idle entry of the host's tag table

Segment == 0..(Segs - 1)
Chip == 0..(Chips - 1)
Col == 0..(Cols - 1)
Block == 0..(Rows * Cols - 1)
Erase == 0..(EraseMod - 1)
LogBlock == Segment \X Chip
Op == {"READ_PAGE", "WRITE_PAGE", "ERASE_BLOCK"}

FTLCmd == [tag : Tag, op : Op, lpa : Lpa]
FlashCmd == [tag : Tag, op : Op, chip : Chip, block : Block, page : 0..(Pages - 1)]
MapEntry == [status : {"NOT_ALLOCATED", "ALLOCATED", "DEAD"}, block : Block]
BlkEntry == [status : {"FREE_BLK", "CLEAN_BLK", "BAD_BLK"}, erase : Erase]
MinEntry == [valid : BOOLEAN, block : Block, erase : Erase]

ASSUME AFTLAssumption ==
  /\ Lpa \subseteq Nat
  /\ {Segs, Pages, Chips, Rows, EraseMod, ReqDepth, RespDepth, RamDepth} \subseteq Nat \ {0}
  /\ Cols \in {2, 4, 8, 16, 32}
  /\ Uploaded \subseteq [Chip -> [Block -> {e \in BlkEntry : e.status # "CLEAN_BLK"}]]
  /\ DeadBlocks \subseteq LogBlock
  /\ NoCmd \notin FTLCmd

(* getLogicalBlock, getPageOffset, getSegment: fields of an address, the *)
(* rest of whose 32 bits is ignored.                                     *)
ChipOf(lpa) == lpa % Chips
PageOf(lpa) == (lpa \div Chips) % Pages
SegmentOf(lpa) == (lpa \div (Chips * Pages)) % Segs
LogBlockOf(cmd) == <<SegmentOf(cmd.lpa), ChipOf(cmd.lpa)>>

VARIABLES
  reqs,              \* requests the host handed over
  procQ,             \* the request being served
  allocQ,            \* the chip a block is being allocated on
  phase,             \* "P0".."P8" as in AFTLPhase; "REDUCE" for P3 to P6
  mapEntry,          \* the map entry read for procQ's request
  blkTableReqCnt,    \* rows of the block table requested
  blkTableCnt,       \*   and scanned
  minEntries,        \* minEntries0[c], of which minEntries1.. are prefixes
  width,             \* how many of them are left to compare: names P3 to P6
  blkToAlloc,        \* the block found
  respsSuccess,      \* commands for the flash
  respsFailure,      \* requests refused
  mapTable,          \* the block RAM: the map
  blkTable,          \*   and the block table
  ramOut,            \* responses of the block RAM not read yet
  lockFIFO,          \* non-empty while a map transfer locks the RAM
  host,              \* host[t]: the request outstanding under tag t
  inFlash,           \* tags of commands the flash carried out, unacknowledged
  content            \* content[c][b]: the segment whose data b holds, or Erased

scan == <<blkTableReqCnt, blkTableCnt, minEntries, width, blkToAlloc>>
tables == <<mapTable, blkTable>>
outside == <<host, inFlash, content>>
vars == <<reqs, procQ, allocQ, phase, mapEntry, scan, respsSuccess, respsFailure,
          tables, ramOut, lockFIFO, outside>>

Erased == -1
Invalid == [valid |-> FALSE, block |-> 0, erase |-> 0]
Unmapped == [status |-> "NOT_ALLOCATED", block |-> 0]

Init ==
  /\ reqs = <<>> /\ procQ = <<>> /\ allocQ = <<>>
  /\ phase = "P0"
  /\ mapEntry = Unmapped
  /\ blkTableReqCnt = 0 /\ blkTableCnt = 0
  /\ minEntries = [c \in Col |-> Invalid]
  /\ width = Cols
  /\ blkToAlloc = Invalid
  /\ respsSuccess = <<>> /\ respsFailure = <<>>
  /\ mapTable = [lb \in LogBlock |->
                   IF lb \in DeadBlocks THEN [status |-> "DEAD", block |-> 0] ELSE Unmapped]
  /\ blkTable \in Uploaded
  /\ ramOut = <<>>
  /\ lockFIFO = <<>>
  /\ host = [t \in Tag |-> NoCmd]
  /\ inFlash = {}
  /\ content = [c \in Chip |-> [b \in Block |-> Erased]]
-----------------------------------------------------------------------------
Unlocked == lockFIFO = <<>>
Cmd == Head(procQ)
Target == LogBlockOf(Cmd)

(* The flash command for cmd on a block; an erase names page 0. *)
Command(cmd, b) ==
  [tag |-> cmd.tag, op |-> cmd.op, chip |-> ChipOf(cmd.lpa), block |-> b,
   page |-> IF cmd.op = "ERASE_BLOCK" THEN 0 ELSE PageOf(cmd.lpa)]

(* readReq and read, which the lock holds up. *)
RamReady == Unlocked /\ Len(ramOut) < RamDepth
RamResponse == Unlocked /\ ramOut # <<>>

Succeed(b) ==
  /\ Len(respsSuccess) < RespDepth
  /\ respsSuccess' = Append(respsSuccess, Command(Cmd, b))

(* What one read of the RAM returns: the entries of a segment, for all     *)
(* chips (two words of the RAM), or a row of a chip's block table.         *)
MapRow(s) == [c \in Chip |-> mapTable[<<s, c>>]]
BlkRow(c, r) == [i \in Col |-> blkTable[c][r * Cols + i]]

(* The request is over: failed. *)
Fail ==
  /\ Len(respsFailure) < RespDepth
  /\ respsFailure' = Append(respsFailure, Cmd)
  /\ procQ' = <<>>
  /\ phase' = "P0"

(* readReqMapTable *)
ReadReqMapTable ==
  /\ phase = "P0"
  /\ reqs # <<>>
  /\ RamReady
  /\ procQ' = Append(procQ, Head(reqs))
  /\ reqs' = Tail(reqs)
  /\ ramOut' = Append(ramOut, MapRow(SegmentOf(Head(reqs).lpa)))
  /\ phase' = "P1"
  /\ UNCHANGED <<allocQ, mapEntry, scan, respsSuccess, respsFailure, tables, lockFIFO, outside>>

(* readMapTable; its default branch is for operations the host never sends. *)
ReadMapTable ==
  /\ phase = "P1"
  /\ RamResponse
  /\ mapEntry' = Head(ramOut)[ChipOf(Cmd.lpa)]
  /\ ramOut' = Tail(ramOut)
  /\ phase' = CASE Cmd.op = "WRITE_PAGE" -> "P1_write"
                [] Cmd.op = "READ_PAGE" -> "P1_read"
                [] Cmd.op = "ERASE_BLOCK" -> "P1_erase"
  /\ UNCHANGED <<reqs, procQ, allocQ, scan, respsSuccess, respsFailure, tables, lockFIFO, outside>>

(* procRead and procWrite on a block that is mapped. *)
UseMapped ==
  /\ phase \in {"P1_read", "P1_write"}
  /\ mapEntry.status = "ALLOCATED"
  /\ Succeed(mapEntry.block)
  /\ procQ' = Tail(procQ)
  /\ phase' = "P0"
  /\ UNCHANGED <<reqs, allocQ, mapEntry, scan, respsFailure, tables, ramOut, lockFIFO, outside>>

(* procWrite, procRead and procErase where there is nothing to serve with. *)
RefuseUnmapped ==
  /\ \/ phase = "P1_write" /\ mapEntry.status = "DEAD"
     \/ phase \in {"P1_read", "P1_erase"} /\ mapEntry.status # "ALLOCATED"
  /\ Fail
  /\ UNCHANGED <<reqs, allocQ, mapEntry, scan, respsSuccess, tables, ramOut, lockFIFO, outside>>

(* As a mutant: start the scan on the counters of the last one. *)
StartStaleScan ==
  /\ phase = "P1_write"
  /\ mapEntry.status = "NOT_ALLOCATED"
  /\ allocQ' = Append(allocQ, ChipOf(Cmd.lpa))
  /\ phase' = "P2"
  /\ UNCHANGED <<reqs, procQ, mapEntry, scan, respsSuccess, respsFailure, tables, ramOut, lockFIFO, outside>>

(* procWrite on a block that is not mapped: start the scan. *)
StartScan ==
  /\ phase = "P1_write"
  /\ mapEntry.status = "NOT_ALLOCATED"
  /\ blkTableReqCnt' = 0
  /\ blkTableCnt' = 0
  /\ minEntries' = [c \in Col |-> Invalid]
  /\ width' = Cols
  /\ blkToAlloc' = Invalid
  /\ allocQ' = Append(allocQ, ChipOf(Cmd.lpa))
  /\ phase' = "P2"
  /\ UNCHANGED <<reqs, procQ, mapEntry, respsSuccess, respsFailure, tables, ramOut, lockFIFO, outside>>

(* procErase, procErase2, procErase3: the command leaves before the tables *)
(* are done: first the map entry goes, then the block is freed.           *)
ProcErase ==
  /\ phase = "P1_erase"
  /\ mapEntry.status = "ALLOCATED"
  /\ Unlocked
  /\ Succeed(mapEntry.block)
  /\ mapTable' = [mapTable EXCEPT ![Target] = Unmapped]
  /\ phase' = "P1_erase2"
  /\ UNCHANGED <<reqs, procQ, allocQ, mapEntry, scan, respsFailure, blkTable, ramOut, lockFIFO, outside>>

ProcErase2 ==
  /\ phase = "P1_erase2"
  /\ RamReady
  /\ ramOut' = Append(ramOut, BlkRow(ChipOf(Cmd.lpa), mapEntry.block \div Cols))
  /\ phase' = "P1_erase3"
  /\ UNCHANGED <<reqs, procQ, allocQ, mapEntry, scan, respsSuccess, respsFailure, tables, lockFIFO, outside>>

ProcErase3 ==
  /\ phase = "P1_erase3"
  /\ RamResponse
  /\ blkTable' = [blkTable EXCEPT ![ChipOf(Cmd.lpa)][mapEntry.block] =
                    [status |-> "FREE_BLK", erase |-> (Head(ramOut)[mapEntry.block % Cols].erase + 1) % EraseMod]]
  /\ ramOut' = Tail(ramOut)
  /\ procQ' = Tail(procQ)
  /\ phase' = "P0"
  /\ UNCHANGED <<reqs, allocQ, mapEntry, scan, respsSuccess, respsFailure, mapTable, lockFIFO, outside>>

(* readReqBlockTable: ask for the next row of the chip. *)
ReadReqBlockTable ==
  /\ phase = "P2"
  /\ blkTableReqCnt < Rows
  /\ RamReady
  /\ ramOut' = Append(ramOut, BlkRow(Head(allocQ), blkTableReqCnt))
  /\ blkTableReqCnt' = blkTableReqCnt + 1
  /\ UNCHANGED <<reqs, procQ, allocQ, phase, mapEntry, blkTableCnt, minEntries, width, blkToAlloc,
                 respsSuccess, respsFailure, tables, lockFIFO, outside>>

(* As mutants of getMinEntries: the first free entry, whatever the erase  *)
(* counts; and any entry that is not bad.                                  *)
FirstFree(prevMin, blkEntry, b) ==
  IF blkEntry.status # "FREE_BLK" \/ prevMin.valid
  THEN prevMin ELSE [valid |-> TRUE, block |-> b, erase |-> blkEntry.erase]
NotBad(prevMin, blkEntry, b) ==
  IF blkEntry.status = "BAD_BLK" \/ (prevMin.valid /\ prevMin.erase <= blkEntry.erase)
  THEN prevMin ELSE [valid |-> TRUE, block |-> b, erase |-> blkEntry.erase]

(* getMinEntries: the lesser erased of a column's minimum and a new entry; *)
(* the earlier one if they are equal.                                      *)
GetMinEntries(prevMin, blkEntry, b) ==
  IF blkEntry.status # "FREE_BLK" \/ (prevMin.valid /\ prevMin.erase <= blkEntry.erase)
  THEN prevMin
  ELSE [valid |-> TRUE, block |-> b, erase |-> blkEntry.erase]

(* As a mutant: number the entries with the counter already advanced. *)
ReadNextBlockTable ==
  /\ phase = "P2"
  /\ blkTableCnt < Rows
  /\ RamResponse
  /\ blkTableCnt' = blkTableCnt + 1
  /\ minEntries' = [i \in Col |-> GetMinEntries(minEntries[i], Head(ramOut)[i],
                                                blkTableCnt' * Cols + i)]
  /\ ramOut' = Tail(ramOut)
  /\ UNCHANGED <<reqs, procQ, allocQ, phase, mapEntry, blkTableReqCnt, width, blkToAlloc,
                 respsSuccess, respsFailure, tables, lockFIFO, outside>>

(* readBlockTable0: take a row into the column minima. *)
ReadBlockTable ==
  /\ phase = "P2"
  /\ blkTableCnt < Rows
  /\ RamResponse
  /\ minEntries' = [i \in Col |-> GetMinEntries(minEntries[i], Head(ramOut)[i],
                                                blkTableCnt * Cols + i)]
  /\ ramOut' = Tail(ramOut)
  /\ blkTableCnt' = blkTableCnt + 1
  /\ UNCHANGED <<reqs, procQ, allocQ, phase, mapEntry, blkTableReqCnt, width, blkToAlloc,
                 respsSuccess, respsFailure, tables, lockFIFO, outside>>

(* min2to1: the lesser erased of two entries; the first if they are equal. *)
Min2to1(e, f) ==
  IF e.valid /\ (f.valid => e.erase <= f.erase) THEN e ELSE IF f.valid THEN f ELSE Invalid

ScanDone == phase = "REDUCE" \/ (phase = "P2" /\ blkTableCnt = Rows)

(* readBlockTable1 to readBlockTable4: halve the columns, in place. *)
HalveMinEntries ==
  /\ ScanDone
  /\ width > 2
  /\ minEntries' = [i \in Col |-> IF i < width \div 2
                                  THEN Min2to1(minEntries[2 * i], minEntries[2 * i + 1])
                                  ELSE minEntries[i]]
  /\ width' = width \div 2
  /\ phase' = "REDUCE"
  /\ UNCHANGED <<reqs, procQ, allocQ, mapEntry, blkTableReqCnt, blkTableCnt, blkToAlloc,
                 respsSuccess, respsFailure, tables, ramOut, lockFIFO, outside>>

(* readBlockTable5: the last two. *)
PickMinEntry ==
  /\ ScanDone
  /\ width = 2
  /\ blkToAlloc' = Min2to1(minEntries[0], minEntries[1])
  /\ phase' = "P7"
  /\ UNCHANGED <<reqs, procQ, allocQ, mapEntry, blkTableReqCnt, blkTableCnt, minEntries, width,
                 respsSuccess, respsFailure, tables, ramOut, lockFIFO, outside>>

(* updateMapTable: map the block and let the command go, *)
UpdateMapTable ==
  /\ phase = "P7"
  /\ blkToAlloc.valid
  /\ Unlocked
  /\ mapTable' = [mapTable EXCEPT ![Target] =
                    [status |-> "ALLOCATED", block |-> blkToAlloc.block]]
  /\ Succeed(blkToAlloc.block)
  /\ phase' = "P8"
  /\ UNCHANGED <<reqs, procQ, allocQ, mapEntry, scan, respsFailure, blkTable, ramOut, lockFIFO, outside>>

(*   or refuse: the chip has no free block. *)
RefuseFull ==
  /\ phase = "P7"
  /\ ~blkToAlloc.valid
  /\ Fail
  /\ allocQ' = Tail(allocQ)
  /\ UNCHANGED <<reqs, mapEntry, scan, respsSuccess, tables, ramOut, lockFIFO, outside>>

(* As a mutant: the block table is not updated. *)
ForgetBlockTable ==
  /\ phase = "P8"
  /\ procQ' = Tail(procQ)
  /\ allocQ' = Tail(allocQ)
  /\ phase' = "P0"
  /\ UNCHANGED <<reqs, mapEntry, scan, respsSuccess, respsFailure, tables, ramOut, lockFIFO, outside>>

(* updateBlockTable: the block is in use from now on. *)
UpdateBlockTable ==
  /\ phase = "P8"
  /\ Unlocked
  /\ blkTable' = [blkTable EXCEPT ![Head(allocQ)][blkToAlloc.block] =
                    [status |-> "CLEAN_BLK", erase |-> blkToAlloc.erase]]
  /\ procQ' = Tail(procQ)
  /\ allocQ' = Tail(allocQ)
  /\ phase' = "P0"
  /\ UNCHANGED <<reqs, mapEntry, scan, respsSuccess, respsFailure, mapTable, ramOut, lockFIFO, outside>>
-----------------------------------------------------------------------------
(* The host (main_example.cpp) picks an idle tag and sends a request. *)
HostIssue(t, op, lpa) ==
  LET cmd == [tag |-> t, op |-> op, lpa |-> lpa]
  IN /\ host[t] = NoCmd
     /\ Len(reqs) < ReqDepth
     /\ host' = [host EXCEPT ![t] = cmd]
     /\ reqs' = Append(reqs, cmd)
     /\ UNCHANGED <<procQ, allocQ, phase, mapEntry, scan, respsSuccess, respsFailure,
                    tables, ramOut, lockFIFO, inFlash, content>>

(* driveFTLSuccessResp, driveFlashCmd and the flash, which carries out the *)
(* commands of a chip in order: the block holds the data of the segment    *)
(* whose host request the tag names, or none.                              *)
FlashTakes ==
  /\ respsSuccess # <<>>
  /\ LET c == Head(respsSuccess)
     IN /\ inFlash' = inFlash \cup {c.tag}
        /\ content' = CASE c.op = "WRITE_PAGE" ->
                             [content EXCEPT ![c.chip][c.block] = SegmentOf(host[c.tag].lpa)]
                        [] c.op = "ERASE_BLOCK" -> [content EXCEPT ![c.chip][c.block] = Erased]
                        [] c.op = "READ_PAGE" -> content
  /\ respsSuccess' = Tail(respsSuccess)
  /\ UNCHANGED <<reqs, procQ, allocQ, phase, mapEntry, scan, respsFailure, tables, ramOut, lockFIFO, host>>

(* readDone, writeDone, eraseDone with status 0.  A program or an erase    *)
(* takes the flash far longer than the few cycles in which the tables      *)
(* follow, so the FTL is done with the request.                            *)
HostDone(t) ==
  /\ t \in inFlash
  /\ procQ # <<>> => Cmd.tag # t
  /\ inFlash' = inFlash \ {t}
  /\ host' = [host EXCEPT ![t] = NoCmd]
  /\ UNCHANGED <<reqs, procQ, allocQ, phase, mapEntry, scan, respsSuccess, respsFailure,
                 tables, ramOut, lockFIFO, content>>

(* driveFTLFailureResp: done, with status 1. *)
HostRefused ==
  /\ respsFailure # <<>>
  /\ host' = [host EXCEPT ![Head(respsFailure).tag] = NoCmd]
  /\ respsFailure' = Tail(respsFailure)
  /\ UNCHANGED <<reqs, procQ, allocQ, phase, mapEntry, scan, respsSuccess, tables, ramOut,
                 lockFIFO, inFlash, content>>

Translate ==
  \/ ReadReqMapTable
  \/ ReadMapTable
  \/ UseMapped
  \/ RefuseUnmapped
  \/ StartScan
  \/ ProcErase
  \/ ProcErase2
  \/ ProcErase3
  \/ ReadReqBlockTable
  \/ ReadBlockTable
  \/ HalveMinEntries
  \/ PickMinEntry
  \/ UpdateMapTable
  \/ RefuseFull
  \/ UpdateBlockTable

Outside ==
  \/ \E t \in Tag, op \in Op, lpa \in Lpa : HostIssue(t, op, lpa)
  \/ FlashTakes
  \/ \E t \in Tag : HostDone(t)
  \/ HostRefused

Next == Translate \/ Outside

Spec == Init /\ [][Next]_vars

(* A rule of the FTL that stays enabled fires, and so do the rules that    *)
(* take its responses.                                                     *)
FairSpec == Spec /\ WF_vars(Translate) /\ WF_vars(FlashTakes) /\ WF_vars(HostRefused)
-----------------------------------------------------------------------------
(* Every register, FIFO and table holds what its declaration says, *)
RamData == [Chip -> MapEntry] \cup [Col -> BlkEntry]
RegistersTyped ==
  /\ reqs \in Seq(FTLCmd)
  /\ procQ \in Seq(FTLCmd)
  /\ allocQ \in Seq(Chip)
  /\ phase \in {"P0", "P1", "P1_write", "P1_read", "P1_erase", "P1_erase2", "P1_erase3",
               "P2", "REDUCE", "P7", "P8"}
  /\ mapEntry \in MapEntry
  /\ blkTableReqCnt \in 0..Rows
  /\ blkTableCnt \in 0..Rows
  /\ minEntries \in [Col -> MinEntry]
  /\ width \in 2..Cols
  /\ blkToAlloc \in MinEntry
  /\ respsSuccess \in Seq(FlashCmd)
  /\ respsFailure \in Seq(FTLCmd)
  /\ mapTable \in [LogBlock -> MapEntry]
  /\ blkTable \in [Chip -> [Block -> BlkEntry]]
  /\ ramOut \in Seq(RamData)
  /\ host \in [Tag -> FTLCmd \cup {NoCmd}]
  /\ inFlash \subseteq Tag

(*   and every block in the flash is erased or has data of a segment. *)
TypeOK ==
  /\ RegistersTyped
  /\ content \in [Chip -> [Block -> Segment \cup {Erased}]]

Mapped(lb) == mapTable[lb].status = "ALLOCATED"

(* Two logical blocks of a chip never share a physical block: a write to    *)
(* one would otherwise land in the other's data.                            *)
MapInjective ==
  \A k, l \in LogBlock :
    (k # l /\ k[2] = l[2] /\ Mapped(k) /\ Mapped(l)) => mapTable[k].block # mapTable[l].block

(* The windows in which one of the tables is ahead of the other: P8, and    *)
(* the two erase phases after the map entry went.                           *)
BeingTaken(c, b) == phase = "P8" /\ c = Head(allocQ) /\ b = blkToAlloc.block
BeingFreed(c, b) ==
  phase \in {"P1_erase2", "P1_erase3"} /\ c = ChipOf(Cmd.lpa) /\ b = mapEntry.block
MappedTo(c, b) == \E s \in Segment : Mapped(<<s, c>>) /\ mapTable[<<s, c>>].block = b

(* The two tables agree: a block is CLEAN in the block table if and only if  *)
(* the map binds a logical block to it, but for the block in one of the     *)
(* windows.  No block is lost, and none is free and in use at once.         *)
TablesAgree ==
  \A c \in Chip, b \in Block :
    blkTable[c][b].status = "CLEAN_BLK" <=>
      (MappedTo(c, b) /\ ~BeingTaken(c, b)) \/ BeingFreed(c, b)

(* The commands reach the flash in an order that keeps the data of segments  *)
(* apart: a page is read or erased in a block that holds its own segment,   *)
(* and programmed in such a block or an erased one, although blocks are     *)
(* given to other segments while commands on them are still queued.         *)
FlashHoldsOwnData ==
  respsSuccess # <<>> =>
    LET c == Head(respsSuccess)
        own == SegmentOf(host[c.tag].lpa)
    IN content[c.chip][c.block] \in IF c.op = "WRITE_PAGE" THEN {own, Erased} ELSE {own}

(* What the scan and the reduction must find on chip c: the free block with *)
(* the lowest erase count; of several, the one in the lowest column, and   *)
(* then in the lowest row.                                                 *)
FreeBlocks(c) == {b \in Block : blkTable[c][b].status = "FREE_BLK"}
NoWorse(c, b, o) ==
  LET e(x) == blkTable[c][x].erase
  IN \/ e(b) < e(o)
     \/ e(b) = e(o) /\ b % Cols < o % Cols
     \/ e(b) = e(o) /\ b % Cols = o % Cols /\ b <= o

(* The pipelined scan and the pairwise reduction find the block to be chosen *)
(* from the table, and nothing if no block is free.                        *)
LeastErasedFound ==
  phase = "P7" =>
    LET c == Head(allocQ)
    IN /\ blkToAlloc.valid <=> FreeBlocks(c) # {}
       /\ blkToAlloc.valid =>
            /\ blkToAlloc.block \in FreeBlocks(c)
            /\ blkToAlloc.erase = blkTable[c][blkToAlloc.block].erase
            /\ \A o \in FreeBlocks(c) : NoWorse(c, blkToAlloc.block, o)
-----------------------------------------------------------------------------
(* A request counts as served when its answer leaves: the table updates     *)
(* still to come are part of the step that sent it.                        *)
Answered == phase \in {"P1_erase2", "P1_erase3", "P8"}

Blocks == INSTANCE BlockMap WITH
  Request <- FTLCmd, Target <- LogBlockOf, Unbound <- -1, Dead <- -2,
  binding <- [lb \in LogBlock |-> CASE mapTable[lb].status = "ALLOCATED" -> mapTable[lb].block
                                     [] mapTable[lb].status = "NOT_ALLOCATED" -> -1
                                     [] mapTable[lb].status = "DEAD" -> -2],
  free <- [c \in Chip |-> {b \in Block : \/ b \in FreeBlocks(c) /\ ~BeingTaken(c, b)
                                         \/ BeingFreed(c, b)}],
  erases <- [c \in Chip |-> [b \in Block |->
               IF BeingFreed(c, b) THEN (blkTable[c][b].erase + 1) % EraseMod
               ELSE blkTable[c][b].erase]],
  todo <- (IF Answered THEN <<>> ELSE procQ) \o reqs,
  commands <- respsSuccess,
  refused <- respsFailure

(* The phases implement one atomic step per request: requests are served in *)
(* order, each from the tables as the requests before it left them, and    *)
(* every one is answered.                                                  *)
ImplementsBlockMap == Blocks!FairSpec
=============================================================================
