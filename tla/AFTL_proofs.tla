---------------------------- MODULE AFTL_proofs ----------------------------
(***************************************************************************)
(* What the translation layer keeps for every size of the tables, every    *)
(* uploaded block table and every mix of requests: that no two logical     *)
(* blocks share a block, that the two tables agree, that the scan finds    *)
(* the least erased free block, that commands find their own segment's     *)
(* data in the flash, and that each request is served as in one step; and, *)
(* among map transfers and restarts, that the file saved is the map and    *)
(* that all of this outlives a restart.                                    *)
(***************************************************************************)
EXTENDS AFTLMapTransfer, SequenceTheorems, TLAPS

Scanning == {"P2", "REDUCE", "P7", "P8"}
Freeing == {"P1_erase2", "P1_erase3"}
Here == ChipOf(Cmd.lpa)

(* A request is in procQ from P0 to P0, and its chip in allocQ while a     *)
(* block is sought.                                                        *)
OneRequest ==
  /\ IF phase = "P0" THEN procQ = <<>> ELSE Len(procQ) = 1
  /\ IF phase \in Scanning THEN allocQ = <<Here>> ELSE allocQ = <<>>

(* What the RAM has to return: it shows the tables as they are now.  Only   *)
(* while it serves no request may a map transfer lock the RAM and read it. *)
RamCurrent ==
  CASE phase = "P0" -> Unlocked => ramOut = <<>>
    [] phase = "P1" -> ramOut = <<MapRow(SegmentOf(Cmd.lpa))>>
    [] phase = "P1_erase3" -> ramOut = <<BlkRow(Here, mapEntry.block \div Cols)>>
    [] phase = "P2" -> /\ Len(ramOut) = blkTableReqCnt - blkTableCnt
                       /\ \A i \in 1..Len(ramOut) : ramOut[i] = BlkRow(Here, blkTableCnt + i - 1)
    [] OTHER -> ramOut = <<>>

(* The map entry of the request, from when it is read on.                  *)
EntryCurrent ==
  /\ phase \in {"P1_write", "P1_read", "P1_erase"} => mapEntry = mapTable[Target]
  /\ phase \in Freeing => mapEntry.status = "ALLOCATED" /\ ~MappedTo(Here, mapEntry.block)
  /\ phase \in {"P2", "REDUCE", "P7"} => mapTable[Target].status = "NOT_ALLOCATED"

(* e is the entry of the block to choose from the set S of blocks of chip c. *)
Best(e, c, S) ==
  /\ e.valid <=> S # {}
  /\ e.valid => /\ e.block \in S
                /\ e.erase = blkTable[c][e.block].erase
                /\ \A o \in S : NoWorse(c, e.block, o)

Widths == {2, 4, 8, 16, 32}
Scanned(i) == {b \in FreeBlocks(Here) : b % Cols = i /\ b \div Cols < blkTableCnt}
Group(i) == {b \in FreeBlocks(Here) : (b % Cols) \div (Cols \div width) = i}

(* During the scan each column's entry is the best of the rows seen, and   *)
(* during the reduction that of the columns merged into it.                *)
MinimaBest ==
  /\ width \in Widths
  /\ phase = "P2" => width = Cols /\ \A i \in Col : Best(minEntries[i], Here, Scanned(i))
  /\ phase = "REDUCE" => \A i \in 0..(width - 1) : Best(minEntries[i], Here, Group(i))
  /\ phase = "P7" => Best(blkToAlloc, Here, FreeBlocks(Here))

(* The block found is bound to the request before the block table says so. *)
TakenOnce ==
  phase = "P8" =>
    /\ blkToAlloc.block \in FreeBlocks(Here)
    /\ blkToAlloc.erase = blkTable[Here][blkToAlloc.block].erase
    /\ mapTable[Target] = [status |-> "ALLOCATED", block |-> blkToAlloc.block]

IInv == RegistersTyped /\ OneRequest /\ RamCurrent /\ EntryCurrent /\ MinimaBest /\ TakenOnce
        /\ MapInjective /\ TablesAgree
-----------------------------------------------------------------------------
(* The sizes of the tables are numbers that are not zero.                  *)
LEMMA Sizes ==
  /\ Segs \in Nat \ {0} /\ Pages \in Nat \ {0} /\ Chips \in Nat \ {0} /\ Rows \in Nat \ {0}
  /\ EraseMod \in Nat \ {0} /\ Cols \in Widths /\ Lpa \subseteq Nat
BY AFTLAssumption DEF Widths

(* A remainder lies below the modulus. *)
LEMMA Remainder ==
  ASSUME NEW x \in Nat, NEW n \in Nat \ {0}
  PROVE  x % n \in 0..(n - 1) /\ x \div n \in Nat
OBVIOUS

(* The fields of an address are those of a logical block and a page. *)
LEMMA AddressFields ==
  ASSUME NEW cmd \in FTLCmd
  PROVE  /\ ChipOf(cmd.lpa) \in Chip /\ PageOf(cmd.lpa) \in 0..(Pages - 1)
         /\ SegmentOf(cmd.lpa) \in Segment /\ LogBlockOf(cmd) \in LogBlock
<1>1. cmd.lpa \in Nat
  BY Sizes DEF FTLCmd
<1>2. ChipOf(cmd.lpa) \in Chip
  BY <1>1, Sizes, Remainder DEF ChipOf, Chip
<1>3. PageOf(cmd.lpa) \in 0..(Pages - 1)
  <2>1. cmd.lpa \div Chips \in Nat
    BY <1>1, Sizes, Remainder
  <2> QED
    BY <2>1, Sizes, Remainder DEF PageOf
<1>4. SegmentOf(cmd.lpa) \in Segment
  <2>1. Chips * Pages \in Nat \ {0}
    BY Sizes
  <2>2. cmd.lpa \div (Chips * Pages) \in Nat
    BY <1>1, <2>1, Remainder
  <2> QED
    BY <2>2, Sizes, Remainder DEF SegmentOf, Segment
<1> QED
  BY <1>2, <1>3, <1>4 DEF LogBlockOf, LogBlock

(* The entry i of row r is that of block r * Cols + i. *)
LEMMA RowOfBlock ==
  ASSUME NEW r \in 0..(Rows - 1), NEW i \in Col
  PROVE  /\ r * Cols + i \in Block
         /\ (r * Cols + i) % Cols = i /\ (r * Cols + i) \div Cols = r
<1>1. CASE Cols = 2
  BY <1>1, Sizes DEF Block, Col
<1>2. CASE Cols = 4
  BY <1>2, Sizes DEF Block, Col
<1>3. CASE Cols = 8
  BY <1>3, Sizes DEF Block, Col
<1>4. CASE Cols = 16
  BY <1>4, Sizes DEF Block, Col
<1>5. CASE Cols = 32
  BY <1>5, Sizes DEF Block, Col
<1> QED
  BY <1>1, <1>2, <1>3, <1>4, <1>5, Sizes DEF Widths

(* The row and the column of an entry, for the widths a row may have.      *)
LEMMA DivisionBounds ==
  ASSUME NEW b \in Nat, NEW r \in Nat, NEW n \in Widths, b < r * n
  PROVE  b \div n \in 0..(r - 1) /\ b = (b \div n) * n + (b % n)
<1>1. CASE n = 2
  BY <1>1
<1>2. CASE n = 4
  BY <1>2
<1>3. CASE n = 8
  BY <1>3
<1>4. CASE n = 16
  BY <1>4
<1>5. CASE n = 32
  BY <1>5
<1> QED
  BY <1>1, <1>2, <1>3, <1>4, <1>5 DEF Widths

(* Every block has its row and its column in the block table.              *)
LEMMA BlockInRow ==
  ASSUME NEW b \in Block
  PROVE  b % Cols \in Col /\ b \div Cols \in 0..(Rows - 1) /\ b = (b \div Cols) * Cols + (b % Cols)
<1>1. b \in Nat /\ Rows \in Nat /\ Cols \in Nat \ {0} /\ b < Rows * Cols
  BY Sizes DEF Block, Widths
<1>2. b % Cols \in Col
  BY <1>1, Remainder DEF Col
<1>3. b \div Cols \in 0..(Rows - 1) /\ b = (b \div Cols) * Cols + (b % Cols)
  BY <1>1, Sizes, DivisionBounds
<1> QED
  BY <1>2, <1>3

(* Halving merges the groups of columns two by two: with width at most     *)
(* Cols, group i of width \div 2 is made of the groups 2 * i and 2 * i + 1.  *)
LEMMA GroupsMerge ==
  ASSUME NEW j \in Col, NEW w \in Widths, w > 2, w <= Cols, NEW i \in 0..((w \div 2) - 1)
  PROVE  /\ w \div 2 \in Widths
         /\ j \div (Cols \div (w \div 2)) = i
              <=> j \div (Cols \div w) = 2 * i \/ j \div (Cols \div w) = 2 * i + 1
<1>1. CASE w = 4
  BY <1>1, Sizes DEF Widths, Col
<1>2. CASE w = 8
  BY <1>2, Sizes DEF Widths, Col
<1>3. CASE w = 16
  BY <1>3, Sizes DEF Widths, Col
<1>4. CASE w = 32
  BY <1>4, Sizes DEF Widths, Col
<1> QED
  BY <1>1, <1>2, <1>3, <1>4 DEF Widths
-----------------------------------------------------------------------------
(* The request being served and where it goes. *)
LEMMA Serving ==
  ASSUME RegistersTyped, OneRequest, phase # "P0"
  PROVE  /\ procQ # <<>> /\ Tail(procQ) = <<>> /\ Cmd \in FTLCmd
         /\ Here \in Chip /\ Target \in LogBlock /\ Target = <<SegmentOf(Cmd.lpa), Here>>
         /\ SegmentOf(Cmd.lpa) \in Segment
<1>1. procQ \in Seq(FTLCmd) /\ Len(procQ) = 1
  BY DEF RegistersTyped, OneRequest
<1>2. procQ # <<>>
  BY <1>1, EmptySeq
<1>3. Head(procQ) \in FTLCmd /\ Tail(procQ) \in Seq(FTLCmd) /\ Len(Tail(procQ)) = 0
  BY <1>1, <1>2, HeadTailProperties
<1>4. Tail(procQ) = <<>>
  BY <1>3, EmptySeq
<1> QED
  BY <1>2, <1>3, <1>4, AddressFields DEF Cmd, Here, Target, LogBlockOf

(* What the RAM returns is of its type. *)
LEMMA RowsTyped ==
  ASSUME RegistersTyped
  PROVE  /\ \A s \in Segment : MapRow(s) \in [Chip -> MapEntry]
         /\ \A c \in Chip, r \in 0..(Rows - 1) : BlkRow(c, r) \in [Col -> BlkEntry]
<1>1. ASSUME NEW s \in Segment PROVE MapRow(s) \in [Chip -> MapEntry]
  BY DEF RegistersTyped, MapRow, LogBlock
<1>2. ASSUME NEW c \in Chip, NEW r \in 0..(Rows - 1) PROVE BlkRow(c, r) \in [Col -> BlkEntry]
  <2>1. \A i \in Col : r * Cols + i \in Block
    BY RowOfBlock
  <2> QED
    BY <2>1 DEF RegistersTyped, BlkRow
<1> QED
  BY <1>1, <1>2

(* The command that serves a request on a block is one of the flash.       *)
LEMMA CommandTyped ==
  ASSUME NEW cmd \in FTLCmd, NEW b \in Block
  PROVE  Command(cmd, b) \in FlashCmd
<1>1. 0 \in 0..(Pages - 1)
  BY Sizes
<1> QED
  BY <1>1, AddressFields DEF Command, FlashCmd, FTLCmd

(* The registers start with values of their types.                         *)
LEMMA RegistersInit == Init => RegistersTyped
<1> SUFFICES ASSUME Init PROVE RegistersTyped
  OBVIOUS
<1>1. 0 \in Erase /\ 0 \in Block /\ Cols \in 2..Cols /\ 0 \in 0..Rows
  <2>1. Rows * Cols > 0
    BY Sizes DEF Widths
  <2> QED
    BY <2>1, Sizes DEF Erase, Block, Widths
<1>2. Unmapped \in MapEntry /\ Invalid \in MinEntry
  BY <1>1 DEF Unmapped, MapEntry, Invalid, MinEntry
<1>3. mapTable \in [LogBlock -> MapEntry]
  BY <1>1, <1>2 DEF Init, MapEntry
<1>4. blkTable \in [Chip -> [Block -> BlkEntry]]
  BY AFTLAssumption DEF Init
<1>5. reqs \in Seq(FTLCmd) /\ procQ \in Seq(FTLCmd) /\ allocQ \in Seq(Chip) /\ ramOut \in Seq(RamData)
      /\ respsSuccess \in Seq(FlashCmd) /\ respsFailure \in Seq(FTLCmd)
  BY DEF Init
<1> QED
  BY <1>1, <1>2, <1>3, <1>4, <1>5 DEF Init, RegistersTyped

(* The invariant holds at the start: nothing is mapped, no block in use.   *)
LEMMA AFTLInvInit == Init => IInv
<1> SUFFICES ASSUME Init PROVE IInv
  OBVIOUS
<1>1. RegistersTyped
  BY RegistersInit
<1>2. \A lb \in LogBlock : ~Mapped(lb)
  BY DEF Init, Mapped, Unmapped
<1>3. \A c \in Chip, b \in Block : ~MappedTo(c, b)
  BY <1>2 DEF MappedTo, LogBlock
<1>4. TablesAgree
  <2>1. \A c \in Chip, b \in Block : blkTable[c][b].status # "CLEAN_BLK"
    BY AFTLAssumption DEF Init
  <2> QED
    BY <1>3, <2>1 DEF TablesAgree, BeingFreed, Init
<1>5. OneRequest /\ RamCurrent /\ EntryCurrent /\ TakenOnce
  BY DEF Init, OneRequest, RamCurrent, EntryCurrent, TakenOnce, Scanning, Freeing
<1>6. MinimaBest
  BY Sizes DEF Init, MinimaBest
<1> QED
  BY <1>1, <1>2, <1>4, <1>5, <1>6 DEF IInv, MapInjective
-----------------------------------------------------------------------------
(* What the host and the flash do touches no part of the invariant but the *)
(* types.                                                                  *)
LEMMA Frame ==
  ASSUME IInv, RegistersTyped', UNCHANGED <<procQ, allocQ, phase, mapEntry, scan, tables, ramOut, lockFIFO>>
  PROVE  IInv'
<1> USE DEF scan, tables, Cmd, Here, Target, Mapped, MappedTo, FreeBlocks
<1>1. OneRequest'
  BY DEF IInv, OneRequest
<1>2. RamCurrent'
  BY DEF IInv, RamCurrent, Unlocked, MapRow, BlkRow
<1>3. EntryCurrent'
  BY DEF IInv, EntryCurrent
<1>4. MinimaBest'
  <2>1. Here' = Here /\ FreeBlocks(Here)' = FreeBlocks(Here) /\ blkTable' = blkTable
        /\ phase' = phase /\ minEntries' = minEntries /\ blkToAlloc' = blkToAlloc
        /\ width' = width /\ blkTableCnt' = blkTableCnt
    OBVIOUS
  <2>2. \A e, c, S : Best(e, c, S)' <=> Best(e, c, S)
    BY <2>1 DEF Best, NoWorse
  <2> QED
    BY <2>1, <2>2 DEF IInv, MinimaBest, Scanned, Group
<1>5. TakenOnce'
  BY DEF IInv, TakenOnce
<1>6. MapInjective'
  BY DEF IInv, MapInjective
<1>7. TablesAgree'
  BY DEF IInv, TablesAgree, BeingTaken, BeingFreed
<1> QED
  BY <1>1, <1>2, <1>3, <1>4, <1>5, <1>6, <1>7 DEF IInv

(* The steps of the host and the flash keep the invariant.                 *)
LEMMA OutsideStep ==
  ASSUME IInv, Outside
  PROVE  IInv'
<1> USE DEF IInv, RegistersTyped, tables, scan
<1>1. ASSUME NEW t \in Tag, NEW op \in Op, NEW lpa \in Lpa, HostIssue(t, op, lpa) PROVE IInv'
  <2> DEFINE cmd == [tag |-> t, op |-> op, lpa |-> lpa]
  <2>1. cmd \in FTLCmd
    BY DEF FTLCmd
  <2>2. reqs' \in Seq(FTLCmd)
    BY <1>1, <2>1 DEF HostIssue
  <2>3. host' \in [Tag -> FTLCmd \cup {NoCmd}]
    BY <1>1, <2>1 DEF HostIssue
  <2>4. UNCHANGED <<procQ, allocQ, phase, mapEntry, scan, tables, ramOut, lockFIFO,
                    respsSuccess, respsFailure, inFlash>>
    BY <1>1 DEF HostIssue
  <2>5. RegistersTyped'
    BY <2>2, <2>3, <2>4
  <2> QED
    BY <2>4, <2>5, Frame
<1>2. ASSUME FlashTakes PROVE IInv'
  <2> DEFINE c == Head(respsSuccess)
  <2>1. c \in FlashCmd /\ respsSuccess' \in Seq(FlashCmd)
    BY <1>2 DEF FlashTakes
  <2>2. inFlash' \subseteq Tag
    BY <1>2, <2>1 DEF FlashTakes, FlashCmd
  <2>3. RegistersTyped' /\ UNCHANGED <<procQ, allocQ, phase, mapEntry, scan, tables, ramOut, lockFIFO>>
    BY <1>2, <2>1, <2>2 DEF FlashTakes
  <2> QED
    BY <2>3, Frame
<1>3. ASSUME NEW t \in Tag, HostDone(t) PROVE IInv'
  <2>1. RegistersTyped' /\ UNCHANGED <<procQ, allocQ, phase, mapEntry, scan, tables, ramOut, lockFIFO>>
    BY <1>3 DEF HostDone
  <2> QED
    BY <2>1, Frame
<1>4. ASSUME HostRefused PROVE IInv'
  <2>1. respsFailure' \in Seq(FTLCmd)
    BY <1>4 DEF HostRefused
  <2>2. host' \in [Tag -> FTLCmd \cup {NoCmd}]
    BY <1>4 DEF HostRefused
  <2>3. RegistersTyped' /\ UNCHANGED <<procQ, allocQ, phase, mapEntry, scan, tables, ramOut, lockFIFO>>
    BY <1>4, <2>1, <2>2 DEF HostRefused
  <2> QED
    BY <2>3, Frame
<1> QED
  BY <1>1, <1>2, <1>3, <1>4 DEF Outside
-----------------------------------------------------------------------------
(* Outside the windows the tables simply agree. *)
Windows == Freeing \cup {"P8"}
Agree == \A c \in Chip, b \in Block : blkTable[c][b].status = "CLEAN_BLK" <=> MappedTo(c, b)

(* Where no request is in a window, the tables simply agree.               *)
LEMMA AgreeNow ==
  ASSUME phase \notin Windows
  PROVE  TablesAgree <=> Agree
BY DEF TablesAgree, Agree, BeingTaken, BeingFreed, Windows, Freeing

(* A step that touches no table keeps the map injective, and the tables in *)
(* agreement if it neither leaves nor enters a window.                     *)
LEMMA TablesKept ==
  ASSUME IInv, UNCHANGED tables
  PROVE  /\ MapInjective'
         /\ phase \notin Windows /\ phase' \notin Windows => TablesAgree'
<1> USE DEF tables, Mapped
<1>1. MapInjective'
  BY DEF IInv, MapInjective
<1>2. ASSUME phase \notin Windows, phase' \notin Windows PROVE TablesAgree'
  <2>1. Agree
    BY <1>2, AgreeNow DEF IInv
  <2>2. mapTable' = mapTable /\ blkTable' = blkTable
    OBVIOUS
  <2>3. \A c, b : MappedTo(c, b)' <=> MappedTo(c, b)
    BY <2>2 DEF MappedTo
  <2>4. Agree'
    BY <2>1, <2>2, <2>3 DEF Agree
  <2> QED
    BY <1>2, <2>4 DEF TablesAgree, Agree, BeingTaken, BeingFreed, Windows, Freeing
<1> QED
  BY <1>1, <1>2

(* readReqMapTable keeps the invariant.                                    *)
LEMMA ReadReqMapTableStep ==
  ASSUME IInv, ReadReqMapTable
  PROVE  IInv'
<1> DEFINE cmd == Head(reqs)
<1>1. /\ phase = "P0" /\ phase' = "P1" /\ reqs # <<>> /\ reqs' = Tail(reqs)
      /\ procQ' = Append(procQ, cmd) /\ ramOut' = Append(ramOut, MapRow(SegmentOf(cmd.lpa)))
      /\ UNCHANGED <<allocQ, mapEntry, scan, respsSuccess, respsFailure, tables, host, inFlash>>
  BY DEF ReadReqMapTable, outside
<1>2. cmd \in FTLCmd /\ procQ = <<>> /\ ramOut = <<>> /\ allocQ = <<>>
  <2>1. cmd \in FTLCmd
    BY <1>1 DEF IInv, RegistersTyped
  <2> QED
    BY <1>1, <2>1 DEF IInv, OneRequest, RamCurrent, Scanning, ReadReqMapTable, RamReady
<1>3. procQ' = <<cmd>> /\ ramOut' = <<MapRow(SegmentOf(cmd.lpa))>> /\ Cmd' = cmd
  BY <1>1, <1>2 DEF Cmd
<1>4. MapRow(SegmentOf(cmd.lpa)) \in RamData
  BY <1>2, AddressFields, RowsTyped DEF IInv, RamData
<1>5. RegistersTyped'
  <2>1. reqs' \in Seq(FTLCmd)
    BY <1>1 DEF IInv, RegistersTyped
  <2>2. procQ' \in Seq(FTLCmd) /\ ramOut' \in Seq(RamData)
    BY <1>2, <1>3, <1>4
  <2> QED
    BY <1>1, <2>1, <2>2 DEF IInv, RegistersTyped, scan, tables
<1>6. OneRequest'
  BY <1>1, <1>2, <1>3 DEF OneRequest, Scanning
<1>7. RamCurrent'
  BY <1>1, <1>3 DEF RamCurrent, MapRow, tables
<1>8. EntryCurrent' /\ TakenOnce'
  BY <1>1 DEF EntryCurrent, TakenOnce, Freeing
<1>9. MinimaBest'
  BY <1>1 DEF IInv, MinimaBest, scan
<1>10. MapInjective' /\ TablesAgree'
  BY <1>1, TablesKept DEF Windows, Freeing
<1> QED
  BY <1>5, <1>6, <1>7, <1>8, <1>9, <1>10 DEF IInv

(* readMapTable keeps the invariant: it reads the entry as the map has it. *)
LEMMA ReadMapTableStep ==
  ASSUME IInv, ReadMapTable
  PROVE  IInv'
<1>1. /\ phase = "P1" /\ phase' \in {"P1_write", "P1_read", "P1_erase"}
      /\ mapEntry' = Head(ramOut)[Here] /\ ramOut' = Tail(ramOut)
      /\ UNCHANGED <<reqs, procQ, allocQ, scan, respsSuccess, respsFailure, tables, host, inFlash>>
  <2>1. phase = "P1"
    BY DEF ReadMapTable
  <2>2. Cmd.op \in Op
    BY <2>1, Serving DEF IInv, FTLCmd
  <2> QED
    BY <2>2 DEF ReadMapTable, outside, Op, Here
<1>2. procQ' = procQ /\ Cmd' = Cmd /\ Here' = Here /\ Target' = Target
  BY <1>1 DEF Cmd, Here, Target
<1>3. Here \in Chip /\ Target \in LogBlock /\ Target = <<SegmentOf(Cmd.lpa), Here>>
  BY <1>1, Serving DEF IInv
<1>4. ramOut = <<MapRow(SegmentOf(Cmd.lpa))>>
  BY <1>1 DEF IInv, RamCurrent
<1>5. mapEntry' = mapTable[Target] /\ ramOut' = <<>>
  BY <1>1, <1>3, <1>4 DEF MapRow
<1>6. RegistersTyped'
  <2>1. mapEntry' \in MapEntry
    BY <1>3, <1>5 DEF IInv, RegistersTyped
  <2>2. ramOut' \in Seq(RamData)
    BY <1>5
  <2> QED
    BY <1>1, <2>1, <2>2 DEF IInv, RegistersTyped, scan, tables
<1>7. OneRequest'
  BY <1>1, <1>2 DEF IInv, OneRequest, Scanning
<1>8. RamCurrent'
  BY <1>1, <1>5 DEF RamCurrent
<1>9. EntryCurrent' /\ TakenOnce'
  BY <1>1, <1>2, <1>5 DEF EntryCurrent, TakenOnce, Freeing, tables
<1>10. MinimaBest'
  BY <1>1 DEF IInv, MinimaBest, scan
<1>11. MapInjective' /\ TablesAgree'
  BY <1>1, TablesKept DEF Windows, Freeing
<1> QED
  BY <1>6, <1>7, <1>8, <1>9, <1>10, <1>11 DEF IInv

(* The two ways a request ends: its command leaves, or it is refused. *)
LEMMA SucceedTyped ==
  ASSUME IInv, phase # "P0", NEW b \in Block, Succeed(b)
  PROVE  respsSuccess' \in Seq(FlashCmd)
<1>1. Command(Cmd, b) \in FlashCmd
  BY Serving, CommandTyped DEF IInv
<1> QED
  BY <1>1 DEF IInv, RegistersTyped, Succeed

(* procRead and procWrite on a mapped block keep the invariant.            *)
LEMMA UseMappedStep ==
  ASSUME IInv, UseMapped
  PROVE  IInv'
<1>1. /\ phase \in {"P1_read", "P1_write"} /\ phase' = "P0" /\ procQ' = Tail(procQ)
      /\ Succeed(mapEntry.block)
      /\ UNCHANGED <<reqs, allocQ, mapEntry, scan, respsFailure, tables, ramOut, host, inFlash>>
  BY DEF UseMapped, outside
<1>2. procQ' = <<>> /\ allocQ = <<>> /\ ramOut = <<>>
  BY <1>1, Serving DEF IInv, OneRequest, RamCurrent, Scanning
<1>3. RegistersTyped'
  <2>1. respsSuccess' \in Seq(FlashCmd)
    BY <1>1, SucceedTyped DEF IInv, RegistersTyped, MapEntry
  <2>2. procQ' \in Seq(FTLCmd)
    BY <1>2
  <2> QED
    BY <1>1, <2>1, <2>2 DEF IInv, RegistersTyped, scan, tables
<1>4. OneRequest' /\ RamCurrent' /\ EntryCurrent' /\ TakenOnce'
  BY <1>1, <1>2 DEF OneRequest, RamCurrent, EntryCurrent, TakenOnce, Freeing, Scanning
<1>5. MinimaBest'
  BY <1>1 DEF IInv, MinimaBest, scan
<1>6. MapInjective' /\ TablesAgree'
  BY <1>1, TablesKept DEF Windows, Freeing
<1> QED
  BY <1>3, <1>4, <1>5, <1>6 DEF IInv

(* A refusal keeps the invariant.                                          *)
LEMMA RefuseStep ==
  ASSUME IInv, RefuseUnmapped \/ RefuseFull
  PROVE  IInv'
<1>1. /\ phase \in {"P1_read", "P1_write", "P1_erase", "P7"} /\ phase' = "P0" /\ procQ' = <<>>
      /\ respsFailure' = Append(respsFailure, Cmd)
      /\ allocQ' = IF phase = "P7" THEN Tail(allocQ) ELSE allocQ
      /\ UNCHANGED <<reqs, mapEntry, scan, respsSuccess, tables, ramOut, host, inFlash>>
  BY DEF RefuseUnmapped, RefuseFull, Fail, outside
<1>2. Cmd \in FTLCmd /\ ramOut = <<>>
  BY <1>1, Serving DEF IInv, RamCurrent
<1>3. allocQ' = <<>>
  <2>1. CASE phase = "P7"
    <3>1. allocQ = <<Here>>
      BY <2>1 DEF IInv, OneRequest, Scanning
    <3> QED
      BY <1>1, <2>1, <3>1
  <2>2. CASE phase # "P7"
    BY <1>1, <2>2 DEF IInv, OneRequest, Scanning
  <2> QED
    BY <2>1, <2>2
<1>4. RegistersTyped'
  <2>1. respsFailure' \in Seq(FTLCmd)
    BY <1>1, <1>2 DEF IInv, RegistersTyped
  <2>2. procQ' \in Seq(FTLCmd)
    BY <1>1
  <2>3. allocQ' \in Seq(Chip)
    BY <1>3
  <2> QED
    BY <1>1, <2>1, <2>2, <2>3 DEF IInv, RegistersTyped, scan, tables
<1>5. OneRequest' /\ RamCurrent' /\ EntryCurrent' /\ TakenOnce'
  BY <1>1, <1>2, <1>3 DEF OneRequest, RamCurrent, EntryCurrent, TakenOnce, Freeing, Scanning
<1>6. MinimaBest'
  BY <1>1 DEF IInv, MinimaBest, scan
<1>7. MapInjective' /\ TablesAgree'
  BY <1>1, TablesKept DEF Windows, Freeing
<1> QED
  BY <1>4, <1>5, <1>6, <1>7 DEF IInv

(* The start of a scan keeps the invariant: no row is seen yet.            *)
LEMMA StartScanStep ==
  ASSUME IInv, StartScan
  PROVE  IInv'
<1>1. /\ phase = "P1_write" /\ phase' = "P2" /\ mapEntry.status = "NOT_ALLOCATED"
      /\ allocQ' = Append(allocQ, Here)
      /\ blkTableReqCnt' = 0 /\ blkTableCnt' = 0 /\ width' = Cols
      /\ minEntries' = [c \in Col |-> Invalid] /\ blkToAlloc' = Invalid
      /\ UNCHANGED <<reqs, procQ, mapEntry, respsSuccess, respsFailure, tables, ramOut, host, inFlash>>
  BY DEF StartScan, outside, Here
<1>2. Here \in Chip /\ allocQ = <<>> /\ ramOut = <<>> /\ mapEntry = mapTable[Target]
  BY <1>1, Serving DEF IInv, OneRequest, RamCurrent, EntryCurrent, Scanning
<1>3. allocQ' = <<Here>> /\ Here' = Here /\ Target' = Target /\ procQ' = procQ
  BY <1>1, <1>2 DEF Here, Target, Cmd
<1>4. RegistersTyped'
  <2>1. 0 \in 0..Rows /\ 0 \in Block /\ 0 \in Erase /\ Cols \in 2..Cols
    <3>1. Rows * Cols > 0
      BY Sizes DEF Widths
    <3> QED
      BY <3>1, Sizes DEF Erase, Block, Widths
  <2>2. Invalid \in MinEntry
    BY <2>1 DEF Invalid, MinEntry
  <2>3. allocQ' \in Seq(Chip)
    BY <1>2, <1>3
  <2> QED
    BY <1>1, <2>1, <2>2, <2>3 DEF IInv, RegistersTyped, tables
<1>5. OneRequest'
  BY <1>1, <1>3 DEF IInv, OneRequest, Scanning
<1>6. RamCurrent'
  <2>1. Len(ramOut') = 0 /\ blkTableReqCnt' - blkTableCnt' = 0 /\ 1..Len(ramOut') = {}
    BY <1>1, <1>2
  <2> QED
    BY <1>1, <2>1 DEF RamCurrent
<1>7. EntryCurrent' /\ TakenOnce'
  BY <1>1, <1>2, <1>3 DEF EntryCurrent, TakenOnce, Freeing, Mapped, tables
<1>8. MinimaBest'
  <2>1. \A i \in Col : Scanned(i)' = {}
    <3>1. \A b \in Block : ~(b \div Cols < 0)
      BY BlockInRow
    <3> QED
      BY <1>1, <3>1 DEF Scanned, FreeBlocks
  <2>2. \A i \in Col : Best(minEntries[i], Here, Scanned(i))'
    BY <1>1, <2>1 DEF Best, Invalid
  <2> QED
    BY <1>1, <2>2, Sizes DEF MinimaBest
<1>9. MapInjective' /\ TablesAgree'
  BY <1>1, TablesKept DEF Windows, Freeing
<1> QED
  BY <1>4, <1>5, <1>6, <1>7, <1>8, <1>9 DEF IInv
-----------------------------------------------------------------------------
(* What binding and unbinding a logical block changes of MappedTo. *)
LEMMA Unbinding ==
  ASSUME MapInjective, NEW s0 \in Segment, NEW c0 \in Chip, Mapped(<<s0, c0>>),
         mapTable \in [LogBlock -> MapEntry],
         mapTable' = [mapTable EXCEPT ![<<s0, c0>>] = Unmapped]
  PROVE  \A c \in Chip, b \in Block :
            MappedTo(c, b)' <=> MappedTo(c, b) /\ ~(c = c0 /\ b = mapTable[<<s0, c0>>].block)
<1> TAKE c \in Chip, b \in Block
<1>1. \A s \in Segment : <<s, c>> \in LogBlock /\ <<s0, c0>> \in LogBlock
  BY DEF LogBlock
<1>2. \A s \in Segment : mapTable'[<<s, c>>] = IF s = s0 /\ c = c0 THEN Unmapped ELSE mapTable[<<s, c>>]
  BY <1>1
<1>3. ASSUME MappedTo(c, b)' PROVE MappedTo(c, b) /\ ~(c = c0 /\ b = mapTable[<<s0, c0>>].block)
  <2>1. PICK s \in Segment : mapTable'[<<s, c>>].status = "ALLOCATED" /\ mapTable'[<<s, c>>].block = b
    BY <1>3 DEF MappedTo, Mapped
  <2>2. ~(s = s0 /\ c = c0) /\ mapTable'[<<s, c>>] = mapTable[<<s, c>>]
    BY <1>2, <2>1 DEF Unmapped
  <2>3. MappedTo(c, b)
    BY <2>1, <2>2 DEF MappedTo, Mapped
  <2>4. c = c0 => b # mapTable[<<s0, c0>>].block
    <3> HAVE c = c0
    <3>1. <<s, c>> # <<s0, c0>> /\ <<s, c>> \in LogBlock /\ <<s0, c0>> \in LogBlock
      BY <1>1, <2>2
    <3>2. <<s, c>>[2] = <<s0, c0>>[2] /\ Mapped(<<s, c>>)
      BY <2>1, <2>2 DEF Mapped
    <3> QED
      BY <2>1, <2>2, <3>1, <3>2 DEF MapInjective
  <2> QED
    BY <2>3, <2>4
<1>4. ASSUME MappedTo(c, b), ~(c = c0 /\ b = mapTable[<<s0, c0>>].block) PROVE MappedTo(c, b)'
  <2>1. PICK s \in Segment : mapTable[<<s, c>>].status = "ALLOCATED" /\ mapTable[<<s, c>>].block = b
    BY <1>4 DEF MappedTo, Mapped
  <2>2. ~(s = s0 /\ c = c0)
    BY <1>4, <2>1
  <2> QED
    BY <1>2, <2>1, <2>2 DEF MappedTo, Mapped
<1> QED
  BY <1>3, <1>4

(* Binding an unmapped segment of a chip to a block changes what is mapped   *)
(* there and nowhere else: the write that allocates, AFTL.bsv.             *)
LEMMA Binding ==
  ASSUME NEW s0 \in Segment, NEW c0 \in Chip, NEW b0 \in Block, ~Mapped(<<s0, c0>>),
         mapTable \in [LogBlock -> MapEntry],
         mapTable' = [mapTable EXCEPT ![<<s0, c0>>] = [status |-> "ALLOCATED", block |-> b0]]
  PROVE  \A c \in Chip, b \in Block : MappedTo(c, b)' <=> MappedTo(c, b) \/ (c = c0 /\ b = b0)
<1> TAKE c \in Chip, b \in Block
<1>1. \A s \in Segment : <<s, c>> \in LogBlock /\ <<s0, c0>> \in LogBlock
  BY DEF LogBlock
<1>2. \A s \in Segment : mapTable'[<<s, c>>] =
         IF s = s0 /\ c = c0 THEN [status |-> "ALLOCATED", block |-> b0] ELSE mapTable[<<s, c>>]
  BY <1>1
<1>3. ASSUME MappedTo(c, b)' PROVE MappedTo(c, b) \/ (c = c0 /\ b = b0)
  BY <1>2, <1>3 DEF MappedTo, Mapped
<1>4. ASSUME MappedTo(c, b) PROVE MappedTo(c, b)'
  BY <1>2, <1>4 DEF MappedTo, Mapped
<1>5. ASSUME c = c0, b = b0 PROVE MappedTo(c, b)'
  BY <1>2, <1>5 DEF MappedTo, Mapped
<1> QED
  BY <1>3, <1>4, <1>5

(* procErase keeps the invariant: the block is freed, in the map.          *)
LEMMA ProcEraseStep ==
  ASSUME IInv, ProcErase
  PROVE  IInv'
<1> DEFINE b0 == mapEntry.block
<1>1. /\ phase = "P1_erase" /\ phase' = "P1_erase2" /\ mapEntry.status = "ALLOCATED"
      /\ Succeed(b0) /\ mapTable' = [mapTable EXCEPT ![Target] = Unmapped]
      /\ UNCHANGED <<reqs, procQ, allocQ, mapEntry, scan, respsFailure, blkTable, ramOut, host, inFlash>>
  BY DEF ProcErase, outside
<1>2. /\ Here \in Chip /\ Target \in LogBlock /\ Target = <<SegmentOf(Cmd.lpa), Here>>
      /\ SegmentOf(Cmd.lpa) \in Segment
      /\ allocQ = <<>> /\ ramOut = <<>> /\ mapEntry = mapTable[Target] /\ b0 \in Block
      /\ mapTable \in [LogBlock -> MapEntry]
  BY <1>1, Serving DEF IInv, OneRequest, RamCurrent, EntryCurrent, Scanning, RegistersTyped, MapEntry
<1>3. Here' = Here /\ Target' = Target
  BY <1>1 DEF Here, Target, Cmd
<1>4. \A c \in Chip, b \in Block : MappedTo(c, b)' <=> MappedTo(c, b) /\ ~(c = Here /\ b = b0)
  <2>1. Mapped(<<SegmentOf(Cmd.lpa), Here>>)
    BY <1>1, <1>2 DEF Mapped
  <2> QED
    BY <1>1, <1>2, <2>1, Unbinding DEF IInv
<1>5. RegistersTyped'
  <2>1. respsSuccess' \in Seq(FlashCmd)
    BY <1>1, <1>2, SucceedTyped
  <2>2. mapTable' \in [LogBlock -> MapEntry]
    <3>1. 0 \in Block
      BY <1>2, Sizes DEF Block, Widths
    <3> QED
      BY <1>1, <1>2, <3>1 DEF MapEntry, Unmapped
  <2> QED
    BY <1>1, <2>1, <2>2 DEF IInv, RegistersTyped, scan
<1>6. OneRequest' /\ RamCurrent' /\ TakenOnce'
  BY <1>1, <1>2 DEF IInv, OneRequest, RamCurrent, TakenOnce, Scanning
<1>7. EntryCurrent'
  <2>1. PICK c \in Chip, b \in Block : c = Here /\ b = b0
    BY <1>2
  <2>2. ~MappedTo(c, b)'
    BY <1>4, <2>1
  <2>3. c = Here' /\ b = mapEntry'.block
    BY <1>1, <1>3, <2>1
  <2>4. ~MappedTo(Here, mapEntry.block)'
    BY <2>2, <2>3
  <2> QED
    BY <1>1, <2>4 DEF EntryCurrent, Freeing
<1>8. MinimaBest'
  BY <1>1 DEF IInv, MinimaBest, scan
<1>9. MapInjective'
  <2>1. \A lb \in LogBlock : mapTable'[lb] = IF lb = Target THEN Unmapped ELSE mapTable[lb]
    BY <1>1, <1>2
  <2> QED
    BY <2>1 DEF IInv, MapInjective, Mapped, Unmapped
<1>10. TablesAgree'
  <2>1. Agree
    BY <1>1, AgreeNow DEF IInv, Windows, Freeing
  <2>2. MappedTo(Here, b0)
    BY <1>1, <1>2 DEF MappedTo, Mapped
  <2>3. \A c, b : (BeingFreed(c, b)' <=> c = Here /\ b = b0) /\ ~BeingTaken(c, b)'
    BY <1>1, <1>3 DEF BeingFreed, BeingTaken, Here
  <2> QED
    BY <1>1, <1>2, <1>4, <2>1, <2>2, <2>3 DEF TablesAgree, Agree
<1> QED
  BY <1>5, <1>6, <1>7, <1>8, <1>9, <1>10 DEF IInv

(* procErase2 keeps the invariant.                                         *)
LEMMA ProcErase2Step ==
  ASSUME IInv, ProcErase2
  PROVE  IInv'
<1> DEFINE row == BlkRow(Here, mapEntry.block \div Cols)
<1>1. /\ phase = "P1_erase2" /\ phase' = "P1_erase3" /\ ramOut' = Append(ramOut, row)
      /\ UNCHANGED <<reqs, procQ, allocQ, mapEntry, scan, respsSuccess, respsFailure, tables, host, inFlash>>
  BY DEF ProcErase2, outside, Here
<1>2. Here \in Chip /\ allocQ = <<>> /\ ramOut = <<>> /\ mapEntry.block \in Block
  BY <1>1, Serving DEF IInv, OneRequest, RamCurrent, Scanning, RegistersTyped, MapEntry
<1>3. Here' = Here /\ Target' = Target /\ Cmd' = Cmd
  BY <1>1 DEF Here, Target, Cmd
<1>4. ramOut' = <<row>>
  BY <1>1, <1>2
<1>5. RegistersTyped'
  <2>1. row \in [Col -> BlkEntry]
    BY <1>2, BlockInRow, RowsTyped DEF IInv
  <2>2. ramOut' \in Seq(RamData)
    BY <1>4, <2>1 DEF RamData
  <2> QED
    BY <1>1, <2>2 DEF IInv, RegistersTyped, scan, tables
<1>6. OneRequest' /\ TakenOnce'
  BY <1>1, <1>2 DEF IInv, OneRequest, TakenOnce, Scanning
<1>7. RamCurrent'
  BY <1>1, <1>3, <1>4 DEF RamCurrent, BlkRow, tables
<1>8. EntryCurrent'
  BY <1>1, <1>3 DEF IInv, EntryCurrent, Freeing, MappedTo, Mapped, tables
<1>9. MinimaBest'
  BY <1>1 DEF IInv, MinimaBest, scan
<1>10. MapInjective'
  BY <1>1, TablesKept
<1>11. TablesAgree'
  <2>1. mapTable' = mapTable /\ blkTable' = blkTable
    BY <1>1 DEF tables
  <2>2. \A c, b : MappedTo(c, b)' <=> MappedTo(c, b)
    BY <2>1 DEF MappedTo, Mapped
  <2>3. \A c, b : BeingFreed(c, b)' <=> BeingFreed(c, b)
    BY <1>1, <1>3 DEF BeingFreed, Here
  <2>4. \A c, b : ~BeingTaken(c, b) /\ ~BeingTaken(c, b)'
    BY <1>1 DEF BeingTaken
  <2> QED
    BY <2>1, <2>2, <2>3, <2>4 DEF IInv, TablesAgree
<1> QED
  BY <1>5, <1>6, <1>7, <1>8, <1>9, <1>10, <1>11 DEF IInv

(* procErase3 keeps the invariant: the block is freed in the other table.  *)
LEMMA ProcErase3Step ==
  ASSUME IInv, ProcErase3
  PROVE  IInv'
<1> DEFINE b0 == mapEntry.block
           entry == [status |-> "FREE_BLK", erase |-> (Head(ramOut)[b0 % Cols].erase + 1) % EraseMod]
<1>1. /\ phase = "P1_erase3" /\ phase' = "P0" /\ procQ' = Tail(procQ) /\ ramOut' = Tail(ramOut)
      /\ blkTable' = [blkTable EXCEPT ![Here][b0] = entry]
      /\ UNCHANGED <<reqs, allocQ, mapEntry, scan, respsSuccess, respsFailure, mapTable, host, inFlash>>
  BY DEF ProcErase3, outside, Here
<1>2. /\ Here \in Chip /\ allocQ = <<>> /\ b0 \in Block /\ procQ' = <<>>
      /\ ramOut = <<BlkRow(Here, b0 \div Cols)>>
  BY <1>1, Serving DEF IInv, OneRequest, RamCurrent, Scanning, RegistersTyped, MapEntry
<1>3. ramOut' = <<>> /\ Head(ramOut) = BlkRow(Here, b0 \div Cols)
  BY <1>1, <1>2
<1>4. entry \in BlkEntry
  <2>1. BlkRow(Here, b0 \div Cols)[b0 % Cols] \in BlkEntry
    BY <1>2, BlockInRow, RowsTyped DEF IInv
  <2>2. Head(ramOut)[b0 % Cols].erase \in Nat
    BY <1>3, <2>1, Sizes DEF BlkEntry, Erase
  <2>3. \A x \in Nat : (x + 1) % EraseMod \in Erase
    BY Sizes, Remainder DEF Erase
  <2> QED
    BY <2>2, <2>3 DEF BlkEntry
<1>5. RegistersTyped'
  <2>1. blkTable' \in [Chip -> [Block -> BlkEntry]]
    BY <1>1, <1>2, <1>4 DEF IInv, RegistersTyped
  <2>2. procQ' \in Seq(FTLCmd)
    BY <1>2
  <2>3. ramOut' \in Seq(RamData)
    BY <1>3
  <2> QED
    BY <1>1, <2>1, <2>2, <2>3 DEF IInv, RegistersTyped, scan
<1>6. OneRequest' /\ RamCurrent' /\ EntryCurrent' /\ TakenOnce'
  BY <1>1, <1>2, <1>3 DEF OneRequest, RamCurrent, EntryCurrent, TakenOnce, Scanning, Freeing
<1>7. MinimaBest'
  BY <1>1 DEF IInv, MinimaBest, scan
<1>8. MapInjective'
  BY <1>1 DEF IInv, MapInjective, Mapped
<1>9. TablesAgree'
  <2>1. \A c, b : MappedTo(c, b)' <=> MappedTo(c, b)
    BY <1>1 DEF MappedTo, Mapped
  <2>2. \A c, b : ~BeingTaken(c, b) /\ ~BeingTaken(c, b)' /\ ~BeingFreed(c, b)'
    BY <1>1 DEF BeingTaken, BeingFreed
  <2>3. \A c, b : BeingFreed(c, b) <=> c = Here /\ b = b0
    BY <1>1 DEF BeingFreed, Here
  <2>4. ~MappedTo(Here, b0)
    BY <1>1 DEF IInv, EntryCurrent, Freeing
  <2>5. \A c \in Chip, b \in Block :
           blkTable'[c][b].status = IF c = Here /\ b = b0 THEN "FREE_BLK" ELSE blkTable[c][b].status
    BY <1>1, <1>2 DEF IInv, RegistersTyped
  <2> QED
    BY <2>1, <2>2, <2>3, <2>4, <2>5 DEF IInv, TablesAgree
<1> QED
  BY <1>5, <1>6, <1>7, <1>8, <1>9 DEF IInv

(* readReqBlockTable keeps the invariant.                                  *)
LEMMA ReadReqBlockTableStep ==
  ASSUME IInv, ReadReqBlockTable
  PROVE  IInv'
<1> DEFINE row == BlkRow(Here, blkTableReqCnt)
<1>1. /\ phase = "P2" /\ phase' = "P2" /\ blkTableReqCnt < Rows
      /\ ramOut' = Append(ramOut, BlkRow(Head(allocQ), blkTableReqCnt))
      /\ blkTableReqCnt' = blkTableReqCnt + 1
      /\ UNCHANGED <<reqs, procQ, allocQ, mapEntry, blkTableCnt, minEntries, width, blkToAlloc,
                     respsSuccess, respsFailure, tables, host, inFlash>>
  BY DEF ReadReqBlockTable, outside
<1>2. Here \in Chip /\ allocQ = <<Here>> /\ ramOut \in Seq(RamData)
      /\ blkTableReqCnt \in 0..(Rows - 1) /\ blkTableCnt \in 0..Rows
  BY <1>1, Serving, Sizes DEF IInv, OneRequest, Scanning, RegistersTyped
<1>3. Here' = Here /\ Target' = Target /\ Cmd' = Cmd
  BY <1>1 DEF Here, Target, Cmd
<1>4. ramOut' = Append(ramOut, row) /\ row \in RamData
  BY <1>1, <1>2, RowsTyped DEF IInv, RamData
<1>5. RegistersTyped'
  <2>1. ramOut' \in Seq(RamData)
    BY <1>2, <1>4
  <2>2. blkTableReqCnt' \in 0..Rows
    BY <1>1, <1>2, Sizes
  <2> QED
    BY <1>1, <2>1, <2>2 DEF IInv, RegistersTyped, tables
<1>6. OneRequest' /\ TakenOnce'
  BY <1>1, <1>3 DEF IInv, OneRequest, TakenOnce, Scanning
<1>7. RamCurrent'
  <2>1. /\ Len(ramOut) = blkTableReqCnt - blkTableCnt
        /\ \A i \in 1..Len(ramOut) : ramOut[i] = BlkRow(Here, blkTableCnt + i - 1)
    BY <1>1 DEF IInv, RamCurrent
  <2>2. Len(ramOut') = Len(ramOut) + 1 /\ Len(ramOut) \in Nat
    BY <1>2, <1>4
  <2>3. \A i \in 1..Len(ramOut') : ramOut'[i] = BlkRow(Here, blkTableCnt + i - 1)
    <3> TAKE i \in 1..Len(ramOut')
    <3>1. CASE i \in 1..Len(ramOut)
      BY <1>2, <1>4, <2>1, <3>1
    <3>2. CASE i = Len(ramOut) + 1
      <4>1. ramOut'[i] = row
        BY <1>2, <1>4, <3>2
      <4>2. blkTableCnt + i - 1 = blkTableReqCnt
        BY <1>2, <2>1, <2>2, <3>2
      <4> QED
        BY <4>1, <4>2
    <3> QED
      BY <2>2, <3>1, <3>2
  <2>4. \A r : BlkRow(Here, r)' = BlkRow(Here, r)
    BY <1>1, <1>3 DEF BlkRow, tables
  <2>5. Len(ramOut') = blkTableReqCnt' - blkTableCnt'
    BY <1>1, <1>2, <2>1, <2>2
  <2>6. \A i \in 1..Len(ramOut') : ramOut'[i] = BlkRow(Here, blkTableCnt + i - 1)'
    BY <1>1, <1>3, <2>3 DEF BlkRow, tables
  <2> QED
    BY <1>1, <2>5, <2>6 DEF RamCurrent
<1>8. EntryCurrent'
  BY <1>1, <1>3 DEF IInv, EntryCurrent, Freeing, Mapped, tables
<1>9. MinimaBest'
  <2>1. Here' = Here /\ FreeBlocks(Here)' = FreeBlocks(Here) /\ blkTable' = blkTable
    BY <1>1, <1>3 DEF FreeBlocks, tables
  <2>2. \A e, c, S : Best(e, c, S)' <=> Best(e, c, S)
    BY <2>1 DEF Best, NoWorse
  <2> QED
    BY <1>1, <2>1, <2>2 DEF IInv, MinimaBest, Scanned
<1>10. MapInjective' /\ TablesAgree'
  BY <1>1, TablesKept DEF Windows, Freeing
<1> QED
  BY <1>5, <1>6, <1>7, <1>8, <1>9, <1>10 DEF IInv
-----------------------------------------------------------------------------
(* NoWorse compares erase counts first. *)
LEMMA NoWorseErase ==
  ASSUME NEW c \in Chip, blkTable \in [Chip -> [Block -> BlkEntry]],
         NEW b \in Block, NEW o \in Block
  PROVE  /\ blkTable[c][b].erase \in Int /\ blkTable[c][o].erase \in Int /\ b \in Int /\ o \in Int
         /\ NoWorse(c, b, o) => blkTable[c][b].erase <= blkTable[c][o].erase
         /\ blkTable[c][b].erase < blkTable[c][o].erase => NoWorse(c, b, o)
         /\ blkTable[c][b].erase <= blkTable[c][o].erase /\ b % Cols = o % Cols /\ b <= o
              => NoWorse(c, b, o)
<1>1. blkTable[c][b].erase \in Int /\ blkTable[c][o].erase \in Int
  BY DEF BlkEntry, Erase
<1>2. b \in Int /\ o \in Int
  BY DEF Block
<1> DEFINE x == blkTable[c][b].erase
           y == blkTable[c][o].erase
           k == b % Cols
           l == o % Cols
<1>3. NoWorse(c, b, o) <=> x < y \/ (x = y /\ k < l) \/ (x = y /\ k = l /\ b <= o)
  BY DEF NoWorse
<1>4. x \in Int /\ y \in Int
  BY <1>1
<1> HIDE DEF x, y, k, l
<1>5. /\ NoWorse(c, b, o) => x <= y
      /\ x < y => NoWorse(c, b, o)
      /\ x <= y /\ k = l /\ b <= o => NoWorse(c, b, o)
  BY <1>2, <1>3, <1>4
<1> QED
  BY <1>1, <1>2, <1>5 DEF x, y, k, l

(* getMinEntries extends the best entry of a column by the next row. *)
LEMMA BestOfRow ==
  ASSUME NEW c \in Chip, blkTable \in [Chip -> [Block -> BlkEntry]],
         NEW S \in SUBSET FreeBlocks(c), NEW b \in Block,
         \A o \in S : o % Cols = b % Cols /\ o <= b,
         NEW e \in MinEntry, Best(e, c, S)
  PROVE  /\ GetMinEntries(e, blkTable[c][b], b) \in MinEntry
         /\ Best(GetMinEntries(e, blkTable[c][b], b), c, S \cup ({b} \cap FreeBlocks(c)))
<1> DEFINE entry == blkTable[c][b]
           new == GetMinEntries(e, entry, b)
           taken == [valid |-> TRUE, block |-> b, erase |-> entry.erase]
<1>1. S \subseteq Block /\ Block \subseteq Int
  BY DEF FreeBlocks, Block
<1>2. \A o \in Block : blkTable[c][o].erase \in Int /\ blkTable[c][o] \in BlkEntry
  BY DEF BlkEntry, Erase
<1>3. b \in FreeBlocks(c) <=> entry.status = "FREE_BLK"
  BY DEF FreeBlocks
<1>4. taken \in MinEntry
  BY <1>2 DEF MinEntry, BlkEntry
<1>5. NoWorse(c, b, b)
  BY NoWorseErase
<1>6. CASE entry.status # "FREE_BLK"
  BY <1>3, <1>6 DEF GetMinEntries
<1>7. CASE entry.status = "FREE_BLK" /\ e.valid /\ e.erase <= entry.erase
  <2>1. new = e /\ e.block \in S /\ e.erase = blkTable[c][e.block].erase
    BY <1>7 DEF GetMinEntries, Best
  <2>2. NoWorse(c, e.block, b)
    BY <1>1, <1>7, <2>1, NoWorseErase
  <2> QED
    BY <1>3, <1>7, <2>1, <2>2 DEF Best
<1>8. CASE entry.status = "FREE_BLK" /\ ~(e.valid /\ e.erase <= entry.erase)
  <2>1. new = taken
    BY <1>8 DEF GetMinEntries
  <2>2. \A o \in S : NoWorse(c, b, o)
    <3> TAKE o \in S
    <3>1. e.valid /\ e.block \in S /\ NoWorse(c, e.block, o) /\ e.erase = blkTable[c][e.block].erase
      BY DEF Best
    <3>2. blkTable[c][e.block].erase <= blkTable[c][o].erase
      BY <1>1, <3>1, NoWorseErase
    <3>3. entry.erase \in Int /\ blkTable[c][e.block].erase \in Int /\ blkTable[c][o].erase \in Int
      BY <1>1, <1>2, <3>1
    <3>4. entry.erase < blkTable[c][o].erase
      BY <1>8, <3>1, <3>2, <3>3
    <3> QED
      BY <1>1, <3>4, NoWorseErase
  <2> QED
    BY <1>3, <1>4, <1>5, <1>8, <2>1, <2>2 DEF Best
<1> QED
  BY <1>6, <1>7, <1>8

(* min2to1 finds the best of two sets, one in lower columns than the other. *)
LEMMA BestOfTwo ==
  ASSUME NEW c \in Chip, blkTable \in [Chip -> [Block -> BlkEntry]],
         NEW S \in SUBSET FreeBlocks(c), NEW T \in SUBSET FreeBlocks(c),
         \A o \in S, p \in T : o % Cols < p % Cols,
         NEW e \in MinEntry, NEW f \in MinEntry, Best(e, c, S), Best(f, c, T)
  PROVE  Min2to1(e, f) \in MinEntry /\ Best(Min2to1(e, f), c, S \cup T)
<1>1. S \subseteq Block /\ T \subseteq Block
  BY DEF FreeBlocks
<1>2. \A o \in Block : blkTable[c][o].erase \in Int
  BY DEF BlkEntry, Erase
<1>3. CASE e.valid /\ (f.valid => e.erase <= f.erase)
  <2>1. Min2to1(e, f) = e /\ e.block \in S /\ e.erase = blkTable[c][e.block].erase
    BY <1>3 DEF Min2to1, Best
  <2>2. \A p \in T : NoWorse(c, e.block, p)
    <3> TAKE p \in T
    <3>1. f.valid /\ f.block \in T /\ NoWorse(c, f.block, p) /\ f.erase = blkTable[c][f.block].erase
      BY DEF Best
    <3>2. blkTable[c][f.block].erase <= blkTable[c][p].erase
      BY <1>1, <1>2, <3>1 DEF NoWorse
    <3>3. blkTable[c][e.block].erase <= blkTable[c][p].erase
      BY <1>1, <1>2, <1>3, <2>1, <3>1, <3>2
    <3>4. e.block % Cols < p % Cols
      BY <2>1
    <3> QED
      BY <1>1, <1>2, <2>1, <3>3, <3>4 DEF NoWorse
  <2> QED
    BY <1>3, <2>1, <2>2 DEF Best
<1>4. CASE ~(e.valid /\ (f.valid => e.erase <= f.erase)) /\ f.valid
  <2>1. Min2to1(e, f) = f /\ f.block \in T /\ f.erase = blkTable[c][f.block].erase
    BY <1>4 DEF Min2to1, Best
  <2>2. \A o \in S : NoWorse(c, f.block, o)
    <3> TAKE o \in S
    <3>1. e.valid /\ e.block \in S /\ NoWorse(c, e.block, o) /\ e.erase = blkTable[c][e.block].erase
      BY DEF Best
    <3>2. blkTable[c][e.block].erase <= blkTable[c][o].erase
      BY <1>1, <1>2, <3>1 DEF NoWorse
    <3>3. blkTable[c][f.block].erase < blkTable[c][o].erase
      BY <1>1, <1>2, <1>4, <2>1, <3>1, <3>2
    <3> QED
      BY <3>3 DEF NoWorse
  <2> QED
    BY <1>4, <2>1, <2>2 DEF Best
<1>5. CASE ~e.valid /\ ~f.valid
  <2>1. Min2to1(e, f) = Invalid /\ S \cup T = {}
    BY <1>5 DEF Min2to1, Best
  <2>2. Invalid \in MinEntry
    <3>1. 0 \in Block /\ 0 \in Erase
      <4>1. Rows * Cols > 0
        BY Sizes DEF Widths
      <4> QED
        BY <4>1, Sizes DEF Block, Erase, Widths
    <3> QED
      BY <3>1 DEF Invalid, MinEntry
  <2> QED
    BY <2>1, <2>2 DEF Best, Invalid
<1> QED
  BY <1>3, <1>4, <1>5

(* readBlockTable0 keeps the invariant: each column takes in its entry.    *)
LEMMA ReadBlockTableStep ==
  ASSUME IInv, ReadBlockTable
  PROVE  IInv'
<1> DEFINE Num(i) == blkTableCnt * Cols + i
<1>1. /\ phase = "P2" /\ phase' = "P2" /\ blkTableCnt < Rows /\ ramOut # <<>>
      /\ minEntries' = [i \in Col |-> GetMinEntries(minEntries[i], Head(ramOut)[i], blkTableCnt * Cols + i)]
      /\ ramOut' = Tail(ramOut) /\ blkTableCnt' = blkTableCnt + 1
      /\ UNCHANGED <<reqs, procQ, allocQ, mapEntry, blkTableReqCnt, width, blkToAlloc,
                     respsSuccess, respsFailure, tables, host, inFlash>>
  BY DEF ReadBlockTable, RamResponse, outside
<1>2. /\ Here \in Chip /\ ramOut \in Seq(RamData) /\ minEntries \in [Col -> MinEntry]
      /\ blkTableReqCnt \in 0..Rows /\ blkTableCnt \in 0..(Rows - 1) /\ width = Cols
      /\ blkTable \in [Chip -> [Block -> BlkEntry]]
  BY <1>1, Serving, Sizes DEF IInv, RegistersTyped, MinimaBest
<1>3. Here' = Here /\ Target' = Target /\ Cmd' = Cmd /\ blkTable' = blkTable
  BY <1>1 DEF Here, Target, Cmd, tables
<1>4. /\ Len(ramOut) = blkTableReqCnt - blkTableCnt
      /\ \A i \in 1..Len(ramOut) : ramOut[i] = BlkRow(Here, blkTableCnt + i - 1)
  BY <1>1 DEF IInv, RamCurrent
<1>5. Len(ramOut) \in Nat /\ Len(ramOut) > 0 /\ Head(ramOut) = ramOut[1]
  BY <1>1, <1>2, EmptySeq
<1>6. \A i \in Col : Head(ramOut)[i] = blkTable[Here][Num(i)]
  <2>1. blkTableCnt + 1 - 1 = blkTableCnt /\ 1 \in 1..Len(ramOut)
    BY <1>2, <1>5
  <2>2. Head(ramOut) = BlkRow(Here, blkTableCnt)
    BY <1>4, <1>5, <2>1
  <2> QED
    BY <2>2 DEF BlkRow
<1>7. \A i \in Col : Num(i) \in Block /\ Num(i) % Cols = i /\ Num(i) \div Cols = blkTableCnt
  BY <1>2, RowOfBlock
<1>8. ASSUME NEW i \in Col
      PROVE  /\ minEntries'[i] \in MinEntry
             /\ Best(minEntries'[i], Here, Scanned(i) \cup ({Num(i)} \cap FreeBlocks(Here)))
  <2> DEFINE b == Num(i)
  <2>1. minEntries'[i] = GetMinEntries(minEntries[i], blkTable[Here][b], b)
    BY <1>1, <1>6
  <2>2. \A o \in Scanned(i) : o % Cols = b % Cols /\ o <= b
    <3> TAKE o \in Scanned(i)
    <3>1. o \in Block /\ o % Cols = i /\ o \div Cols < blkTableCnt
      BY DEF Scanned, FreeBlocks
    <3>2. o = (o \div Cols) * Cols + (o % Cols) /\ o \div Cols \in 0..(Rows - 1) /\ i \in Nat
      BY <3>1, BlockInRow DEF Col
    <3>3. (o \div Cols) * Cols + i <= blkTableCnt * Cols + i
      <4> DEFINE q == o \div Cols
      <4>1. q \in Nat /\ blkTableCnt \in Nat /\ q <= blkTableCnt /\ Cols \in Nat
        BY <1>2, <3>1, <3>2, Sizes DEF Widths
      <4> HIDE DEF q
      <4>2. q * Cols <= blkTableCnt * Cols
        BY <4>1
      <4>3. q * Cols \in Nat /\ blkTableCnt * Cols \in Nat
        BY <4>1
      <4>4. q * Cols + i <= blkTableCnt * Cols + i
        BY <3>2, <4>2, <4>3
      <4> QED
        BY <4>4 DEF q
    <3> QED
      BY <1>7, <3>1, <3>2, <3>3
  <2>3. Scanned(i) \in SUBSET FreeBlocks(Here) /\ minEntries[i] \in MinEntry /\ b \in Block
    BY <1>2, <1>7 DEF Scanned
  <2>4. Best(minEntries[i], Here, Scanned(i))
    BY <1>1 DEF IInv, MinimaBest
  <2> HIDE DEF b
  <2>5. /\ GetMinEntries(minEntries[i], blkTable[Here][b], b) \in MinEntry
        /\ Best(GetMinEntries(minEntries[i], blkTable[Here][b], b), Here,
                Scanned(i) \cup ({b} \cap FreeBlocks(Here)))
    BY <1>2, <2>2, <2>3, <2>4, BestOfRow
  <2> QED
    BY <2>1, <2>5 DEF b
<1>9. RegistersTyped'
  <2>1. minEntries' \in [Col -> MinEntry]
    BY <1>1, <1>8
  <2>2. ramOut' \in Seq(RamData)
    BY <1>1, <1>2
  <2>3. blkTableCnt' \in 0..Rows
    BY <1>1, <1>2, Sizes
  <2> QED
    BY <1>1, <2>1, <2>2, <2>3 DEF IInv, RegistersTyped, tables
<1>10. OneRequest' /\ TakenOnce'
  BY <1>1, <1>3 DEF IInv, OneRequest, TakenOnce, Scanning
<1>11. RamCurrent'
  <2>1. Len(ramOut') = Len(ramOut) - 1 /\ \A i \in 1..Len(ramOut') : ramOut'[i] = ramOut[i + 1]
    BY <1>1, <1>2, HeadTailProperties
  <2>2. Len(ramOut') = blkTableReqCnt' - blkTableCnt'
    BY <1>1, <1>2, <1>4, <1>5, <2>1
  <2>3. \A i \in 1..Len(ramOut') : ramOut'[i] = BlkRow(Here, blkTableCnt' + i - 1)
    <3> TAKE i \in 1..Len(ramOut')
    <3>1. i + 1 \in 1..Len(ramOut)
      BY <1>5, <2>1
    <3>2. blkTableCnt + (i + 1) - 1 = blkTableCnt' + i - 1
      BY <1>1, <1>2
    <3> QED
      BY <1>4, <2>1, <3>1, <3>2
  <2>4. \A i \in 1..Len(ramOut') : ramOut'[i] = BlkRow(Here, blkTableCnt + i - 1)'
    BY <1>3, <2>3 DEF BlkRow
  <2> QED
    BY <1>1, <2>2, <2>4 DEF RamCurrent
<1>12. EntryCurrent'
  BY <1>1, <1>3 DEF IInv, EntryCurrent, Freeing, Mapped, tables
<1>13. MinimaBest'
  <2>1. FreeBlocks(Here)' = FreeBlocks(Here)
    BY <1>3 DEF FreeBlocks
  <2>2. ASSUME NEW i \in Col PROVE Scanned(i)' = Scanned(i) \cup ({Num(i)} \cap FreeBlocks(Here))
    <3>1. ASSUME NEW o \in Block PROVE o % Cols = i /\ o \div Cols = blkTableCnt <=> o = Num(i)
      BY <1>7, BlockInRow
    <3>2. ASSUME NEW o \in Block PROVE o \div Cols < blkTableCnt + 1 <=> o \div Cols < blkTableCnt \/ o \div Cols = blkTableCnt
      BY <1>2, BlockInRow
    <3> QED
      BY <1>1, <1>7, <2>1, <3>1, <3>2 DEF Scanned, FreeBlocks
  <2>3. \A e, c, S : Best(e, c, S)' <=> Best(e, c, S)
    BY <1>3 DEF Best, NoWorse
  <2>4. \A i \in Col : Best(minEntries[i], Here, Scanned(i))'
    BY <1>3, <1>8, <2>2, <2>3
  <2> QED
    BY <1>1, <1>2, <2>4 DEF IInv, MinimaBest
<1>14. MapInjective' /\ TablesAgree'
  BY <1>1, TablesKept DEF Windows, Freeing
<1> QED
  BY <1>9, <1>10, <1>11, <1>12, <1>13, <1>14 DEF IInv

(* When all rows are scanned, the columns are the first groups, and the    *)
(* RAM has nothing left to return.                                         *)
LEMMA GroupsOfScan ==
  ASSUME IInv, ScanDone
  PROVE  /\ \A i \in 0..(width - 1) : Best(minEntries[i], Here, Group(i))
         /\ ramOut = <<>> /\ phase \in {"P2", "REDUCE"} /\ width \in Widths /\ width \in 2..Cols
<1>1. width \in Widths /\ width \in 2..Cols
  BY DEF IInv, MinimaBest, RegistersTyped
<1>2. CASE phase = "REDUCE"
  BY <1>1, <1>2 DEF IInv, MinimaBest, RamCurrent
<1>3. CASE phase = "P2" /\ blkTableCnt = Rows
  <2>1. width = Cols /\ \A i \in Col : Best(minEntries[i], Here, Scanned(i))
    BY <1>3 DEF IInv, MinimaBest
  <2>2. Col = 0..(width - 1) /\ Cols \div width = 1
    BY <2>1, Sizes DEF Col, Widths
  <2>3. ASSUME NEW i \in Col PROVE Scanned(i) = Group(i)
    <3>1. ASSUME NEW b \in Block PROVE b \div Cols < blkTableCnt /\ (b % Cols) \div (Cols \div width) = b % Cols
      <4>1. b % Cols \in Nat /\ b \div Cols \in 0..(Rows - 1)
        BY BlockInRow DEF Col
      <4>2. \A x \in Nat : x \div 1 = x
        OBVIOUS
      <4>3. b \div Cols < blkTableCnt
        BY <1>3, <4>1, Sizes
      <4>4. (b % Cols) \div (Cols \div width) = b % Cols
        BY <2>2, <4>1, <4>2
      <4> QED
        BY <4>3, <4>4
    <3> QED
      BY <3>1 DEF Scanned, Group, FreeBlocks
  <2>4. ramOut = <<>>
    <3>1. Len(ramOut) = blkTableReqCnt - Rows /\ blkTableReqCnt <= Rows /\ ramOut \in Seq(RamData)
          /\ blkTableReqCnt \in Int
      BY <1>3 DEF IInv, RamCurrent, RegistersTyped
    <3>2. Len(ramOut) \in Nat /\ Len(ramOut) <= 0
      BY <3>1, Sizes
    <3> QED
      BY <3>1, <3>2, EmptySeq
  <2> QED
    BY <1>1, <1>3, <2>1, <2>2, <2>3, <2>4
<1> QED
  BY <1>2, <1>3 DEF ScanDone

(* Two neighbouring groups have the columns of one in order before those   *)
(* of the other.                                                           *)
LEMMA GroupsInOrder ==
  ASSUME IInv, width \in Widths, width \in 2..Cols, NEW i \in 0..((width \div 2) - 1)
  PROVE  /\ 2 * i \in Col /\ 2 * i + 1 \in Col /\ 2 * i \in 0..(width - 1) /\ 2 * i + 1 \in 0..(width - 1)
         /\ \A o \in Group(2 * i), p \in Group(2 * i + 1) : o % Cols < p % Cols
<1>1. 2 * i \in 0..(width - 1) /\ 2 * i + 1 \in 0..(width - 1)
  BY DEF Widths
<1>2. 2 * i \in Col /\ 2 * i + 1 \in Col
  BY <1>1, Sizes DEF Col, Widths
<1>3. Cols \div width \in Widths \cup {1}
  BY Sizes DEF Widths
<1>4. \A j, k \in Nat, g \in Widths \cup {1} : j \div g = 2 * i /\ k \div g = 2 * i + 1 => j < k
  BY DEF Widths
<1>5. ASSUME NEW o \in Group(2 * i), NEW p \in Group(2 * i + 1) PROVE o % Cols < p % Cols
  <2>1. o \in Block /\ p \in Block
    BY DEF Group, FreeBlocks
  <2>2. o % Cols \in Nat /\ p % Cols \in Nat
    BY <2>1, BlockInRow DEF Col
  <2> QED
    BY <1>3, <1>4, <2>2 DEF Group
<1> QED
  BY <1>1, <1>2, <1>5

(* A halving of the columns keeps the invariant.                           *)
LEMMA HalveMinEntriesStep ==
  ASSUME IInv, HalveMinEntries
  PROVE  IInv'
<1>1. /\ ScanDone /\ width > 2 /\ phase' = "REDUCE" /\ width' = width \div 2
      /\ minEntries' = [i \in Col |-> IF i < width \div 2
                                      THEN Min2to1(minEntries[2 * i], minEntries[2 * i + 1])
                                      ELSE minEntries[i]]
      /\ UNCHANGED <<reqs, procQ, allocQ, mapEntry, blkTableReqCnt, blkTableCnt, blkToAlloc,
                     respsSuccess, respsFailure, tables, ramOut, host, inFlash>>
  BY DEF HalveMinEntries, outside
<1>2. /\ \A i \in 0..(width - 1) : Best(minEntries[i], Here, Group(i))
      /\ ramOut = <<>> /\ phase \in {"P2", "REDUCE"} /\ width \in Widths /\ width \in 2..Cols
  BY <1>1, GroupsOfScan
<1>3. /\ Here \in Chip /\ minEntries \in [Col -> MinEntry] /\ blkTable \in [Chip -> [Block -> BlkEntry]]
  BY <1>2, Serving DEF IInv, RegistersTyped
<1>4. Here' = Here /\ Target' = Target /\ Cmd' = Cmd /\ blkTable' = blkTable
  BY <1>1 DEF Here, Target, Cmd, tables
<1>5. width' \in Widths /\ width' \in 2..Cols
  BY <1>1, <1>2, Sizes DEF Widths
<1>6. ASSUME NEW i \in Col, i < width \div 2
      PROVE  minEntries'[i] \in MinEntry /\ Best(minEntries'[i], Here, Group(2 * i) \cup Group(2 * i + 1))
  <2>1. minEntries'[i] = Min2to1(minEntries[2 * i], minEntries[2 * i + 1])
    BY <1>1, <1>6
  <2>2. i \in 0..((width \div 2) - 1)
    BY <1>2, <1>6 DEF Col, Widths
  <2>3. /\ 2 * i \in Col /\ 2 * i + 1 \in Col /\ 2 * i \in 0..(width - 1) /\ 2 * i + 1 \in 0..(width - 1)
        /\ \A o \in Group(2 * i), p \in Group(2 * i + 1) : o % Cols < p % Cols
    BY <1>2, <2>2, GroupsInOrder
  <2>4. Group(2 * i) \in SUBSET FreeBlocks(Here) /\ Group(2 * i + 1) \in SUBSET FreeBlocks(Here)
    BY DEF Group
  <2>5. minEntries[2 * i] \in MinEntry /\ minEntries[2 * i + 1] \in MinEntry
    BY <1>3, <2>3
  <2>6. Best(minEntries[2 * i], Here, Group(2 * i)) /\ Best(minEntries[2 * i + 1], Here, Group(2 * i + 1))
    BY <1>2, <2>3
  <2>7. /\ Min2to1(minEntries[2 * i], minEntries[2 * i + 1]) \in MinEntry
        /\ Best(Min2to1(minEntries[2 * i], minEntries[2 * i + 1]), Here, Group(2 * i) \cup Group(2 * i + 1))
    BY <1>3, <2>3, <2>4, <2>5, <2>6, BestOfTwo
  <2> QED
    BY <2>1, <2>7
<1>7. RegistersTyped'
  <2>1. minEntries' \in [Col -> MinEntry]
    BY <1>1, <1>3, <1>6
  <2> QED
    BY <1>1, <1>5, <2>1 DEF IInv, RegistersTyped, tables
<1>8. OneRequest' /\ RamCurrent' /\ TakenOnce'
  BY <1>1, <1>2, <1>4 DEF IInv, OneRequest, RamCurrent, TakenOnce, Scanning
<1>9. EntryCurrent'
  BY <1>1, <1>2, <1>4 DEF IInv, EntryCurrent, Freeing, Mapped, tables
<1>10. MinimaBest'
  <2>1. ASSUME NEW i \in 0..(width' - 1) PROVE Best(minEntries[i], Here, Group(i))'
    <3>1. i \in Col /\ i < width \div 2 /\ i \in 0..((width \div 2) - 1)
      BY <1>1, <1>5, Sizes DEF Col, Widths
    <3>2. ASSUME NEW b \in Block
          PROVE  (b % Cols) \div (Cols \div (width \div 2)) = i
                   <=> \/ (b % Cols) \div (Cols \div width) = 2 * i
                       \/ (b % Cols) \div (Cols \div width) = 2 * i + 1
      <4>1. b % Cols \in Col
        BY BlockInRow
      <4>2. width \in Widths /\ width > 2 /\ width <= Cols
        BY <1>1, <1>2, Sizes DEF Widths
      <4>3. \A j \in Col : j \div (Cols \div (width \div 2)) = i
                              <=> j \div (Cols \div width) = 2 * i \/ j \div (Cols \div width) = 2 * i + 1
        BY <3>1, <4>2, GroupsMerge
      <4> QED
        BY <4>1, <4>3
    <3>3. Group(i)' = Group(2 * i) \cup Group(2 * i + 1)
      BY <1>1, <1>4, <3>2 DEF Group, FreeBlocks
    <3>4. \A e, c, S : Best(e, c, S)' <=> Best(e, c, S)
      BY <1>4 DEF Best, NoWorse
    <3> QED
      BY <1>4, <1>6, <3>1, <3>3, <3>4
  <2> QED
    BY <1>1, <1>5, <2>1 DEF MinimaBest
<1>11. MapInjective' /\ TablesAgree'
  BY <1>1, <1>2, TablesKept DEF Windows, Freeing
<1> QED
  BY <1>7, <1>8, <1>9, <1>10, <1>11 DEF IInv

(* readBlockTable5 keeps the invariant: the last two groups are the chip.  *)
LEMMA PickMinEntryStep ==
  ASSUME IInv, PickMinEntry
  PROVE  IInv'
<1>1. /\ ScanDone /\ width = 2 /\ phase' = "P7" /\ blkToAlloc' = Min2to1(minEntries[0], minEntries[1])
      /\ UNCHANGED <<reqs, procQ, allocQ, mapEntry, blkTableReqCnt, blkTableCnt, minEntries, width,
                     respsSuccess, respsFailure, tables, ramOut, host, inFlash>>
  BY DEF PickMinEntry, outside
<1>2. /\ \A i \in 0..(width - 1) : Best(minEntries[i], Here, Group(i))
      /\ ramOut = <<>> /\ phase \in {"P2", "REDUCE"} /\ width \in Widths /\ width \in 2..Cols
  BY <1>1, GroupsOfScan
<1>3. /\ Here \in Chip /\ minEntries \in [Col -> MinEntry] /\ blkTable \in [Chip -> [Block -> BlkEntry]]
  BY <1>2, Serving DEF IInv, RegistersTyped
<1>4. Here' = Here /\ Target' = Target /\ Cmd' = Cmd /\ blkTable' = blkTable
  BY <1>1 DEF Here, Target, Cmd, tables
<1>5. blkToAlloc' \in MinEntry /\ Best(blkToAlloc', Here, Group(0) \cup Group(1))
  <2>1. 0 \in 0..((width \div 2) - 1) /\ 2 * 0 = 0 /\ 2 * 0 + 1 = 1
    BY <1>1
  <2>2. 0 \in Col /\ 1 \in Col /\ 0 \in 0..(width - 1) /\ 1 \in 0..(width - 1)
        /\ \A o \in Group(0), p \in Group(1) : o % Cols < p % Cols
    BY <1>2, <2>1, GroupsInOrder
  <2>3. Group(0) \in SUBSET FreeBlocks(Here) /\ Group(1) \in SUBSET FreeBlocks(Here)
    BY DEF Group
  <2>4. minEntries[0] \in MinEntry /\ minEntries[1] \in MinEntry
    BY <1>3, <2>2
  <2> QED
    BY <1>1, <1>2, <1>3, <2>2, <2>3, <2>4, BestOfTwo
<1>6. Group(0) \cup Group(1) = FreeBlocks(Here)
  <2>1. ASSUME NEW b \in Block PROVE (b % Cols) \div (Cols \div width) \in {0, 1}
    <3>1. b % Cols \in Col
      BY BlockInRow
    <3>2. \A j \in Col : j \div (Cols \div 2) \in {0, 1}
      BY Sizes DEF Col, Widths
    <3> QED
      BY <1>1, <3>1, <3>2
  <2> QED
    BY <2>1 DEF Group, FreeBlocks
<1>7. RegistersTyped'
  BY <1>1, <1>5 DEF IInv, RegistersTyped, tables
<1>8. OneRequest' /\ RamCurrent' /\ TakenOnce'
  BY <1>1, <1>2, <1>4 DEF IInv, OneRequest, RamCurrent, TakenOnce, Scanning
<1>9. EntryCurrent'
  BY <1>1, <1>2, <1>4 DEF IInv, EntryCurrent, Freeing, Mapped, tables
<1>10. MinimaBest'
  <2>1. FreeBlocks(Here)' = FreeBlocks(Here)
    BY <1>4 DEF FreeBlocks
  <2>2. \A e, c, S : Best(e, c, S)' <=> Best(e, c, S)
    BY <1>4 DEF Best, NoWorse
  <2>3. Best(blkToAlloc, Here, FreeBlocks(Here))'
    BY <1>4, <1>5, <1>6, <2>1, <2>2
  <2> QED
    BY <1>1, <1>2, <2>3 DEF MinimaBest
<1>11. MapInjective' /\ TablesAgree'
  BY <1>1, <1>2, TablesKept DEF Windows, Freeing
<1> QED
  BY <1>7, <1>8, <1>9, <1>10, <1>11 DEF IInv
-----------------------------------------------------------------------------
(* updateMapTable keeps the invariant: the block found was free.           *)
LEMMA UpdateMapTableStep ==
  ASSUME IInv, UpdateMapTable
  PROVE  IInv'
<1> DEFINE b0 == blkToAlloc.block
           entry == [status |-> "ALLOCATED", block |-> b0]
<1>1. /\ phase = "P7" /\ phase' = "P8" /\ blkToAlloc.valid /\ Succeed(b0)
      /\ mapTable' = [mapTable EXCEPT ![Target] = entry]
      /\ UNCHANGED <<reqs, procQ, allocQ, mapEntry, scan, respsFailure, blkTable, ramOut, host, inFlash>>
  BY DEF UpdateMapTable, outside
<1>2. /\ Here \in Chip /\ Target \in LogBlock /\ Target = <<SegmentOf(Cmd.lpa), Here>>
      /\ SegmentOf(Cmd.lpa) \in Segment
      /\ allocQ = <<Here>> /\ ramOut = <<>> /\ ~Mapped(Target) /\ b0 \in FreeBlocks(Here)
      /\ blkToAlloc.erase = blkTable[Here][b0].erase
      /\ mapTable \in [LogBlock -> MapEntry]
  BY <1>1, Serving DEF IInv, OneRequest, RamCurrent, EntryCurrent, Scanning, RegistersTyped,
                       MinimaBest, Best, Mapped
<1>3. Here' = Here /\ Target' = Target /\ Cmd' = Cmd /\ allocQ' = allocQ /\ blkToAlloc' = blkToAlloc
  BY <1>1 DEF Here, Target, Cmd, scan
<1>4. b0 \in Block /\ blkTable[Here][b0].status = "FREE_BLK"
  BY <1>2 DEF FreeBlocks
<1>5. \A c \in Chip, b \in Block : MappedTo(c, b)' <=> MappedTo(c, b) \/ (c = Here /\ b = b0)
  BY <1>1, <1>2, <1>4, Binding
<1>6. Agree
  BY <1>1, AgreeNow DEF IInv, Windows, Freeing
<1>7. RegistersTyped'
  <2>1. respsSuccess' \in Seq(FlashCmd)
    BY <1>1, <1>4, SucceedTyped
  <2>2. mapTable' \in [LogBlock -> MapEntry]
    BY <1>1, <1>2, <1>4 DEF MapEntry
  <2> QED
    BY <1>1, <2>1, <2>2 DEF IInv, RegistersTyped, scan
<1>8. OneRequest' /\ RamCurrent' /\ EntryCurrent'
  BY <1>1, <1>2, <1>3 DEF IInv, OneRequest, RamCurrent, EntryCurrent, Freeing, Scanning
<1>9. MinimaBest'
  BY <1>1 DEF IInv, MinimaBest, scan
<1>10. TakenOnce'
  <2>1. FreeBlocks(Here)' = FreeBlocks(Here)
    BY <1>1, <1>3 DEF FreeBlocks
  <2>2. mapTable'[Target] = entry
    BY <1>1, <1>2
  <2>3. blkTable' = blkTable
    BY <1>1
  <2> QED
    BY <1>2, <1>3, <2>1, <2>2, <2>3 DEF TakenOnce
<1>11. MapInjective'
  <2>1. \A lb \in LogBlock : mapTable'[lb] = IF lb = Target THEN entry ELSE mapTable[lb]
    BY <1>1, <1>2
  <2>2. \A s \in Segment : Mapped(<<s, Here>>) => mapTable[<<s, Here>>].block # b0
    BY <1>2, <1>4, <1>6 DEF Agree, MappedTo
  <2>3. \A lb \in LogBlock : lb[2] = Here /\ Mapped(lb) => mapTable[lb].block # b0
    BY <2>2 DEF LogBlock
  <2>4. Target[2] = Here
    BY <1>2
  <2> QED
    BY <2>1, <2>3, <2>4 DEF IInv, MapInjective, Mapped
<1>12. TablesAgree'
  <2>1. ~MappedTo(Here, b0)
    BY <1>2, <1>4, <1>6 DEF Agree
  <2>2. \A c, b : (BeingTaken(c, b)' <=> c = Here /\ b = b0) /\ ~BeingFreed(c, b)'
    BY <1>1, <1>2, <1>3 DEF BeingFreed, BeingTaken
  <2> QED
    BY <1>1, <1>5, <1>6, <2>1, <2>2 DEF TablesAgree, Agree
<1> QED
  BY <1>7, <1>8, <1>9, <1>10, <1>11, <1>12 DEF IInv

(* updateBlockTable keeps the invariant: the window closes.                *)
LEMMA UpdateBlockTableStep ==
  ASSUME IInv, UpdateBlockTable
  PROVE  IInv'
<1> DEFINE b0 == blkToAlloc.block
           entry == [status |-> "CLEAN_BLK", erase |-> blkToAlloc.erase]
<1>1. /\ phase = "P8" /\ phase' = "P0" /\ procQ' = Tail(procQ) /\ allocQ' = Tail(allocQ)
      /\ blkTable' = [blkTable EXCEPT ![Head(allocQ)][b0] = entry]
      /\ UNCHANGED <<reqs, mapEntry, scan, respsSuccess, respsFailure, mapTable, ramOut, host, inFlash>>
  BY DEF UpdateBlockTable, outside
<1>2. /\ Here \in Chip /\ allocQ = <<Here>> /\ procQ' = <<>> /\ ramOut = <<>>
      /\ b0 \in Block /\ entry \in BlkEntry /\ blkTable[Here][b0].status = "FREE_BLK"
      /\ blkTable \in [Chip -> [Block -> BlkEntry]]
  BY <1>1, Serving DEF IInv, OneRequest, RamCurrent, TakenOnce, Scanning, RegistersTyped, MinEntry,
                       BlkEntry, FreeBlocks
<1>3. allocQ' = <<>> /\ Head(allocQ) = Here
  BY <1>1, <1>2
<1>4. MappedTo(Here, b0)
  <2>1. Target = <<SegmentOf(Cmd.lpa), Here>> /\ SegmentOf(Cmd.lpa) \in Segment
    BY <1>1, Serving DEF IInv
  <2>2. mapTable[Target].status = "ALLOCATED" /\ mapTable[Target].block = b0
    BY <1>1 DEF IInv, TakenOnce
  <2> QED
    BY <2>1, <2>2 DEF MappedTo, Mapped
<1>5. RegistersTyped'
  <2>1. blkTable' \in [Chip -> [Block -> BlkEntry]]
    BY <1>1, <1>2, <1>3
  <2>2. procQ' \in Seq(FTLCmd)
    BY <1>2
  <2>3. allocQ' \in Seq(Chip)
    BY <1>3
  <2> QED
    BY <1>1, <2>1, <2>2, <2>3 DEF IInv, RegistersTyped, scan
<1>6. OneRequest' /\ RamCurrent' /\ EntryCurrent' /\ TakenOnce'
  BY <1>1, <1>2, <1>3 DEF OneRequest, RamCurrent, EntryCurrent, TakenOnce, Scanning, Freeing
<1>7. MinimaBest'
  BY <1>1 DEF IInv, MinimaBest, scan
<1>8. MapInjective'
  BY <1>1 DEF IInv, MapInjective, Mapped
<1>9. TablesAgree'
  <2>1. \A c, b : MappedTo(c, b)' <=> MappedTo(c, b)
    BY <1>1 DEF MappedTo, Mapped
  <2>2. \A c, b : ~BeingFreed(c, b) /\ ~BeingTaken(c, b)' /\ ~BeingFreed(c, b)'
    BY <1>1 DEF BeingTaken, BeingFreed
  <2>3. \A c, b : BeingTaken(c, b) <=> c = Here /\ b = b0
    BY <1>1, <1>3 DEF BeingTaken
  <2>4. \A c \in Chip, b \in Block :
           blkTable'[c][b].status = IF c = Here /\ b = b0 THEN "CLEAN_BLK" ELSE blkTable[c][b].status
    BY <1>1, <1>2, <1>3
  <2> QED
    BY <1>4, <2>1, <2>2, <2>3, <2>4 DEF IInv, TablesAgree
<1> QED
  BY <1>5, <1>6, <1>7, <1>8, <1>9 DEF IInv
-----------------------------------------------------------------------------
(* Every step keeps the invariant.                                         *)
LEMMA AFTLInvStep == IInv /\ [Next]_vars => IInv'
<1> SUFFICES ASSUME IInv, [Next]_vars PROVE IInv'
  OBVIOUS
<1>1. CASE Outside
  BY <1>1, OutsideStep
<1>2. CASE Translate
  <2>1. CASE ReadReqMapTable
    BY <2>1, ReadReqMapTableStep
  <2>2. CASE ReadMapTable
    BY <2>2, ReadMapTableStep
  <2>3. CASE UseMapped
    BY <2>3, UseMappedStep
  <2>4. CASE RefuseUnmapped \/ RefuseFull
    BY <2>4, RefuseStep
  <2>5. CASE StartScan
    BY <2>5, StartScanStep
  <2>6. CASE ProcErase
    BY <2>6, ProcEraseStep
  <2>7. CASE ProcErase2
    BY <2>7, ProcErase2Step
  <2>8. CASE ProcErase3
    BY <2>8, ProcErase3Step
  <2>9. CASE ReadReqBlockTable
    BY <2>9, ReadReqBlockTableStep
  <2>10. CASE ReadBlockTable
    BY <2>10, ReadBlockTableStep
  <2>11. CASE HalveMinEntries
    BY <2>11, HalveMinEntriesStep
  <2>12. CASE PickMinEntry
    BY <2>12, PickMinEntryStep
  <2>13. CASE UpdateMapTable
    BY <2>13, UpdateMapTableStep
  <2>14. CASE UpdateBlockTable
    BY <2>14, UpdateBlockTableStep
  <2> QED
    BY <1>2, <2>1, <2>2, <2>3, <2>4, <2>5, <2>6, <2>7, <2>8, <2>9, <2>10, <2>11, <2>12, <2>13, <2>14
       DEF Translate
<1>3. CASE UNCHANGED vars
  <2>1. RegistersTyped' /\ UNCHANGED <<procQ, allocQ, phase, mapEntry, scan, tables, ramOut, lockFIFO>>
    BY <1>3 DEF IInv, RegistersTyped, vars, scan, tables, outside
  <2> QED
    BY <2>1, Frame
<1> QED
  BY <1>1, <1>2, <1>3 DEF Next

(* The inductive invariant holds throughout.                               *)
THEOREM AFTLInv == Spec => []IInv
<1> QED
  BY AFTLInvInit, AFTLInvStep, PTL DEF Spec

(* No two logical blocks of a chip share a physical block: the map stays   *)
(* injective through updateMapTable and procErase.                         *)
THEOREM MapStaysInjective == Spec => []MapInjective
<1>1. IInv => MapInjective
  BY DEF IInv
<1> QED
  BY <1>1, AFTLInv, PTL

(* The two tables that updateMapTable, updateBlockTable, procErase and     *)
(* procErase3 write at different times agree but for the block in hand.    *)
THEOREM TablesStayInAgreement == Spec => []TablesAgree
<1>1. IInv => TablesAgree
  BY DEF IInv
<1> QED
  BY <1>1, AFTLInv, PTL

(* readBlockTable0 to readBlockTable5 find the least erased free block.    *)
THEOREM LeastErasedIsFound == Spec => []LeastErasedFound
<1>1. IInv => LeastErasedFound
  <2> SUFFICES ASSUME IInv, phase = "P7" PROVE LeastErasedFound
    BY DEF LeastErasedFound
  <2>1. Head(allocQ) = Here /\ Best(blkToAlloc, Here, FreeBlocks(Here))
    BY DEF IInv, OneRequest, MinimaBest, Scanning
  <2> QED
    BY <2>1 DEF LeastErasedFound, Best
<1> QED
  BY <1>1, AFTLInv, PTL
-----------------------------------------------------------------------------
(***************************************************************************)
(* The commands the translation layer sends keep the data of segments      *)
(* apart, for every size and every number of requests: although commands   *)
(* are still queued when their blocks are freed and given away, each finds  *)
(* its own segment's data, or an erased block to program.                  *)
(***************************************************************************)
Entries(q) == {q[i] : i \in 1..Len(q)}
Tags(q) == {r.tag : r \in Entries(q)}
Distinct(q) == \A i, j \in 1..Len(q) : q[i].tag = q[j].tag => i = j

Serves == {"P1", "P1_write", "P1_read", "P1_erase", "P2", "REDUCE", "P7"}
ServedTag == IF phase \in Serves THEN {Cmd.tag} ELSE {}

(* An outstanding tag is in one place: waiting, served, on its way to the  *)
(* flash, in it, or refused.                                               *)
OnePlace ==
  /\ Distinct(reqs) /\ Distinct(respsSuccess) /\ Distinct(respsFailure)
  /\ Tags(reqs) \cap ServedTag = {}
  /\ Tags(reqs) \cap Tags(respsSuccess) = {}
  /\ Tags(reqs) \cap Tags(respsFailure) = {}
  /\ Tags(reqs) \cap inFlash = {}
  /\ ServedTag \cap Tags(respsSuccess) = {}
  /\ ServedTag \cap Tags(respsFailure) = {}
  /\ ServedTag \cap inFlash = {}
  /\ Tags(respsSuccess) \cap Tags(respsFailure) = {}
  /\ Tags(respsSuccess) \cap inFlash = {}
  /\ Tags(respsFailure) \cap inFlash = {}
  /\ phase \notin Serves \cup {"P0"} => Cmd.tag \in Tags(respsSuccess) \cup inFlash

(* The host's table has the request of every tag in one of these places.   *)
HostKnows ==
  /\ \A r \in Entries(reqs) : host[r.tag] = r
  /\ phase # "P0" => host[Cmd.tag] = Cmd
  /\ \A t \in Tags(respsSuccess) \cup Tags(respsFailure) \cup inFlash : host[t] \in FTLCmd

(* The phases of a write, a read and an erase. *)
PhaseOfOp ==
  /\ phase \in {"P1_write"} \cup Scanning => Cmd.op = "WRITE_PAGE"
  /\ phase = "P1_read" => Cmd.op = "READ_PAGE"
  /\ phase \in {"P1_erase"} \cup Freeing => Cmd.op = "ERASE_BLOCK"

(* What a command needs to find in the flash, and what it leaves there.    *)
Contents == [Chip -> [Block -> Segment \cup {Erased}]]
Own(r) == SegmentOf(host[r.tag].lpa)
Accepts(ct, r) == ct[r.chip][r.block] \in IF r.op = "WRITE_PAGE" THEN {Own(r), Erased} ELSE {Own(r)}
Effect(ct, r) ==
  CASE r.op = "WRITE_PAGE" -> [ct EXCEPT ![r.chip][r.block] = Own(r)]
    [] r.op = "ERASE_BLOCK" -> [ct EXCEPT ![r.chip][r.block] = Erased]
    [] r.op = "READ_PAGE" -> ct

(* f shows what the flash will hold after each of the commands on the way. *)
Shows(f) ==
  /\ f \in [0..Len(respsSuccess) -> Contents]
  /\ f[0] = content
  /\ \A i \in 1..Len(respsSuccess) :
        Accepts(f[i - 1], respsSuccess[i]) /\ f[i] = Effect(f[i - 1], respsSuccess[i])

(* In the end every block will hold what the map says. *)
Settled(ct) ==
  /\ \A s \in Segment, c \in Chip : Mapped(<<s, c>>) => ct[c][mapTable[<<s, c>>].block] = s
  /\ \A c \in Chip, b \in Block : ~MappedTo(c, b) => ct[c][b] = Erased

FlashFollows == \E f : Shows(f) /\ Settled(f[Len(respsSuccess)])

FInv == IInv /\ OnePlace /\ HostKnows /\ PhaseOfOp /\ FlashFollows
-----------------------------------------------------------------------------
(* The entries of a queue are of its type.                                 *)
LEMMA EntriesIn ==
  ASSUME NEW S, NEW q \in Seq(S)
  PROVE  Entries(q) \subseteq S
BY ElementOfSeq DEF Entries

(* What appending an entry does to a queue's entries and tags.             *)
LEMMA EntriesAppend ==
  ASSUME NEW S, NEW q \in Seq(S), NEW e \in S
  PROVE  /\ Entries(Append(q, e)) = Entries(q) \cup {e}
         /\ Tags(Append(q, e)) = Tags(q) \cup {e.tag}
         /\ Distinct(q) /\ e.tag \notin Tags(q) => Distinct(Append(q, e))
<1> DEFINE n == Len(q)
           a == Append(q, e)
<1>1. n \in Nat /\ Len(a) = n + 1 /\ a[n + 1] = e /\ \A i \in 1..n : a[i] = q[i]
  BY AppendProperties
<1> HIDE DEF a, n
<1>2. Len(q) = n /\ 1..(n + 1) = (1..n) \cup {n + 1}
  BY <1>1 DEF n
<1>3. Entries(a) = Entries(q) \cup {e}
  BY <1>1, <1>2 DEF Entries
<1>4. Tags(a) = Tags(q) \cup {e.tag}
  BY <1>3 DEF Tags
<1>5. ASSUME Distinct(q), e.tag \notin Tags(q) PROVE Distinct(a)
  <2>1. \A i \in 1..n : a[i].tag # e.tag
    BY <1>1, <1>2, <1>5 DEF Tags, Entries
  <2>2. \A i, j \in 1..n : a[i].tag = a[j].tag => i = j
    BY <1>1, <1>2, <1>5 DEF Distinct
  <2> QED
    BY <1>1, <1>2, <2>1, <2>2 DEF Distinct
<1> QED
  BY <1>3, <1>4, <1>5 DEF a

(* What removing its head does to a queue's entries and tags.              *)
LEMMA EntriesTail ==
  ASSUME NEW S, NEW q \in Seq(S), q # <<>>
  PROVE  /\ Head(q) \in Entries(q) /\ Head(q) \in S
         /\ Entries(q) = {Head(q)} \cup Entries(Tail(q))
         /\ Head(q).tag \in Tags(q) /\ Tags(Tail(q)) \subseteq Tags(q)
         /\ Distinct(q) => Distinct(Tail(q)) /\ Tags(Tail(q)) = Tags(q) \ {Head(q).tag}
<1> DEFINE n == Len(q)
           t == Tail(q)
<1>1. /\ n \in Nat \ {0} /\ Len(t) = n - 1 /\ Head(q) = q[1] /\ Head(q) \in S
      /\ \A i \in 1..(n - 1) : t[i] = q[i + 1]
  BY HeadTailProperties, EmptySeq
<1> HIDE DEF t, n
<1>2. Len(q) = n /\ 1 \in 1..n
  BY <1>1 DEF n
<1>3. Head(q) \in Entries(q)
  BY <1>1, <1>2 DEF Entries
<1>4. Entries(q) = {Head(q)} \cup Entries(t)
  <2>1. \A i \in 1..n : i = 1 \/ (i - 1 \in 1..(n - 1) /\ (i - 1) + 1 = i)
    BY <1>1
  <2>2. \A i \in 1..(n - 1) : i + 1 \in 1..n
    BY <1>1
  <2>3. ASSUME NEW i \in 1..n PROVE q[i] \in {q[1]} \cup {t[j] : j \in 1..(n - 1)}
    <3>1. CASE i = 1
      BY <3>1
    <3>2. CASE i # 1
      <4> DEFINE k == i - 1
      <4>1. k \in 1..(n - 1) /\ k + 1 = i
        BY <2>1, <3>2
      <4> HIDE DEF k
      <4>2. t[k] = q[i]
        BY <1>1, <4>1
      <4> QED
        BY <4>1, <4>2
    <3> QED
      BY <3>1, <3>2
  <2>4. ASSUME NEW j \in 1..(n - 1) PROVE t[j] \in {q[i] : i \in 1..n}
    BY <1>1, <2>2
  <2>5. q[1] \in {q[i] : i \in 1..n}
    BY <1>2
  <2>6. {q[i] : i \in 1..n} = {q[1]} \cup {t[j] : j \in 1..(n - 1)}
    BY <2>3, <2>4, <2>5
  <2> QED
    BY <1>1, <1>2, <2>6 DEF Entries
<1>5. Head(q).tag \in Tags(q) /\ Tags(q) = {Head(q).tag} \cup Tags(t)
  BY <1>3, <1>4 DEF Tags
<1>6. ASSUME Distinct(q) PROVE Distinct(t) /\ Head(q).tag \notin Tags(t)
  <2>1. \A i, j \in 1..(n - 1) : t[i].tag = t[j].tag => i = j
    <3> TAKE i, j \in 1..(n - 1)
    <3> HAVE t[i].tag = t[j].tag
    <3>1. i + 1 \in 1..n /\ j + 1 \in 1..n /\ q[i + 1].tag = q[j + 1].tag
      BY <1>1
    <3>2. i + 1 = j + 1
      BY <1>2, <1>6, <3>1 DEF Distinct
    <3> QED
      BY <3>2
  <2>2. \A i \in 1..(n - 1) : t[i].tag # q[1].tag
    <3> TAKE i \in 1..(n - 1)
    <3>1. i + 1 \in 1..n /\ i + 1 # 1
      BY <1>1
    <3> QED
      BY <1>1, <1>2, <1>6, <3>1 DEF Distinct
  <2> QED
    BY <1>1, <2>1, <2>2 DEF Distinct, Tags, Entries
<1> QED
  BY <1>1, <1>3, <1>4, <1>5, <1>6 DEF t

(* An empty queue has none.                                                *)
LEMMA NoEntries == Entries(<<>>) = {} /\ Tags(<<>>) = {} /\ Distinct(<<>>)
<1>1. 1..Len(<<>>) = {}
  OBVIOUS
<1> QED
  BY <1>1 DEF Entries, Tags, Distinct
-----------------------------------------------------------------------------
Places == OnePlace /\ HostKnows /\ PhaseOfOp

(* No tag is outstanding at the start.                                     *)
LEMMA PlacesInit == Init => Places
<1> SUFFICES ASSUME Init PROVE Places
  OBVIOUS
<1>1. reqs = <<>> /\ respsSuccess = <<>> /\ respsFailure = <<>> /\ inFlash = {} /\ phase = "P0"
  BY DEF Init
<1> QED
  BY <1>1, NoEntries DEF Places, OnePlace, HostKnows, PhaseOfOp, Freeing, ServedTag, Serves, Scanning

(* A phase that neither takes a request in nor answers it. *)
LEMMA PlacesKept ==
  ASSUME Places, UNCHANGED <<reqs, procQ, respsSuccess, respsFailure, host, inFlash>>,
         phase # "P0", phase' # "P0", phase \in Serves <=> phase' \in Serves, PhaseOfOp'
  PROVE  Places'
<1>1. Cmd' = Cmd /\ ServedTag' = ServedTag
  BY DEF Cmd, ServedTag
<1>2. /\ Distinct(reqs)' = Distinct(reqs) /\ Tags(reqs)' = Tags(reqs) /\ Entries(reqs)' = Entries(reqs)
      /\ Distinct(respsSuccess)' = Distinct(respsSuccess) /\ Tags(respsSuccess)' = Tags(respsSuccess)
      /\ Distinct(respsFailure)' = Distinct(respsFailure) /\ Tags(respsFailure)' = Tags(respsFailure)
      /\ inFlash' = inFlash /\ host' = host
  BY DEF Tags, Entries, Distinct
<1>3. OnePlace'
  BY <1>1, <1>2 DEF Places, OnePlace
<1>4. HostKnows'
  BY <1>1, <1>2 DEF Places, HostKnows
<1> QED
  BY <1>3, <1>4 DEF Places

(* The phases between a request's start and its answer keep the places.    *)
LEMMA PlacesInner ==
  ASSUME FInv, ReadMapTable \/ StartScan \/ ProcErase2 \/ ReadReqBlockTable \/ ReadBlockTable
               \/ HalveMinEntries \/ PickMinEntry
  PROVE  Places'
<1>1. UNCHANGED <<reqs, procQ, respsSuccess, respsFailure, host, inFlash>>
  BY DEF ReadMapTable, StartScan, ProcErase2, ReadReqBlockTable, ReadBlockTable, HalveMinEntries,
         PickMinEntry, outside
<1>2. Cmd' = Cmd
  BY <1>1 DEF Cmd
<1>3. phase # "P0" /\ phase' # "P0" /\ (phase \in Serves <=> phase' \in Serves) /\ PhaseOfOp'
  <2>1. CASE ReadMapTable
    <3>1. phase = "P1" /\ Cmd.op \in Op
      BY <2>1, Serving DEF ReadMapTable, FInv, IInv, FTLCmd
    <3> QED
      BY <1>2, <2>1, <3>1 DEF ReadMapTable, Serves, PhaseOfOp, Freeing, Op, Scanning
  <2>2. CASE StartScan
    BY <1>2, <2>2 DEF StartScan, Serves, PhaseOfOp, Freeing, Scanning, FInv
  <2>3. CASE ProcErase2
    BY <1>2, <2>3 DEF ProcErase2, Serves, PhaseOfOp, Freeing, Scanning, FInv
  <2>4. CASE ReadReqBlockTable \/ ReadBlockTable
    BY <1>2, <2>4 DEF ReadReqBlockTable, ReadBlockTable, Serves, PhaseOfOp, Freeing, Scanning, FInv
  <2>5. CASE HalveMinEntries
    BY <1>2, <2>5 DEF HalveMinEntries, ScanDone, Serves, PhaseOfOp, Freeing, Scanning, FInv
  <2>6. CASE PickMinEntry
    BY <1>2, <2>6 DEF PickMinEntry, ScanDone, Serves, PhaseOfOp, Freeing, Scanning, FInv
  <2> QED
    BY <2>1, <2>2, <2>3, <2>4, <2>5, <2>6
<1> QED
  BY <1>1, <1>3, PlacesKept DEF FInv, Places

(* readReqMapTable moves a tag from reqs to the request served.            *)
LEMMA PlacesTakeIn ==
  ASSUME FInv, ReadReqMapTable
  PROVE  Places'
<1> DEFINE cmd == Head(reqs)
<1>1. /\ phase = "P0" /\ phase' = "P1" /\ reqs # <<>> /\ reqs' = Tail(reqs) /\ procQ = <<>>
      /\ procQ' = Append(procQ, cmd) /\ reqs \in Seq(FTLCmd)
      /\ UNCHANGED <<respsSuccess, respsFailure, host, inFlash>>
  BY DEF ReadReqMapTable, outside, FInv, IInv, OneRequest, RegistersTyped
<1>2. Cmd' = cmd /\ ServedTag = {} /\ ServedTag' = {cmd.tag}
  BY <1>1 DEF Cmd, ServedTag, Serves
<1>3. /\ cmd \in Entries(reqs) /\ cmd.tag \in Tags(reqs) /\ Entries(reqs)' \subseteq Entries(reqs)
      /\ Distinct(reqs)' /\ Tags(reqs)' = Tags(reqs) \ {cmd.tag}
  BY <1>1, EntriesTail DEF FInv, OnePlace
<1>4. /\ Distinct(respsSuccess)' = Distinct(respsSuccess) /\ Tags(respsSuccess)' = Tags(respsSuccess)
      /\ Distinct(respsFailure)' = Distinct(respsFailure) /\ Tags(respsFailure)' = Tags(respsFailure)
  BY <1>1 DEF Tags, Entries, Distinct
<1> HIDE DEF cmd
<1>5. OnePlace'
  BY <1>1, <1>2, <1>3, <1>4 DEF FInv, OnePlace, Serves
<1>6. HostKnows'
  BY <1>1, <1>2, <1>3, <1>4 DEF FInv, HostKnows
<1>7. PhaseOfOp'
  BY <1>1 DEF PhaseOfOp, Freeing, Scanning
<1> QED
  BY <1>5, <1>6, <1>7 DEF Places

(* A command leaves for the flash: at once, or before the tables follow. *)
LEMMA PlacesAnswer ==
  ASSUME FInv, UseMapped \/ ProcErase \/ UpdateMapTable
  PROVE  Places'
<1>1. /\ phase \in Serves /\ \/ phase' = "P0"
                             \/ procQ' = procQ /\ phase' \in {"P1_erase2", "P8"}
      /\ \E b : respsSuccess' = Append(respsSuccess, Command(Cmd, b)) /\ b \in Block
      /\ UNCHANGED <<reqs, respsFailure, host, inFlash>>
  <2>1. mapEntry.block \in Block /\ blkToAlloc.block \in Block
    BY DEF FInv, IInv, RegistersTyped, MapEntry, MinEntry
  <2> QED
    BY <2>1 DEF UseMapped, ProcErase, UpdateMapTable, Succeed, outside, Serves
<1>2. PICK b \in Block : respsSuccess' = Append(respsSuccess, Command(Cmd, b))
  BY <1>1
<1>3. Cmd \in FTLCmd /\ Command(Cmd, b) \in FlashCmd /\ Command(Cmd, b).tag = Cmd.tag
      /\ respsSuccess \in Seq(FlashCmd) /\ phase # "P0"
  BY <1>1, Serving, CommandTyped DEF FInv, IInv, RegistersTyped, Command, Serves
<1>4. ServedTag = {Cmd.tag} /\ ServedTag' = {}
  BY <1>1 DEF ServedTag, Serves
<1>5. /\ Tags(respsSuccess)' = Tags(respsSuccess) \cup {Cmd.tag}
      /\ Cmd.tag \notin Tags(respsSuccess) => Distinct(respsSuccess)'
  BY <1>2, <1>3, EntriesAppend DEF FInv, OnePlace
<1>6. /\ Distinct(reqs)' = Distinct(reqs) /\ Tags(reqs)' = Tags(reqs) /\ Entries(reqs)' = Entries(reqs)
      /\ Distinct(respsFailure)' = Distinct(respsFailure) /\ Tags(respsFailure)' = Tags(respsFailure)
  BY <1>1 DEF Tags, Entries, Distinct
<1>7. phase' # "P0" => Cmd' = Cmd
  BY <1>1 DEF Cmd
<1>8. OnePlace'
  BY <1>1, <1>4, <1>5, <1>6, <1>7 DEF FInv, OnePlace
<1>9. HostKnows'
  BY <1>1, <1>3, <1>5, <1>6, <1>7 DEF FInv, HostKnows
<1>10. PhaseOfOp'
  <2>1. CASE UseMapped
    BY <2>1 DEF UseMapped, PhaseOfOp, Freeing, Scanning
  <2>2. CASE ProcErase
    BY <2>2, <1>7 DEF ProcErase, FInv, PhaseOfOp, Freeing, Scanning
  <2>3. CASE UpdateMapTable
    BY <2>3, <1>7 DEF UpdateMapTable, FInv, PhaseOfOp, Freeing, Scanning
  <2> QED
    BY <2>1, <2>2, <2>3
<1> QED
  BY <1>8, <1>9, <1>10 DEF Places

(* A refusal moves the tag to respsFailure.                                *)
LEMMA PlacesRefuse ==
  ASSUME FInv, RefuseUnmapped \/ RefuseFull
  PROVE  Places'
<1>1. /\ phase \in Serves /\ phase' = "P0" /\ respsFailure' = Append(respsFailure, Cmd)
      /\ UNCHANGED <<reqs, respsSuccess, host, inFlash>>
  BY DEF RefuseUnmapped, RefuseFull, Fail, outside, Serves
<1>2. Cmd \in FTLCmd /\ respsFailure \in Seq(FTLCmd) /\ phase # "P0"
  BY <1>1, Serving DEF FInv, IInv, RegistersTyped, Serves
<1>3. ServedTag = {Cmd.tag} /\ ServedTag' = {}
  BY <1>1 DEF ServedTag, Serves
<1>4. /\ Tags(respsFailure)' = Tags(respsFailure) \cup {Cmd.tag}
      /\ Cmd.tag \notin Tags(respsFailure) => Distinct(respsFailure)'
  BY <1>1, <1>2, EntriesAppend DEF FInv, OnePlace
<1>5. /\ Distinct(reqs)' = Distinct(reqs) /\ Tags(reqs)' = Tags(reqs) /\ Entries(reqs)' = Entries(reqs)
      /\ Distinct(respsSuccess)' = Distinct(respsSuccess) /\ Tags(respsSuccess)' = Tags(respsSuccess)
  BY <1>1 DEF Tags, Entries, Distinct
<1>6. OnePlace'
  BY <1>1, <1>3, <1>4, <1>5 DEF FInv, OnePlace
<1>7. HostKnows'
  BY <1>1, <1>2, <1>4, <1>5 DEF FInv, HostKnows
<1>8. PhaseOfOp'
  BY <1>1 DEF PhaseOfOp, Freeing, Scanning
<1> QED
  BY <1>6, <1>7, <1>8 DEF Places

(* The table updates after an answer move no tag.                          *)
LEMMA PlacesFinish ==
  ASSUME FInv, ProcErase3 \/ UpdateBlockTable
  PROVE  Places'
<1>1. /\ phase \in {"P1_erase3", "P8"} /\ phase' = "P0"
      /\ UNCHANGED <<reqs, respsSuccess, respsFailure, host, inFlash>>
  BY DEF ProcErase3, UpdateBlockTable, outside
<1>2. ServedTag = {} /\ ServedTag' = {}
  BY <1>1 DEF ServedTag, Serves
<1>3. /\ Distinct(reqs)' = Distinct(reqs) /\ Tags(reqs)' = Tags(reqs) /\ Entries(reqs)' = Entries(reqs)
      /\ Distinct(respsSuccess)' = Distinct(respsSuccess) /\ Tags(respsSuccess)' = Tags(respsSuccess)
      /\ Distinct(respsFailure)' = Distinct(respsFailure) /\ Tags(respsFailure)' = Tags(respsFailure)
  BY <1>1 DEF Tags, Entries, Distinct
<1>4. OnePlace'
  BY <1>1, <1>2, <1>3 DEF FInv, OnePlace
<1>5. HostKnows'
  BY <1>1, <1>3 DEF FInv, HostKnows
<1>6. PhaseOfOp'
  BY <1>1 DEF PhaseOfOp, Freeing, Scanning
<1> QED
  BY <1>4, <1>5, <1>6 DEF Places

(* The places hold only requests of the host's tags. *)
LEMMA PlacesTyped ==
  ASSUME FInv
  PROVE  /\ Tags(respsSuccess) \cup Tags(respsFailure) \cup inFlash \cup ServedTag \subseteq Tag
         /\ phase # "P0" => Cmd.tag \in Tag
         /\ \A t \in Tag : host[t] = NoCmd =>
              /\ t \notin Tags(respsSuccess) \cup Tags(respsFailure) \cup inFlash \cup Tags(reqs) \cup ServedTag
              /\ phase # "P0" => Cmd.tag # t
<1>1. /\ reqs \in Seq(FTLCmd) /\ respsFailure \in Seq(FTLCmd) /\ respsSuccess \in Seq(FlashCmd)
      /\ inFlash \subseteq Tag
  BY DEF FInv, IInv, RegistersTyped
<1>2. Tags(respsSuccess) \cup Tags(respsFailure) \subseteq Tag /\ Entries(reqs) \subseteq FTLCmd
  <2>1. Entries(respsSuccess) \subseteq FlashCmd /\ Entries(respsFailure) \subseteq FTLCmd
        /\ Entries(reqs) \subseteq FTLCmd
    BY <1>1, EntriesIn
  <2>2. \A r \in FTLCmd \cup FlashCmd : r.tag \in Tag
    BY DEF FTLCmd, FlashCmd
  <2> QED
    BY <2>1, <2>2 DEF Tags
<1>3. phase # "P0" => Cmd \in FTLCmd /\ Cmd.tag \in Tag
  BY Serving DEF FInv, IInv, FTLCmd
<1>4. ServedTag \subseteq Tag /\ (ServedTag # {} => phase # "P0" /\ ServedTag = {Cmd.tag})
  BY <1>3 DEF ServedTag, Serves
<1>5. NoCmd \notin FTLCmd
  BY AFTLAssumption
<1>6. ASSUME NEW t \in Tag, host[t] = NoCmd
      PROVE  /\ t \notin Tags(respsSuccess) \cup Tags(respsFailure) \cup inFlash \cup Tags(reqs) \cup ServedTag
             /\ phase # "P0" => Cmd.tag # t
  <2>1. t \notin Tags(respsSuccess) \cup Tags(respsFailure) \cup inFlash
    BY <1>5, <1>6 DEF FInv, HostKnows
  <2>2. t \notin Tags(reqs)
    BY <1>2, <1>5, <1>6 DEF FInv, HostKnows, Tags
  <2>3. phase # "P0" => Cmd.tag # t
    BY <1>3, <1>5, <1>6 DEF FInv, HostKnows
  <2> QED
    BY <1>4, <2>1, <2>2, <2>3
<1> QED
  BY <1>1, <1>2, <1>3, <1>4, <1>6

(* The host puts an idle tag into reqs.                                    *)
LEMMA PlacesIssue ==
  ASSUME FInv, NEW t \in Tag, NEW op \in Op, NEW lpa \in Lpa, HostIssue(t, op, lpa)
  PROVE  Places'
<1> DEFINE cmd == [tag |-> t, op |-> op, lpa |-> lpa]
<1>1. /\ host[t] = NoCmd /\ host' = [host EXCEPT ![t] = cmd] /\ reqs' = Append(reqs, cmd)
      /\ UNCHANGED <<procQ, phase, respsSuccess, respsFailure, inFlash>>
  BY DEF HostIssue
<1>2. /\ cmd \in FTLCmd /\ cmd.tag = t /\ reqs \in Seq(FTLCmd) /\ host \in [Tag -> FTLCmd \cup {NoCmd}]
  BY DEF FTLCmd, FInv, IInv, RegistersTyped
<1> HIDE DEF cmd
<1>3. host'[t] = cmd /\ \A u \in Tag : u # t => host'[u] = host[u]
  BY <1>1, <1>2
<1>4. Cmd' = Cmd /\ ServedTag' = ServedTag
  BY <1>1 DEF Cmd, ServedTag
<1>5. /\ Entries(reqs)' = Entries(reqs) \cup {cmd} /\ Tags(reqs)' = Tags(reqs) \cup {t}
      /\ t \notin Tags(reqs) => Distinct(reqs)'
  BY <1>1, <1>2, EntriesAppend DEF FInv, OnePlace
<1>6. /\ Distinct(respsSuccess)' = Distinct(respsSuccess) /\ Tags(respsSuccess)' = Tags(respsSuccess)
      /\ Distinct(respsFailure)' = Distinct(respsFailure) /\ Tags(respsFailure)' = Tags(respsFailure)
  BY <1>1 DEF Tags, Entries, Distinct
<1>7. /\ t \notin Tags(respsSuccess) \cup Tags(respsFailure) \cup inFlash \cup Tags(reqs) \cup ServedTag
      /\ phase # "P0" => Cmd.tag # t
      /\ Tags(respsSuccess) \cup Tags(respsFailure) \cup inFlash \subseteq Tag
      /\ phase # "P0" => Cmd.tag \in Tag
  BY <1>1, PlacesTyped
<1>8. OnePlace'
  BY <1>1, <1>4, <1>5, <1>6, <1>7 DEF FInv, OnePlace
<1>9. HostKnows'
  <2>1. \A r \in Entries(reqs)' : host'[r.tag] = r
    <3> TAKE r \in Entries(reqs)'
    <3>1. CASE r = cmd
      BY <1>2, <1>3, <3>1
    <3>2. CASE r \in Entries(reqs)
      <4>1. r \in FTLCmd /\ r.tag \in Tags(reqs)
        BY <1>2, <3>2 DEF Entries, Tags
      <4>2. r.tag \in Tag /\ r.tag # t
        BY <1>7, <4>1 DEF FTLCmd
      <4> QED
        BY <1>3, <3>2, <4>2 DEF FInv, HostKnows
    <3> QED
      BY <1>5, <3>1, <3>2
  <2>2. phase' # "P0" => host'[Cmd'.tag] = Cmd'
    BY <1>1, <1>3, <1>4, <1>7 DEF FInv, HostKnows
  <2>3. \A u \in (Tags(respsSuccess) \cup Tags(respsFailure) \cup inFlash)' : host'[u] \in FTLCmd
    BY <1>1, <1>3, <1>6, <1>7 DEF FInv, HostKnows
  <2> QED
    BY <1>1, <2>1, <2>2, <2>3 DEF HostKnows
<1>10. PhaseOfOp'
  BY <1>1, <1>4 DEF FInv, PhaseOfOp, Freeing
<1> QED
  BY <1>8, <1>9, <1>10 DEF Places

(* The flash moves a tag from respsSuccess to inFlash.                     *)
LEMMA PlacesFlashTakes ==
  ASSUME FInv, FlashTakes
  PROVE  Places'
<1> DEFINE c == Head(respsSuccess)
<1>1. /\ respsSuccess # <<>> /\ respsSuccess' = Tail(respsSuccess) /\ inFlash' = inFlash \cup {c.tag}
      /\ respsSuccess \in Seq(FlashCmd)
      /\ UNCHANGED <<reqs, procQ, phase, respsFailure, host>>
  BY DEF FlashTakes, FInv, IInv, RegistersTyped
<1>2. /\ c.tag \in Tags(respsSuccess) /\ Distinct(respsSuccess)'
      /\ Tags(respsSuccess)' = Tags(respsSuccess) \ {c.tag}
  BY <1>1, EntriesTail DEF FInv, OnePlace
<1> HIDE DEF c
<1>3. Cmd' = Cmd /\ ServedTag' = ServedTag
  BY <1>1 DEF Cmd, ServedTag
<1>4. /\ Distinct(reqs)' = Distinct(reqs) /\ Tags(reqs)' = Tags(reqs) /\ Entries(reqs)' = Entries(reqs)
      /\ Distinct(respsFailure)' = Distinct(respsFailure) /\ Tags(respsFailure)' = Tags(respsFailure)
  BY <1>1 DEF Tags, Entries, Distinct
<1>5. OnePlace'
  BY <1>1, <1>2, <1>3, <1>4 DEF FInv, OnePlace
<1>6. HostKnows'
  BY <1>1, <1>2, <1>3, <1>4 DEF FInv, HostKnows
<1>7. PhaseOfOp'
  BY <1>1, <1>3 DEF FInv, PhaseOfOp, Freeing
<1> QED
  BY <1>5, <1>6, <1>7 DEF Places

(* The host frees a tag that is in none of the other places. *)
LEMMA PlacesFreed ==
  ASSUME FInv, NEW t \in Tag, host' = [host EXCEPT ![t] = NoCmd],
         UNCHANGED <<reqs, procQ, phase, respsSuccess>>,
         Distinct(respsFailure)', Tags(respsFailure)' \subseteq Tags(respsFailure) \ {t},
         inFlash' = inFlash \ {t},
         t \notin Tags(reqs) \cup Tags(respsSuccess), phase # "P0" => Cmd.tag # t
  PROVE  Places'
<1>1. /\ host \in [Tag -> FTLCmd \cup {NoCmd}] /\ reqs \in Seq(FTLCmd)
  BY DEF FInv, IInv, RegistersTyped
<1>2. \A u \in Tag : u # t => host'[u] = host[u]
  BY <1>1
<1>3. Cmd' = Cmd /\ ServedTag' = ServedTag
  BY DEF Cmd, ServedTag
<1>4. /\ Distinct(reqs)' = Distinct(reqs) /\ Tags(reqs)' = Tags(reqs) /\ Entries(reqs)' = Entries(reqs)
      /\ Distinct(respsSuccess)' = Distinct(respsSuccess) /\ Tags(respsSuccess)' = Tags(respsSuccess)
  BY DEF Tags, Entries, Distinct
<1>5. /\ Tags(respsSuccess) \cup Tags(respsFailure) \cup inFlash \subseteq Tag
      /\ phase # "P0" => Cmd.tag \in Tag
  BY PlacesTyped
<1>6. OnePlace'
  <2>1. phase' \notin Serves \cup {"P0"} => Cmd'.tag \in (Tags(respsSuccess) \cup inFlash)'
    BY <1>3, <1>4 DEF FInv, OnePlace
  <2> QED
    BY <1>3, <1>4, <2>1 DEF FInv, OnePlace
<1>7. HostKnows'
  <2>1. \A r \in Entries(reqs)' : host'[r.tag] = r
    <3> TAKE r \in Entries(reqs)'
    <3>1. r \in FTLCmd /\ r.tag \in Tags(reqs) /\ r \in Entries(reqs)
      BY <1>1, <1>4 DEF Entries, Tags
    <3> QED
      BY <1>2, <3>1 DEF FInv, HostKnows, FTLCmd
  <2>2. phase' # "P0" => host'[Cmd'.tag] = Cmd'
    BY <1>2, <1>3, <1>5 DEF FInv, HostKnows
  <2>3. \A u \in (Tags(respsSuccess) \cup Tags(respsFailure) \cup inFlash)' : host'[u] \in FTLCmd
    BY <1>2, <1>4, <1>5 DEF FInv, HostKnows
  <2> QED
    BY <2>1, <2>2, <2>3 DEF HostKnows
<1>8. PhaseOfOp'
  BY <1>3 DEF FInv, PhaseOfOp, Freeing
<1> QED
  BY <1>6, <1>7, <1>8 DEF Places

(* A tag that the flash is done with is free.                              *)
LEMMA PlacesDone ==
  ASSUME FInv, NEW t \in Tag, HostDone(t)
  PROVE  Places'
<1>1. /\ t \in inFlash /\ (procQ # <<>> => Cmd.tag # t) /\ inFlash' = inFlash \ {t}
      /\ host' = [host EXCEPT ![t] = NoCmd]
      /\ UNCHANGED <<reqs, procQ, phase, respsSuccess, respsFailure>>
  BY DEF HostDone
<1>2. phase # "P0" => Cmd.tag # t
  BY <1>1, Serving DEF FInv, IInv
<1>3. Distinct(respsFailure)' /\ Tags(respsFailure)' = Tags(respsFailure)
  BY <1>1 DEF FInv, OnePlace, Distinct, Tags, Entries
<1>4. t \notin Tags(reqs) \cup Tags(respsSuccess) \cup Tags(respsFailure)
  BY <1>1 DEF FInv, OnePlace
<1> QED
  BY <1>1, <1>2, <1>3, <1>4, PlacesFreed

(* A tag whose refusal arrived is free.                                    *)
LEMMA PlacesRefused ==
  ASSUME FInv, HostRefused
  PROVE  Places'
<1> DEFINE t == Head(respsFailure).tag
<1>1. /\ respsFailure # <<>> /\ respsFailure \in Seq(FTLCmd) /\ respsFailure' = Tail(respsFailure)
      /\ host' = [host EXCEPT ![t] = NoCmd]
      /\ UNCHANGED <<reqs, procQ, phase, respsSuccess, inFlash>>
  BY DEF HostRefused, FInv, IInv, RegistersTyped
<1>2. /\ t \in Tags(respsFailure) /\ Distinct(respsFailure)'
      /\ Tags(respsFailure)' = Tags(respsFailure) \ {t}
  BY <1>1, EntriesTail DEF FInv, OnePlace
<1> HIDE DEF t
<1>3. t \in Tag /\ t \notin Tags(reqs) \cup Tags(respsSuccess) /\ inFlash' = inFlash \ {t}
  BY <1>1, <1>2, PlacesTyped DEF FInv, OnePlace
<1>4. phase # "P0" => Cmd.tag # t
  <2>1. CASE phase \in Serves
    BY <1>2, <2>1 DEF FInv, OnePlace, ServedTag
  <2>2. CASE phase \notin Serves \cup {"P0"}
    BY <1>2, <2>2 DEF FInv, OnePlace
  <2> QED
    BY <2>1, <2>2
<1> QED
  BY <1>1, <1>2, <1>3, <1>4, PlacesFreed

(* Every step keeps each outstanding tag in one place.                     *)
LEMMA PlacesStep ==
  ASSUME FInv, [Next]_vars
  PROVE  Places'
<1>1. CASE Translate
  <2>1. CASE ReadReqMapTable
    BY <2>1, PlacesTakeIn
  <2>2. CASE ReadMapTable \/ StartScan \/ ProcErase2 \/ ReadReqBlockTable \/ ReadBlockTable
             \/ HalveMinEntries \/ PickMinEntry
    BY <2>2, PlacesInner
  <2>3. CASE UseMapped \/ ProcErase \/ UpdateMapTable
    BY <2>3, PlacesAnswer
  <2>4. CASE RefuseUnmapped \/ RefuseFull
    BY <2>4, PlacesRefuse
  <2>5. CASE ProcErase3 \/ UpdateBlockTable
    BY <2>5, PlacesFinish
  <2> QED
    BY <1>1, <2>1, <2>2, <2>3, <2>4, <2>5 DEF Translate
<1>2. CASE Outside
  <2>1. HostRefused => Places'
    BY PlacesRefused
  <2>2. FlashTakes => Places'
    BY PlacesFlashTakes
  <2>3. \A t \in Tag : HostDone(t) => Places'
    BY PlacesDone
  <2>4. \A t \in Tag, op \in Op, lpa \in Lpa : HostIssue(t, op, lpa) => Places'
    BY PlacesIssue
  <2> QED
    BY <1>2, <2>1, <2>2, <2>3, <2>4 DEF Outside
<1>3. CASE UNCHANGED vars
  <2>1. /\ UNCHANGED <<reqs, procQ, phase, respsSuccess, respsFailure, host, inFlash>>
    BY <1>3 DEF vars, outside
  <2>2. Cmd' = Cmd /\ ServedTag' = ServedTag
    BY <2>1 DEF Cmd, ServedTag
  <2>3. /\ Distinct(reqs)' = Distinct(reqs) /\ Tags(reqs)' = Tags(reqs) /\ Entries(reqs)' = Entries(reqs)
        /\ Distinct(respsSuccess)' = Distinct(respsSuccess) /\ Tags(respsSuccess)' = Tags(respsSuccess)
        /\ Distinct(respsFailure)' = Distinct(respsFailure) /\ Tags(respsFailure)' = Tags(respsFailure)
    BY <2>1 DEF Tags, Entries, Distinct
  <2>4. OnePlace'
    BY <2>1, <2>2, <2>3 DEF FInv, OnePlace
  <2> QED
    BY <2>1, <2>2, <2>3, <2>4 DEF FInv, Places, HostKnows, PhaseOfOp, Freeing
<1> QED
  BY <1>1, <1>2, <1>3 DEF Next
-----------------------------------------------------------------------------
(* At the start the flash is erased and nothing is mapped.                 *)
LEMMA FollowsInit == Init => FlashFollows
<1> SUFFICES ASSUME Init PROVE FlashFollows
  OBVIOUS
<1> DEFINE f == [i \in 0..Len(respsSuccess) |-> content]
<1>1. respsSuccess = <<>> /\ Len(respsSuccess) = 0 /\ content \in Contents
  BY DEF Init, Contents
<1>2. Shows(f)
  <2>1. 1..Len(respsSuccess) = {} /\ 0 \in 0..Len(respsSuccess)
    BY <1>1
  <2> QED
    BY <1>1, <2>1 DEF Shows
<1>3. Settled(content)
  <2>1. \A lb \in LogBlock : ~Mapped(lb)
    BY DEF Init, Mapped, Unmapped
  <2>2. \A s \in Segment, c \in Chip : ~Mapped(<<s, c>>)
    BY <2>1 DEF LogBlock
  <2> QED
    BY <2>2 DEF Settled, Init
<1>4. f[Len(respsSuccess)] = content
  BY <1>1
<1> QED
  BY <1>2, <1>3, <1>4 DEF FlashFollows

(* Settled depends on the map only.                                        *)
LEMMA SettledKept ==
  ASSUME mapTable' = mapTable
  PROVE  \A ct : Settled(ct)' <=> Settled(ct)
<1>1. \A c, b : MappedTo(c, b)' <=> MappedTo(c, b)
  BY DEF MappedTo, Mapped
<1> QED
  BY <1>1 DEF Settled, Mapped

(* A step that neither sends nor takes a command keeps FlashFollows.       *)
LEMMA FollowsKept ==
  ASSUME FInv, UNCHANGED <<respsSuccess, content, mapTable>>,
         \A t \in Tags(respsSuccess) : host'[t] = host[t]
  PROVE  FlashFollows'
<1>1. PICK f : Shows(f) /\ Settled(f[Len(respsSuccess)])
  BY DEF FInv, FlashFollows
<1>2. \A i \in 1..Len(respsSuccess) : Own(respsSuccess[i])' = Own(respsSuccess[i])
  <2> TAKE i \in 1..Len(respsSuccess)
  <2>1. respsSuccess[i].tag \in Tags(respsSuccess)
    BY DEF Tags, Entries
  <2> QED
    BY <2>1 DEF Own
<1>3. \A ct : \A i \in 1..Len(respsSuccess) :
         /\ Accepts(ct, respsSuccess[i])' <=> Accepts(ct, respsSuccess[i])
         /\ Effect(ct, respsSuccess[i])' = Effect(ct, respsSuccess[i])
  BY <1>2 DEF Accepts, Effect
<1>4. Shows(f)'
  <2>1. respsSuccess' = respsSuccess /\ content' = content
    OBVIOUS
  <2>2. \A i \in 1..Len(respsSuccess) :
           /\ Accepts(f[i - 1], respsSuccess[i])'
           /\ f[i] = Effect(f[i - 1], respsSuccess[i])'
    BY <1>1, <1>3 DEF Shows
  <2> QED
    BY <1>1, <2>1, <2>2 DEF Shows
<1>5. Settled(f[Len(respsSuccess)])'
  <2>1. f[Len(respsSuccess')] = f[Len(respsSuccess)]
    OBVIOUS
  <2> QED
    BY <1>1, <2>1, SettledKept
<1> QED
  BY <1>4, <1>5 DEF FlashFollows

(* A command put after the others leaves what the flash holds following     *)
(* from them: the answers still queued reach the flash in order.           *)
LEMMA FollowsAppend ==
  ASSUME FInv, UNCHANGED <<host, content>>, NEW r \in FlashCmd,
         respsSuccess' = Append(respsSuccess, r),
         \A ct \in Contents : Settled(ct) =>
            /\ Accepts(ct, r) /\ Effect(ct, r) \in Contents
            /\ \A new : new = Effect(ct, r) => Settled(new)'
  PROVE  FlashFollows'
<1>1. PICK n : n = Len(respsSuccess)
  OBVIOUS
<1>2. PICK f : Shows(f) /\ Settled(f[n])
  BY <1>1 DEF FInv, FlashFollows
<1>3. /\ n \in Nat /\ Len(respsSuccess') = n + 1 /\ respsSuccess'[n + 1] = r
      /\ \A i \in 1..n : respsSuccess'[i] = respsSuccess[i]
  BY <1>1 DEF FInv, IInv, RegistersTyped
<1>4. f \in [0..n -> Contents] /\ f[0] = content
      /\ \A i \in 1..n : Accepts(f[i - 1], respsSuccess[i]) /\ f[i] = Effect(f[i - 1], respsSuccess[i])
  BY <1>1, <1>2 DEF Shows
<1>5. f[n] \in Contents
  BY <1>3, <1>4
<1>6. PICK new : new = Effect(f[n], r)
  OBVIOUS
<1>7. Accepts(f[n], r) /\ new \in Contents /\ Settled(new)'
  BY <1>2, <1>5, <1>6
<1>8. PICK g : g = [i \in 0..(n + 1) |-> IF i = n + 1 THEN new ELSE f[i]]
  OBVIOUS
<1>9. g[n + 1] = new /\ \A i \in 0..n : g[i] = f[i]
  BY <1>3, <1>8
<1>10. g \in [0..(n + 1) -> Contents] /\ g[0] = content
  BY <1>3, <1>4, <1>7, <1>8
<1>11. ASSUME NEW i \in 1..(n + 1)
       PROVE  Accepts(g[i - 1], respsSuccess'[i]) /\ g[i] = Effect(g[i - 1], respsSuccess'[i])
  <2>1. CASE i \in 1..n
    <3>1. g[i] = f[i] /\ g[i - 1] = f[i - 1] /\ respsSuccess'[i] = respsSuccess[i]
      BY <1>3, <1>9, <2>1
    <3> QED
      BY <1>4, <2>1, <3>1
  <2>2. CASE i = n + 1
    <3>1. i - 1 = n /\ g[n] = f[n]
      BY <1>3, <1>9, <2>2
    <3> QED
      BY <1>3, <1>6, <1>7, <1>9, <2>2, <3>1
  <2> QED
    BY <1>3, <2>1, <2>2
<1>12. \A ct, x : (Accepts(ct, x)' <=> Accepts(ct, x)) /\ Effect(ct, x)' = Effect(ct, x)
  BY DEF Accepts, Effect, Own
<1>13. Shows(g)'
  <2>1. \A i \in 1..(n + 1) : Accepts(g[i - 1], respsSuccess[i])' /\ g[i] = Effect(g[i - 1], respsSuccess[i])'
    BY <1>11, <1>12 DEF Accepts, Effect, Own
  <2> QED
    BY <1>3, <1>10, <2>1 DEF Shows
<1>14. Settled(g[Len(respsSuccess)])'
  <2>1. g[Len(respsSuccess')] = new
    BY <1>3, <1>9
  <2> QED
    BY <1>7, <2>1
<1> QED
  BY <1>13, <1>14 DEF FlashFollows

(* The flash taking the oldest command keeps what it will hold after the     *)
(* others.                                                                 *)
LEMMA FollowsTail ==
  ASSUME FInv, FlashTakes
  PROVE  FlashFollows' /\ content' \in Contents
<1>1. PICK n : n = Len(respsSuccess)
  OBVIOUS
<1>2. PICK f : Shows(f) /\ Settled(f[n])
  BY <1>1 DEF FInv, FlashFollows
<1>3. /\ respsSuccess # <<>> /\ respsSuccess \in Seq(FlashCmd) /\ respsSuccess' = Tail(respsSuccess)
      /\ host' = host /\ mapTable' = mapTable
  BY DEF FlashTakes, FInv, IInv, RegistersTyped, tables
<1>4. /\ n \in Nat \ {0} /\ Len(respsSuccess') = n - 1 /\ Head(respsSuccess) = respsSuccess[1]
      /\ \A i \in 1..(n - 1) : respsSuccess'[i] = respsSuccess[i + 1]
  BY <1>1, <1>3, HeadTailProperties, EmptySeq
<1>5. f \in [0..n -> Contents] /\ f[0] = content
      /\ \A i \in 1..n : Accepts(f[i - 1], respsSuccess[i]) /\ f[i] = Effect(f[i - 1], respsSuccess[i])
  BY <1>1, <1>2 DEF Shows
<1>6. content' = f[1] /\ f[1] \in Contents
  <2>1. 1 \in 1..n /\ 1 - 1 = 0 /\ 1 \in 0..n
    BY <1>4
  <2>2. f[1] = Effect(content, Head(respsSuccess))
    BY <1>4, <1>5, <2>1
  <2>3. content' = Effect(content, Head(respsSuccess))
    BY DEF FlashTakes, Effect, Own
  <2> QED
    BY <1>5, <2>1, <2>2, <2>3
<1>7. PICK g : g = [i \in 0..(n - 1) |-> f[i + 1]]
  OBVIOUS
<1>8. g \in [0..(n - 1) -> Contents] /\ g[0] = content' /\ g[n - 1] = f[n]
  BY <1>4, <1>5, <1>6, <1>7
<1>9. \A ct, x : (Accepts(ct, x)' <=> Accepts(ct, x)) /\ Effect(ct, x)' = Effect(ct, x)
  BY <1>3 DEF Accepts, Effect, Own
<1>10. ASSUME NEW i \in 1..(n - 1)
       PROVE  Accepts(g[i - 1], respsSuccess'[i]) /\ g[i] = Effect(g[i - 1], respsSuccess'[i])
  <2>1. i + 1 \in 1..n /\ (i + 1) - 1 = i /\ g[i] = f[i + 1] /\ g[i - 1] = f[i]
    BY <1>4, <1>7
  <2>2. Accepts(f[i], respsSuccess[i + 1]) /\ f[i + 1] = Effect(f[i], respsSuccess[i + 1])
    BY <1>5, <2>1
  <2> QED
    BY <1>4, <2>1, <2>2
<1>11. Shows(g)'
  <2>1. \A i \in 1..(n - 1) : Accepts(g[i - 1], respsSuccess[i])' /\ g[i] = Effect(g[i - 1], respsSuccess[i])'
    BY <1>3, <1>10 DEF Accepts, Effect, Own
  <2> QED
    BY <1>4, <1>8, <2>1 DEF Shows
<1>12. Settled(g[Len(respsSuccess)])'
  <2>1. g[Len(respsSuccess')] = f[n]
    BY <1>4, <1>8
  <2>2. Settled(f[n])'
    BY <1>2, <1>3, SettledKept
  <2> QED
    BY <2>1, <2>2
<1> QED
  BY <1>6, <1>11, <1>12 DEF FlashFollows

(* The command for the request served, and what it does to the flash. *)
LEMMA CommandOfRequest ==
  ASSUME FInv, phase # "P0", NEW b \in Block
  PROVE  /\ Command(Cmd, b) \in FlashCmd
         /\ Command(Cmd, b).chip = Here /\ Command(Cmd, b).block = b
         /\ Command(Cmd, b).op = Cmd.op /\ Own(Command(Cmd, b)) = SegmentOf(Cmd.lpa)
         /\ Here \in Chip /\ SegmentOf(Cmd.lpa) \in Segment
         /\ Target = <<SegmentOf(Cmd.lpa), Here>> /\ Target \in LogBlock
<1>1. /\ Cmd \in FTLCmd /\ Here \in Chip /\ Target \in LogBlock /\ Target = <<SegmentOf(Cmd.lpa), Here>>
      /\ SegmentOf(Cmd.lpa) \in Segment
  BY Serving DEF FInv, IInv
<1>2. Command(Cmd, b) \in FlashCmd
  BY <1>1, CommandTyped
<1>3. /\ Command(Cmd, b).chip = Here /\ Command(Cmd, b).block = b
      /\ Command(Cmd, b).op = Cmd.op /\ Command(Cmd, b).tag = Cmd.tag
  BY DEF Command, Here
<1>4. host[Cmd.tag] = Cmd
  BY DEF FInv, HostKnows
<1> QED
  BY <1>1, <1>2, <1>3, <1>4 DEF Own

(* A command changes the contents of its own block alone.                    *)
LEMMA EffectOnBlocks ==
  ASSUME NEW ct \in Contents, NEW r \in FlashCmd, Own(r) \in Segment
  PROVE  /\ Effect(ct, r) \in Contents
         /\ \A c \in Chip, b \in Block : ~(c = r.chip /\ b = r.block) => Effect(ct, r)[c][b] = ct[c][b]
         /\ r.op = "WRITE_PAGE" => Effect(ct, r)[r.chip][r.block] = Own(r)
         /\ r.op = "ERASE_BLOCK" => Effect(ct, r)[r.chip][r.block] = Erased
         /\ r.op = "READ_PAGE" => Effect(ct, r) = ct
<1>1. r.chip \in Chip /\ r.block \in Block /\ r.op \in Op
  BY DEF FlashCmd
<1>2. CASE r.op = "WRITE_PAGE"
  <2>1. Effect(ct, r) = [ct EXCEPT ![r.chip][r.block] = Own(r)]
    BY <1>2 DEF Effect
  <2> QED
    BY <1>1, <1>2, <2>1 DEF Contents
<1>3. CASE r.op = "ERASE_BLOCK"
  <2>1. Effect(ct, r) = [ct EXCEPT ![r.chip][r.block] = Erased]
    BY <1>3 DEF Effect
  <2> QED
    BY <1>1, <1>3, <2>1 DEF Contents
<1>4. CASE r.op = "READ_PAGE"
  <2>1. Effect(ct, r) = ct
    BY <1>4 DEF Effect
  <2> QED
    BY <1>4, <2>1
<1> QED
  BY <1>1, <1>2, <1>3, <1>4 DEF Op

(* A block that is mapped holds, when its turn comes, the segment's data. *)
LEMMA FollowsUse ==
  ASSUME FInv, UseMapped
  PROVE  FlashFollows'
<1>1. PICK b0 : b0 = mapEntry.block
  OBVIOUS
<1>2. /\ phase \in {"P1_read", "P1_write"} /\ mapEntry.status = "ALLOCATED"
      /\ respsSuccess' = Append(respsSuccess, Command(Cmd, b0))
      /\ UNCHANGED <<host, content, mapTable>>
  BY <1>1 DEF UseMapped, Succeed, outside, tables
<1>3. b0 \in Block /\ mapEntry = mapTable[Target] /\ phase # "P0"
  BY <1>1, <1>2 DEF FInv, IInv, RegistersTyped, MapEntry, EntryCurrent
<1>4. PICK r : r = Command(Cmd, b0)
  OBVIOUS
<1>5. PICK s0, c0 : s0 = SegmentOf(Cmd.lpa) /\ c0 = Here
  OBVIOUS
<1>6. /\ r \in FlashCmd /\ r.chip = c0 /\ r.block = b0 /\ r.op = Cmd.op /\ Own(r) = s0
      /\ c0 \in Chip /\ s0 \in Segment /\ Target = <<s0, c0>>
  BY <1>3, <1>4, <1>5, CommandOfRequest
<1>7. r.op \in {"READ_PAGE", "WRITE_PAGE"}
  BY <1>2, <1>6 DEF FInv, PhaseOfOp, Freeing
<1>8. Mapped(<<s0, c0>>) /\ mapTable[<<s0, c0>>].block = b0
  BY <1>1, <1>2, <1>3, <1>6 DEF Mapped
<1>9. ASSUME NEW ct \in Contents, Settled(ct)
      PROVE  /\ Accepts(ct, r) /\ Effect(ct, r) \in Contents
             /\ \A new : new = Effect(ct, r) => Settled(new)'
  <2>1. ct[c0][b0] = s0
    BY <1>6, <1>8, <1>9 DEF Settled
  <2>2. Accepts(ct, r)
    BY <1>6, <2>1 DEF Accepts
  <2>3. PICK new : new = Effect(ct, r)
    OBVIOUS
  <2>4. new \in Contents /\ \A c \in Chip, b \in Block : new[c][b] = ct[c][b]
    BY <1>6, <1>7, <2>1, <2>3, EffectOnBlocks
  <2>5. Settled(new)
    <3>1. ASSUME NEW s \in Segment, NEW c \in Chip, Mapped(<<s, c>>)
          PROVE  new[c][mapTable[<<s, c>>].block] = s
      <4>1. mapTable[<<s, c>>].block \in Block /\ ct[c][mapTable[<<s, c>>].block] = s
        BY <1>9, <3>1 DEF Settled, FInv, IInv, RegistersTyped, MapEntry, LogBlock
      <4> QED
        BY <2>4, <4>1
    <3> QED
      BY <1>9, <2>4, <3>1 DEF Settled
  <2>6. Settled(new)'
    BY <1>2, <2>5, SettledKept
  <2> QED
    BY <2>2, <2>3, <2>4, <2>6
<1>10. respsSuccess' = Append(respsSuccess, r)
  BY <1>2, <1>4
<1> QED
  BY <1>2, <1>6, <1>9, <1>10, FollowsAppend

(* An erase leaves the block it unbinds erased. *)
LEMMA FollowsErase ==
  ASSUME FInv, ProcErase
  PROVE  FlashFollows'
<1>1. PICK b0 : b0 = mapEntry.block
  OBVIOUS
<1>2. /\ phase = "P1_erase" /\ mapEntry.status = "ALLOCATED"
      /\ respsSuccess' = Append(respsSuccess, Command(Cmd, b0))
      /\ mapTable' = [mapTable EXCEPT ![Target] = Unmapped]
      /\ UNCHANGED <<host, content>>
  BY <1>1 DEF ProcErase, Succeed, outside
<1>3. b0 \in Block /\ mapEntry = mapTable[Target] /\ phase # "P0"
  BY <1>1, <1>2 DEF FInv, IInv, RegistersTyped, MapEntry, EntryCurrent
<1>4. PICK r : r = Command(Cmd, b0)
  OBVIOUS
<1>5. PICK s0, c0 : s0 = SegmentOf(Cmd.lpa) /\ c0 = Here
  OBVIOUS
<1>6. /\ r \in FlashCmd /\ r.chip = c0 /\ r.block = b0 /\ r.op = Cmd.op /\ Own(r) = s0
      /\ c0 \in Chip /\ s0 \in Segment /\ Target = <<s0, c0>> /\ Target \in LogBlock
  BY <1>3, <1>4, <1>5, CommandOfRequest
<1>7. r.op = "ERASE_BLOCK"
  BY <1>2, <1>6 DEF FInv, PhaseOfOp, Freeing
<1>8. Mapped(<<s0, c0>>) /\ mapTable[<<s0, c0>>].block = b0
  BY <1>1, <1>2, <1>3, <1>6 DEF Mapped
<1>9. MapInjective /\ mapTable \in [LogBlock -> MapEntry]
  BY DEF FInv, IInv, RegistersTyped
<1>10. \A c \in Chip, b \in Block : MappedTo(c, b)' <=> MappedTo(c, b) /\ ~(c = c0 /\ b = b0)
  <2>1. mapTable' = [mapTable EXCEPT ![<<s0, c0>>] = Unmapped]
    BY <1>2, <1>6
  <2>2. \A c \in Chip, b \in Block :
           MappedTo(c, b)' <=> MappedTo(c, b) /\ ~(c = c0 /\ b = mapTable[<<s0, c0>>].block)
    BY <1>6, <1>8, <1>9, <2>1, Unbinding
  <2> QED
    BY <1>8, <2>2
<1>11. ASSUME NEW s \in Segment, NEW c \in Chip, Mapped(<<s, c>>)'
       PROVE  /\ <<s, c>> \in LogBlock /\ Mapped(<<s, c>>) /\ mapTable'[<<s, c>>] = mapTable[<<s, c>>]
              /\ ~(c = c0 /\ mapTable[<<s, c>>].block = b0)
  <2>1. <<s, c>> \in LogBlock /\ <<s0, c0>> \in LogBlock
    BY <1>6 DEF LogBlock
  <2>2. mapTable'[<<s, c>>] = IF s = s0 /\ c = c0 THEN Unmapped ELSE mapTable[<<s, c>>]
    BY <1>2, <1>6, <1>9, <2>1
  <2>3. ~(s = s0 /\ c = c0)
    BY <1>11, <2>2 DEF Mapped, Unmapped
  <2>4. mapTable'[<<s, c>>] = mapTable[<<s, c>>] /\ Mapped(<<s, c>>)
    BY <1>11, <2>2, <2>3 DEF Mapped
  <2>5. ~(c = c0 /\ mapTable[<<s, c>>].block = b0)
    BY <1>8, <1>9, <2>1, <2>3, <2>4 DEF MapInjective
  <2> QED
    BY <2>1, <2>4, <2>5
<1>12. ASSUME NEW ct \in Contents, Settled(ct)
       PROVE  /\ Accepts(ct, r) /\ Effect(ct, r) \in Contents
              /\ \A new : new = Effect(ct, r) => Settled(new)'
  <2>1. ct[c0][b0] = s0
    BY <1>6, <1>8, <1>12 DEF Settled
  <2>2. Accepts(ct, r)
    BY <1>6, <1>7, <2>1 DEF Accepts
  <2>3. PICK new : new = Effect(ct, r)
    OBVIOUS
  <2>4. /\ new \in Contents /\ new[c0][b0] = Erased
        /\ \A c \in Chip, b \in Block : ~(c = c0 /\ b = b0) => new[c][b] = ct[c][b]
    BY <1>6, <1>7, <2>3, EffectOnBlocks
  <2>5. ASSUME NEW s \in Segment, NEW c \in Chip, Mapped(<<s, c>>)'
        PROVE  new[c][mapTable'[<<s, c>>].block] = s
    <3>1. /\ Mapped(<<s, c>>) /\ mapTable'[<<s, c>>] = mapTable[<<s, c>>]
          /\ ~(c = c0 /\ mapTable[<<s, c>>].block = b0) /\ mapTable[<<s, c>>].block \in Block
      BY <1>9, <1>11, <2>5 DEF MapEntry
    <3>2. ct[c][mapTable[<<s, c>>].block] = s
      BY <1>12, <3>1 DEF Settled
    <3> QED
      BY <2>4, <3>1, <3>2
  <2>6. ASSUME NEW c \in Chip, NEW b \in Block, ~MappedTo(c, b)'
        PROVE  new[c][b] = Erased
    BY <1>10, <1>12, <2>4, <2>6 DEF Settled
  <2>7. Settled(new)'
    BY <2>5, <2>6 DEF Settled
  <2> QED
    BY <2>2, <2>3, <2>4, <2>7
<1>13. respsSuccess' = Append(respsSuccess, r)
  BY <1>2, <1>4
<1> QED
  BY <1>2, <1>6, <1>12, <1>13, FollowsAppend

(* A block found free is bound to nothing, so it will be erased when its   *)
(* program comes, and hold the segment's data after it.                    *)
LEMMA FollowsBind ==
  ASSUME FInv, UpdateMapTable
  PROVE  FlashFollows'
<1>1. PICK b0 : b0 = blkToAlloc.block
  OBVIOUS
<1>2. /\ phase = "P7" /\ blkToAlloc.valid
      /\ respsSuccess' = Append(respsSuccess, Command(Cmd, b0))
      /\ mapTable' = [mapTable EXCEPT ![Target] = [status |-> "ALLOCATED", block |-> b0]]
      /\ UNCHANGED <<host, content>>
  BY <1>1 DEF UpdateMapTable, Succeed, outside
<1>3. b0 \in Block /\ ~Mapped(Target) /\ phase # "P0"
  BY <1>1, <1>2 DEF FInv, IInv, RegistersTyped, MinEntry, EntryCurrent, Mapped
<1>4. PICK r : r = Command(Cmd, b0)
  OBVIOUS
<1>5. PICK s0, c0 : s0 = SegmentOf(Cmd.lpa) /\ c0 = Here
  OBVIOUS
<1>6. /\ r \in FlashCmd /\ r.chip = c0 /\ r.block = b0 /\ r.op = Cmd.op /\ Own(r) = s0
      /\ c0 \in Chip /\ s0 \in Segment /\ Target = <<s0, c0>> /\ Target \in LogBlock
  BY <1>3, <1>4, <1>5, CommandOfRequest
<1>7. r.op = "WRITE_PAGE"
  BY <1>2, <1>6 DEF FInv, PhaseOfOp, Freeing, Scanning
<1>8. ~MappedTo(c0, b0)
  <2>1. Agree
    BY <1>2, AgreeNow DEF FInv, IInv, Windows, Freeing
  <2>2. b0 \in FreeBlocks(Here)
    BY <1>1, <1>2 DEF FInv, IInv, MinimaBest, Best
  <2>3. blkTable[c0][b0].status = "FREE_BLK"
    BY <1>5, <2>2 DEF FreeBlocks
  <2> QED
    BY <1>3, <1>6, <2>1, <2>3 DEF Agree
<1>9. mapTable \in [LogBlock -> MapEntry]
  BY DEF FInv, IInv, RegistersTyped
<1>10. \A c \in Chip, b \in Block : MappedTo(c, b)' <=> MappedTo(c, b) \/ (c = c0 /\ b = b0)
  <2>1. mapTable' = [mapTable EXCEPT ![<<s0, c0>>] = [status |-> "ALLOCATED", block |-> b0]]
    BY <1>2, <1>6
  <2>2. ~Mapped(<<s0, c0>>)
    BY <1>3, <1>6
  <2>3. s0 \in Segment /\ c0 \in Chip /\ b0 \in Block
    BY <1>3, <1>6
  <2> QED
    BY <1>9, <2>1, <2>2, <2>3, Binding
<1>11. ASSUME NEW ct \in Contents, Settled(ct)
       PROVE  /\ Accepts(ct, r) /\ Effect(ct, r) \in Contents
              /\ \A new : new = Effect(ct, r) => Settled(new)'
  <2>1. ct[c0][b0] = Erased
    BY <1>3, <1>6, <1>8, <1>11 DEF Settled
  <2>2. Accepts(ct, r)
    BY <1>6, <1>7, <2>1 DEF Accepts
  <2>3. PICK new : new = Effect(ct, r)
    OBVIOUS
  <2>4. /\ new \in Contents /\ new[c0][b0] = s0
        /\ \A c \in Chip, b \in Block : ~(c = c0 /\ b = b0) => new[c][b] = ct[c][b]
    BY <1>6, <1>7, <2>3, EffectOnBlocks
  <2>5. ASSUME NEW s \in Segment, NEW c \in Chip, Mapped(<<s, c>>)'
        PROVE  new[c][mapTable'[<<s, c>>].block] = s
    <3>1. <<s, c>> \in LogBlock /\ <<s0, c0>> \in LogBlock
      BY <1>6 DEF LogBlock
    <3>2. mapTable'[<<s, c>>] = IF s = s0 /\ c = c0 THEN [status |-> "ALLOCATED", block |-> b0]
                                                  ELSE mapTable[<<s, c>>]
      BY <1>2, <1>6, <1>9, <3>1
    <3>3. CASE s = s0 /\ c = c0
      BY <2>4, <3>2, <3>3
    <3>4. CASE ~(s = s0 /\ c = c0)
      <4>1. Mapped(<<s, c>>) /\ mapTable[<<s, c>>].block \in Block
        BY <1>9, <2>5, <3>1, <3>2, <3>4 DEF Mapped, MapEntry
      <4>2. ct[c][mapTable[<<s, c>>].block] = s
        BY <1>11, <4>1 DEF Settled
      <4>3. ~(c = c0 /\ mapTable[<<s, c>>].block = b0)
        BY <1>8, <4>1 DEF MappedTo
      <4> QED
        BY <2>4, <3>2, <3>4, <4>1, <4>2, <4>3
    <3> QED
      BY <3>3, <3>4
  <2>6. ASSUME NEW c \in Chip, NEW b \in Block, ~MappedTo(c, b)'
        PROVE  new[c][b] = Erased
    BY <1>10, <1>11, <2>4, <2>6 DEF Settled
  <2>7. Settled(new)'
    BY <2>5, <2>6 DEF Settled
  <2> QED
    BY <2>2, <2>3, <2>4, <2>7
<1>12. respsSuccess' = Append(respsSuccess, r)
  BY <1>2, <1>4
<1> QED
  BY <1>2, <1>6, <1>11, <1>12, FollowsAppend
-----------------------------------------------------------------------------
(* Every step keeps FlashFollows.                                          *)
LEMMA FollowsStep ==
  ASSUME FInv, [Next]_vars
  PROVE  FlashFollows'
<1>1. CASE UseMapped
  BY <1>1, FollowsUse
<1>2. CASE ProcErase
  BY <1>2, FollowsErase
<1>3. CASE UpdateMapTable
  BY <1>3, FollowsBind
<1>4. CASE FlashTakes
  BY <1>4, FollowsTail
<1>5. CASE \/ ReadReqMapTable \/ ReadMapTable \/ RefuseUnmapped \/ StartScan \/ ProcErase2 \/ ProcErase3
           \/ ReadReqBlockTable \/ ReadBlockTable \/ HalveMinEntries \/ PickMinEntry \/ RefuseFull
           \/ UpdateBlockTable \/ UNCHANGED vars
  <2>1. UNCHANGED <<respsSuccess, content, mapTable, host>>
    BY <1>5 DEF ReadReqMapTable, ReadMapTable, RefuseUnmapped, StartScan, ProcErase2, ProcErase3,
       ReadReqBlockTable, ReadBlockTable, HalveMinEntries, PickMinEntry, RefuseFull, UpdateBlockTable,
       outside, tables, vars
  <2> QED
    BY <2>1, FollowsKept
<1>6. ASSUME NEW t \in Tag, t \notin Tags(respsSuccess), NEW x, host' = [host EXCEPT ![t] = x],
             UNCHANGED <<respsSuccess, content, mapTable>>
      PROVE  FlashFollows'
  <2>1. host \in [Tag -> FTLCmd \cup {NoCmd}] /\ Tags(respsSuccess) \subseteq Tag
    BY PlacesTyped DEF FInv, IInv, RegistersTyped
  <2>2. \A u \in Tags(respsSuccess) : host'[u] = host[u]
    BY <1>6, <2>1
  <2> QED
    BY <1>6, <2>2, FollowsKept
<1>7. ASSUME NEW t \in Tag, NEW op \in Op, NEW lpa \in Lpa, HostIssue(t, op, lpa)
      PROVE  FlashFollows'
  <2>1. /\ host[t] = NoCmd /\ host' = [host EXCEPT ![t] = [tag |-> t, op |-> op, lpa |-> lpa]]
        /\ UNCHANGED <<respsSuccess, content, mapTable>>
    BY <1>7 DEF HostIssue, tables
  <2>2. t \notin Tags(respsSuccess)
    BY <2>1, PlacesTyped
  <2> QED
    BY <1>6, <2>1, <2>2
<1>8. ASSUME NEW t \in Tag, HostDone(t)
      PROVE  FlashFollows'
  <2>1. /\ t \in inFlash /\ host' = [host EXCEPT ![t] = NoCmd]
        /\ UNCHANGED <<respsSuccess, content, mapTable>>
    BY <1>8 DEF HostDone, tables
  <2>2. t \notin Tags(respsSuccess)
    BY <2>1 DEF FInv, OnePlace
  <2> QED
    BY <1>6, <2>1, <2>2
<1>9. CASE HostRefused
  <2>1. PICK t : t = Head(respsFailure).tag
    OBVIOUS
  <2>2. /\ respsFailure # <<>> /\ respsFailure \in Seq(FTLCmd) /\ host' = [host EXCEPT ![t] = NoCmd]
        /\ UNCHANGED <<respsSuccess, content, mapTable>>
    BY <1>9, <2>1 DEF HostRefused, tables, FInv, IInv, RegistersTyped
  <2>3. t \in Tags(respsFailure)
    BY <2>1, <2>2, EntriesTail
  <2>4. t \in Tag /\ t \notin Tags(respsSuccess)
    BY <2>3, PlacesTyped DEF FInv, OnePlace
  <2> QED
    BY <1>6, <2>2, <2>4
<1> QED
  BY <1>1, <1>2, <1>3, <1>4, <1>5, <1>7, <1>8, <1>9 DEF Next, Translate, Outside

(* Every step keeps the second invariant.                                  *)
LEMMA FInvStep == FInv /\ [Next]_vars => FInv'
<1> SUFFICES ASSUME FInv, [Next]_vars PROVE FInv'
  OBVIOUS
<1>1. IInv'
  BY AFTLInvStep DEF FInv
<1>2. Places'
  BY PlacesStep
<1>3. FlashFollows'
  BY FollowsStep
<1> QED
  BY <1>1, <1>2, <1>3 DEF FInv, Places

(* The second inductive invariant holds throughout.                        *)
THEOREM FlashInv == Spec => []FInv
<1>1. Init => FInv
  BY AFTLInvInit, PlacesInit, FollowsInit DEF FInv, Places
<1> QED
  BY <1>1, FInvStep, PTL DEF Spec

(* Every register, FIFO and table of mkAFTL holds what its declaration     *)
(* says, and every block of the flash is erased or holds a segment's data. *)
THEOREM AFTLTypeCorrect == Spec => []TypeOK
<1>1. FInv => TypeOK
  <2> SUFFICES ASSUME FInv PROVE TypeOK
    OBVIOUS
  <2>1. PICK f : Shows(f)
    BY DEF FInv, FlashFollows
  <2>2. Len(respsSuccess) \in Nat
    BY DEF FInv, IInv, RegistersTyped
  <2>3. content \in Contents
    BY <2>1, <2>2 DEF Shows
  <2> QED
    BY <2>3 DEF TypeOK, Contents, FInv, IInv
<1> QED
  BY <1>1, FlashInv, PTL

(* The first command finds its own segment's data: the sequence starts with it. *)
LEMMA OwnDataFollows ==
  ASSUME FInv
  PROVE  FlashHoldsOwnData
<1> SUFFICES ASSUME respsSuccess # <<>> PROVE FlashHoldsOwnData
  BY DEF FlashHoldsOwnData
<1>1. PICK f : Shows(f)
  BY DEF FInv, FlashFollows
<1>2. respsSuccess \in Seq(FlashCmd) /\ Len(respsSuccess) \in Nat \ {0} /\ Head(respsSuccess) = respsSuccess[1]
  BY HeadTailProperties, EmptySeq DEF FInv, IInv, RegistersTyped
<1>3. 1 \in 1..Len(respsSuccess) /\ 1 - 1 = 0
  BY <1>2
<1>4. Accepts(content, Head(respsSuccess))
  BY <1>1, <1>2, <1>3 DEF Shows
<1> QED
  BY <1>4 DEF FlashHoldsOwnData, Accepts, Own

(* procErase, procWrite and procRead send commands in an order that keeps  *)
(* the data of segments apart, however long they stay queued.              *)
THEOREM DataKeptApart == Spec => []FlashHoldsOwnData
<1>1. FInv => FlashHoldsOwnData
  BY OwnDataFollows
<1> QED
  BY <1>1, FlashInv, PTL
-----------------------------------------------------------------------------
(***************************************************************************)
(* The phases implement one atomic step per request: the refinement of     *)
(* BlockMap, step by step.                                                 *)
(***************************************************************************)
(* What the refinement mapping makes of the state. *)
BoundNow == [lb \in LogBlock |-> CASE mapTable[lb].status = "ALLOCATED" -> mapTable[lb].block
                                   [] mapTable[lb].status = "NOT_ALLOCATED" -> -1
                                   [] mapTable[lb].status = "DEAD" -> -2]
FreeNow == [c \in Chip |-> {b \in Block : \/ b \in FreeBlocks(c) /\ ~BeingTaken(c, b)
                                          \/ BeingFreed(c, b)}]
ErasesNow == [c \in Chip |-> [b \in Block |->
                IF BeingFreed(c, b) THEN (blkTable[c][b].erase + 1) % EraseMod
                ELSE blkTable[c][b].erase]]
ToServe == (IF Answered THEN <<>> ELSE procQ) \o reqs
BlocksNow == <<BoundNow, FreeNow, ErasesNow>>

(* The next request to serve, with the answer that the step sends. *)
ServesNext(cmd, b) ==
  /\ ToServe # <<>> /\ Head(ToServe) = cmd /\ ToServe' = Tail(ToServe)
  /\ respsSuccess' = Append(respsSuccess, Command(cmd, b))
  /\ UNCHANGED respsFailure

(* A step of the abstract layer, told by what it does to the mapped state:  *)
(* a request comes,                                                        *)
LEMMA IsSubmit ==
  ASSUME NEW cmd \in FTLCmd, ToServe' = Append(ToServe, cmd), UNCHANGED <<BlocksNow, respsSuccess, respsFailure>>
  PROVE  Blocks!Next
<1>1. Blocks!Submit(cmd)
  BY DEF Blocks!Submit, ToServe, BlocksNow, BoundNow, FreeNow, ErasesNow
<1> QED
  BY <1>1 DEF Blocks!Next

(* the request at the head is served in one of four ways, *)
LEMMA IsServe ==
  ASSUME ToServe # <<>>,
         \/ Blocks!Use(Head(ToServe)) \/ Blocks!Bind(Head(ToServe))
         \/ Blocks!Unbind(Head(ToServe)) \/ Blocks!Refuse(Head(ToServe))
  PROVE  Blocks!Next
BY DEF Blocks!Next, Blocks!Serve, ToServe

(* on the block it is bound to, *)
LEMMA IsUse ==
  ASSUME NEW cmd, cmd.op \in {"READ_PAGE", "WRITE_PAGE"},
         NEW b \in Block, b = BoundNow[LogBlockOf(cmd)], ServesNext(cmd, b), UNCHANGED BlocksNow
  PROVE  Blocks!Next
<1>1. Blocks!Use(Head(ToServe))
  BY DEF Blocks!Use, Blocks!Grant, ServesNext, ToServe, BlocksNow, BoundNow, FreeNow, ErasesNow
<1> QED
  BY <1>1, IsServe DEF ServesNext

(* on a block it is bound to from now on, *)
LEMMA IsBind ==
  ASSUME NEW cmd, cmd.op = "WRITE_PAGE", NEW c, c = LogBlockOf(cmd)[2],
         BoundNow[LogBlockOf(cmd)] = -1, NEW b \in FreeNow[c],
         \A o \in FreeNow[c] : ErasesNow[c][b] <= ErasesNow[c][o],
         BoundNow' = [BoundNow EXCEPT ![LogBlockOf(cmd)] = b],
         FreeNow' = [FreeNow EXCEPT ![c] = @ \ {b}],
         UNCHANGED ErasesNow, ServesNext(cmd, b)
  PROVE  Blocks!Next
<1>1. b \in Blocks!LeastErased(LogBlockOf(cmd)[2])
  BY DEF Blocks!LeastErased, FreeNow, ErasesNow
<1>2. Blocks!Bind(Head(ToServe))
  BY <1>1 DEF Blocks!Bind, Blocks!Grant, ServesNext, ToServe, BoundNow, FreeNow, ErasesNow
<1> QED
  BY <1>2, IsServe DEF ServesNext

(* on a block that is free from now on, *)
LEMMA IsUnbind ==
  ASSUME NEW cmd, cmd.op = "ERASE_BLOCK", NEW c, c = LogBlockOf(cmd)[2],
         NEW b \in Block, b = BoundNow[LogBlockOf(cmd)],
         BoundNow' = [BoundNow EXCEPT ![LogBlockOf(cmd)] = -1],
         FreeNow' = [FreeNow EXCEPT ![c] = @ \cup {b}],
         ErasesNow' = [ErasesNow EXCEPT ![c][b] = (@ + 1) % EraseMod], ServesNext(cmd, b)
  PROVE  Blocks!Next
<1>1. Blocks!Unbind(Head(ToServe))
  BY DEF Blocks!Unbind, Blocks!Grant, ServesNext, ToServe, BoundNow, FreeNow, ErasesNow
<1> QED
  BY <1>1, IsServe DEF ServesNext

(* or it is refused; *)
LEMMA IsRefuse ==
  ASSUME NEW cmd, ToServe # <<>>, Head(ToServe) = cmd, ToServe' = Tail(ToServe),
         \/ BoundNow[LogBlockOf(cmd)] = -2
         \/ BoundNow[LogBlockOf(cmd)] = -1 /\ cmd.op # "WRITE_PAGE"
         \/ BoundNow[LogBlockOf(cmd)] = -1 /\ FreeNow[LogBlockOf(cmd)[2]] = {},
         respsFailure' = Append(respsFailure, cmd), UNCHANGED <<BlocksNow, respsSuccess>>
  PROVE  Blocks!Next
<1>1. Blocks!Refuse(Head(ToServe))
  BY DEF Blocks!Refuse, ToServe, BlocksNow, BoundNow, FreeNow, ErasesNow
<1> QED
  BY <1>1, IsServe

(* the surroundings take a command, *)
LEMMA IsTakeCommand ==
  ASSUME respsSuccess # <<>>, respsSuccess' = Tail(respsSuccess), UNCHANGED <<BlocksNow, ToServe, respsFailure>>
  PROVE  Blocks!Next
<1>1. Blocks!TakeCommand
  BY DEF Blocks!TakeCommand, ToServe, BlocksNow, BoundNow, FreeNow, ErasesNow
<1> QED
  BY <1>1 DEF Blocks!Next

(* or a refusal; *)
LEMMA IsTakeRefusal ==
  ASSUME respsFailure # <<>>, respsFailure' = Tail(respsFailure), UNCHANGED <<BlocksNow, ToServe, respsSuccess>>
  PROVE  Blocks!Next
<1>1. Blocks!TakeRefusal
  BY DEF Blocks!TakeRefusal, ToServe, BlocksNow, BoundNow, FreeNow, ErasesNow
<1> QED
  BY <1>1 DEF Blocks!Next

(* or nothing happens. *)
LEMMA IsStutter ==
  ASSUME UNCHANGED <<BlocksNow, ToServe, respsSuccess, respsFailure>>
  PROVE  UNCHANGED Blocks!vars
BY DEF Blocks!vars, ToServe, BlocksNow, BoundNow, FreeNow, ErasesNow
-----------------------------------------------------------------------------
(* A step that touches no table and neither opens nor closes a window      *)
(* leaves the blocks as they are.                                          *)
LEMMA BlocksKept ==
  ASSUME UNCHANGED <<mapTable, blkTable>>, phase \notin Windows, phase' \notin Windows
  PROVE  UNCHANGED BlocksNow
<1>1. \A c, b : /\ ~BeingTaken(c, b) /\ ~BeingTaken(c, b)'
                /\ ~BeingFreed(c, b) /\ ~BeingFreed(c, b)'
  BY DEF BeingTaken, BeingFreed, Windows, Freeing
<1>2. UNCHANGED BoundNow
  BY DEF BoundNow
<1>3. UNCHANGED FreeNow
  <2>1. \A c : FreeBlocks(c)' = FreeBlocks(c)
    BY DEF FreeBlocks
  <2> QED
    BY <1>1, <2>1 DEF FreeNow
<1>4. UNCHANGED ErasesNow
  BY <1>1 DEF ErasesNow
<1> QED
  BY <1>2, <1>3, <1>4 DEF BlocksNow

(* The blocks outside the windows. *)
LEMMA BlocksOutside ==
  ASSUME phase \notin Windows
  PROVE  /\ FreeNow = [c \in Chip |-> FreeBlocks(c)]
         /\ ErasesNow = [c \in Chip |-> [b \in Block |-> blkTable[c][b].erase]]
<1>1. \A c, b : ~BeingTaken(c, b) /\ ~BeingFreed(c, b)
  BY DEF BeingTaken, BeingFreed, Windows, Freeing
<1>2. \A c \in Chip : FreeNow[c] = FreeBlocks(c)
  BY <1>1 DEF FreeNow, FreeBlocks
<1> QED
  BY <1>1, <1>2 DEF FreeNow, ErasesNow

(* The binding of the logical block whose entry is the map's. *)
LEMMA BindingOf ==
  ASSUME NEW lb \in LogBlock, RegistersTyped
  PROVE  /\ mapTable[lb].status = "ALLOCATED" => BoundNow[lb] = mapTable[lb].block /\ BoundNow[lb] \in Block
         /\ mapTable[lb].status = "NOT_ALLOCATED" => BoundNow[lb] = -1
         /\ mapTable[lb].status = "DEAD" => BoundNow[lb] = -2
         /\ mapTable[lb].status \in {"ALLOCATED", "NOT_ALLOCATED", "DEAD"}
<1>1. mapTable[lb] \in MapEntry
  BY DEF RegistersTyped
<1>2. mapTable[lb].block \in Block /\ mapTable[lb].status \in {"ALLOCATED", "NOT_ALLOCATED", "DEAD"}
  BY <1>1 DEF MapEntry
<1> QED
  BY <1>2 DEF BoundNow

(* A new entry of the map changes one binding. *)
LEMMA BindingChanges ==
  ASSUME NEW k \in LogBlock, NEW v, \A lb \in LogBlock : lb # k => mapTable'[lb] = mapTable[lb],
         \/ mapTable'[k].status = "ALLOCATED" /\ mapTable'[k].block = v
         \/ mapTable'[k].status = "NOT_ALLOCATED" /\ v = -1
  PROVE  BoundNow' = [BoundNow EXCEPT ![k] = v]
<1> DEFINE B(e) == CASE e.status = "ALLOCATED" -> e.block
                     [] e.status = "NOT_ALLOCATED" -> -1
                     [] e.status = "DEAD" -> -2
<1>1. BoundNow = [lb \in LogBlock |-> B(mapTable[lb])]
  BY DEF BoundNow
<1>2. BoundNow' = [lb \in LogBlock |-> B(mapTable'[lb])]
  BY DEF BoundNow
<1>3. B(mapTable'[k]) = v
  OBVIOUS
<1> HIDE DEF B
<1> QED
  BY <1>1, <1>2, <1>3

(* The request in procQ is the first to serve until its answer leaves, and *)
(* then those in reqs are left.                                            *)
LEMMA FirstToServe ==
  ASSUME FInv, phase # "P0", phase \notin Windows
  PROVE  ToServe # <<>> /\ Head(ToServe) = Cmd /\ Tail(ToServe) = reqs
<1>1. procQ \in Seq(FTLCmd) /\ Len(procQ) = 1 /\ reqs \in Seq(FTLCmd)
  BY DEF FInv, IInv, RegistersTyped, OneRequest
<1>2. ToServe = procQ \o reqs
  BY DEF ToServe, Answered, Windows, Freeing
<1>3. procQ[1] = Cmd /\ Cmd \in FTLCmd
  BY <1>1, Serving DEF FInv, IInv, Cmd
<1>4. PICK s : s = ToServe
  OBVIOUS
<1>5. s \in Seq(FTLCmd) /\ Len(s) = 1 + Len(reqs) /\ s[1] = Cmd
      /\ \A i \in 1..Len(reqs) : s[i + 1] = reqs[i]
  <2>1. s = procQ \o reqs
    BY <1>2, <1>4
  <2>2. s \in Seq(FTLCmd) /\ Len(s) = Len(procQ) + Len(reqs)
        /\ \A i \in 1..(Len(procQ) + Len(reqs)) :
             s[i] = IF i <= Len(procQ) THEN procQ[i] ELSE reqs[i - Len(procQ)]
    BY <1>1, <2>1, ConcatProperties
  <2> QED
    BY <1>1, <1>3, <2>2
<1>6. s # <<>> /\ Head(s) = Cmd
  BY <1>5
<1>7. Tail(s) = reqs
  BY <1>1, <1>5
<1> QED
  BY <1>4, <1>6, <1>7

(* Outside of that time those in reqs are all there are, *)
LEMMA OnlyReqs ==
  ASSUME FInv, phase \in Windows \cup {"P0"}
  PROVE  ToServe = reqs
<1>1. reqs \in Seq(FTLCmd) /\ (phase = "P0" => procQ = <<>>)
  BY DEF FInv, IInv, RegistersTyped, OneRequest
<1>2. ToServe = <<>> \o reqs
  BY <1>1 DEF ToServe, Answered, Windows, Freeing
<1> QED
  BY <1>1, <1>2

(* also after a step that leaves the requests alone. *)
LEMMA OnlyReqsNext ==
  ASSUME FInv, UNCHANGED reqs, phase' \in Windows \/ procQ' = <<>>
  PROVE  ToServe' = reqs
<1>1. reqs' \in Seq(FTLCmd)
  BY DEF FInv, IInv, RegistersTyped
<1>2. ToServe' = <<>> \o reqs'
  BY DEF ToServe, Answered, Windows, Freeing
<1> QED
  BY <1>1, <1>2
-----------------------------------------------------------------------------
(* readReqMapTable and the phases up to an answer are no step of the       *)
(* abstract layer.                                                         *)
LEMMA StutterSteps ==
  ASSUME FInv, \/ ReadReqMapTable \/ ReadMapTable \/ StartScan \/ ReadReqBlockTable \/ ReadBlockTable
               \/ HalveMinEntries \/ PickMinEntry
  PROVE  UNCHANGED Blocks!vars
<1>1. /\ UNCHANGED <<mapTable, blkTable, respsSuccess, respsFailure>>
      /\ phase \notin Windows /\ phase' \notin Windows
  <2>1. CASE ReadReqMapTable
    BY <2>1 DEF ReadReqMapTable, tables, Windows, Freeing
  <2>2. CASE ReadMapTable
    <3>1. Cmd.op \in Op
      BY <2>2, Serving DEF ReadMapTable, FInv, IInv, FTLCmd
    <3> QED
      BY <2>2, <3>1 DEF ReadMapTable, tables, Windows, Freeing, Op
  <2>3. CASE StartScan
    BY <2>3 DEF StartScan, tables, Windows, Freeing
  <2>4. CASE ReadReqBlockTable
    BY <2>4 DEF ReadReqBlockTable, tables, Windows, Freeing
  <2>5. CASE ReadBlockTable
    BY <2>5 DEF ReadBlockTable, tables, Windows, Freeing
  <2>6. CASE HalveMinEntries
    BY <2>6 DEF HalveMinEntries, ScanDone, tables, Windows, Freeing
  <2>7. CASE PickMinEntry
    BY <2>7 DEF PickMinEntry, ScanDone, tables, Windows, Freeing
  <2> QED
    BY <2>1, <2>2, <2>3, <2>4, <2>5, <2>6, <2>7
<1>2. UNCHANGED BlocksNow
  BY <1>1, BlocksKept
<1>3. UNCHANGED ToServe
  <2>1. CASE ReadReqMapTable
    <3>1. phase = "P0" /\ reqs # <<>> /\ reqs' = Tail(reqs) /\ procQ' = Append(procQ, Head(reqs)) /\ phase' = "P1"
      BY <2>1 DEF ReadReqMapTable
    <3>2. procQ = <<>> /\ reqs \in Seq(FTLCmd)
      BY <3>1 DEF FInv, IInv, RegistersTyped, OneRequest
    <3>3. ToServe = reqs
      BY <3>1, OnlyReqs
    <3>4. ToServe' = <<Head(reqs)>> \o Tail(reqs)
      BY <3>1, <3>2 DEF ToServe, Answered
    <3>5. <<Head(reqs)>> \o Tail(reqs) = reqs
      BY <3>1, <3>2
    <3> QED
      BY <3>3, <3>4, <3>5
  <2>2. CASE ~ReadReqMapTable
    <3>1. UNCHANGED <<procQ, reqs>>
      BY <2>2 DEF ReadMapTable, StartScan, ReadReqBlockTable, ReadBlockTable, HalveMinEntries, PickMinEntry
    <3> QED
      BY <1>1, <3>1 DEF ToServe, Answered, Windows, Freeing
  <2> QED
    BY <2>1, <2>2
<1> QED
  BY <1>1, <1>2, <1>3, IsStutter

(* procErase2 is none either: the same block is on its way to be free. *)
LEMMA ProcErase2Stutters ==
  ASSUME FInv, ProcErase2
  PROVE  UNCHANGED Blocks!vars
<1>1. /\ UNCHANGED <<mapTable, blkTable, respsSuccess, respsFailure, procQ, reqs, mapEntry>>
      /\ phase = "P1_erase2" /\ phase' = "P1_erase3"
  BY DEF ProcErase2, tables
<1>2. \A c, b : ~BeingTaken(c, b) /\ ~BeingTaken(c, b)' /\ (BeingFreed(c, b)' <=> BeingFreed(c, b))
  BY <1>1 DEF BeingTaken, BeingFreed, Cmd
<1>3. UNCHANGED BoundNow
  BY <1>1 DEF BoundNow
<1>4. UNCHANGED FreeNow
  <2>1. \A c : FreeBlocks(c)' = FreeBlocks(c)
    BY <1>1 DEF FreeBlocks
  <2> QED
    BY <1>2, <2>1 DEF FreeNow
<1>5. UNCHANGED ErasesNow
  BY <1>1, <1>2 DEF ErasesNow
<1>6. UNCHANGED ToServe
  BY <1>1 DEF ToServe, Answered
<1> QED
  BY <1>1, <1>3, <1>4, <1>5, <1>6, IsStutter DEF BlocksNow

(* A command on a mapped block is served from the map. *)
LEMMA UseMappedServes ==
  ASSUME FInv, UseMapped
  PROVE  Blocks!Next
<1> DEFINE b0 == mapEntry.block
<1>1. /\ phase \in {"P1_read", "P1_write"} /\ phase' = "P0" /\ procQ' = Tail(procQ)
      /\ mapEntry.status = "ALLOCATED"
      /\ respsSuccess' = Append(respsSuccess, Command(Cmd, b0))
      /\ UNCHANGED <<reqs, mapTable, blkTable, respsFailure>>
  BY DEF UseMapped, Succeed, tables
<1>2. phase \notin Windows /\ phase # "P0" /\ phase' \notin Windows
  BY <1>1 DEF Windows, Freeing
<1>3. /\ procQ' = <<>> /\ Target \in LogBlock /\ mapEntry = mapTable[Target]
      /\ Cmd.op \in {"READ_PAGE", "WRITE_PAGE"}
  BY <1>1, <1>2, Serving DEF FInv, IInv, EntryCurrent, PhaseOfOp
<1>4. ServesNext(Cmd, b0)
  BY <1>1, <1>2, <1>3, FirstToServe, OnlyReqsNext DEF ServesNext
<1>5. b0 \in Block /\ b0 = BoundNow[LogBlockOf(Cmd)]
  BY <1>1, <1>3, BindingOf DEF FInv, IInv, Target
<1>6. UNCHANGED BlocksNow
  BY <1>1, <1>2, BlocksKept
<1> QED
  BY <1>3, <1>4, <1>5, <1>6, IsUse

(* What is refused could not be served. *)
LEMMA RefusalServes ==
  ASSUME FInv, RefuseUnmapped \/ RefuseFull
  PROVE  Blocks!Next
<1>1. /\ phase \in {"P1_read", "P1_write", "P1_erase", "P7"} /\ phase' = "P0" /\ procQ' = <<>>
      /\ respsFailure' = Append(respsFailure, Cmd)
      /\ UNCHANGED <<reqs, mapTable, blkTable, respsSuccess>>
  BY DEF RefuseUnmapped, RefuseFull, Fail, tables
<1>2. phase \notin Windows /\ phase # "P0" /\ phase' \notin Windows
  BY <1>1 DEF Windows, Freeing
<1>3. Target \in LogBlock /\ Here \in Chip /\ Target = <<SegmentOf(Cmd.lpa), Here>>
  BY <1>2, Serving DEF FInv, IInv
<1>4. ToServe # <<>> /\ Head(ToServe) = Cmd /\ ToServe' = Tail(ToServe)
  BY <1>1, <1>2, FirstToServe, OnlyReqsNext
<1>5. UNCHANGED BlocksNow
  BY <1>1, <1>2, BlocksKept
<1>6. \/ BoundNow[Target] = -2
      \/ BoundNow[Target] = -1 /\ Cmd.op # "WRITE_PAGE"
      \/ BoundNow[Target] = -1 /\ FreeNow[Target[2]] = {}
  <2>1. CASE RefuseUnmapped
    <3>1. mapEntry = mapTable[Target] /\ mapEntry.status # "ALLOCATED"
          /\ (phase # "P1_write" => Cmd.op # "WRITE_PAGE")
          /\ (phase = "P1_write" => mapEntry.status = "DEAD")
      BY <1>1, <2>1 DEF RefuseUnmapped, FInv, IInv, EntryCurrent, PhaseOfOp
    <3> QED
      BY <1>3, <3>1, BindingOf DEF FInv, IInv
  <2>2. CASE RefuseFull
    <3>1. phase = "P7" /\ ~blkToAlloc.valid
      BY <2>2 DEF RefuseFull
    <3>2. FreeBlocks(Here) = {} /\ mapTable[Target].status = "NOT_ALLOCATED"
      BY <3>1 DEF FInv, IInv, MinimaBest, Best, EntryCurrent
    <3>3. FreeNow[Here] = {}
      BY <1>2, <1>3, <3>2, BlocksOutside
    <3> QED
      BY <1>3, <3>2, <3>3, BindingOf DEF FInv, IInv
  <2> QED
    BY <2>1, <2>2
<1> QED
  BY <1>1, <1>4, <1>5, <1>6, IsRefuse DEF Target

(* An erase is served when its command leaves: the two windows stand for   *)
(* what the tables have yet to say.                                        *)
LEMMA ProcEraseServes ==
  ASSUME FInv, ProcErase
  PROVE  Blocks!Next
<1> DEFINE b0 == mapEntry.block
<1>1. /\ phase = "P1_erase" /\ phase' = "P1_erase2" /\ mapEntry.status = "ALLOCATED"
      /\ respsSuccess' = Append(respsSuccess, Command(Cmd, b0))
      /\ mapTable' = [mapTable EXCEPT ![Target] = Unmapped]
      /\ UNCHANGED <<reqs, procQ, mapEntry, blkTable, respsFailure>>
  BY DEF ProcErase, Succeed
<1>2. phase \notin Windows /\ phase # "P0" /\ phase' \in Windows
  BY <1>1 DEF Windows, Freeing
<1>3. /\ Target \in LogBlock /\ Here \in Chip /\ Target = <<SegmentOf(Cmd.lpa), Here>>
      /\ mapEntry = mapTable[Target] /\ Cmd.op = "ERASE_BLOCK" /\ mapTable \in [LogBlock -> MapEntry]
  BY <1>1, <1>2, Serving DEF FInv, IInv, EntryCurrent, PhaseOfOp, RegistersTyped
<1>4. ServesNext(Cmd, b0)
  BY <1>1, <1>2, FirstToServe, OnlyReqsNext DEF ServesNext
<1>5. b0 \in Block /\ b0 = BoundNow[LogBlockOf(Cmd)]
  BY <1>1, <1>3, BindingOf DEF FInv, IInv, Target
<1>6. BoundNow' = [BoundNow EXCEPT ![Target] = -1]
  <2>1. \A lb \in LogBlock : mapTable'[lb] = IF lb = Target THEN Unmapped ELSE mapTable[lb]
    BY <1>1, <1>3
  <2>2. Unmapped.status = "NOT_ALLOCATED"
    BY DEF Unmapped
  <2> QED
    BY <1>3, <2>1, <2>2, BindingChanges
<1>7. \A c, b : ~BeingTaken(c, b)' /\ (BeingFreed(c, b)' <=> c = Here /\ b = b0)
  BY <1>1 DEF BeingTaken, BeingFreed, Cmd, Here
<1>8. FreeNow = [c \in Chip |-> FreeBlocks(c)]
      /\ ErasesNow = [c \in Chip |-> [b \in Block |-> blkTable[c][b].erase]]
  BY <1>2, BlocksOutside
<1>9. FreeNow' = [FreeNow EXCEPT ![Here] = @ \cup {b0}]
  <2>1. \A c : FreeBlocks(c)' = FreeBlocks(c)
    BY <1>1 DEF FreeBlocks
  <2>2. \A c : FreeBlocks(c) \subseteq Block
    BY DEF FreeBlocks
  <2>3. FreeNow' = [c \in Chip |-> {b \in Block : b \in FreeBlocks(c) \/ (c = Here /\ b = b0)}]
    BY <1>7, <2>1 DEF FreeNow
  <2>4. \A c \in Chip : {b \in Block : b \in FreeBlocks(c) \/ (c = Here /\ b = b0)} =
                          IF c = Here THEN FreeBlocks(c) \cup {b0} ELSE FreeBlocks(c)
    BY <1>5, <2>2
  <2> QED
    BY <1>3, <1>8, <2>3, <2>4
<1>10. ErasesNow' = [ErasesNow EXCEPT ![Here][b0] = (@ + 1) % EraseMod]
  <2>1. ErasesNow' = [c \in Chip |-> [b \in Block |-> IF c = Here /\ b = b0 THEN (blkTable[c][b].erase + 1) % EraseMod
                                                      ELSE blkTable[c][b].erase]]
    BY <1>1, <1>7 DEF ErasesNow
  <2> QED
    BY <1>3, <1>5, <1>8, <2>1
<1>11. LogBlockOf(Cmd) = Target /\ Target[2] = Here
  BY <1>3 DEF Target
<1> QED
  BY <1>3, <1>4, <1>5, <1>6, <1>9, <1>10, <1>11, IsUnbind

(* procErase3 closes the window: the block is free in the table now. *)
LEMMA ProcErase3Stutters ==
  ASSUME FInv, ProcErase3
  PROVE  UNCHANGED Blocks!vars
<1> DEFINE b0 == mapEntry.block
           freed == [status |-> "FREE_BLK", erase |-> (blkTable[Here][b0].erase + 1) % EraseMod]
<1>1. /\ phase = "P1_erase3" /\ phase' = "P0" /\ procQ' = Tail(procQ)
      /\ blkTable' = [blkTable EXCEPT ![Here][b0] =
                        [status |-> "FREE_BLK", erase |-> (Head(ramOut)[b0 % Cols].erase + 1) % EraseMod]]
      /\ UNCHANGED <<reqs, mapTable, respsSuccess, respsFailure>>
  BY DEF ProcErase3, Here
<1>2. Here \in Chip /\ b0 \in Block /\ procQ' = <<>> /\ blkTable \in [Chip -> [Block -> BlkEntry]]
  BY <1>1, Serving DEF FInv, IInv, RegistersTyped, MapEntry
<1>3. Head(ramOut)[b0 % Cols] = blkTable[Here][b0]
  <2>1. ramOut = <<BlkRow(Here, b0 \div Cols)>>
    BY <1>1 DEF FInv, IInv, RamCurrent
  <2>2. b0 % Cols \in Col /\ (b0 \div Cols) * Cols + (b0 % Cols) = b0
    BY <1>2, BlockInRow, Zenon
  <2> QED
    BY <2>1, <2>2 DEF BlkRow
<1>4. \A c \in Chip, b \in Block : blkTable'[c][b] = IF c = Here /\ b = b0 THEN freed ELSE blkTable[c][b]
  BY <1>1, <1>2, <1>3
<1>5. \A c, b : /\ ~BeingTaken(c, b) /\ ~BeingTaken(c, b)' /\ ~BeingFreed(c, b)'
                /\ BeingFreed(c, b) <=> c = Here /\ b = b0
  BY <1>1 DEF BeingTaken, BeingFreed, Here
<1>6. UNCHANGED BoundNow
  BY <1>1 DEF BoundNow
<1>7. UNCHANGED FreeNow
  <2>1. \A c \in Chip, b \in Block : b \in FreeBlocks(c)' <=> (b \in FreeBlocks(c) \/ (c = Here /\ b = b0))
    BY <1>4 DEF FreeBlocks
  <2>2. \A c \in Chip : FreeNow[c] = {b \in Block : b \in FreeBlocks(c) \/ (c = Here /\ b = b0)}
    BY <1>5 DEF FreeNow
  <2>3. \A c \in Chip : FreeNow'[c] = {b \in Block : b \in FreeBlocks(c)'}
    BY <1>5 DEF FreeNow
  <2> QED
    BY <2>1, <2>2, <2>3 DEF FreeNow
<1>8. UNCHANGED ErasesNow
  <2>1. \A c \in Chip, b \in Block : blkTable'[c][b].erase =
          IF BeingFreed(c, b) THEN (blkTable[c][b].erase + 1) % EraseMod ELSE blkTable[c][b].erase
    BY <1>4, <1>5
  <2> QED
    BY <1>5, <2>1 DEF ErasesNow
<1>9. UNCHANGED ToServe
  BY <1>1, <1>2, OnlyReqs, OnlyReqsNext DEF Windows, Freeing
<1> QED
  BY <1>1, <1>6, <1>7, <1>8, <1>9, IsStutter DEF BlocksNow

(* A write to an unbound block is served when its command leaves: the      *)
(* block found is the least erased of the free ones.                       *)
LEMMA UpdateMapTableServes ==
  ASSUME FInv, UpdateMapTable
  PROVE  Blocks!Next
<1> DEFINE b0 == blkToAlloc.block
<1>1. /\ phase = "P7" /\ phase' = "P8" /\ blkToAlloc.valid
      /\ respsSuccess' = Append(respsSuccess, Command(Cmd, b0))
      /\ mapTable' = [mapTable EXCEPT ![Target] = [status |-> "ALLOCATED", block |-> b0]]
      /\ UNCHANGED <<reqs, procQ, allocQ, blkToAlloc, blkTable, respsFailure>>
  BY DEF UpdateMapTable, Succeed, scan
<1>2. phase \notin Windows /\ phase # "P0" /\ phase' \in Windows
  BY <1>1 DEF Windows, Freeing
<1>3. /\ Target \in LogBlock /\ Here \in Chip /\ Target = <<SegmentOf(Cmd.lpa), Here>>
      /\ Cmd.op = "WRITE_PAGE" /\ mapTable \in [LogBlock -> MapEntry]
      /\ blkTable \in [Chip -> [Block -> BlkEntry]]
  BY <1>1, <1>2, Serving DEF FInv, IInv, PhaseOfOp, Scanning, RegistersTyped
<1>4. /\ mapTable[Target].status = "NOT_ALLOCATED" /\ allocQ = <<Here>>
      /\ Best(blkToAlloc, Here, FreeBlocks(Here))
  BY <1>1 DEF FInv, IInv, EntryCurrent, MinimaBest, OneRequest, Scanning
<1>5. b0 \in FreeBlocks(Here) /\ b0 \in Block
  BY <1>1, <1>4 DEF Best, FreeBlocks
<1>6. ServesNext(Cmd, b0)
  BY <1>1, <1>2, FirstToServe, OnlyReqsNext DEF ServesNext
<1>7. BoundNow[Target] = -1
  BY <1>3, <1>4, BindingOf DEF FInv, IInv
<1>8. FreeNow = [c \in Chip |-> FreeBlocks(c)]
      /\ ErasesNow = [c \in Chip |-> [b \in Block |-> blkTable[c][b].erase]]
  BY <1>2, BlocksOutside
<1>9. b0 \in FreeNow[Here] /\ \A o \in FreeNow[Here] : ErasesNow[Here][b0] <= ErasesNow[Here][o]
  <2>1. \A o \in FreeBlocks(Here) : NoWorse(Here, b0, o) /\ o \in Block
    BY <1>1, <1>4 DEF Best, FreeBlocks
  <2>2. \A o \in Block : blkTable[Here][o].erase \in Nat
    BY <1>3 DEF BlkEntry, Erase
  <2>3. \A o \in FreeBlocks(Here) : blkTable[Here][b0].erase <= blkTable[Here][o].erase
    BY <1>5, <2>1, <2>2 DEF NoWorse
  <2> QED
    BY <1>3, <1>5, <1>8, <2>1, <2>3
<1>10. BoundNow' = [BoundNow EXCEPT ![Target] = b0]
  <2>1. \A lb \in LogBlock : lb # Target => mapTable'[lb] = mapTable[lb]
    BY <1>1, <1>3
  <2>2. mapTable'[Target].status = "ALLOCATED" /\ mapTable'[Target].block = b0
    BY <1>1, <1>3
  <2> QED
    BY <1>3, <2>1, <2>2, BindingChanges
<1>11. \A c, b : ~BeingFreed(c, b)' /\ (BeingTaken(c, b)' <=> c = Here /\ b = b0)
  BY <1>1, <1>4 DEF BeingTaken, BeingFreed
<1>12. FreeNow' = [FreeNow EXCEPT ![Here] = @ \ {b0}]
  <2>1. \A c : FreeBlocks(c)' = FreeBlocks(c) /\ FreeBlocks(c) \subseteq Block
    BY <1>1 DEF FreeBlocks
  <2>2. FreeNow' = [c \in Chip |-> {b \in Block : b \in FreeBlocks(c) /\ ~(c = Here /\ b = b0)}]
    BY <1>11, <2>1 DEF FreeNow
  <2>3. \A c \in Chip : {b \in Block : b \in FreeBlocks(c) /\ ~(c = Here /\ b = b0)} =
                          IF c = Here THEN FreeBlocks(c) \ {b0} ELSE FreeBlocks(c)
    BY <2>1
  <2> QED
    BY <1>3, <1>8, <2>2, <2>3
<1>13. UNCHANGED ErasesNow
  BY <1>1, <1>8, <1>11 DEF ErasesNow
<1>14. LogBlockOf(Cmd) = Target /\ Target[2] = Here
  BY <1>3 DEF Target
<1> QED
  BY <1>3, <1>6, <1>7, <1>9, <1>10, <1>12, <1>13, <1>14, IsBind

(* updateBlockTable closes the window: the block is in use in the table.   *)
LEMMA UpdateBlockTableStutters ==
  ASSUME FInv, UpdateBlockTable
  PROVE  UNCHANGED Blocks!vars
<1> DEFINE b0 == blkToAlloc.block
<1>1. /\ phase = "P8" /\ phase' = "P0" /\ procQ' = Tail(procQ)
      /\ blkTable' = [blkTable EXCEPT ![Head(allocQ)][b0] = [status |-> "CLEAN_BLK", erase |-> blkToAlloc.erase]]
      /\ UNCHANGED <<reqs, mapTable, respsSuccess, respsFailure>>
  BY DEF UpdateBlockTable
<1>2. /\ Here \in Chip /\ b0 \in Block /\ procQ' = <<>> /\ blkTable \in [Chip -> [Block -> BlkEntry]]
      /\ allocQ = <<Here>> /\ blkToAlloc.erase = blkTable[Here][b0].erase
  BY <1>1, Serving DEF FInv, IInv, RegistersTyped, MinEntry, OneRequest, Scanning, TakenOnce
<1>3. \A c \in Chip, b \in Block :
        /\ blkTable'[c][b].erase = blkTable[c][b].erase
        /\ blkTable'[c][b].status = IF c = Here /\ b = b0 THEN "CLEAN_BLK" ELSE blkTable[c][b].status
  <2>1. Head(allocQ) = Here
    BY <1>2
  <2>2. \A c \in Chip, b \in Block : blkTable'[c][b] =
          IF c = Here /\ b = b0 THEN [status |-> "CLEAN_BLK", erase |-> blkToAlloc.erase] ELSE blkTable[c][b]
    BY <1>1, <1>2, <2>1
  <2> QED
    BY <1>2, <2>2
<1>4. \A c, b : /\ ~BeingFreed(c, b) /\ ~BeingFreed(c, b)' /\ ~BeingTaken(c, b)'
                /\ BeingTaken(c, b) <=> c = Here /\ b = b0
  BY <1>1, <1>2 DEF BeingTaken, BeingFreed
<1>5. UNCHANGED BoundNow
  BY <1>1 DEF BoundNow
<1>6. UNCHANGED FreeNow
  <2>1. \A c \in Chip, b \in Block : b \in FreeBlocks(c)' <=> (b \in FreeBlocks(c) /\ ~(c = Here /\ b = b0))
    BY <1>3 DEF FreeBlocks
  <2>2. \A c \in Chip : FreeNow[c] = {b \in Block : b \in FreeBlocks(c) /\ ~(c = Here /\ b = b0)}
    BY <1>4 DEF FreeNow
  <2>3. \A c \in Chip : FreeNow'[c] = {b \in Block : b \in FreeBlocks(c)'}
    BY <1>4 DEF FreeNow
  <2> QED
    BY <2>1, <2>2, <2>3 DEF FreeNow
<1>7. UNCHANGED ErasesNow
  BY <1>3, <1>4 DEF ErasesNow
<1>8. UNCHANGED ToServe
  BY <1>1, <1>2, OnlyReqs, OnlyReqsNext DEF Windows
<1> QED
  BY <1>1, <1>5, <1>6, <1>7, <1>8, IsStutter DEF BlocksNow

(* What the host and the flash do leaves the blocks and what is in procQ.  *)
LEMMA OutsideKeeps ==
  ASSUME UNCHANGED <<mapTable, blkTable, phase, procQ, allocQ, blkToAlloc, mapEntry>>
  PROVE  UNCHANGED BlocksNow /\ (UNCHANGED reqs => UNCHANGED ToServe)
<1>1. \A c, b : (BeingTaken(c, b)' <=> BeingTaken(c, b)) /\ (BeingFreed(c, b)' <=> BeingFreed(c, b))
  BY DEF BeingTaken, BeingFreed, Cmd
<1>2. UNCHANGED BoundNow
  BY DEF BoundNow
<1>3. UNCHANGED FreeNow
  <2>1. \A c : FreeBlocks(c)' = FreeBlocks(c)
    BY DEF FreeBlocks
  <2> QED
    BY <1>1, <2>1 DEF FreeNow
<1>4. UNCHANGED ErasesNow
  BY <1>1 DEF ErasesNow
<1>5. UNCHANGED reqs => UNCHANGED ToServe
  BY DEF ToServe, Answered
<1> QED
  BY <1>2, <1>3, <1>4, <1>5 DEF BlocksNow

(* A request handed over is submitted, and answers are taken. *)
LEMMA OutsideServes ==
  ASSUME FInv, Outside
  PROVE  Blocks!Next \/ UNCHANGED Blocks!vars
<1>1. ASSUME NEW t \in Tag, NEW op \in Op, NEW lpa \in Lpa, HostIssue(t, op, lpa) PROVE Blocks!Next
  <2> DEFINE cmd == [tag |-> t, op |-> op, lpa |-> lpa]
  <2>1. cmd \in FTLCmd
    BY DEF FTLCmd
  <2>2. reqs' = Append(reqs, cmd)
        /\ UNCHANGED <<mapTable, blkTable, phase, procQ, allocQ, blkToAlloc, mapEntry, respsSuccess, respsFailure>>
    BY <1>1 DEF HostIssue, tables, scan
  <2>3. PICK q : q = IF Answered THEN <<>> ELSE procQ
    OBVIOUS
  <2>4. q \in Seq(FTLCmd) /\ reqs \in Seq(FTLCmd)
    BY <2>3 DEF FInv, IInv, RegistersTyped
  <2>5. ToServe = q \o reqs /\ ToServe' = q \o Append(reqs, cmd)
    BY <2>2, <2>3 DEF ToServe, Answered
  <2> HIDE DEF cmd
  <2>6. q \o Append(reqs, cmd) = Append(q \o reqs, cmd)
    BY <2>1, <2>4
  <2> QED
    BY <2>1, <2>2, <2>5, <2>6, OutsideKeeps, IsSubmit
<1>2. ASSUME FlashTakes PROVE Blocks!Next
  BY <1>2, OutsideKeeps, IsTakeCommand DEF FlashTakes, tables, scan
<1>3. ASSUME NEW t \in Tag, HostDone(t) PROVE UNCHANGED Blocks!vars
  BY <1>3, OutsideKeeps, IsStutter DEF HostDone, tables, scan
<1>4. ASSUME HostRefused PROVE Blocks!Next
  BY <1>4, OutsideKeeps, IsTakeRefusal DEF HostRefused, tables, scan
<1> QED
  BY <1>1, <1>2, <1>3, <1>4 DEF Outside

(* Every step is one of the abstract layer, or none. *)
LEMMA BlocksStep == FInv /\ [Next]_vars => [Blocks!Next]_(Blocks!vars)
<1> SUFFICES ASSUME FInv, [Next]_vars PROVE Blocks!Next \/ UNCHANGED Blocks!vars
  OBVIOUS
<1>1. CASE Translate
  BY <1>1, StutterSteps, ProcErase2Stutters, UseMappedServes, RefusalServes, ProcEraseServes,
     ProcErase3Stutters, UpdateMapTableServes, UpdateBlockTableStutters DEF Translate
<1>2. CASE Outside
  BY <1>2, OutsideServes
<1>3. CASE UNCHANGED vars
  <2>1. UNCHANGED <<mapTable, blkTable, phase, procQ, allocQ, blkToAlloc, mapEntry, reqs, respsSuccess, respsFailure>>
    BY <1>3 DEF vars, tables, scan
  <2> QED
    BY <2>1, OutsideKeeps, IsStutter
<1> QED
  BY <1>1, <1>2, <1>3 DEF Next

(* The translation layer serves each request as in one step, in order, for *)
(* every size of the tables: the safety of ImplementsBlockMap.  A write to  *)
(* an unbound block binds it to a least erased free one, an erase frees its *)
(* block and counts, and a request is refused only if nothing can serve it. *)
THEOREM ServesLikeBlockMap == Spec => Blocks!Spec
<1>1. Init => Blocks!Init
  BY DEF Init, Blocks!Init, Answered
<1> QED
  BY <1>1, BlocksStep, FlashInv, PTL DEF Spec, Blocks!Spec
-----------------------------------------------------------------------------
(***************************************************************************)
(* The translation layer among map transfers: a host that waits for        *)
(* downloadDone saves the tables as they are, and what was proved of the    *)
(* tables and of the flash outlives a restart from the file.               *)
(***************************************************************************)
Booted == stage \notin {"start", "uploading"}
Asked(m) == mapReq = <<m>> /\ lockFIFO = <<>>
Granted(m) == mapReq = <<>> /\ lockFIFO = <<m>>
NoTransfer == mapReq = <<>> /\ lockFIFO = <<>>

(* A word of the RAM is a map row or a row of a block table. *)
WordType(k) == IF k < Segs THEN [Chip -> MapEntry] ELSE [Col -> BlkEntry]

TransferTyped ==
  /\ {ftlReadReq2Resp, ftlReadResp, mapBramReq, ftlWriteReq2Resp, dirty} \subseteq BOOLEAN
  /\ ftlReadBeatCnt \in Words /\ mapDownloadReqCnt \in Words
  /\ dmaWritten \in 0..(LastWord + 1)
  /\ dmaWrDataBuf \in Seq(RamData)
  /\ memory \in [Words -> RamData] /\ file \in [Words -> RamData]
  /\ \A k \in Words : memory[k] \in WordType(k) /\ file[k] \in WordType(k)
  /\ stage \in {"start", "uploading", "work", "downloading", "save"}

(* The translation serves nothing, and nothing is on its way. *)
Quiet ==
  /\ Idle
  /\ phase = "P0" /\ procQ = <<>> /\ allocQ = <<>>
  /\ reqs = <<>> /\ respsSuccess = <<>> /\ respsFailure = <<>> /\ inFlash = {}

(* Each stage of the host program knows of the one transfer there is, and  *)
(* a transfer is only asked for when all is quiet.                         *)
Handshake ==
  /\ stage \in {"start", "work", "save"} => NoTransfer
  /\ stage = "uploading" => Asked("UPLOAD") \/ Granted("UPLOAD")
  /\ stage = "downloading" => Asked("DOWNLOAD") \/ Granted("DOWNLOAD")
  /\ mapReq # <<>> => Quiet
  /\ ~Unlocked => phase = "P0"

(* How much of an upload is written, and of a download requested. *)
UploadedWords == IF ftlReadResp THEN LastWord + 1 ELSE ftlReadBeatCnt
RequestedWords == IF mapBramReq THEN mapDownloadReqCnt
                  ELSE IF ftlWriteReq2Resp THEN LastWord + 1 ELSE 0

UploadFollows ==
  /\ ~(ftlReadReq2Resp /\ ftlReadResp)
  /\ ~ftlReadReq2Resp => ftlReadBeatCnt = 0
  /\ stage # "uploading" \/ ~Granted("UPLOAD") => ~ftlReadReq2Resp /\ ~ftlReadResp
  /\ stage = "uploading" =>
       /\ memory = file
       /\ ramOut = <<>>
       /\ \A k \in Words : k < UploadedWords => RamWord(k) = file[k]

(* The words of a download are in the buffers and in the host's memory, in *)
(* order, and they are what the RAM holds.                                 *)
InBuffer(i) == dmaWrDataBuf[i] = Image[dmaWritten + i - 1]
InRam(i) == ramOut[i] = Image[dmaWritten + Len(dmaWrDataBuf) + i - 1]
DownloadFollows ==
  /\ mapBramReq => ftlWriteReq2Resp
  /\ ~mapBramReq => mapDownloadReqCnt = 0
  /\ ~Granted("DOWNLOAD") => ~ftlWriteReq2Resp
  /\ ~ftlWriteReq2Resp => dmaWrDataBuf = <<>> /\ (~Unlocked => ramOut = <<>>)
  /\ ftlWriteReq2Resp =>
       /\ dmaWritten + Len(dmaWrDataBuf) + Len(ramOut) = RequestedWords
       /\ \A i \in 1..Len(dmaWrDataBuf) : InBuffer(i)
       /\ \A i \in 1..Len(ramOut) : InRam(i)
       /\ \A k \in Words : k < dmaWritten => memory[k] = Image[k]

(* While the host counts its download as up to date, it only reads. *)
Clean ==
  ~dirty =>
    /\ stage = "save" => memory = Image
    /\ stage = "work" => file = Image
    /\ Booted => \A t \in Tag : host[t] # NoCmd => host[t].op = "READ_PAGE"

BoundIn(m, c, b) ==
  \E s \in Segment : m[<<s, c>>].status = "ALLOCATED" /\ m[<<s, c>>].block = b

(* Tables m and bt are injective, agree, and say what the flash holds. *)
Consistent(m, bt) ==
  /\ \A k, l \in LogBlock :
       (k # l /\ k[2] = l[2] /\ m[k].status = "ALLOCATED" /\ m[l].status = "ALLOCATED")
         => m[k].block # m[l].block
  /\ \A c \in Chip, b \in Block : /\ bt[c][b].status = "CLEAN_BLK" <=> BoundIn(m, c, b)
                                  /\ ~BoundIn(m, c, b) => content[c][b] = Erased
  /\ \A s \in Segment, c \in Chip :
       m[<<s, c>>].status = "ALLOCATED" => content[c][m[<<s, c>>].block] = s

(* The tables that the file describes. *)
FileMap == [lb \in LogBlock |-> file[lb[1]][lb[2]]]
FileBlk == [c \in Chip |-> [b \in Block |-> file[Segs + c * Rows + b \div Cols][b % Cols]]]

(* Between a power cycle and the end of the upload the tables are in the   *)
(* file, and nothing happens.                                              *)
Restarting ==
  /\ ~dirty
  /\ RegistersTyped /\ content \in Contents /\ width \in Widths
  /\ Quiet
  /\ Unlocked => ramOut = <<>>
  /\ Consistent(FileMap, FileBlk)

TInv ==
  /\ TransferTyped
  /\ Handshake
  /\ UploadFollows
  /\ DownloadFollows
  /\ Clean
  /\ IF Booted THEN FInv ELSE Restarting
-----------------------------------------------------------------------------
(* Quotient and remainder make up the number.                              *)
LEMMA DivideRows ==
  ASSUME NEW x \in Nat, NEW n \in Nat \ {0}
  PROVE  x = (x \div n) * n + (x % n)
OBVIOUS

(* Multiplication keeps the order, with a multiple to spare.               *)
LEMMA TimesMonotone ==
  ASSUME NEW a \in Nat, NEW b \in Nat, NEW n \in Nat, a < b
  PROVE  a * n + n <= b * n
OBVIOUS

(* Quotient and remainder are the only such pair.                          *)
LEMMA DivideUnique ==
  ASSUME NEW c \in Nat, NEW n \in Nat \ {0}, NEW r \in 0..(n - 1)
  PROVE  (c * n + r) \div n = c /\ (c * n + r) % n = r
OBVIOUS
(* The words of the RAM: the map rows, then Rows words for each chip. *)
LEMMA WordOfRow ==
  ASSUME NEW c \in Chip, NEW r \in 0..(Rows - 1), NEW k, k = Segs + c * Rows + r
  PROVE  k \in Words /\ ~(k < Segs) /\ ChipAt(k) = c /\ (k - Segs) % Rows = r
<1> DEFINE x == c * Rows + r
<1>1. c \in Nat /\ Rows \in Nat \ {0} /\ r \in Nat /\ Segs \in Nat \ {0} /\ Chips \in Nat \ {0} /\ c < Chips
  BY Sizes DEF Chip
<1>2. x \in Nat /\ x < Chips * Rows
  <2>1. c * Rows + Rows <= Chips * Rows
    BY <1>1, TimesMonotone
  <2>2. c * Rows \in Nat /\ Chips * Rows \in Nat
    BY <1>1
  <2> QED
    BY <1>1, <2>1, <2>2
<1>3. x \div Rows = c /\ x % Rows = r
  BY <1>1, DivideUnique
<1>4. c * Rows \in Nat /\ Chips * Rows \in Nat
  BY <1>1
<1>5. k = Segs + x /\ k - Segs = x
  BY <1>1, <1>4
<1> HIDE DEF x
<1>6. k \in Words /\ ~(k < Segs)
  BY <1>1, <1>2, <1>4, <1>5 DEF Words
<1> QED
  BY <1>3, <1>5, <1>6 DEF ChipAt

(* and each of those words belongs to one row of one chip.                 *)
LEMMA RowOfWord ==
  ASSUME NEW k \in Words, ~(k < Segs)
  PROVE  /\ ChipAt(k) \in Chip /\ (k - Segs) % Rows \in 0..(Rows - 1)
         /\ k = Segs + ChipAt(k) * Rows + ((k - Segs) % Rows)
<1> DEFINE x == k - Segs
           q == x \div Rows
           r == x % Rows
<1>1. Rows \in Nat \ {0} /\ Segs \in Nat \ {0} /\ Chips \in Nat \ {0} /\ Chips * Rows \in Nat
  BY Sizes
<1>2. x \in Nat /\ k = Segs + x /\ x < Chips * Rows
  BY <1>1 DEF Words
<1> HIDE DEF x
<1>3. q \in Nat /\ r \in 0..(Rows - 1) /\ x = q * Rows + r
  BY <1>1, <1>2, Remainder, DivideRows
<1> HIDE DEF q, r
<1>4. q < Chips
  <2> SUFFICES ASSUME ~(q < Chips) PROVE FALSE
    OBVIOUS
  <2>1. CASE q = Chips
    BY <1>1, <1>2, <1>3, <2>1
  <2>2. CASE q # Chips
    <3>1. Chips * Rows + Rows <= q * Rows
      BY <1>1, <1>3, <2>2, TimesMonotone
    <3>2. q * Rows \in Nat
      BY <1>1, <1>3
    <3> QED
      BY <1>1, <1>2, <1>3, <3>1, <3>2
  <2> QED
    BY <2>1, <2>2
<1>5. q * Rows \in Nat
  BY <1>1, <1>3
<1>6. q \in Chip /\ k = Segs + q * Rows + r
  BY <1>1, <1>2, <1>3, <1>4, <1>5 DEF Chip
<1> QED
  BY <1>3, <1>6 DEF x, q, r, ChipAt

(* The numbers of the words: the first Segs are those of the segments.     *)
LEMMA WordKinds ==
  /\ \A k \in Words : k < Segs <=> k \in Segment
  /\ Segment \subseteq Words /\ 0 \in Words /\ LastWord \in Words /\ LastWord \in Nat
  /\ Words = 0..LastWord
  /\ Words \subseteq Nat
<1>1. Rows \in Nat \ {0} /\ Segs \in Nat \ {0} /\ Chips \in Nat \ {0} /\ Chips * Rows \in Nat
  BY Sizes
<1> QED
  BY <1>1 DEF Words, Segment, LastWord

(* Every word of the RAM has its type. *)
LEMMA RamWordTyped ==
  ASSUME RegistersTyped, NEW k \in Words
  PROVE  RamWord(k) \in WordType(k) /\ RamWord(k) \in RamData
<1>1. CASE k < Segs
  BY <1>1, WordKinds, RowsTyped DEF RamWord, WordType, RamData
<1>2. CASE ~(k < Segs)
  BY <1>2, RowOfWord, RowsTyped DEF RamWord, WordType, RamData
<1> QED
  BY <1>1, <1>2

(* A file that is the image of the RAM describes its tables. *)
LEMMA FileOfImage ==
  ASSUME RegistersTyped, \A k \in Words : file[k] = RamWord(k)
  PROVE  FileMap = mapTable /\ FileBlk = blkTable
<1>1. ASSUME NEW lb \in LogBlock PROVE file[lb[1]][lb[2]] = mapTable[lb]
  <2>1. lb[1] \in Segment /\ lb[2] \in Chip /\ lb = <<lb[1], lb[2]>>
    BY DEF LogBlock
  <2>2. lb[1] \in Words /\ lb[1] < Segs
    BY <2>1, WordKinds
  <2>3. file[lb[1]] = MapRow(lb[1])
    BY <2>2 DEF RamWord
  <2> QED
    BY <2>1, <2>3 DEF MapRow
<1>2. ASSUME NEW c \in Chip, NEW b \in Block
      PROVE  file[Segs + c * Rows + b \div Cols][b % Cols] = blkTable[c][b]
  <2> DEFINE r == b \div Cols
             k == Segs + c * Rows + r
  <2>1. b % Cols \in Col /\ b \div Cols \in 0..(Rows - 1) /\ b = (b \div Cols) * Cols + (b % Cols)
    BY BlockInRow
  <2>2. r \in 0..(Rows - 1)
    BY <2>1
  <2> HIDE DEF r
  <2>3. k \in Words /\ ~(k < Segs) /\ ChipAt(k) = c /\ (k - Segs) % Rows = r
    BY <2>2, WordOfRow DEF k
  <2> HIDE DEF k
  <2>4. file[k] = BlkRow(c, r)
    BY <2>3 DEF RamWord
  <2>5. file[k][b % Cols] = blkTable[c][b]
    BY <2>1, <2>4 DEF r, BlkRow
  <2> QED
    BY <2>5 DEF k, r
<1>3. mapTable \in [LogBlock -> MapEntry] /\ blkTable \in [Chip -> [Block -> BlkEntry]]
  BY DEF RegistersTyped
<1>4. FileMap = mapTable
  BY <1>1, <1>3 DEF FileMap
<1>5. FileBlk = blkTable
  BY <1>2, <1>3 DEF FileBlk
<1> QED
  BY <1>4, <1>5
(* An upload writes the words one by one. *)
LEMMA WordWritten ==
  ASSUME RegistersTyped, NEW k \in Words, NEW w \in WordType(k), WriteWord(k, w)
  PROVE  /\ mapTable' \in [LogBlock -> MapEntry] /\ blkTable' \in [Chip -> [Block -> BlkEntry]]
         /\ RamWord(k)' = w
         /\ \A j \in Words : j # k => RamWord(j)' = RamWord(j)
<1>1. /\ mapTable \in [LogBlock -> MapEntry] /\ blkTable \in [Chip -> [Block -> BlkEntry]]
      /\ mapTable' = [lb \in LogBlock |-> IF k = lb[1] THEN w[lb[2]] ELSE mapTable[lb]]
      /\ blkTable' = [c \in Chip |-> [b \in Block |->
                        IF k >= Segs /\ c = ChipAt(k) /\ b \div Cols = (k - Segs) % Rows
                        THEN w[b % Cols] ELSE blkTable[c][b]]]
  BY DEF RegistersTyped, WriteWord
<1>2. k >= Segs <=> ~(k < Segs)
  BY WordKinds, Sizes
<1>3. mapTable' \in [LogBlock -> MapEntry]
  <2>1. ASSUME NEW lb \in LogBlock, k = lb[1] PROVE w[lb[2]] \in MapEntry
    <3>1. lb[1] \in Segment /\ lb[2] \in Chip
      BY DEF LogBlock
    <3> QED
      BY <2>1, <3>1, WordKinds DEF WordType
  <2> QED
    BY <1>1, <2>1
<1>4. blkTable' \in [Chip -> [Block -> BlkEntry]]
  <2>1. ASSUME NEW b \in Block, k >= Segs PROVE w[b % Cols] \in BlkEntry
    BY <1>2, <2>1, BlockInRow DEF WordType
  <2> QED
    BY <1>1, <2>1
<1>5. ASSUME NEW s \in Segment
      PROVE  MapRow(s)' = IF k = s THEN w ELSE MapRow(s)
  <2>1. \A c \in Chip : mapTable'[<<s, c>>] = IF k = s THEN w[c] ELSE mapTable[<<s, c>>]
    BY <1>1 DEF LogBlock
  <2>2. CASE k = s
    <3>1. w \in [Chip -> MapEntry]
      BY <2>2, WordKinds DEF WordType
    <3> QED
      BY <2>1, <2>2, <3>1 DEF MapRow
  <2>3. CASE k # s
    BY <2>1, <2>3 DEF MapRow
  <2> QED
    BY <2>2, <2>3
<1>6. ASSUME NEW c \in Chip, NEW r \in 0..(Rows - 1)
      PROVE  BlkRow(c, r)' = IF k >= Segs /\ c = ChipAt(k) /\ r = (k - Segs) % Rows THEN w ELSE BlkRow(c, r)
  <2>1. \A i \in Col : /\ r * Cols + i \in Block
                       /\ (r * Cols + i) % Cols = i /\ (r * Cols + i) \div Cols = r
    BY RowOfBlock
  <2>2. \A i \in Col : blkTable'[c][r * Cols + i] =
           IF k >= Segs /\ c = ChipAt(k) /\ r = (k - Segs) % Rows THEN w[i] ELSE blkTable[c][r * Cols + i]
    BY <1>1, <2>1
  <2>3. CASE k >= Segs /\ c = ChipAt(k) /\ r = (k - Segs) % Rows
    <3>1. w \in [Col -> BlkEntry]
      BY <1>2, <2>3 DEF WordType
    <3> QED
      BY <2>2, <2>3, <3>1 DEF BlkRow
  <2>4. CASE ~(k >= Segs /\ c = ChipAt(k) /\ r = (k - Segs) % Rows)
    BY <2>2, <2>4 DEF BlkRow
  <2> QED
    BY <2>3, <2>4
<1>7. RamWord(k)' = w
  <2>1. CASE k < Segs
    BY <1>5, <2>1, WordKinds DEF RamWord
  <2>2. CASE ~(k < Segs)
    BY <1>2, <1>6, <2>2, RowOfWord DEF RamWord
  <2> QED
    BY <2>1, <2>2
<1>8. ASSUME NEW j \in Words, j # k PROVE RamWord(j)' = RamWord(j)
  <2>1. CASE j < Segs
    BY <1>5, <1>8, <2>1, WordKinds DEF RamWord
  <2>2. CASE ~(j < Segs)
    <3> DEFINE c == ChipAt(j)
               r == (j - Segs) % Rows
    <3>1. c \in Chip /\ r \in 0..(Rows - 1) /\ j = Segs + c * Rows + r
      BY <2>2, RowOfWord
    <3>2. RamWord(j) = BlkRow(c, r) /\ RamWord(j)' = BlkRow(c, r)'
      BY <2>2 DEF RamWord
    <3> HIDE DEF c, r
    <3>3. ~(k >= Segs /\ c = ChipAt(k) /\ r = (k - Segs) % Rows)
      <4> SUFFICES ASSUME k >= Segs, c = ChipAt(k), r = (k - Segs) % Rows PROVE FALSE
        OBVIOUS
      <4>1. k = Segs + ChipAt(k) * Rows + ((k - Segs) % Rows)
        BY <1>2, RowOfWord
      <4>2. k = Segs + c * Rows + r
        BY <4>1
      <4> QED
        BY <1>8, <3>1, <4>2
    <3>4. BlkRow(c, r)' = BlkRow(c, r)
      BY <1>6, <3>1, <3>3
    <3> QED
      BY <3>2, <3>4
  <2> QED
    BY <2>1, <2>2
<1> QED
  BY <1>3, <1>4, <1>7, <1>8

(* An idle host means that all is quiet, *)
LEMMA IdleIsQuiet ==
  ASSUME FInv, Idle
  PROVE  Quiet
<1>1. \A t \in Tag : /\ t \notin Tags(respsSuccess) \cup Tags(respsFailure) \cup inFlash \cup Tags(reqs)
                     /\ phase # "P0" => Cmd.tag # t
  BY PlacesTyped DEF Idle
<1>2. phase = "P0"
  BY <1>1, PlacesTyped
<1>3. /\ reqs \in Seq(FTLCmd) /\ respsSuccess \in Seq(FlashCmd) /\ respsFailure \in Seq(FTLCmd)
      /\ inFlash \subseteq Tag
  BY DEF FInv, IInv, RegistersTyped
<1>4. inFlash = {}
  BY <1>1, <1>3
<1>5. \A r \in FTLCmd \cup FlashCmd : r.tag \in Tag
  BY DEF FTLCmd, FlashCmd
<1>6. reqs = <<>>
  BY <1>1, <1>3, <1>5, EntriesTail
<1>7. respsSuccess = <<>>
  BY <1>1, <1>3, <1>5, EntriesTail
<1>8. respsFailure = <<>>
  BY <1>1, <1>3, <1>5, EntriesTail
<1> QED
  BY <1>2, <1>4, <1>6, <1>7, <1>8 DEF Quiet, FInv, IInv, OneRequest, Scanning

(* and then what holds of the translation is what holds of its tables. *)
LEMMA QuietConsistent ==
  ASSUME FInv, Quiet
  PROVE  Consistent(mapTable, blkTable) /\ content \in Contents
<1>1. phase = "P0" /\ respsSuccess = <<>> /\ Len(respsSuccess) = 0
  BY DEF Quiet
<1>2. Settled(content) /\ content \in Contents
  <2>1. PICK f : Shows(f) /\ Settled(f[Len(respsSuccess)])
    BY DEF FInv, FlashFollows
  <2>2. f[0] = content /\ f \in [0..0 -> Contents]
    BY <1>1, <2>1 DEF Shows
  <2> QED
    BY <1>1, <2>1, <2>2
<1>3. Agree
  BY <1>1, AgreeNow DEF FInv, IInv, Windows, Freeing
<1>4. MapInjective
  BY DEF FInv, IInv
<1>5. \A c \in Chip, b \in Block : BoundIn(mapTable, c, b) <=> MappedTo(c, b)
  BY DEF BoundIn, MappedTo, Mapped
<1>6. \A c \in Chip, b \in Block :
        /\ blkTable[c][b].status = "CLEAN_BLK" <=> BoundIn(mapTable, c, b)
        /\ ~BoundIn(mapTable, c, b) => content[c][b] = Erased
  BY <1>2, <1>3, <1>5 DEF Agree, Settled
<1>7. \A s \in Segment, c \in Chip :
        mapTable[<<s, c>>].status = "ALLOCATED" => content[c][mapTable[<<s, c>>].block] = s
  BY <1>2 DEF Settled, Mapped
<1>8. \A k, l \in LogBlock :
        (k # l /\ k[2] = l[2] /\ mapTable[k].status = "ALLOCATED" /\ mapTable[l].status = "ALLOCATED")
          => mapTable[k].block # mapTable[l].block
  BY <1>4 DEF MapInjective, Mapped
<1>9. Consistent(mapTable, blkTable)
  BY <1>6, <1>7, <1>8 DEF Consistent
<1> QED
  BY <1>2, <1>9

(* and the other way round.                                                *)
LEMMA ConsistentQuiet ==
  ASSUME RegistersTyped, content \in Contents, width \in Widths, Quiet, Unlocked => ramOut = <<>>,
         Consistent(mapTable, blkTable)
  PROVE  FInv
<1>1. /\ phase = "P0" /\ procQ = <<>> /\ allocQ = <<>> /\ reqs = <<>> /\ respsSuccess = <<>>
      /\ respsFailure = <<>> /\ inFlash = {}
  BY DEF Quiet
<1>2. MapInjective
  BY DEF Consistent, MapInjective, Mapped
<1>3. ASSUME NEW c \in Chip, NEW b \in Block
      PROVE  /\ blkTable[c][b].status = "CLEAN_BLK" <=> MappedTo(c, b)
             /\ ~MappedTo(c, b) => content[c][b] = Erased
  <2>1. BoundIn(mapTable, c, b) <=> MappedTo(c, b)
    BY DEF BoundIn, MappedTo, Mapped
  <2> QED
    BY <2>1 DEF Consistent
<1>4. ASSUME NEW s \in Segment, NEW c \in Chip, Mapped(<<s, c>>)
      PROVE  content[c][mapTable[<<s, c>>].block] = s
  BY <1>4 DEF Consistent, Mapped
<1>5. TablesAgree
  <2>1. Agree
    BY <1>3, Zenon DEF Agree
  <2> QED
    BY <1>1, <2>1, AgreeNow DEF Windows, Freeing
<1>6. OneRequest /\ RamCurrent /\ EntryCurrent /\ MinimaBest /\ TakenOnce
  BY <1>1 DEF OneRequest, RamCurrent, EntryCurrent, MinimaBest, TakenOnce, Scanning, Freeing
<1>7. OnePlace /\ HostKnows /\ PhaseOfOp
  BY <1>1, NoEntries DEF OnePlace, HostKnows, PhaseOfOp, ServedTag, Serves, Scanning, Freeing
<1>8. FlashFollows
  <2> DEFINE f == [i \in 0..0 |-> content]
  <2>1. Len(respsSuccess) = 0 /\ 1..0 = {}
    BY <1>1
  <2>2. Shows(f)
    BY <2>1 DEF Shows
  <2>3. f[0] = content
    OBVIOUS
  <2>4. Settled(content)
    BY <1>3, <1>4, Zenon DEF Settled
  <2> QED
    BY <2>1, <2>2, <2>3, <2>4 DEF FlashFollows
<1> QED
  BY <1>2, <1>5, <1>6, <1>7, <1>8 DEF FInv, IInv
-----------------------------------------------------------------------------
(* The image changes only with the tables.                                 *)
LEMMA ImageKept ==
  ASSUME UNCHANGED tables
  PROVE  Image' = Image /\ \A k : RamWord(k)' = RamWord(k)
BY DEF tables, Image, RamWord, MapRow, BlkRow

(* In every stage the registers have their types, and there is one transfer. *)
LEMMA AlwaysTyped ==
  ASSUME TInv
  PROVE  RegistersTyped /\ lockFIFO \in {<<>>, <<"UPLOAD">>, <<"DOWNLOAD">>}
         /\ mapReq \in {<<>>, <<"UPLOAD">>, <<"DOWNLOAD">>}
<1>1. RegistersTyped
  BY DEF TInv, FInv, IInv, Restarting
<1>2. stage \in {"start", "uploading", "work", "downloading", "save"} /\ Handshake
  BY DEF TInv, TransferTyped
<1> QED
  BY <1>1, <1>2 DEF Handshake, Asked, Granted, NoTransfer

(* While it is locked or unused, only what is in the RAM's port changes.   *)
LEMMA LockedKeeps ==
  ASSUME FInv, UNCHANGED <<ftl, tables, outside>>, ramOut' \in Seq(RamData),
         phase = "P0", Unlocked' => ramOut' = <<>>
  PROVE  FInv'
<1>1. UNCHANGED <<reqs, procQ, allocQ, phase, mapEntry, scan, respsSuccess, respsFailure, mapTable,
                  blkTable, host, inFlash, content>>
  BY DEF ftl, tables, outside
<1>2. RegistersTyped'
  BY <1>1 DEF FInv, IInv, RegistersTyped, scan
<1>3. Cmd' = Cmd /\ Here' = Here /\ Target' = Target /\ ServedTag' = ServedTag
  BY <1>1 DEF Cmd, Here, Target, ServedTag
<1>4. OneRequest' /\ RamCurrent' /\ EntryCurrent' /\ TakenOnce'
  BY <1>1, <1>3 DEF FInv, IInv, OneRequest, RamCurrent, EntryCurrent, TakenOnce, Scanning, Freeing
<1>5. MinimaBest'
  BY <1>1 DEF FInv, IInv, MinimaBest, scan
<1>6. MapInjective'
  BY <1>1 DEF FInv, IInv, MapInjective, Mapped
<1>7. TablesAgree'
  <2>1. \A c, b : MappedTo(c, b)' <=> MappedTo(c, b)
    BY <1>1 DEF MappedTo, Mapped
  <2> QED
    BY <1>1, <2>1 DEF FInv, IInv, TablesAgree, BeingTaken, BeingFreed
<1>8. OnePlace'
  <2>1. /\ Distinct(reqs)' = Distinct(reqs) /\ Tags(reqs)' = Tags(reqs)
        /\ Distinct(respsSuccess)' = Distinct(respsSuccess) /\ Tags(respsSuccess)' = Tags(respsSuccess)
        /\ Distinct(respsFailure)' = Distinct(respsFailure) /\ Tags(respsFailure)' = Tags(respsFailure)
    BY <1>1 DEF Tags, Entries, Distinct
  <2> QED
    BY <1>1, <1>3, <2>1 DEF FInv, OnePlace
<1>9. HostKnows' /\ PhaseOfOp'
  BY <1>1, <1>3 DEF FInv, HostKnows, PhaseOfOp, Tags, Entries
<1>10. FlashFollows'
  BY <1>1, FollowsKept
<1> QED
  BY <1>2, <1>4, <1>5, <1>6, <1>7, <1>8, <1>9, <1>10 DEF FInv, IInv

(* The file keeps the tables while they are not in the RAM. *)
LEMMA RestartingKept ==
  ASSUME Restarting, RegistersTyped', Unlocked' => ramOut' = <<>>,
         UNCHANGED <<reqs, procQ, allocQ, phase, width, respsSuccess, respsFailure, host, inFlash, content,
                     file, dirty>>
  PROVE  Restarting'
<1>1. Quiet'
  BY DEF Restarting, Quiet, Idle
<1>2. Consistent(FileMap, FileBlk)'
  <2>1. FileMap' = FileMap /\ FileBlk' = FileBlk /\ content' = content
    BY DEF FileMap, FileBlk
  <2>2. Consistent(FileMap, FileBlk)
    BY DEF Restarting
  <2>3. \A c \in Chip, b \in Block : BoundIn(FileMap, c, b)' <=> BoundIn(FileMap, c, b)
    BY <2>1 DEF BoundIn
  <2> QED
    BY <2>1, <2>2, <2>3 DEF Consistent
<1> QED
  BY <1>1, <1>2 DEF Restarting

(* What a step of a transfer within a stage leaves alone. *)
LEMMA TransferFrame ==
  ASSUME TInv, UNCHANGED <<ftl, tables, outside, program>>, ramOut' \in Seq(RamData),
         phase = "P0", Unlocked' => ramOut' = <<>>, memory' = memory \/ stage # "save"
  PROVE  Clean' /\ IF Booted' THEN FInv' ELSE Restarting'
<1>1. UNCHANGED <<reqs, procQ, allocQ, phase, mapEntry, scan, respsSuccess, respsFailure, mapTable,
                  blkTable, host, inFlash, content, file, stage, dirty>>
  BY DEF ftl, tables, outside, program
<1>2. Clean'
  BY <1>1, ImageKept DEF TInv, Clean, Booted
<1>3. ASSUME Booted PROVE FInv'
  BY <1>3, LockedKeeps DEF TInv
<1>4. ASSUME ~Booted PROVE Restarting'
  <2>1. RegistersTyped'
    BY <1>1, AlwaysTyped DEF RegistersTyped, scan
  <2> QED
    BY <1>1, <1>4, <2>1, RestartingKept DEF TInv, scan
<1> QED
  BY <1>1, <1>2, <1>3, <1>4 DEF Booted

(* issueMapReq keeps the invariant: it locks a RAM that nobody reads.      *)
LEMMA IssueMapReqStep ==
  ASSUME TInv, IssueMapReq
  PROVE  TInv'
<1>1. /\ mapReq # <<>> /\ lockFIFO = <<>> /\ lockFIFO' = <<Head(mapReq)>> /\ mapReq' = Tail(mapReq)
      /\ ramOut' = <<>> /\ UNCHANGED <<ftl, tables, outside, upload, download, memory, program>>
  BY DEF IssueMapReq, Unlocked
<1>2. Quiet /\ phase = "P0"
  BY <1>1 DEF TInv, Handshake, Quiet
<1>3. mapReq' = <<>> /\ lockFIFO' = mapReq
  BY <1>1, AlwaysTyped
<1>4. Clean' /\ IF Booted' THEN FInv' ELSE Restarting'
  BY <1>1, <1>2, TransferFrame
<1>5. UNCHANGED <<memory, file, stage, dirty, phase, ftlReadReq2Resp, ftlReadResp, ftlReadBeatCnt,
                  mapBramReq, ftlWriteReq2Resp, mapDownloadReqCnt, dmaWrDataBuf, dmaWritten>>
  BY <1>1 DEF upload, download, program, ftl
<1>6. TransferTyped'
  BY <1>5 DEF TInv, TransferTyped
<1>7. Handshake'
  BY <1>1, <1>2, <1>3, <1>5 DEF TInv, Handshake, Asked, Granted, NoTransfer
<1>8. UploadFollows'
  <2>1. ~Granted("UPLOAD") /\ ~ftlReadReq2Resp /\ ~ftlReadResp /\ ftlReadBeatCnt = 0
    BY <1>1 DEF TInv, UploadFollows, Granted
  <2>2. UploadedWords' = 0 /\ \A k \in Words : ~(k < 0)
    BY <1>5, <2>1, WordKinds DEF UploadedWords
  <2> QED
    BY <1>1, <1>5, <2>1, <2>2 DEF TInv, UploadFollows
<1>9. DownloadFollows'
  BY <1>1, <1>5 DEF TInv, DownloadFollows, Granted
<1> QED
  BY <1>4, <1>6, <1>7, <1>8, <1>9 DEF TInv
(* During an upload the host is starting.                                  *)
LEMMA UploadMode ==
  ASSUME TInv, Mode("UPLOAD")
  PROVE  /\ stage = "uploading" /\ mapReq = <<>> /\ lockFIFO = <<"UPLOAD">> /\ phase = "P0"
         /\ ~Booted /\ Restarting /\ ramOut = <<>> /\ ~ftlWriteReq2Resp
<1>1. lockFIFO = <<"UPLOAD">>
  BY AlwaysTyped DEF Mode
<1>2. stage = "uploading" /\ mapReq = <<>> /\ phase = "P0"
  BY <1>1 DEF TInv, TransferTyped, Handshake, NoTransfer, Asked, Granted, Unlocked
<1> QED
  BY <1>1, <1>2 DEF TInv, Booted, UploadFollows, DownloadFollows, Granted

(* During a download the host waits for it, and the translation is idle.   *)
LEMMA DownloadMode ==
  ASSUME TInv, Mode("DOWNLOAD")
  PROVE  /\ stage = "downloading" /\ mapReq = <<>> /\ lockFIFO = <<"DOWNLOAD">> /\ phase = "P0"
         /\ Booted /\ FInv /\ ~ftlReadReq2Resp /\ ~ftlReadResp
<1>1. lockFIFO = <<"DOWNLOAD">>
  BY AlwaysTyped DEF Mode
<1>2. stage = "downloading" /\ mapReq = <<>> /\ phase = "P0"
  BY <1>1 DEF TInv, TransferTyped, Handshake, NoTransfer, Asked, Granted, Unlocked
<1> QED
  BY <1>1, <1>2 DEF TInv, Booted, UploadFollows

(* initFTLRead keeps the invariant.                                        *)
LEMMA InitUploadStep ==
  ASSUME TInv, InitUpload
  PROVE  TInv'
<1>1. /\ Mode("UPLOAD") /\ ~ftlReadReq2Resp /\ ~ftlReadResp /\ ftlReadReq2Resp' = TRUE
      /\ UNCHANGED <<reqs, procQ, allocQ, phase, mapEntry, scan, respsSuccess, respsFailure,
                     tables, ramOut, lockFIFO, outside, mapReq, ftlReadResp, ftlReadBeatCnt, download,
                     memory, file, stage, dirty>>
  BY DEF InitUpload, vars, program
<1>2. /\ UNCHANGED <<ftl, tables, outside, program, memory>>
      /\ UNCHANGED <<mapBramReq, ftlWriteReq2Resp, mapDownloadReqCnt, dmaWrDataBuf, dmaWritten>>
  BY <1>1 DEF ftl, download, program
<1>3. Clean' /\ IF Booted' THEN FInv' ELSE Restarting'
  BY <1>1, <1>2, UploadMode, TransferFrame DEF Restarting, RegistersTyped
<1>4. TransferTyped'
  BY <1>1, <1>2 DEF TInv, TransferTyped
<1>5. Handshake'
  BY <1>1, UploadMode DEF Handshake, Asked, Granted, NoTransfer
<1>6. UploadFollows'
  <2>1. UploadedWords' = UploadedWords /\ \A k \in Words : RamWord(k)' = RamWord(k)
    BY <1>1, ImageKept DEF UploadedWords
  <2> QED
    BY <1>1, <2>1, UploadMode DEF TInv, UploadFollows, Granted
<1>7. DownloadFollows'
  BY <1>1, <1>2, UploadMode DEF TInv, DownloadFollows, Granted, Unlocked
<1> QED
  BY <1>3, <1>4, <1>5, <1>6, <1>7 DEF TInv

(* pipeFTLRdData keeps the invariant: one more word is the file's.         *)
LEMMA PipeUploadStep ==
  ASSUME TInv, PipeUpload
  PROVE  TInv'
<1>0. PICK k \in Words : k = ftlReadBeatCnt
  BY DEF TInv, TransferTyped
<1>1. /\ Mode("UPLOAD") /\ ftlReadReq2Resp /\ ~ftlReadResp /\ WriteWord(k, memory[k])
      /\ IF k = LastWord
         THEN ftlReadBeatCnt' = 0 /\ ftlReadReq2Resp' = FALSE /\ ftlReadResp' = TRUE
         ELSE ftlReadBeatCnt' = k + 1 /\ ftlReadReq2Resp' = ftlReadReq2Resp /\ ftlReadResp' = ftlReadResp
      /\ UNCHANGED <<ftl, ramOut, lockFIFO, outside, mapReq, memory, program, mapBramReq, ftlWriteReq2Resp,
                     mapDownloadReqCnt, dmaWrDataBuf, dmaWritten>>
  BY <1>0 DEF PipeUpload, download
<1>2. UNCHANGED <<reqs, procQ, allocQ, phase, mapEntry, scan, respsSuccess, respsFailure,
                  host, inFlash, content, file, stage, dirty>>
  BY <1>1 DEF ftl, outside, program
<1>3. /\ stage = "uploading" /\ mapReq = <<>> /\ lockFIFO = <<"UPLOAD">> /\ phase = "P0"
      /\ ~Booted /\ Restarting /\ ramOut = <<>> /\ ~ftlWriteReq2Resp
  BY <1>1, UploadMode
<1>4. k \in Words /\ memory[k] \in WordType(k) /\ memory = file
  BY <1>3 DEF TInv, TransferTyped, UploadFollows
<1>5. /\ mapTable' \in [LogBlock -> MapEntry] /\ blkTable' \in [Chip -> [Block -> BlkEntry]]
      /\ RamWord(k)' = memory[k]
      /\ \A j \in Words : j # k => RamWord(j)' = RamWord(j)
  <2>1. PICK w \in WordType(k) : w = memory[k] /\ WriteWord(k, w) /\ RegistersTyped
    BY <1>1, <1>4, AlwaysTyped
  <2>2. /\ mapTable' \in [LogBlock -> MapEntry] /\ blkTable' \in [Chip -> [Block -> BlkEntry]]
        /\ RamWord(k)' = w
        /\ \A j \in Words : j # k => RamWord(j)' = RamWord(j)
    BY <1>4, <2>1, WordWritten
  <2> QED
    BY <2>1, <2>2
<1>6. TransferTyped'
  <2>1. ftlReadBeatCnt' \in Words
    <3>1. k # LastWord => k + 1 \in Words
      BY <1>4, WordKinds
    <3> QED
      BY <1>1, <3>1, WordKinds
  <2> QED
    BY <1>1, <1>2, <2>1 DEF TInv, TransferTyped
<1>7. Handshake'
  BY <1>1, <1>2, <1>3 DEF Handshake, Asked, Granted, NoTransfer
<1>8. UploadFollows'
  <2>1. UploadedWords = k /\ UploadedWords' = k + 1
    BY <1>0, <1>1 DEF UploadedWords
  <2>2. \A j \in Words : j < k + 1 => j = k \/ j < k
    BY <1>4, WordKinds
  <2>3. \A j \in Words : j < k => RamWord(j) = file[j]
    BY <1>3, <2>1 DEF TInv, UploadFollows
  <2>4. \A j \in Words : j < k + 1 => RamWord(j)' = file[j]
    <3> TAKE j \in Words
    <3> HAVE j < k + 1
    <3>1. CASE j = k
      BY <1>4, <1>5, <3>1
    <3>2. CASE j # k
      BY <1>5, <2>2, <2>3, <3>2
    <3> QED
      BY <3>1, <3>2
  <2>5. ~(ftlReadReq2Resp' /\ ftlReadResp') /\ (~ftlReadReq2Resp' => ftlReadBeatCnt' = 0)
    BY <1>1
  <2> QED
    BY <1>1, <1>2, <1>3, <1>4, <2>1, <2>4, <2>5 DEF UploadFollows, Granted
<1>9. DownloadFollows'
  BY <1>1, <1>2, <1>3 DEF TInv, DownloadFollows, Granted, Unlocked
<1>10. Clean'
  BY <1>2, <1>3 DEF Clean, Booted
<1>11. Restarting'
  <2>1. RegistersTyped'
    BY <1>1, <1>2, <1>5, AlwaysTyped DEF RegistersTyped, scan
  <2> QED
    BY <1>1, <1>2, <1>3, <2>1, RestartingKept DEF scan
<1> QED
  BY <1>2, <1>3, <1>6, <1>7, <1>8, <1>9, <1>10, <1>11 DEF TInv, Booted

(* uploadDone keeps the invariant: the tables are those of the file.       *)
LEMMA UploadDoneStep ==
  ASSUME TInv, UploadDone
  PROVE  TInv'
<1>1. /\ Mode("UPLOAD") /\ ~ftlReadReq2Resp /\ ftlReadResp /\ ftlReadResp' = FALSE
      /\ lockFIFO' = Tail(lockFIFO) /\ stage' = "work"
      /\ UNCHANGED <<ftl, ramOut, tables, outside, mapReq, ftlReadReq2Resp, ftlReadBeatCnt, memory, file,
                     dirty, mapBramReq, ftlWriteReq2Resp, mapDownloadReqCnt, dmaWrDataBuf, dmaWritten>>
  BY DEF UploadDone, download
<1>2. UNCHANGED <<phase, host>>
  BY <1>1 DEF ftl, outside
<1>3. /\ stage = "uploading" /\ mapReq = <<>> /\ lockFIFO = <<"UPLOAD">> /\ phase = "P0"
      /\ ~Booted /\ Restarting /\ ramOut = <<>> /\ ~ftlWriteReq2Resp /\ lockFIFO' = <<>>
  BY <1>1, UploadMode
<1>4. \A k \in Words : file[k] = RamWord(k)
  <2>1. UploadedWords = LastWord + 1 /\ \A k \in Words : k < LastWord + 1
    BY <1>1, WordKinds DEF UploadedWords
  <2> QED
    BY <1>3, <2>1 DEF TInv, UploadFollows
<1>5. FileMap = mapTable /\ FileBlk = blkTable
  BY <1>4, AlwaysTyped, FileOfImage
<1>6. FInv
  BY <1>3, <1>5, ConsistentQuiet DEF Restarting
<1>7. FInv'
  BY <1>1, <1>3, <1>6, LockedKeeps DEF Restarting, RegistersTyped
<1>8. TransferTyped'
  BY <1>1 DEF TInv, TransferTyped
<1>9. Handshake'
  BY <1>1, <1>3 DEF Handshake, NoTransfer, Unlocked
<1>10. UploadFollows' /\ DownloadFollows'
  BY <1>1, <1>3 DEF TInv, UploadFollows, DownloadFollows, Granted, Unlocked
<1>11. Clean'
  <2>1. file = Image
    BY <1>4 DEF TInv, TransferTyped, Image
  <2>2. file' = Image'
    BY <1>1, <2>1, ImageKept
  <2>3. \A t \in Tag : host'[t] = NoCmd
    BY <1>2, <1>3 DEF Restarting, Quiet, Idle
  <2> QED
    BY <1>1, <2>2, <2>3 DEF Clean
<1> QED
  BY <1>1, <1>7, <1>8, <1>9, <1>10, <1>11 DEF TInv, Booted

(* What the steps of a download share. *)
LEMMA DownloadFrame ==
  ASSUME TInv, Mode("DOWNLOAD"), ramOut' \in Seq(RamData), TransferTyped', DownloadFollows',
         UNCHANGED <<ftl, tables, lockFIFO, outside, mapReq, upload, program>>
  PROVE  TInv'
<1>1. /\ stage = "downloading" /\ mapReq = <<>> /\ lockFIFO = <<"DOWNLOAD">> /\ phase = "P0"
      /\ Booted /\ ~ftlReadReq2Resp /\ ~ftlReadResp
  BY DownloadMode
<1>2. UNCHANGED <<phase, stage, ftlReadReq2Resp, ftlReadResp, ftlReadBeatCnt>>
  BY DEF ftl, program, upload
<1>3. Clean' /\ IF Booted' THEN FInv' ELSE Restarting'
  BY <1>1, TransferFrame DEF Unlocked
<1>4. Handshake'
  BY <1>1, <1>2 DEF Handshake, Asked, Granted, NoTransfer
<1>5. UploadFollows'
  BY <1>1, <1>2 DEF TInv, UploadFollows
<1> QED
  BY <1>3, <1>4, <1>5 DEF TInv

(* The words of the image have their types.                                *)
LEMMA ImageWords ==
  ASSUME RegistersTyped, NEW k \in Words
  PROVE  Image[k] = RamWord(k) /\ Image[k] \in WordType(k) /\ Image[k] \in RamData
BY RamWordTyped DEF Image

(* initDownload keeps the invariant.                                       *)
LEMMA InitDownloadStep ==
  ASSUME TInv, InitDownload
  PROVE  TInv'
<1>1. /\ Mode("DOWNLOAD") /\ ~mapBramReq /\ ~ftlWriteReq2Resp
      /\ mapBramReq' = TRUE /\ ftlWriteReq2Resp' = TRUE /\ dmaWritten' = 0
      /\ UNCHANGED <<ftl, tables, lockFIFO, outside, mapReq, upload, program, ramOut, memory,
                     mapDownloadReqCnt, dmaWrDataBuf>>
  BY DEF InitDownload, vars, ftl
<1>2. lockFIFO = <<"DOWNLOAD">> /\ ramOut = <<>> /\ dmaWrDataBuf = <<>> /\ mapDownloadReqCnt = 0
  BY <1>1, DownloadMode DEF TInv, DownloadFollows, Unlocked
<1>3. TransferTyped'
  BY <1>1, WordKinds DEF TInv, TransferTyped, program, upload
<1>4. DownloadFollows'
  <2>1. RequestedWords' = 0 /\ Len(dmaWrDataBuf') = 0 /\ Len(ramOut') = 0
    BY <1>1, <1>2 DEF RequestedWords
  <2>2. 1..0 = {} /\ \A k \in Words : ~(k < 0)
    BY WordKinds
  <2>3. mapReq = <<>>
    BY <1>1, DownloadMode
  <2> QED
    BY <1>1, <1>2, <2>1, <2>2, <2>3 DEF DownloadFollows, Granted
<1> QED
  BY <1>1, <1>3, <1>4, DownloadFrame, AlwaysTyped DEF RegistersTyped

(* reqMapData keeps the invariant: the next word is on its way.            *)
LEMMA ReqMapDataStep ==
  ASSUME TInv, ReqMapData
  PROVE  TInv'
<1> DEFINE n == mapDownloadReqCnt
           d == dmaWritten
           L == Len(dmaWrDataBuf)
           R == Len(ramOut)
<1>1. /\ Mode("DOWNLOAD") /\ mapBramReq /\ ramOut' = Append(ramOut, RamWord(n))
      /\ IF n = LastWord THEN mapDownloadReqCnt' = 0 /\ mapBramReq' = FALSE
         ELSE mapDownloadReqCnt' = n + 1 /\ mapBramReq' = mapBramReq
      /\ UNCHANGED <<ftl, tables, lockFIFO, outside, mapReq, upload, program, memory,
                     ftlWriteReq2Resp, dmaWrDataBuf, dmaWritten>>
  BY DEF ReqMapData
<1>2. /\ lockFIFO = <<"DOWNLOAD">> /\ mapReq = <<>> /\ ftlWriteReq2Resp
      /\ d + L + R = n
      /\ \A i \in 1..L : InBuffer(i)
      /\ \A i \in 1..R : InRam(i)
      /\ \A k \in Words : k < d => memory[k] = Image[k]
  BY <1>1, DownloadMode DEF TInv, DownloadFollows, RequestedWords
<1>3. n \in Words /\ d \in Nat /\ L \in Nat /\ R \in Nat /\ ramOut \in Seq(RamData) /\ n \in Nat
  BY AlwaysTyped, WordKinds DEF TInv, TransferTyped, RegistersTyped
<1>4. RamWord(n) = Image[n] /\ Image[n] \in RamData /\ Image' = Image
  BY <1>1, <1>3, ImageWords, ImageKept, AlwaysTyped
<1>5. TransferTyped'
  <2>1. mapDownloadReqCnt' \in Words
    <3>1. n # LastWord => n + 1 \in Words
      BY <1>3, WordKinds
    <3> QED
      BY <1>1, <3>1, WordKinds
  <2> QED
    BY <1>1, <2>1 DEF TInv, TransferTyped, program, upload
<1>6. /\ ramOut' \in Seq(RamData) /\ Len(ramOut') = R + 1 /\ ramOut'[R + 1] = Image[n]
      /\ \A i \in 1..R : ramOut'[i] = ramOut[i]
  BY <1>1, <1>3, <1>4, AppendProperties
<1> HIDE DEF n, d, L, R
<1>7. DownloadFollows'
  <2>1. RequestedWords' = n + 1
    BY <1>1, <1>2, <1>3 DEF RequestedWords
  <2>2. \A i \in 1..(R + 1) : ramOut'[i] = Image[d + L + i - 1]
    <3> TAKE i \in 1..(R + 1)
    <3>1. CASE i = R + 1
      <4>1. d + L + i - 1 = n
        BY <1>2, <1>3, <3>1
      <4> QED
        BY <1>6, <3>1, <4>1
    <3>2. CASE i # R + 1
      <4>1. i \in 1..R
        BY <1>3, <3>2
      <4> QED
        BY <1>2, <1>6, <4>1 DEF InRam, d, L
    <3> QED
      BY <3>1, <3>2
  <2>3. d' = d /\ L' = L /\ dmaWrDataBuf' = dmaWrDataBuf
    BY <1>1 DEF d, L
  <2>4. \A i \in 1..Len(ramOut') : InRam(i)'
    BY <1>4, <1>6, <2>2, <2>3 DEF InRam, d, L
  <2>5. \A i \in 1..Len(dmaWrDataBuf') : InBuffer(i)'
    BY <1>2, <1>4, <2>3 DEF InBuffer, d, L
  <2>6. dmaWritten' + Len(dmaWrDataBuf') + Len(ramOut') = n + 1
    <3>1. d + L + (R + 1) = n + 1
      BY <1>2, <1>3
    <3> QED
      BY <1>6, <2>3, <3>1 DEF d, L
  <2>7. \A k \in Words : k < dmaWritten' => memory'[k] = Image'[k]
    BY <1>1, <1>2, <1>4 DEF d
  <2> QED
    BY <1>1, <1>2, <2>1, <2>4, <2>5, <2>6, <2>7 DEF DownloadFollows, Granted
<1> QED
  BY <1>1, <1>5, <1>6, <1>7, DownloadFrame

(* pipeFTLWrData1 keeps the invariant: the oldest word changes the buffer. *)
LEMMA PipeDownload1Step ==
  ASSUME TInv, PipeDownload1
  PROVE  TInv'
<1> DEFINE d == dmaWritten
           L == Len(dmaWrDataBuf)
           R == Len(ramOut)
<1>1. /\ Mode("DOWNLOAD") /\ ftlWriteReq2Resp /\ ramOut # <<>>
      /\ dmaWrDataBuf' = Append(dmaWrDataBuf, Head(ramOut)) /\ ramOut' = Tail(ramOut)
      /\ UNCHANGED <<ftl, tables, lockFIFO, outside, mapReq, upload, program, memory,
                     mapBramReq, ftlWriteReq2Resp, mapDownloadReqCnt, dmaWritten>>
  BY DEF PipeDownload1
<1>2. /\ lockFIFO = <<"DOWNLOAD">> /\ mapReq = <<>>
      /\ d + L + R = RequestedWords
      /\ \A i \in 1..L : InBuffer(i)
      /\ \A i \in 1..R : InRam(i)
      /\ \A k \in Words : k < d => memory[k] = Image[k]
  BY <1>1, DownloadMode DEF TInv, DownloadFollows
<1>3. d \in Nat /\ L \in Nat /\ R \in Nat \ {0} /\ ramOut \in Seq(RamData) /\ dmaWrDataBuf \in Seq(RamData)
  BY <1>1, AlwaysTyped, EmptySeq DEF TInv, TransferTyped, RegistersTyped
<1>4. /\ ramOut' \in Seq(RamData) /\ Len(ramOut') = R - 1 /\ Head(ramOut) = ramOut[1] /\ Head(ramOut) \in RamData
      /\ \A i \in 1..(R - 1) : ramOut'[i] = ramOut[i + 1]
  BY <1>1, <1>3, HeadTailProperties
<1>5. /\ dmaWrDataBuf' \in Seq(RamData) /\ Len(dmaWrDataBuf') = L + 1 /\ dmaWrDataBuf'[L + 1] = ramOut[1]
      /\ \A i \in 1..L : dmaWrDataBuf'[i] = dmaWrDataBuf[i]
  BY <1>1, <1>3, <1>4, AppendProperties
<1>6. Image' = Image /\ RequestedWords' = RequestedWords /\ d' = d
  BY <1>1, ImageKept DEF RequestedWords
<1>7. TransferTyped'
  BY <1>1, <1>5 DEF TInv, TransferTyped, program, upload
<1> HIDE DEF d, L, R
<1>8. DownloadFollows'
  <2>1. \A i \in 1..(L + 1) : dmaWrDataBuf'[i] = Image[d + i - 1]
    <3> TAKE i \in 1..(L + 1)
    <3>1. CASE i = L + 1
      <4>1. 1 \in 1..R /\ d + L + 1 - 1 = d + i - 1
        BY <1>3, <3>1
      <4>2. ramOut[1] = Image[d + L + 1 - 1]
        BY <1>2, <4>1 DEF InRam, d, L
      <4> QED
        BY <1>5, <3>1, <4>1, <4>2
    <3>2. CASE i # L + 1
      <4>1. i \in 1..L
        BY <1>3, <3>2
      <4> QED
        BY <1>2, <1>5, <4>1 DEF InBuffer, d
    <3> QED
      BY <3>1, <3>2
  <2>2. \A i \in 1..(R - 1) : ramOut'[i] = Image[d + (L + 1) + i - 1]
    <3> TAKE i \in 1..(R - 1)
    <3>1. i + 1 \in 1..R /\ d + L + (i + 1) - 1 = d + (L + 1) + i - 1
      BY <1>3
    <3>2. ramOut[i + 1] = Image[d + L + (i + 1) - 1]
      BY <1>2, <3>1 DEF InRam, d, L
    <3> QED
      BY <1>4, <3>1, <3>2
  <2>3. \A i \in 1..Len(dmaWrDataBuf') : InBuffer(i)'
    BY <1>5, <1>6, <2>1 DEF InBuffer, d
  <2>4. \A i \in 1..Len(ramOut') : InRam(i)'
    BY <1>4, <1>5, <1>6, <2>2 DEF InRam, d
  <2>5. dmaWritten' + Len(dmaWrDataBuf') + Len(ramOut') = RequestedWords'
    <3>1. d + (L + 1) + (R - 1) = RequestedWords
      BY <1>2, <1>3
    <3> QED
      BY <1>4, <1>5, <1>6, <3>1 DEF d
  <2>6. \A k \in Words : k < dmaWritten' => memory'[k] = Image'[k]
    BY <1>1, <1>2, <1>6 DEF d
  <2>7. /\ mapBramReq' => ftlWriteReq2Resp'
        /\ ~mapBramReq' => mapDownloadReqCnt' = 0
    BY <1>1 DEF TInv, DownloadFollows
  <2> QED
    BY <1>1, <1>2, <2>3, <2>4, <2>5, <2>6, <2>7 DEF DownloadFollows, Granted
<1> QED
  BY <1>1, <1>4, <1>7, <1>8, DownloadFrame

(* pipeFTLWrData2 keeps the invariant: the oldest word is written in its place. *)
LEMMA PipeDownload2Step ==
  ASSUME TInv, PipeDownload2
  PROVE  TInv'
<1> DEFINE d == dmaWritten
           L == Len(dmaWrDataBuf)
           R == Len(ramOut)
<1>1. /\ Mode("DOWNLOAD") /\ ftlWriteReq2Resp /\ dmaWrDataBuf # <<>>
      /\ memory' = [memory EXCEPT ![d] = Head(dmaWrDataBuf)]
      /\ dmaWrDataBuf' = Tail(dmaWrDataBuf) /\ dmaWritten' = d + 1
      /\ UNCHANGED <<ftl, tables, lockFIFO, outside, mapReq, upload, program, ramOut,
                     mapBramReq, ftlWriteReq2Resp, mapDownloadReqCnt>>
  BY DEF PipeDownload2, vars, ftl
<1>2. /\ lockFIFO = <<"DOWNLOAD">> /\ mapReq = <<>>
      /\ d + L + R = RequestedWords
      /\ \A i \in 1..L : InBuffer(i)
      /\ \A i \in 1..R : InRam(i)
      /\ \A k \in Words : k < d => memory[k] = Image[k]
  BY <1>1, DownloadMode DEF TInv, DownloadFollows
<1>3. /\ d \in Nat /\ L \in Nat \ {0} /\ R \in Nat /\ ramOut \in Seq(RamData)
      /\ dmaWrDataBuf \in Seq(RamData) /\ memory \in [Words -> RamData]
  BY <1>1, AlwaysTyped, EmptySeq DEF TInv, TransferTyped, RegistersTyped
<1>4. /\ dmaWrDataBuf' \in Seq(RamData) /\ Len(dmaWrDataBuf') = L - 1 /\ Head(dmaWrDataBuf) = dmaWrDataBuf[1]
      /\ \A i \in 1..(L - 1) : dmaWrDataBuf'[i] = dmaWrDataBuf[i + 1]
  BY <1>1, <1>3, HeadTailProperties
<1>5. Image' = Image /\ RequestedWords' = RequestedWords /\ ramOut' = ramOut
  BY <1>1, ImageKept DEF RequestedWords
<1>6. d \in Words /\ d + 1 <= LastWord + 1
  <2>1. RequestedWords \in Nat /\ RequestedWords <= LastWord + 1
    BY WordKinds DEF TInv, TransferTyped, RequestedWords
  <2>2. LastWord \in Nat
    BY WordKinds
  <2>3. d + 1 <= RequestedWords
    BY <1>2, <1>3
  <2> QED
    BY <1>3, <2>1, <2>2, <2>3, WordKinds
<1>7. Head(dmaWrDataBuf) = Image[d] /\ Image[d] \in WordType(d) /\ Image[d] \in RamData
  <2>1. 1 \in 1..L /\ d + 1 - 1 = d
    BY <1>3
  <2>2. dmaWrDataBuf[1] = Image[d]
    BY <1>2, <2>1 DEF InBuffer
  <2> QED
    BY <1>4, <1>6, <2>2, ImageWords, AlwaysTyped
<1> HIDE DEF d, L, R
<1>8. \A k \in Words : memory'[k] = IF k = d THEN Image[d] ELSE memory[k]
  BY <1>1, <1>3, <1>7
<1>9. TransferTyped'
  <2>1. memory' \in [Words -> RamData]
    BY <1>1, <1>3, <1>7
  <2>2. \A k \in Words : memory'[k] \in WordType(k)
    BY <1>7, <1>8 DEF TInv, TransferTyped
  <2>3. dmaWritten' \in 0..(LastWord + 1)
    BY <1>1, <1>3, <1>6, WordKinds
  <2> QED
    BY <1>1, <1>4, <2>1, <2>2, <2>3 DEF TInv, TransferTyped, program, upload
<1>10. DownloadFollows'
  <2>1. \A i \in 1..(L - 1) : dmaWrDataBuf'[i] = Image[(d + 1) + i - 1]
    <3> TAKE i \in 1..(L - 1)
    <3>1. i + 1 \in 1..L /\ d + (i + 1) - 1 = (d + 1) + i - 1
      BY <1>3
    <3>2. dmaWrDataBuf[i + 1] = Image[d + (i + 1) - 1]
      BY <1>2, <3>1 DEF InBuffer, d
    <3> QED
      BY <1>4, <3>1, <3>2
  <2>2. \A i \in 1..R : ramOut[i] = Image[(d + 1) + (L - 1) + i - 1]
    <3> TAKE i \in 1..R
    <3>1. d + L + i - 1 = (d + 1) + (L - 1) + i - 1
      BY <1>3
    <3>2. ramOut[i] = Image[d + L + i - 1]
      BY <1>2 DEF InRam, d, L
    <3> QED
      BY <3>1, <3>2
  <2>3. \A i \in 1..Len(dmaWrDataBuf') : InBuffer(i)'
    BY <1>1, <1>4, <1>5, <2>1 DEF InBuffer
  <2>4. \A i \in 1..Len(ramOut') : InRam(i)'
    BY <1>1, <1>4, <1>5, <2>2 DEF InRam, R
  <2>5. dmaWritten' + Len(dmaWrDataBuf') + Len(ramOut') = RequestedWords'
    <3>1. (d + 1) + (L - 1) + R = RequestedWords
      BY <1>2, <1>3
    <3> QED
      BY <1>1, <1>4, <1>5, <3>1 DEF R
  <2>6. \A k \in Words : k < dmaWritten' => memory'[k] = Image'[k]
    <3> TAKE k \in Words
    <3> HAVE k < dmaWritten'
    <3>1. CASE k = d
      BY <1>5, <1>8, <3>1
    <3>2. CASE k # d
      <4>1. k < d
        BY <1>1, <1>3, <3>2, WordKinds
      <4> QED
        BY <1>2, <1>5, <1>8, <3>2, <4>1
    <3> QED
      BY <3>1, <3>2
  <2>7. /\ mapBramReq' => ftlWriteReq2Resp'
        /\ ~mapBramReq' => mapDownloadReqCnt' = 0
    BY <1>1 DEF TInv, DownloadFollows
  <2> QED
    BY <1>1, <1>2, <2>3, <2>4, <2>5, <2>6, <2>7 DEF DownloadFollows, Granted
<1> QED
  BY <1>1, <1>3, <1>5, <1>9, <1>10, DownloadFrame

(* downloadDone keeps the invariant: the host's memory is the image.       *)
LEMMA DownloadDoneStep ==
  ASSUME TInv, DownloadDone
  PROVE  TInv'
<1>1. /\ Mode("DOWNLOAD") /\ ftlWriteReq2Resp /\ dmaWritten = LastWord + 1
      /\ ftlWriteReq2Resp' = FALSE /\ lockFIFO' = Tail(lockFIFO)
      /\ stage' = IF stage = "downloading" THEN "save" ELSE stage
      /\ UNCHANGED <<ftl, ramOut, tables, outside, mapReq, ftlReadReq2Resp, ftlReadResp, ftlReadBeatCnt,
                     mapBramReq, mapDownloadReqCnt, dmaWrDataBuf, dmaWritten, memory, file, dirty>>
  BY DEF DownloadDone, upload
<1>2. /\ stage = "downloading" /\ mapReq = <<>> /\ lockFIFO = <<"DOWNLOAD">> /\ phase = "P0"
      /\ Booted /\ FInv /\ ~ftlReadReq2Resp /\ ~ftlReadResp
  BY <1>1, DownloadMode
<1>3. lockFIFO' = <<>> /\ stage' = "save" /\ UNCHANGED <<phase, host>>
  BY <1>1, <1>2 DEF ftl, outside
<1>4. dmaWrDataBuf = <<>> /\ ramOut = <<>> /\ ~mapBramReq
  <2>1. dmaWritten + Len(dmaWrDataBuf) + Len(ramOut) = RequestedWords
    BY <1>1 DEF TInv, DownloadFollows
  <2>2. ramOut \in Seq(RamData) /\ dmaWrDataBuf \in Seq(RamData) /\ LastWord \in Nat
    BY AlwaysTyped, WordKinds DEF TInv, TransferTyped, RegistersTyped
  <2>3. mapDownloadReqCnt \in 0..LastWord
    BY WordKinds DEF TInv, TransferTyped
  <2>4. Len(dmaWrDataBuf) \in Nat /\ Len(ramOut) \in Nat
    BY <2>2
  <2>5. ~mapBramReq
    BY <1>1, <2>1, <2>2, <2>3, <2>4 DEF RequestedWords
  <2>6. Len(dmaWrDataBuf) = 0 /\ Len(ramOut) = 0
    BY <1>1, <2>1, <2>2, <2>4, <2>5 DEF RequestedWords
  <2> QED
    BY <2>2, <2>5, <2>6, EmptySeq
<1>5. memory = Image
  <2>1. \A k \in Words : memory[k] = Image[k]
    BY <1>1, WordKinds DEF TInv, DownloadFollows
  <2> QED
    BY <2>1 DEF TInv, TransferTyped, Image
<1>6. FInv'
  BY <1>1, <1>2, <1>4, LockedKeeps
<1>7. TransferTyped'
  BY <1>1, <1>3 DEF TInv, TransferTyped
<1>8. Handshake'
  BY <1>1, <1>2, <1>3 DEF Handshake, NoTransfer, Unlocked
<1>9. UploadFollows'
  BY <1>1, <1>2, <1>3 DEF TInv, UploadFollows
<1>10. DownloadFollows'
  BY <1>1, <1>3, <1>4 DEF TInv, DownloadFollows, Unlocked
<1>11. Clean'
  <2>1. memory' = Image'
    BY <1>1, <1>5, ImageKept
  <2> QED
    BY <1>1, <1>2, <1>3, <2>1 DEF TInv, Clean, Booted
<1> QED
  BY <1>3, <1>6, <1>7, <1>8, <1>9, <1>10, <1>11 DEF TInv, Booted
-----------------------------------------------------------------------------
(* uploadMap keeps the invariant.                                          *)
LEMMA HostUploadStep ==
  ASSUME TInv, HostUpload
  PROVE  TInv'
<1>1. /\ stage = "start" /\ memory' = file /\ mapReq' = Append(mapReq, "UPLOAD") /\ stage' = "uploading"
      /\ UNCHANGED <<reqs, procQ, allocQ, phase, mapEntry, scan, respsSuccess, respsFailure, tables, ramOut,
                     lockFIFO, host, inFlash, content, ftlReadReq2Resp, ftlReadResp, ftlReadBeatCnt,
                     mapBramReq, ftlWriteReq2Resp, mapDownloadReqCnt, dmaWrDataBuf, dmaWritten, file, dirty>>
  BY DEF HostUpload, vars, upload, download, outside
<1>2. mapReq = <<>> /\ lockFIFO = <<>> /\ Restarting /\ phase = "P0" /\ ramOut = <<>> /\ Quiet
  BY <1>1 DEF TInv, Handshake, NoTransfer, Booted, Restarting, Quiet, Unlocked
<1>3. mapReq' = <<"UPLOAD">>
  BY <1>1, <1>2
<1>4. Quiet'
  BY <1>1, <1>2 DEF Quiet, Idle
<1>5. Restarting'
  <2>1. RegistersTyped'
    BY <1>1, <1>2 DEF Restarting, RegistersTyped, scan, tables
  <2> QED
    BY <1>1, <1>2, <2>1, RestartingKept DEF scan
<1>6. TransferTyped'
  BY <1>1 DEF TInv, TransferTyped
<1>7. Handshake'
  BY <1>1, <1>2, <1>3, <1>4 DEF Handshake, Asked, Unlocked
<1>8. UploadFollows'
  <2>1. ~ftlReadReq2Resp /\ ~ftlReadResp /\ ftlReadBeatCnt = 0
    BY <1>1 DEF TInv, UploadFollows
  <2>2. UploadedWords' = 0 /\ \A k \in Words : ~(k < 0)
    BY <1>1, <2>1, WordKinds DEF UploadedWords
  <2> QED
    BY <1>1, <1>2, <2>1, <2>2 DEF UploadFollows
<1>9. DownloadFollows'
  BY <1>1, <1>2, <1>3 DEF TInv, DownloadFollows, Granted, Unlocked
<1>10. Clean'
  BY <1>1 DEF Clean, Booted
<1> QED
  BY <1>1, <1>5, <1>6, <1>7, <1>8, <1>9, <1>10 DEF TInv, Booted

(* A power cycle keeps the invariant: the file has the tables that are lost. *)
LEMMA PowerCycleStep ==
  ASSUME TInv, PowerCycle
  PROVE  TInv'
<1>1. /\ stage = "work" /\ ~dirty /\ Idle /\ lockFIFO = <<>> /\ mapReq = <<>>
      /\ mapTable' = [lb \in LogBlock |-> Unmapped] /\ blkTable' = Blank /\ mapEntry' = Unmapped
      /\ blkTableReqCnt' = 0 /\ blkTableCnt' = 0 /\ minEntries' = [c \in Col |-> Invalid]
      /\ width' = Cols /\ blkToAlloc' = Invalid /\ dmaWritten' = 0 /\ stage' = "start"
      /\ UNCHANGED <<reqs, procQ, allocQ, phase, respsSuccess, respsFailure, ramOut, lockFIFO, host, inFlash,
                     content, mapReq, ftlReadReq2Resp, ftlReadResp, ftlReadBeatCnt, mapBramReq, ftlWriteReq2Resp,
                     mapDownloadReqCnt, dmaWrDataBuf, memory, file, dirty>>
  BY DEF PowerCycle, Unlocked, upload, outside
<1>2. FInv /\ Quiet
  BY <1>1, IdleIsQuiet DEF TInv, Booted
<1>3. phase = "P0" /\ ramOut = <<>>
  BY <1>1, <1>2 DEF Quiet, FInv, IInv, RamCurrent, Unlocked
<1>4. file = Image
  BY <1>1 DEF TInv, Clean
<1>5. FileMap = mapTable /\ FileBlk = blkTable
  BY <1>4, AlwaysTyped, FileOfImage, ImageWords
<1>6. Consistent(FileMap, FileBlk)'
  <2>1. FileMap' = FileMap /\ FileBlk' = FileBlk /\ content' = content
    BY <1>1 DEF FileMap, FileBlk
  <2>2. Consistent(FileMap, FileBlk)
    BY <1>2, <1>5, QuietConsistent
  <2>3. \A c \in Chip, b \in Block : BoundIn(FileMap, c, b)' <=> BoundIn(FileMap, c, b)
    BY <2>1 DEF BoundIn
  <2> QED
    BY <2>1, <2>2, <2>3 DEF Consistent
<1>7. RegistersTyped'
  <2>1. 0 \in Erase /\ 0 \in Block /\ Cols \in 2..Cols /\ 0 \in 0..Rows
    <3>1. Rows * Cols > 0
      BY Sizes DEF Widths
    <3> QED
      BY <3>1, Sizes DEF Erase, Block, Widths
  <2>2. Unmapped \in MapEntry /\ Invalid \in MinEntry
    BY <2>1 DEF Unmapped, MapEntry, Invalid, MinEntry
  <2>3. Blank \in [Chip -> [Block -> BlkEntry]]
    BY <2>1 DEF Blank, BlkEntry
  <2> QED
    BY <1>1, <2>1, <2>2, <2>3, AlwaysTyped DEF RegistersTyped
<1>8. Restarting'
  <2>1. Quiet'
    BY <1>1, <1>2 DEF Quiet, Idle
  <2>2. content \in Contents /\ Cols \in Widths
    BY <1>2, QuietConsistent, Sizes
  <2> QED
    BY <1>1, <1>3, <1>6, <1>7, <2>1, <2>2 DEF Restarting
<1>9. TransferTyped'
  <2>1. 0 \in 0..(LastWord + 1)
    BY WordKinds
  <2>2. TransferTyped
    BY DEF TInv
  <2> QED
    BY <1>1, <2>1, <2>2 DEF TransferTyped
<1>10. Handshake'
  BY <1>1 DEF Handshake, NoTransfer, Unlocked
<1>11. UploadFollows' /\ DownloadFollows'
  BY <1>1 DEF TInv, UploadFollows, DownloadFollows, Granted, Unlocked
<1>12. Clean'
  BY <1>1 DEF Clean, Booted
<1> QED
  BY <1>1, <1>8, <1>9, <1>10, <1>11, <1>12 DEF TInv, Booted

(* downloadMap keeps the invariant: nothing is in flight.                  *)
LEMMA HostDownloadStep ==
  ASSUME WaitForDone, TInv, HostDownload
  PROVE  TInv'
<1>1. /\ stage = "work" /\ Idle /\ lockFIFO = <<>> /\ mapReq = <<>>
      /\ mapReq' = <<"DOWNLOAD">> /\ stage' = "downloading" /\ dirty' = FALSE
      /\ UNCHANGED <<vars, ftlReadReq2Resp, ftlReadResp, ftlReadBeatCnt, mapBramReq, ftlWriteReq2Resp,
                     mapDownloadReqCnt, dmaWrDataBuf, dmaWritten, memory, file>>
  BY DEF HostDownload, Unlocked, upload, download
<1>2. UNCHANGED <<reqs, procQ, allocQ, phase, respsSuccess, respsFailure, ramOut, lockFIFO, host, inFlash, tables>>
  BY <1>1 DEF vars, outside
<1>3. FInv /\ Quiet
  BY <1>1, IdleIsQuiet DEF TInv, Booted
<1>4. FInv'
  BY <1>1, <1>3, FInvStep
<1>5. Quiet'
  BY <1>2, <1>3 DEF Quiet, Idle
<1>6. TransferTyped'
  BY <1>1 DEF TInv, TransferTyped
<1>7. Handshake'
  BY <1>1, <1>2, <1>5 DEF Handshake, Asked, Unlocked
<1>8. UploadFollows' /\ DownloadFollows'
  BY <1>1, <1>2 DEF TInv, UploadFollows, DownloadFollows, Granted, Unlocked
<1>9. Clean'
  BY <1>1, <1>5 DEF Clean, Quiet, Idle
<1> QED
  BY <1>1, <1>4, <1>6, <1>7, <1>8, <1>9 DEF TInv, Booted

(* writeFTLtoFile keeps the invariant: what was downloaded is saved.       *)
LEMMA HostSaveStep ==
  ASSUME TInv, HostSave
  PROVE  TInv'
<1>1. /\ stage = "save" /\ file' = memory /\ stage' = "work"
      /\ UNCHANGED <<vars, mapReq, ftlReadReq2Resp, ftlReadResp, ftlReadBeatCnt, mapBramReq, ftlWriteReq2Resp,
                     mapDownloadReqCnt, dmaWrDataBuf, dmaWritten, memory, dirty>>
  BY DEF HostSave, upload, download
<1>2. UNCHANGED <<phase, ramOut, lockFIFO, host, tables>> /\ lockFIFO = <<>> /\ mapReq = <<>>
  BY <1>1 DEF vars, outside, TInv, Handshake, NoTransfer
<1>3. FInv'
  BY <1>1, FInvStep DEF TInv, Booted
<1>4. TransferTyped'
  BY <1>1 DEF TInv, TransferTyped
<1>5. Handshake'
  BY <1>1, <1>2 DEF Handshake, NoTransfer, Unlocked
<1>6. UploadFollows' /\ DownloadFollows'
  BY <1>1, <1>2 DEF TInv, UploadFollows, DownloadFollows, Granted, Unlocked
<1>7. Clean'
  BY <1>1, <1>2, ImageKept DEF TInv, Clean, Booted
<1> QED
  BY <1>1, <1>3, <1>4, <1>5, <1>6, <1>7 DEF TInv, Booted

(* A request at work keeps the invariant.                                  *)
LEMMA HostWorkStep ==
  ASSUME TInv, HostWork
  PROVE  TInv'
<1>1. PICK t \in Tag, op \in Op, lpa \in Lpa :
         HostIssue(t, op, lpa) /\ dirty' = (dirty \/ op # "READ_PAGE")
  BY DEF HostWork
<1>2. /\ stage \in {"work", "downloading", "save"} /\ mapReq = <<>>
      /\ UNCHANGED <<mapReq, ftlReadReq2Resp, ftlReadResp, ftlReadBeatCnt, mapBramReq, ftlWriteReq2Resp,
                     mapDownloadReqCnt, dmaWrDataBuf, dmaWritten, memory, file, stage>>
  BY DEF HostWork, upload, download
<1>3. /\ host' = [host EXCEPT ![t] = [tag |-> t, op |-> op, lpa |-> lpa]]
      /\ UNCHANGED <<phase, tables, ramOut, lockFIFO>>
  BY <1>1 DEF HostIssue
<1>4. FInv /\ FInv'
  BY <1>1, <1>2, FInvStep DEF TInv, Booted, Next, Outside
<1>5. TransferTyped'
  BY <1>1, <1>2 DEF TInv, TransferTyped
<1>6. Handshake'
  BY <1>2, <1>3 DEF TInv, Handshake, Asked, Granted, NoTransfer, Unlocked
<1>7. UploadFollows'
  BY <1>2 DEF TInv, UploadFollows
<1>8. DownloadFollows'
  <2>1. Image' = Image /\ RequestedWords' = RequestedWords
    BY <1>2, <1>3, ImageKept DEF RequestedWords
  <2> QED
    BY <1>2, <1>3, <2>1 DEF TInv, DownloadFollows, Granted, Unlocked, InBuffer, InRam
<1>9. Clean'
  <2>1. host \in [Tag -> FTLCmd \cup {NoCmd}]
    BY <1>4 DEF FInv, IInv, RegistersTyped
  <2>2. \A u \in Tag : host'[u] = IF u = t THEN [tag |-> t, op |-> op, lpa |-> lpa] ELSE host[u]
    BY <1>3, <2>1
  <2>3. Image' = Image
    BY <1>3, ImageKept
  <2>4. ASSUME ~dirty' PROVE ~dirty /\ op = "READ_PAGE"
    BY <1>1, <2>4
  <2>5. ASSUME ~dirty' PROVE \A u \in Tag : host'[u] # NoCmd => host'[u].op = "READ_PAGE"
    BY <1>2, <2>2, <2>4, <2>5 DEF TInv, Clean, Booted
  <2> QED
    BY <1>2, <2>3, <2>4, <2>5 DEF TInv, Clean
<1> QED
  BY <1>2, <1>4, <1>5, <1>6, <1>7, <1>8, <1>9 DEF TInv, Booted

(* Nothing is translated while all is quiet or the RAM is locked. *)
LEMMA TranslateNeedsRam ==
  ASSUME Translate
  PROVE  ~Quiet /\ (phase = "P0" => Unlocked)
<1>1. phase = "P0" => ReadReqMapTable
  BY DEF Translate, ReadMapTable, UseMapped, RefuseUnmapped, StartScan, ProcErase, ProcErase2, ProcErase3,
         ReadReqBlockTable, ReadBlockTable, HalveMinEntries, PickMinEntry, UpdateMapTable, RefuseFull,
         UpdateBlockTable, ScanDone
<1> QED
  BY <1>1 DEF ReadReqMapTable, RamReady, Quiet

(* The table writes belong to writes and erases. *)
LEMMA ReadsKeepTables ==
  ASSUME FInv, Translate, \A t \in Tag : host[t] # NoCmd => host[t].op = "READ_PAGE"
  PROVE  UNCHANGED tables
<1>1. phase # "P0" => Cmd.op = "READ_PAGE"
  <2> SUFFICES ASSUME phase # "P0" PROVE Cmd.op = "READ_PAGE"
    OBVIOUS
  <2>1. Cmd \in FTLCmd /\ Cmd.tag \in Tag
    BY Serving DEF FInv, IInv, FTLCmd
  <2>2. host[Cmd.tag] = Cmd /\ Cmd # NoCmd
    BY <2>1, AFTLAssumption DEF FInv, HostKnows
  <2> QED
    BY <2>1, <2>2
<1>2. phase \notin {"P1_erase", "P1_erase3", "P7", "P8"}
  BY <1>1 DEF FInv, PhaseOfOp, Freeing, Scanning
<1> QED
  BY <1>2 DEF Translate, ReadReqMapTable, ReadMapTable, UseMapped, RefuseUnmapped, StartScan, ProcErase,
     ProcErase2, ProcErase3, ReadReqBlockTable, ReadBlockTable, HalveMinEntries, PickMinEntry, UpdateMapTable,
     RefuseFull, UpdateBlockTable

(* What the flash and the answers to the host change. *)
LEMMA OutsideChanges ==
  ASSUME FlashTakes \/ HostRefused \/ (\E t \in Tag : HostDone(t)), RegistersTyped
  PROVE  /\ UNCHANGED <<phase, tables, ramOut, lockFIFO>> /\ ~Quiet
         /\ \A u \in Tag : host'[u] = host[u] \/ host'[u] = NoCmd
<1>1. host \in [Tag -> FTLCmd \cup {NoCmd}]
  BY DEF RegistersTyped
<1>2. CASE FlashTakes
  BY <1>2 DEF FlashTakes, Quiet
<1>3. CASE HostRefused
  BY <1>1, <1>3 DEF HostRefused, Quiet
<1>4. ASSUME NEW t \in Tag, HostDone(t)
      PROVE  /\ UNCHANGED <<phase, tables, ramOut, lockFIFO>> /\ ~Quiet
             /\ \A u \in Tag : host'[u] = host[u] \/ host'[u] = NoCmd
  BY <1>1, <1>4 DEF HostDone, Quiet
<1> QED
  BY <1>2, <1>3, <1>4

(* The translation, the flash and its answers keep the invariant.          *)
LEMMA ServiceStep ==
  ASSUME TInv, Translate \/ FlashTakes \/ HostRefused \/ (\E t \in Tag : HostDone(t)), UNCHANGED transfer
  PROVE  TInv'
<1> DEFINE Out == FlashTakes \/ HostRefused \/ (\E t \in Tag : HostDone(t))
<1>1. UNCHANGED <<mapReq, ftlReadReq2Resp, ftlReadResp, ftlReadBeatCnt, mapBramReq, ftlWriteReq2Resp,
                  mapDownloadReqCnt, dmaWrDataBuf, dmaWritten, memory, file, stage, dirty>>
  BY DEF transfer, upload, download, program
<1>2. Out => /\ UNCHANGED <<phase, tables, ramOut, lockFIFO>> /\ ~Quiet
             /\ \A u \in Tag : host'[u] = host[u] \/ host'[u] = NoCmd
  BY OutsideChanges, AlwaysTyped
<1>3. ~Quiet
  <2>1. CASE Out
    BY <1>2, <2>1
  <2>2. CASE Translate
    BY <2>2, TranslateNeedsRam
  <2> QED
    BY <2>1, <2>2
<1>4. Booted /\ FInv /\ mapReq = <<>>
  BY <1>3 DEF TInv, Restarting, Handshake
<1>5. FInv'
  <2>1. Next
    BY DEF Next, Outside
  <2> QED
    BY <1>4, <2>1, FInvStep
<1>6. ~Unlocked => UNCHANGED <<phase, tables, ramOut>>
  <2>1. Translate => Unlocked
    BY TranslateNeedsRam DEF TInv, Handshake
  <2> QED
    BY <1>2, <2>1
<1>7. lockFIFO' = lockFIFO
  <2>1. Translate => lockFIFO' = lockFIFO
    BY DEF Translate, ReadReqMapTable, ReadMapTable, UseMapped, RefuseUnmapped, StartScan, ProcErase,
       ProcErase2, ProcErase3, ReadReqBlockTable, ReadBlockTable, HalveMinEntries, PickMinEntry,
       UpdateMapTable, RefuseFull, UpdateBlockTable
  <2> QED
    BY <1>2, <2>1
<1>8. TransferTyped'
  BY <1>1 DEF TInv, TransferTyped
<1>9. Handshake'
  BY <1>1, <1>4, <1>6, <1>7 DEF TInv, Handshake, Asked, Granted, NoTransfer, Unlocked
<1>10. UploadFollows'
  BY <1>1, <1>4, <1>7 DEF TInv, UploadFollows, Booted, Granted
<1>11. DownloadFollows'
  <2>1. CASE Unlocked
    BY <1>1, <1>7, <2>1 DEF TInv, DownloadFollows, Granted, Unlocked
  <2>2. CASE ~Unlocked
    <3>1. Image' = Image /\ RequestedWords' = RequestedWords /\ ramOut' = ramOut
      BY <1>1, <1>6, <2>2, ImageKept DEF RequestedWords
    <3> QED
      BY <1>1, <1>7, <3>1 DEF TInv, DownloadFollows, Granted, Unlocked, InBuffer, InRam
  <2> QED
    BY <2>1, <2>2
<1>12. Clean'
  <2> SUFFICES ASSUME ~dirty' PROVE Clean'
    BY DEF Clean
  <2>1. \A u \in Tag : host[u] # NoCmd => host[u].op = "READ_PAGE"
    BY <1>1, <1>4 DEF TInv, Clean
  <2>2. UNCHANGED tables
    BY <1>2, <1>4, <2>1, ReadsKeepTables
  <2>3. \A u \in Tag : host'[u] = host[u] \/ host'[u] = NoCmd
    <3>1. Translate => host' = host
      BY DEF Translate, ReadReqMapTable, ReadMapTable, UseMapped, RefuseUnmapped, StartScan, ProcErase,
         ProcErase2, ProcErase3, ReadReqBlockTable, ReadBlockTable, HalveMinEntries, PickMinEntry,
         UpdateMapTable, RefuseFull, UpdateBlockTable, outside
    <3> QED
      BY <1>2, <3>1
  <2>4. \A u \in Tag : host'[u] # NoCmd => host'[u].op = "READ_PAGE"
    BY <2>1, <2>3
  <2>5. Image' = Image
    BY <2>2, ImageKept
  <2> QED
    BY <1>1, <2>4, <2>5 DEF TInv, Clean
<1> QED
  BY <1>1, <1>4, <1>5, <1>8, <1>9, <1>10, <1>11, <1>12 DEF TInv, Booted

(* The invariant holds at the start: the file was just uploaded.           *)
LEMMA TInvInit == TransferInit => TInv
<1> SUFFICES ASSUME TransferInit PROVE TInv
  OBVIOUS
<1>1. /\ Init /\ file = Image /\ memory = Image /\ mapReq = <<>>
      /\ ~ftlReadReq2Resp /\ ~ftlReadResp /\ ftlReadBeatCnt = 0
      /\ ~mapBramReq /\ ~ftlWriteReq2Resp /\ mapDownloadReqCnt = 0
      /\ dmaWrDataBuf = <<>> /\ dmaWritten = 0 /\ stage = "work" /\ dirty = FALSE
  BY DEF TransferInit
<1>2. FInv
  BY <1>1, AFTLInvInit, PlacesInit, FollowsInit DEF FInv, Places
<1>3. lockFIFO = <<>> /\ \A t \in Tag : host[t] = NoCmd
  BY <1>1 DEF Init
<1>4. RegistersTyped
  BY <1>2 DEF FInv, IInv
<1>5. TransferTyped
  <2>1. Image \in [Words -> RamData] /\ \A k \in Words : Image[k] \in WordType(k)
    BY <1>4, RamWordTyped DEF Image
  <2> QED
    BY <1>1, <2>1, WordKinds DEF TransferTyped, TransferInit
<1>6. Handshake /\ UploadFollows /\ DownloadFollows
  BY <1>1, <1>3 DEF Handshake, UploadFollows, DownloadFollows, NoTransfer, Granted, Unlocked
<1>7. Clean
  BY <1>1, <1>3 DEF Clean
<1> QED
  BY <1>1, <1>2, <1>5, <1>6, <1>7 DEF TInv, Booted

(* Every step keeps the invariant.                                         *)
LEMMA TInvStep ==
  ASSUME WaitForDone, TInv, [TransferNext]_allVars
  PROVE  TInv'
<1>1. CASE Transfer
  BY <1>1, IssueMapReqStep, InitUploadStep, PipeUploadStep, UploadDoneStep, InitDownloadStep, ReqMapDataStep,
     PipeDownload1Step, PipeDownload2Step, DownloadDoneStep DEF Transfer
<1>2. CASE Program
  BY <1>2, HostUploadStep, HostWorkStep, HostDownloadStep, HostSaveStep, PowerCycleStep DEF Program
<1>3. CASE Serve \/ Flash \/ Refusal \/ \E t \in Tag : Done(t)
  BY <1>3, ServiceStep DEF Serve, Flash, Refusal, Done
<1>4. CASE UNCHANGED allVars
  <2>1. UNCHANGED <<vars, mapReq, ftlReadReq2Resp, ftlReadResp, ftlReadBeatCnt, mapBramReq, ftlWriteReq2Resp,
                    mapDownloadReqCnt, dmaWrDataBuf, dmaWritten, memory, file, stage, dirty>>
    BY <1>4 DEF allVars, transfer, upload, download, program
  <2>2. UNCHANGED <<ftl, tables, outside, program, ramOut, lockFIFO, phase, host, reqs, procQ, allocQ,
                    respsSuccess, respsFailure, inFlash>>
    BY <2>1 DEF vars, ftl, outside, program
  <2>3. TransferTyped'
    BY <2>1 DEF TInv, TransferTyped
  <2>4. Quiet => Quiet'
    BY <2>2 DEF Quiet, Idle
  <2>5. Handshake'
    BY <2>1, <2>2, <2>4 DEF TInv, Handshake, Asked, Granted, NoTransfer, Unlocked
  <2>6. Image' = Image /\ (\A k : RamWord(k)' = RamWord(k)) /\ UploadedWords' = UploadedWords
        /\ RequestedWords' = RequestedWords
    BY <2>1, <2>2, ImageKept DEF UploadedWords, RequestedWords
  <2>7. UploadFollows'
    BY <2>1, <2>2, <2>6 DEF TInv, UploadFollows, Granted
  <2>8. DownloadFollows'
    BY <2>1, <2>2, <2>6 DEF TInv, DownloadFollows, Granted, Unlocked, InBuffer, InRam
  <2>9. Clean'
    BY <2>1, <2>2, <2>6 DEF TInv, Clean, Booted
  <2>10. Booted => FInv'
    BY <2>1, FInvStep DEF TInv
  <2>11. ASSUME ~Booted PROVE Restarting'
    <3>1. Restarting /\ RegistersTyped
      BY <2>11, AlwaysTyped DEF TInv
    <3>2. RegistersTyped' /\ UNCHANGED <<width, content>>
      BY <2>1, <3>1 DEF RegistersTyped, vars, scan, tables, outside
    <3>3. Unlocked' => ramOut' = <<>>
      BY <2>2, <3>1 DEF Restarting, Unlocked
    <3> QED
      BY <2>1, <2>2, <3>1, <3>2, <3>3, RestartingKept
  <2> QED
    BY <2>1, <2>3, <2>5, <2>7, <2>8, <2>9, <2>10, <2>11 DEF TInv, Booted
<1> QED
  BY <1>1, <1>2, <1>3, <1>4 DEF TransferNext

(* A host that waits for downloadDone keeps the inductive invariant through *)
(* every download, save, power cycle and upload.                           *)
THEOREM TransferInv == ASSUME WaitForDone PROVE TransferSpec => []TInv
<1>1. TransferInit => TInv
  BY TInvInit
<1>2. TInv /\ [TransferNext]_allVars => TInv'
  BY TInvStep
<1> QED
  BY <1>1, <1>2, PTL DEF TransferSpec

(* The registers of Main.bsv's transfer rules and the host's memory and    *)
(* file hold what they should.                                             *)
THEOREM TransferTypeCorrect == ASSUME WaitForDone PROVE TransferSpec => []TransferTypeOK
<1>1. TInv => TransferTypeOK
  <2> SUFFICES ASSUME TInv PROVE TransferTypeOK
    OBVIOUS
  <2> DEFINE S == {"UPLOAD", "DOWNLOAD"}
  <2>1. <<>> \in Seq(S) /\ \A m \in S : <<m>> \in Seq(S)
    OBVIOUS
  <2>2. "UPLOAD" \in S /\ "DOWNLOAD" \in S
    OBVIOUS
  <2>3. mapReq \in Seq(S) /\ lockFIFO \in Seq(S)
    <3> HIDE DEF S
    <3> QED
      BY <2>1, <2>2, AlwaysTyped
  <2> QED
    BY <2>3 DEF TInv, TransferTyped, TransferTypeOK
<1> QED
  BY <1>1, TransferInv, PTL

(* What writeFTLtoFile saved is the map, as long as the host only reads:   *)
(* the words travel through respB, dmaWrDataBuf and the DMA engine in      *)
(* order, and no request overlaps with the download.                       *)
THEOREM SavedFileIsMap == ASSUME WaitForDone PROVE TransferSpec => []SavedIsMap
<1>1. TInv => SavedIsMap
  BY DEF TInv, Clean, SavedIsMap
<1> QED
  BY <1>1, TransferInv, PTL

(* The tables a host uploads after a restart are again injective and agree. *)
THEOREM TablesOutliveRestarts ==
  ASSUME WaitForDone PROVE TransferSpec => [](Booted => MapInjective /\ TablesAgree)
<1>1. TInv => (Booted => MapInjective /\ TablesAgree)
  BY DEF TInv, FInv, IInv
<1> QED
  BY <1>1, TransferInv, PTL

(* Commands find the data of their own segment in the flash although the   *)
(* tables went through the host's file in the meantime.                    *)
THEOREM DataOutlivesRestarts == ASSUME WaitForDone PROVE TransferSpec => []FlashHoldsOwnData
<1>1. TInv => FlashHoldsOwnData
  <2> SUFFICES ASSUME TInv PROVE FlashHoldsOwnData
    OBVIOUS
  <2>1. CASE Booted
    BY <2>1, OwnDataFollows DEF TInv
  <2>2. CASE ~Booted
    BY <2>2 DEF TInv, Restarting, Quiet, FlashHoldsOwnData
  <2> QED
    BY <2>1, <2>2
<1> QED
  BY <1>1, TransferInv, PTL
=============================================================================
