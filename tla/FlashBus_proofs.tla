--------------------------- MODULE FlashBus_proofs ---------------------------
(***************************************************************************)
(* What one bus of the flash controller keeps for any number of chips and  *)
(* tags, any page size, any depth of its FIFOs and any commands.           *)
(***************************************************************************)
EXTENDS FlashBus, FifoLemmas

(* Where a command is: a bus operation fetches its page (1), starts the    *)
(* chip on it (2) or polls the chip (3), and a stage follows one of these. *)
Rank(op) ==
  CASE op = "WRITE_DATA_BUF_REQ" -> 1
    [] op \in {"READ_CMD", "WRITE_CMD_DATA", "ERASE_CMD"} -> 2
    [] OTHER -> 3
StageRank(st) ==
  CASE st = "INIT" -> 0
    [] st = "WR_BUF_REQ_ISSUED" -> 1
    [] st \in {"RD_ISSUED", "WR_ISSUED", "ER_ISSUED"} -> 2
    [] OTHER -> 3
CommandOf(op) ==
  CASE op \in {"READ_CMD", "GET_STATUS_READ_DATA"} -> "READ_PAGE"
    [] op \in {"ERASE_CMD", "ERASE_GET_STATUS"} -> "ERASE_BLOCK"
    [] OTHER -> "WRITE_PAGE"

(* The operation the bus is carrying out, if any, and then the queued ones. *)
Doing ==
  CASE state = "READ_PAGE_REQ" -> "READ_CMD"
    [] state = "GET_STATUS" -> "GET_STATUS_READ_DATA"
    [] state \in {"WRITE_PAGE_WAIT", "WRITE_PAGE"} -> "WRITE_CMD_DATA"
    [] state = "ERASE_BLOCK" -> "ERASE_CMD"
    [] state \in {"WRITE_GET_STATUS", "ERASE_GET_STATUS"} -> state
    [] OTHER -> "NONE"
Ops ==
  IF Doing = "NONE" THEN cmdOutQ
  ELSE <<[tag |-> cmdTagR, busOp |-> Doing, chip |-> chipR]>> \o cmdOutQ

BusState == {"IDLE", "READ_PAGE_REQ", "GET_STATUS", "WRITE_PAGE_WAIT", "WRITE_PAGE", "ERASE_BLOCK",
             "WRITE_GET_STATUS", "ERASE_GET_STATUS", "READ_DATA_WAIT_BUF", "READ_DATA", "READ_ERROR"}

MoreTypes ==
  /\ TypeOK
  /\ state \in BusState
  /\ sbState \in {"NEXT_REQ", "SERVICE_REQ"}
  /\ Doing # "NONE" => cmdTagR \in Tag
  /\ state = "READ_DATA" => dataCnt < PageWords
  /\ state \in {"GET_STATUS", "READ_DATA_WAIT_BUF", "WRITE_PAGE_WAIT"} => dataCnt = 0
  /\ sbState = "SERVICE_REQ" => chipQs[currChip] # <<>>

OpsAgree ==
  \A i \in 1..Len(Ops) :
    LET o == Ops[i]
        c == o.chip
    IN /\ chipQs[c] # <<>> /\ chipBusy[c] = <<>>
       /\ o.tag = Head(chipQs[c]).tag
       /\ CommandOf(o.busOp) = Head(chipQs[c]).op
       /\ Rank(o.busOp) <= StageRank(chipStages[c])
       /\ Rank(o.busOp) = 2 => nandOp[c] = "idle"

OpsOrdered ==
  \A i, j \in 1..Len(Ops) :
    i < j /\ Ops[i].chip = Ops[j].chip => Rank(Ops[i].busOp) < Rank(Ops[j].busOp)

StagesAgree ==
  \A c \in Chip : chipStages[c] # "INIT" =>
    chipQs[c] # <<>> /\ \E s \in StepsOf : s[1] = Head(chipQs[c]).op /\ s[4] = chipStages[c]

StartDue(c) == \E i \in 1..Len(Ops) : Ops[i].chip = c /\ Rank(Ops[i].busOp) = 2

ChipsAgree ==
  \A c \in Chip :
    /\ nandOp[c] # "idle" => StageRank(chipStages[c]) >= 2
    /\ StageRank(chipStages[c]) >= 2 => StartDue(c) \/ nandTag[c] = Head(chipQs[c]).tag

AnswersAgree ==
  \A c \in Chip : chipBusy[c] # <<>> =>
    /\ Len(chipBusy[c]) = 1
    /\ StageRank(chipStages[c]) = 3
    /\ ~Head(chipBusy[c]) => nandOp[c] = "idle" /\ nandTag[c] = Head(chipQs[c]).tag

Moving ==
  state \in {"READ_DATA_WAIT_BUF", "READ_DATA"} =>
    nandOp[chipR] = "idle" /\ nandTag[chipR] = cmdTagR /\ cmdTagR \in Tag

Control == OpsAgree /\ OpsOrdered /\ StagesAgree /\ ChipsAgree /\ AnswersAgree /\ Moving

-----------------------------------------------------------------------------
LEMMA Sizes ==
  /\ Chips \in Nat \ {0} /\ BusQDepth \in Nat \ {0} /\ ChipQDepth \in Nat \ {0} /\ EncDepth \in Nat \ {0}
  /\ AckDepth \in Nat \ {0} /\ FifoDepth \in Nat \ {0} /\ PageWords \in Nat /\ PageWords > 1
  /\ EncDepth <= PageWords /\ NoTag \notin Tag
BY FlashBusAssumption

(* A word's place in its page, and a chip's number, wrap. *)
LEMMA Wraps ==
  ASSUME NEW n \in Nat
  PROVE  NextWord(n) \in 0..(PageWords - 1) /\ (n + 1) % Chips \in Chip
<1>1. n + 1 \in Nat /\ PageWords \in Nat \ {0} /\ Chips \in Nat \ {0}
  BY Sizes
<1> QED
  BY <1>1 DEF NextWord, Chip

LEMMA NextWordIs ==
  ASSUME NEW n \in 0..(PageWords - 1)
  PROVE  NextWord(n) = IF n = PageWords - 1 THEN 0 ELSE n + 1
<1>1. n + 1 \in Nat /\ PageWords \in Nat \ {0}
  BY Sizes
<1>2. CASE n = PageWords - 1
  BY <1>1, <1>2 DEF NextWord
<1>3. CASE n # PageWords - 1
  BY <1>1, <1>3 DEF NextWord
<1> QED
  BY <1>2, <1>3

LEMMA CmdTyped ==
  ASSUME NEW cmd \in FlashCmd
  PROVE  cmd.tag \in Tag /\ cmd.op \in FlashOp /\ cmd.chip \in Chip
BY DEF FlashCmd

(* Putting into a typed FIFO and taking from it. *)
LEMMA Put ==
  ASSUME NEW T, NEW q \in Seq(T), NEW e \in T
  PROVE  /\ Append(q, e) \in Seq(T) /\ Append(q, e) # <<>>
         /\ Len(q) \in Nat /\ Len(Append(q, e)) = Len(q) + 1
         /\ Append(q, e)[Len(q) + 1] = e
         /\ \A i \in 1..Len(q) : Append(q, e)[i] = q[i]
         /\ q # <<>> => Head(Append(q, e)) = Head(q)
BY AppendProperties, HeadTailAppend, LenProperties

LEMMA Take ==
  ASSUME NEW T, NEW q \in Seq(T), q # <<>>
  PROVE  /\ Head(q) \in T /\ Tail(q) \in Seq(T) /\ Len(q) \in Nat /\ Len(q) > 0 /\ q[1] = Head(q)
         /\ Len(Tail(q)) = Len(q) - 1
         /\ \A i \in 1..Len(Tail(q)) : Tail(q)[i] = q[i + 1]
BY HeadTailProperties, EmptySeq

(* What is put at the end leaves the head in its place. *)
LEMMA EnqHead ==
  ASSUME NEW D, NEW T, NEW q, q \in FifoFamily(D, T), NEW k \in D, NEW e \in T
  PROVE  \A i \in D : /\ q[i] # <<>> \/ i = k => Enq(q, k, e)[i] # <<>>
                      /\ q[i] # <<>> => Head(Enq(q, k, e)[i]) = Head(q[i])
<1> TAKE i \in D
<1>1. q[i] \in Seq(T) /\ Enq(q, k, e)[i] = IF i = k THEN Append(q[i], e) ELSE q[i]
  BY DEF FifoFamily, Enq
<1> QED
  BY <1>1, Put

LEMMA TypesInit == Init => MoreTypes
<1> SUFFICES ASSUME Init PROVE MoreTypes
  OBVIOUS
<1>1. 0 \in Chip /\ 0 \in 0..(PageWords - 1) /\ 0 \in 0..PageWords
  BY Sizes DEF Chip
<1>2. TypeOK
  BY <1>1 DEF Init, TypeOK, FifoFamily
<1>3. Doing = "NONE"
  BY DEF Init, Doing
<1> QED
  BY <1>2, <1>3 DEF Init, MoreTypes, BusState
LEMMA StepTable ==
  ASSUME NEW s \in StepsOf
  PROVE  /\ s[1] \in FlashOp /\ s[3] \in BusOp /\ s[5] \in BOOLEAN
         /\ s[4] \in {"RD_ISSUED", "RD_DATA", "WR_BUF_REQ_ISSUED", "WR_ISSUED", "ER_ISSUED", "WAIT_STATUS"}
         /\ CommandOf(s[3]) = s[1]
         /\ StageRank(s[2]) \in 0..2 /\ StageRank(s[4]) \in 1..3
         /\ Rank(s[3]) = StageRank(s[4]) /\ StageRank(s[2]) < StageRank(s[4])
         /\ StageRank(s[4]) = 3 => StageRank(s[2]) = 2
         /\ s[3] = "WRITE_CMD_DATA" => s[2] = "WR_BUF_REQ_ISSUED"
<1>1. CASE s = <<"READ_PAGE", "INIT", "READ_CMD", "RD_ISSUED", TRUE>>
  BY <1>1 DEF FlashOp, BusOp, CommandOf, Rank, StageRank
<1>2. CASE s = <<"READ_PAGE", "RD_ISSUED", "GET_STATUS_READ_DATA", "RD_DATA", FALSE>>
  BY <1>2 DEF FlashOp, BusOp, CommandOf, Rank, StageRank
<1>3. CASE s = <<"WRITE_PAGE", "INIT", "WRITE_DATA_BUF_REQ", "WR_BUF_REQ_ISSUED", FALSE>>
  BY <1>3 DEF FlashOp, BusOp, CommandOf, Rank, StageRank
<1>4. CASE s = <<"WRITE_PAGE", "WR_BUF_REQ_ISSUED", "WRITE_CMD_DATA", "WR_ISSUED", TRUE>>
  BY <1>4 DEF FlashOp, BusOp, CommandOf, Rank, StageRank
<1>5. CASE s = <<"WRITE_PAGE", "WR_ISSUED", "WRITE_GET_STATUS", "WAIT_STATUS", FALSE>>
  BY <1>5 DEF FlashOp, BusOp, CommandOf, Rank, StageRank
<1>6. CASE s = <<"ERASE_BLOCK", "INIT", "ERASE_CMD", "ER_ISSUED", TRUE>>
  BY <1>6 DEF FlashOp, BusOp, CommandOf, Rank, StageRank
<1>7. CASE s = <<"ERASE_BLOCK", "ER_ISSUED", "ERASE_GET_STATUS", "WAIT_STATUS", FALSE>>
  BY <1>7 DEF FlashOp, BusOp, CommandOf, Rank, StageRank
<1> QED
  BY <1>1, <1>2, <1>3, <1>4, <1>5, <1>6, <1>7 DEF StepsOf

(* The types of a step, action by action. *)
LEMMA ScoreboardTypes ==
  ASSUME MoreTypes, DoSBCmd \/ Scoreboard \/ \E c \in Chip : TimerExpires(c)
  PROVE  MoreTypes'
<1> USE DEF MoreTypes, TypeOK
<1>1. CASE DoSBCmd
  <2>1. Head(flashCmdQ) \in FlashCmd /\ Tail(flashCmdQ) \in Seq(FlashCmd) /\ Head(flashCmdQ).chip \in Chip
    BY <1>1, Take, CmdTyped DEF DoSBCmd
  <2>2. Enq(chipQs, Head(flashCmdQ).chip, Head(flashCmdQ)) \in FifoFamily(Chip, FlashCmd)
    BY <2>1, EnqLemma
  <2>3. TypeOK'
    BY <1>1, <2>1, <2>2 DEF DoSBCmd, bus, requests, readPath, writePath, nand
  <2>4. sbState = "SERVICE_REQ" => chipQs'[currChip] # <<>>
    BY <1>1, <2>1, EnqHead DEF DoSBCmd
  <2> QED
    BY <1>1, <2>3, <2>4 DEF DoSBCmd, bus, Doing
<1>2. CASE DoChooseChip
  <2>1. NextChip \in Chip
    BY Wraps DEF NextChip, Chip
  <2>3. TypeOK'
    BY <1>2, <2>1 DEF DoChooseChip, bus, requests, readPath, writePath, nand
  <2> QED
    BY <1>2, <2>3 DEF DoChooseChip, bus, Doing
<1>3. CASE IssueStep
  <2>0. NextChip \in Chip
    BY Wraps DEF NextChip, Chip
  <2>1. Req \in FlashCmd /\ Req.tag \in Tag
    BY <1>3, Take, CmdTyped DEF IssueStep, Served, Req, FifoFamily
  <2>2. PICK s \in StepsOf : /\ s[1] = Req.op /\ s[2] = Stage
       /\ cmdOutQ' = Append(cmdOutQ, [tag |-> Req.tag, busOp |-> s[3], chip |-> currChip])
       /\ chipStages' = [chipStages EXCEPT ![currChip] = s[4]]
       /\ busyTimers' = [busyTimers EXCEPT ![currChip] = s[5]]
    BY <1>3 DEF IssueStep
  <2>3. s[3] \in BusOp /\ s[4] \in {"RD_ISSUED", "RD_DATA", "WR_BUF_REQ_ISSUED", "WR_ISSUED",
                             "ER_ISSUED", "WAIT_STATUS"} /\ s[5] \in BOOLEAN
    BY StepTable
  <2>4. [tag |-> Req.tag, busOp |-> s[3], chip |-> currChip] \in [tag : Tag, busOp : BusOp, chip : Chip]
    BY <2>1, <2>3
  <2>5. cmdOutQ' \in Seq([tag : Tag, busOp : BusOp, chip : Chip])
    BY <2>2, <2>4, Put
  <2>6. /\ chipStages' \in [Chip -> {"INIT", "RD_ISSUED", "RD_DATA", "WR_BUF_REQ_ISSUED", "WR_ISSUED",
                             "ER_ISSUED", "WAIT_STATUS"}]
        /\ busyTimers' \in [Chip -> BOOLEAN]
    BY <2>2, <2>3
  <2>7. TypeOK'
    BY <1>3, <2>0, <2>5, <2>6 DEF IssueStep, Served, bus, requests, readPath, writePath, nand
  <2> QED
    BY <1>3, <2>7 DEF IssueStep, Served, bus, Doing
<1>4. CASE AwaitData
  <2>0. NextChip \in Chip
    BY Wraps DEF NextChip, Chip
  <2>3. TypeOK'
    BY <1>4, <2>0 DEF AwaitData, Served, bus, requests, readPath, writePath, nand
  <2> QED
    BY <1>4, <2>3 DEF AwaitData, Served, bus, Doing
<1>5. CASE TakeStatus
  <2>0. NextChip \in Chip
    BY Wraps DEF NextChip, Chip
  <2>1. chipQs[currChip] # <<>> /\ chipBusy[currChip] # <<>> /\ Req \in FlashCmd /\ Req.op \in FlashOp
    BY <1>5, Take, CmdTyped DEF TakeStatus, Served, Req, FifoFamily
  <2>2. Deq(chipQs, currChip) \in FifoFamily(Chip, FlashCmd)
    BY <2>1, DeqLemma
  <2>3. chipBusy' \in FifoFamily(Chip, BOOLEAN)
    BY <1>5, <2>1, DeqLemma DEF TakeStatus
  <2>4. PollStage(Req.op) \in {"RD_ISSUED", "WR_ISSUED", "ER_ISSUED"}
    BY <2>1 DEF PollStage, FlashOp
  <2>5. TypeOK'
    BY <1>5, <2>0, <2>2, <2>3, <2>4 DEF TakeStatus, Served, bus, requests, readPath, writePath, nand
  <2> QED
    BY <1>5, <2>5 DEF TakeStatus, Served, bus, Doing
<1>6. CASE \E c \in Chip : TimerExpires(c)
  <2>1. TypeOK'
    BY <1>6 DEF TimerExpires, bus, requests, readPath, writePath, nand
  <2> QED
    BY <1>6, <2>1 DEF TimerExpires, bus, Doing
<1> QED
  BY <1>1, <1>2, <1>3, <1>4, <1>5, <1>6 DEF Scoreboard

LEMMA ControllerTypes ==
  ASSUME MoreTypes, Moving, BusController
  PROVE  MoreTypes'
<1> USE DEF MoreTypes, TypeOK
<1>1. CASE DoDecodeCmd
  <2>1. PICK cmd \in [tag : Tag, busOp : BusOp, chip : Chip] : cmd = Head(cmdOutQ)
    BY <1>1, Take DEF DoDecodeCmd
  <2>2. Tail(cmdOutQ) \in Seq([tag : Tag, busOp : BusOp, chip : Chip])
    BY <1>1, Take DEF DoDecodeCmd
  <2>3. chipR' = cmd.chip /\ cmdTagR' = cmd.tag /\ dataCnt' = 0
    BY <1>1, <2>1 DEF DoDecodeCmd
  <2>4. state' \in BusState \ {"READ_DATA"}
    BY <1>1, <2>1 DEF DoDecodeCmd, BusState, BusOp
  <2>5. wrDataBufReqQ' \in Seq(Tag)
    <3>1. Append(wrDataBufReqQ, cmd.tag) \in Seq(Tag)
      BY <2>1, Put
    <3> QED
      BY <1>1, <2>1, <3>1 DEF DoDecodeCmd
  <2>6. 0 \in 0..PageWords
    BY Sizes
  <2>7. TypeOK'
    BY <1>1, <2>2, <2>3, <2>5, <2>6 DEF DoDecodeCmd, readPath, writePath, nand
  <2> QED
    BY <1>1, <2>3, <2>4, <2>7 DEF DoDecodeCmd
<1>2. CASE DoReadPage
  <2>1. Doing # "NONE" /\ Doing' = "NONE" /\ state' = "IDLE"
    BY <1>2 DEF DoReadPage, Start, Doing
  <2>2. TypeOK'
    BY <1>2, <2>1 DEF DoReadPage, Start, board, requests, readPath, writePath
  <2> QED
    BY <1>2, <2>1, <2>2 DEF DoReadPage, board, BusState
<1>3. CASE DoEraseBlock
  <2>1. Doing # "NONE" /\ Doing' = "NONE" /\ state' = "IDLE"
    BY <1>3 DEF DoEraseBlock, Start, Doing
  <2>2. TypeOK'
    BY <1>3, <2>1 DEF DoEraseBlock, Start, board, requests, readPath, writePath
  <2> QED
    BY <1>3, <2>1, <2>2 DEF DoEraseBlock, board, BusState
<1>4. CASE DoGetStatus
  <2>1. Doing # "NONE" /\ cmdTagR \in Tag /\ StillBusy \in BOOLEAN
    BY <1>4 DEF DoGetStatus, Doing, StillBusy
  <2>2. state' \in {"IDLE", "READ_DATA_WAIT_BUF"}
    BY <1>4 DEF DoGetStatus
  <2>3. chipBusy' \in FifoFamily(Chip, BOOLEAN)
    BY <1>4, <2>1, EnqLemma DEF DoGetStatus
  <2>4. ackQ' \in Seq(Tag)
    <3>1. Append(ackQ, cmdTagR) \in Seq(Tag)
      BY <2>1, Put
    <3> QED
      BY <1>4, <3>1 DEF DoGetStatus
  <2>5. TypeOK'
    BY <1>4, <2>3, <2>4 DEF DoGetStatus, requests, readPath, writePath, nand
  <2> QED
    BY <1>4, <2>1, <2>2, <2>5 DEF DoGetStatus, BusState
<1>5. CASE DoReadDataWaitBuf
  <2>1. TypeOK' /\ state' = "READ_DATA"
    BY <1>5 DEF DoReadDataWaitBuf, board, requests, readPath, writePath, nand
  <2>2. Doing' = "NONE"
    BY <2>1 DEF Doing
  <2>3. dataCnt = 0 /\ UNCHANGED <<dataCnt, sbState, chipQs, currChip>>
    BY <1>5 DEF DoReadDataWaitBuf, board
  <2>4. dataCnt' < PageWords
    BY <2>3, Sizes
  <2>5. state' \in BusState
    BY <2>1 DEF BusState
  <2>6. sbState' \in {"NEXT_REQ", "SERVICE_REQ"} /\ (sbState' = "SERVICE_REQ" => chipQs'[currChip'] # <<>>)
    BY <2>3
  <2> QED
    BY <2>1, <2>2, <2>4, <2>5, <2>6
<1>6. CASE DoReadData
  <2>1. cmdTagR \in Tag /\ nandTag[chipR] = cmdTagR /\ dataCnt \in 0..(PageWords - 1)
    BY <1>6, Sizes DEF DoReadData, Moving
  <2>2. Append(readTagQ, cmdTagR) \in Seq(Tag)
    BY <2>1, Put
  <2>3. <<nandTag[chipR], dataCnt>> \in Word
    BY <2>1 DEF Word
  <2>4. decodeInQ \in Seq(Word)
    OBVIOUS
  <2>5. Append(decodeInQ, <<nandTag[chipR], dataCnt>>) \in Seq(Word)
    BY <2>3, <2>4, Put
  <2>6. dataCnt + 1 \in 0..PageWords /\ (dataCnt + 1 < PageWords \/ dataCnt = PageWords - 1)
    BY <2>1, Sizes
  <2>7. readTagQ' \in Seq(Tag) /\ decodeInQ' \in Seq(Word)
    BY <1>6, <2>2, <2>4, <2>5 DEF DoReadData
  <2>8. dataCnt' \in 0..PageWords /\ (state' = "READ_DATA" => dataCnt' < PageWords)
    BY <1>6, <2>1, <2>6, Sizes DEF DoReadData
  <2>9. state' \in {"READ_ERROR", "IDLE", "READ_DATA"}
    BY <1>6 DEF DoReadData
  <2>10. TypeOK'
    BY <1>6, <2>7, <2>8 DEF DoReadData, board, requests, writePath, nand
  <2>11. Doing' = "NONE"
    BY <2>9 DEF Doing
  <2> QED
    BY <1>6, <2>8, <2>9, <2>10, <2>11 DEF DoReadData, board, BusState
<1>7. CASE DoWriteDataWait
  <2>1. Doing # "NONE" /\ state' = "WRITE_PAGE"
    BY <1>7 DEF DoWriteDataWait, Doing
  <2>2. <<>> \in Seq(Word)
    BY EmptySeq
  <2>3. nandPage' \in FifoFamily(Chip, Word)
    BY <1>7, <2>2 DEF DoWriteDataWait, FifoFamily
  <2>4. TypeOK'
    BY <1>7, <2>3 DEF DoWriteDataWait, board, requests, readPath, writePath
  <2> QED
    BY <1>7, <2>1, <2>4 DEF DoWriteDataWait, board, BusState
<1>8. CASE DoWritePageData
  <2>1. encodeOutQ \in Seq(Word) /\ encodeOutQ # <<>>
    BY <1>8 DEF DoWritePageData
  <2>2. Head(encodeOutQ) \in Word /\ Tail(encodeOutQ) \in Seq(Word)
    BY <2>1, Take
  <2>3. nandPage' \in FifoFamily(Chip, Word)
    BY <1>8, <2>2, EnqLemma DEF DoWritePageData
  <2>4. dataCnt + 1 \in 0..PageWords
    BY <1>8, Sizes DEF DoWritePageData
  <2>5. TypeOK'
    BY <1>8, <2>2, <2>3, <2>4 DEF DoWritePageData, board, requests, readPath, writePath
  <2> QED
    BY <1>8, <2>5 DEF DoWritePageData, board, Doing
<1>9. CASE DoWriteDone
  <2>1. Doing # "NONE" /\ Doing' = "NONE" /\ state' = "IDLE"
    BY <1>9 DEF DoWriteDone, Start, Doing
  <2>2. TypeOK'
    BY <1>9, <2>1 DEF DoWriteDone, Start, board, requests, readPath, writePath
  <2> QED
    BY <1>9, <2>1, <2>2 DEF DoWriteDone, board, BusState
<1> QED
  BY <1>1, <1>2, <1>3, <1>4, <1>5, <1>6, <1>7, <1>8, <1>9 DEF BusController

LEMMA BufferTypes ==
  ASSUME MoreTypes, PageBuffer \/ SetWriteDataRdy \/ ReadPath \/ AckStatus
  PROVE  MoreTypes'
<1> USE DEF MoreTypes, TypeOK
<1>s. /\ encodeOutQ \in Seq(Word) /\ decodeInQ \in Seq(Word) /\ decodeOutQ \in Seq(Word)
      /\ pageBufBack \in Seq(Word) /\ pageBufFront \in Seq(Word)
  OBVIOUS
<1>1. CASE DoHandleWriteDataReq
  <2>1. Head(wrDataBufReqQ) \in Tag /\ Tail(wrDataBufReqQ) \in Seq(Tag)
    BY <1>1, Take DEF DoHandleWriteDataReq
  <2>2. Append(wrDataReqQ, Head(wrDataBufReqQ)) \in Seq(Tag)
    BY <2>1, Put
  <2>3. TypeOK'
    BY <1>1, <2>1, <2>2 DEF DoHandleWriteDataReq, board, bus, readPath, nand
  <2> QED
    BY <1>1, <2>3 DEF DoHandleWriteDataReq, board, bus, Doing
<1>2. CASE DoWriteFetchWait
  <2>3. TypeOK'
    BY <1>2 DEF DoWriteFetchWait, board, bus, requests, readPath, nand
  <2> QED
    BY <1>2, <2>3 DEF DoWriteFetchWait, board, bus, Doing
<1>3. CASE WriteWord
  <2>1. Head(wrDataReqQ) \in Tag /\ Tail(wrDataReqQ) \in Seq(Tag)
    BY <1>3, Take DEF WriteWord
  <2>2. <<Head(wrDataReqQ), writeWordCnt>> \in Word
    BY <2>1 DEF Word
  <2>3. Append(pageBufBack, <<Head(wrDataReqQ), writeWordCnt>>) \in Seq(Word)
    BY <1>s, <2>2, Put
  <2>4. NextWord(writeWordCnt) \in 0..(PageWords - 1)
    <3>1. writeWordCnt \in Nat
      OBVIOUS
    <3> QED
      BY <3>1, Wraps
  <2>5. wrDataReqQ' \in Seq(Tag)
    BY <1>3, <2>1 DEF WriteWord
  <2>6. TypeOK'
    BY <1>3, <2>3, <2>4, <2>5 DEF WriteWord, board, bus, requests, readPath, nand
  <2> QED
    BY <1>3, <2>6 DEF WriteWord, board, bus, Doing
<1>4. CASE DoWriteBufTransfer
  <2>1. Head(pageBufBack) \in Word /\ Tail(pageBufBack) \in Seq(Word)
    BY <1>4, <1>s, Take DEF DoWriteBufTransfer
  <2>2. Append(pageBufFront, Head(pageBufBack)) \in Seq(Word)
    BY <1>s, <2>1, Put
  <2>3. TypeOK'
    BY <1>4, <2>1, <2>2 DEF DoWriteBufTransfer, board, bus, requests, readPath, nand
  <2> QED
    BY <1>4, <2>3 DEF DoWriteBufTransfer, board, bus, Doing
<1>5. CASE DoWriteDataTransferReq
  <2>1. TypeOK'
    BY <1>5, Sizes DEF DoWriteDataTransferReq, board, bus, readPath, nand
  <2> QED
    BY <1>5, <2>1 DEF DoWriteDataTransferReq, board, bus, Doing
<1>6. CASE DoWriteDataTransferToBus
  <2>1. pageBufFront # <<>> => /\ Head(pageBufFront) \in Word /\ Tail(pageBufFront) \in Seq(Word)
    BY <1>s, Take
  <2>2. pageBufFront # <<>> => Append(encodeOutQ, Head(pageBufFront)) \in Seq(Word)
    <3>1. ASSUME pageBufFront # <<>> PROVE Append(encodeOutQ, Head(pageBufFront)) \in Seq(Word)
      BY <1>s, <2>1, <3>1, Put
    <3> QED
      BY <3>1
  <2>3. pageBufFront' \in Seq(Word) /\ encodeOutQ' \in Seq(Word)
    BY <1>6, <1>s, <2>1, <2>2 DEF DoWriteDataTransferToBus
  <2>4. wdataCnt' \in 0..PageWords
    BY <1>6, Sizes DEF DoWriteDataTransferToBus
  <2>5. TypeOK'
    BY <1>6, <2>3, <2>4 DEF DoWriteDataTransferToBus, board, bus, requests, readPath, nand
  <2> QED
    BY <1>6, <2>5 DEF DoWriteDataTransferToBus, board, bus, Doing
<1>7. CASE SetWriteDataRdy
  <2>1. ReadyNow \in Tag \cup {NoTag}
    <3>1. CASE FrontFull
      <4>1. pageBufFront # <<>>
        BY <3>1, Sizes, EmptySeq DEF FrontFull
      <4>2. Head(pageBufFront) \in Word
        BY <1>s, <4>1, Take
      <4> QED
        BY <3>1, <4>2 DEF ReadyNow, Word
    <3> QED
      BY <3>1 DEF ReadyNow
  <2>2. TypeOK'
    BY <1>7, <2>1 DEF SetWriteDataRdy, board, bus, requests, readPath, writePath, nand
  <2> QED
    BY <1>7, <2>2 DEF SetWriteDataRdy, board, bus, Doing
<1>8. CASE DoDecode
  <2>1. Head(decodeInQ) \in Word /\ Tail(decodeInQ) \in Seq(Word)
    BY <1>8, <1>s, Take DEF DoDecode
  <2>2. Append(decodeOutQ, Head(decodeInQ)) \in Seq(Word)
    BY <1>s, <2>1, Put
  <2>3. TypeOK'
    BY <1>8, <2>1, <2>2 DEF DoDecode, board, bus, requests, writePath, nand
  <2> QED
    BY <1>8, <2>3 DEF DoDecode, board, bus, Doing
<1>9. CASE ReadWord
  <2>1. Tail(decodeOutQ) \in Seq(Word)
    BY <1>9, <1>s, Take DEF ReadWord
  <2>2. Head(readTagQ) \in Tag /\ Tail(readTagQ) \in Seq(Tag)
    BY <1>9, Take DEF ReadWord
  <2>3. NextWord(rdWdCnt) \in 0..(PageWords - 1)
    BY Sizes, Wraps
  <2>4. readTagQ' \in Seq(Tag) /\ host' \in [Tag -> FlashCmd \cup {NoTag}]
    BY <1>9, <2>2 DEF ReadWord
  <2>5. TypeOK'
    BY <1>9, <2>1, <2>3, <2>4 DEF ReadWord, board, bus, requests, writePath, nand
  <2> QED
    BY <1>9, <2>5 DEF ReadWord, board, bus, Doing
<1>10. CASE AckStatus
  <2>1. Head(ackQ) \in Tag /\ Tail(ackQ) \in Seq(Tag)
    BY <1>10, Take DEF AckStatus
  <2>2. host' \in [Tag -> FlashCmd \cup {NoTag}]
    BY <1>10, <2>1 DEF AckStatus
  <2>3. TypeOK'
    BY <1>10, <2>1, <2>2 DEF AckStatus, board, bus, requests, readPath, writePath, nand
  <2> QED
    BY <1>10, <2>3 DEF AckStatus, board, bus, Doing
<1> QED
  BY <1>1, <1>2, <1>3, <1>4, <1>5, <1>6, <1>7, <1>8, <1>9, <1>10 DEF PageBuffer, ReadPath

LEMMA OutsideTypes ==
  ASSUME MoreTypes, (\E c \in Chip : NandDone(c)) \/ (\E cmd \in FlashCmd : SendCmd(cmd)) \/ UNCHANGED vars
  PROVE  MoreTypes'
<1> USE DEF MoreTypes, TypeOK
<1>1. CASE \E c \in Chip : NandDone(c)
  <2>1. TypeOK'
    BY <1>1 DEF NandDone, board, bus, requests, readPath, writePath
  <2> QED
    BY <1>1, <2>1 DEF NandDone, board, bus, Doing
<1>2. CASE \E cmd \in FlashCmd : SendCmd(cmd)
  <2>1. PICK cmd \in FlashCmd : SendCmd(cmd)
    BY <1>2
  <2>2. Append(flashCmdQ, cmd) \in Seq(FlashCmd) /\ cmd.tag \in Tag
    BY Put, CmdTyped
  <2>3. host' \in [Tag -> FlashCmd \cup {NoTag}]
    BY <2>1, <2>2 DEF SendCmd
  <2>4. TypeOK'
    BY <2>1, <2>2, <2>3 DEF SendCmd, board, bus, requests, readPath, writePath, nand
  <2> QED
    BY <2>1, <2>4 DEF SendCmd, board, bus, Doing
<1>3. CASE UNCHANGED vars
  BY <1>3 DEF vars, board, bus, requests, readPath, writePath, nand, Doing
<1> QED
  BY <1>1, <1>2, <1>3

LEMMA TypesStep ==
  ASSUME MoreTypes, Moving, [Next]_vars
  PROVE  MoreTypes'
BY ScoreboardTypes, ControllerTypes, BufferTypes, OutsideTypes DEF Next

BusOpEntry == [tag : Tag, busOp : BusOp, chip : Chip]

(* What the bus operations consist of. *)
LEMMA OpsTyped ==
  ASSUME MoreTypes
  PROVE  /\ cmdOutQ \in Seq(BusOpEntry) /\ Ops \in Seq(BusOpEntry)
         /\ Doing = "NONE" => Ops = cmdOutQ
         /\ Doing # "NONE" => /\ Ops # <<>> /\ Tail(Ops) = cmdOutQ
                              /\ Head(Ops) = [tag |-> cmdTagR, busOp |-> Doing, chip |-> chipR]
<1>1. cmdOutQ \in Seq(BusOpEntry)
  BY DEF MoreTypes, TypeOK, BusOpEntry
<1>2. ASSUME Doing # "NONE"
      PROVE  /\ Ops \in Seq(BusOpEntry) /\ Ops # <<>> /\ Tail(Ops) = cmdOutQ
             /\ Head(Ops) = [tag |-> cmdTagR, busOp |-> Doing, chip |-> chipR]
  <2>1. cmdTagR \in Tag /\ chipR \in Chip /\ Doing \in BusOp
    BY <1>2 DEF MoreTypes, TypeOK, Doing, BusOp
  <2>2. PICK o \in BusOpEntry : o = [tag |-> cmdTagR, busOp |-> Doing, chip |-> chipR]
    BY <2>1 DEF BusOpEntry
  <2>3. <<o>> \in Seq(BusOpEntry) /\ Len(<<o>>) = 1 /\ Ops = <<o>> \o cmdOutQ
    BY <1>2, <2>2 DEF Ops
  <2>4. /\ Ops \in Seq(BusOpEntry) /\ Len(Ops) = 1 + Len(cmdOutQ)
        /\ \A i \in 1..Len(Ops) : Ops[i] = IF i = 1 THEN o ELSE cmdOutQ[i - 1]
    <3>1. /\ Ops \in Seq(BusOpEntry) /\ Len(Ops) = 1 + Len(cmdOutQ)
          /\ \A i \in 1..(1 + Len(cmdOutQ)) : Ops[i] = IF i <= 1 THEN <<o>>[i] ELSE cmdOutQ[i - 1]
      BY <1>1, <2>3, ConcatProperties
    <3> QED
      BY <3>1
  <2>5. Len(cmdOutQ) \in Nat /\ Ops # <<>>
    BY <1>1, <2>4, LenProperties, EmptySeq
  <2>6. Head(Ops) = o
    BY <2>4, <2>5, Take
  <2>7. /\ Tail(Ops) \in Seq(BusOpEntry) /\ Len(Tail(Ops)) = Len(cmdOutQ)
        /\ \A i \in 1..Len(Tail(Ops)) : Tail(Ops)[i] = cmdOutQ[i]
    <3>1. /\ Tail(Ops) \in Seq(BusOpEntry) /\ Len(Tail(Ops)) = Len(Ops) - 1
          /\ \A i \in 1..Len(Tail(Ops)) : Tail(Ops)[i] = Ops[i + 1]
      BY <2>4, <2>5, Take
    <3> QED
      BY <2>4, <2>5, <3>1
  <2>8. Tail(Ops) = cmdOutQ
    BY <1>1, <2>7, SeqEqual
  <2> QED
    BY <2>2, <2>4, <2>5, <2>6, <2>8
<1>3. Doing = "NONE" => Ops = cmdOutQ
  BY DEF Ops
<1> QED
  BY <1>1, <1>2, <1>3

(* A step that leaves the operations alone, adds one or ends the first. *)
LEMMA OpsSame ==
  ASSUME UNCHANGED <<cmdOutQ, cmdTagR, chipR>>, Doing' = Doing
  PROVE  Ops' = Ops
BY DEF Ops

LEMMA OpsAdded ==
  ASSUME MoreTypes, UNCHANGED <<state, cmdTagR, chipR>>, NEW o \in BusOpEntry, cmdOutQ' = Append(cmdOutQ, o)
  PROVE  /\ Len(Ops') = Len(Ops) + 1 /\ Len(Ops) \in Nat
         /\ Ops'[Len(Ops) + 1] = o
         /\ \A i \in 1..Len(Ops) : Ops'[i] = Ops[i]
<1>1. Doing' = Doing
  BY DEF Doing
<1>2. Ops' = Append(Ops, o)
  <2>1. CASE Doing = "NONE"
    BY <1>1, <2>1 DEF Ops
  <2>2. CASE Doing # "NONE"
    <3>1. PICK e \in BusOpEntry : e = [tag |-> cmdTagR, busOp |-> Doing, chip |-> chipR]
      BY <2>2, OpsTyped, Take
    <3>2. <<e>> \in Seq(BusOpEntry) /\ cmdOutQ \in Seq(BusOpEntry) /\ <<o>> \in Seq(BusOpEntry)
      BY OpsTyped
    <3>3. Ops = <<e>> \o cmdOutQ /\ Ops' = <<e>> \o Append(cmdOutQ, o)
      BY <1>1, <2>2, <3>1 DEF Ops
    <3>4. Append(cmdOutQ, o) = cmdOutQ \o <<o>>
      BY <3>2, AppendIsConcat
    <3>5. Ops' = Ops \o <<o>>
      BY <3>2, <3>3, <3>4, ConcatAssociative
    <3> QED
      BY <3>5, OpsTyped, AppendIsConcat
  <2> QED
    BY <2>1, <2>2
<1>3. Ops \in Seq(BusOpEntry)
  BY OpsTyped
<1> QED
  BY <1>2, <1>3, Put

LEMMA OpsEnded ==
  ASSUME MoreTypes, Ops # <<>>, Ops' = Tail(Ops)
  PROVE  /\ Len(Ops) \in Nat /\ Len(Ops) > 0 /\ Ops[1] = Head(Ops) /\ Head(Ops) \in BusOpEntry
         /\ Len(Ops') = Len(Ops) - 1
         /\ \A i \in 1..Len(Ops') : Ops'[i] = Ops[i + 1]
BY OpsTyped, Take

LEMMA Ranks ==
  /\ \A st : StageRank(st) \in 0..3
  /\ \A op : Rank(op) \in 1..3
BY DEF StageRank, Rank

LEMMA OpAt ==
  ASSUME MoreTypes
  PROVE  \A i \in 1..Len(Ops) : Ops[i] \in BusOpEntry /\ Ops[i].chip \in Chip
<1> TAKE i \in 1..Len(Ops)
<1>1. Ops[i] \in BusOpEntry
  BY OpsTyped, ElementOfSeq
<1> QED
  BY <1>1 DEF BusOpEntry

(* Every operation agrees with the command at the head of its chip's queue. *)
LEMMA IssueControl ==
  ASSUME MoreTypes, Control, IssueStep
  PROVE  Control'
<1>1. PICK c \in Chip : c = currChip /\ chipQs[c] # <<>> /\ Head(chipQs[c]) \in FlashCmd
  BY Take DEF IssueStep, Served, MoreTypes, TypeOK, FifoFamily
<1>2. PICK s \in StepsOf : /\ s[1] = Head(chipQs[c]).op /\ s[2] = chipStages[c]
       /\ cmdOutQ' = Append(cmdOutQ, [tag |-> Head(chipQs[c]).tag, busOp |-> s[3], chip |-> c])
       /\ chipStages' = [chipStages EXCEPT ![c] = s[4]]
  BY <1>1 DEF IssueStep, Req, Stage
<1>3. PICK o \in BusOpEntry : o = [tag |-> Head(chipQs[c]).tag, busOp |-> s[3], chip |-> c]
  BY <1>1, CmdTyped, StepTable DEF BusOpEntry
<1>4. /\ UNCHANGED <<chipQs, chipBusy, state, chipR, cmdTagR, nandOp, nandTag>>
      /\ \A d \in Chip : chipStages'[d] = IF d = c THEN s[4] ELSE chipStages[d]
  BY <1>2 DEF IssueStep, bus, nand, MoreTypes, TypeOK
<1>5. /\ Len(Ops') = Len(Ops) + 1 /\ Len(Ops) \in Nat
      /\ Ops'[Len(Ops) + 1] = o
      /\ \A i \in 1..Len(Ops) : Ops'[i] = Ops[i]
  BY <1>2, <1>3, <1>4, OpsAdded
<1>6. /\ Rank(o.busOp) = StageRank(s[4]) /\ StageRank(chipStages[c]) < StageRank(s[4])
      /\ StageRank(chipStages[c]) \in 0..2 /\ StageRank(s[4]) \in 1..3
      /\ StageRank(s[4]) = 3 => StageRank(chipStages[c]) = 2
      /\ CommandOf(o.busOp) = Head(chipQs[c]).op /\ o.chip = c /\ o.tag = Head(chipQs[c]).tag
  BY <1>2, <1>3, StepTable
<1>7. chipBusy[c] = <<>>
  <2>1. chipBusy[c] # <<>> => StageRank(chipStages[c]) = 3
    BY DEF Control, AnswersAgree
  <2> QED
    BY <1>6, <2>1
<1>8. \A i \in 1..Len(Ops) : Ops[i] \in BusOpEntry /\ Ops[i].chip \in Chip
  BY OpAt
<1>9. OpsAgree'
  <2>1. ASSUME NEW i \in 1..Len(Ops) PROVE LET e == Ops[i] IN
             /\ chipQs[e.chip] # <<>> /\ chipBusy[e.chip] = <<>>
             /\ e.tag = Head(chipQs[e.chip]).tag
             /\ CommandOf(e.busOp) = Head(chipQs[e.chip]).op
             /\ Rank(e.busOp) <= StageRank(chipStages'[e.chip])
             /\ Rank(e.busOp) = 2 => nandOp[e.chip] = "idle"
    BY <1>4, <1>6, <1>8, Ranks DEF Control, OpsAgree
  <2>2. Rank(o.busOp) = 2 => nandOp[c] = "idle"
    BY <1>6 DEF Control, ChipsAgree
  <2>3. Rank(o.busOp) <= StageRank(chipStages'[c])
    BY <1>4, <1>6
  <2> QED
    BY <1>1, <1>4, <1>5, <1>6, <1>7, <2>1, <2>2, <2>3 DEF OpsAgree
<1>10. OpsOrdered'
  <2>1. ASSUME NEW i \in 1..Len(Ops), Ops[i].chip = c PROVE Rank(Ops[i].busOp) < Rank(o.busOp)
    BY <1>6, <2>1, Ranks DEF Control, OpsAgree
  <2> QED
    BY <1>5, <1>6, <2>1 DEF Control, OpsOrdered
<1>11. StagesAgree'
  BY <1>1, <1>2, <1>4 DEF Control, StagesAgree
<1>12. ChipsAgree'
  <2>1. ASSUME NEW d \in Chip, StartDue(d) PROVE StartDue(d)'
    BY <1>5, <2>1 DEF StartDue
  <2>2. Rank(o.busOp) = 2 => StartDue(c)'
    BY <1>5, <1>6 DEF StartDue
  <2>3. ASSUME NEW d \in Chip, d # c
        PROVE  /\ nandOp'[d] # "idle" => StageRank(chipStages'[d]) >= 2
               /\ StageRank(chipStages'[d]) >= 2 => StartDue(d)' \/ nandTag'[d] = Head(chipQs'[d]).tag
    BY <1>4, <2>1, <2>3 DEF Control, ChipsAgree
  <2>4. nandOp'[c] # "idle" => StageRank(chipStages'[c]) >= 2
    BY <1>4, <1>6 DEF Control, ChipsAgree
  <2>5. StageRank(chipStages'[c]) >= 2 => StartDue(c)' \/ nandTag'[c] = Head(chipQs'[c]).tag
    BY <1>4, <1>6, <2>1, <2>2 DEF Control, ChipsAgree
  <2> QED
    BY <2>3, <2>4, <2>5 DEF ChipsAgree
<1>13. AnswersAgree'
  BY <1>4, <1>7 DEF Control, AnswersAgree
<1>14. Moving'
  BY <1>4 DEF Control, Moving
<1> QED
  BY <1>9, <1>10, <1>11, <1>12, <1>13, <1>14 DEF Control

(* When the first operation ends, those left are the later ones. *)
LEMMA EndedFacts ==
  ASSUME MoreTypes, OpsAgree, OpsOrdered, Ops # <<>>, Ops' = Tail(Ops), NEW o, o = Head(Ops)
  PROVE  /\ o \in BusOpEntry /\ o.chip \in Chip
         /\ \A i \in 1..Len(Ops') : Ops'[i] = Ops[i + 1] /\ i + 1 \in 1..Len(Ops)
         /\ \A i \in 1..Len(Ops') : Ops'[i].chip = o.chip => Rank(o.busOp) < Rank(Ops'[i].busOp)
         /\ OpsOrdered'
         /\ \A d \in Chip : StartDue(d) => StartDue(d)' \/ (d = o.chip /\ Rank(o.busOp) = 2)
         /\ Rank(o.busOp) = 3 => ~StartDue(o.chip)
         /\ chipQs[o.chip] # <<>> /\ chipBusy[o.chip] = <<>> /\ o.tag = Head(chipQs[o.chip]).tag
         /\ CommandOf(o.busOp) = Head(chipQs[o.chip]).op
         /\ Rank(o.busOp) <= StageRank(chipStages[o.chip])
         /\ Rank(o.busOp) = 2 => nandOp[o.chip] = "idle"
<1>1. /\ Len(Ops) \in Nat /\ Len(Ops) > 0 /\ Ops[1] = o /\ o \in BusOpEntry
      /\ Len(Ops') = Len(Ops) - 1
      /\ \A i \in 1..Len(Ops') : Ops'[i] = Ops[i + 1]
  BY OpsEnded
<1>2. \A i \in 1..Len(Ops') : Ops'[i] = Ops[i + 1] /\ i + 1 \in 1..Len(Ops)
  BY <1>1
<1>3. \A i \in 1..Len(Ops') : Ops'[i].chip = o.chip => Rank(o.busOp) < Rank(Ops'[i].busOp)
  <2> TAKE i \in 1..Len(Ops')
  <2>1. Ops'[i] = Ops[i + 1] /\ i + 1 \in 1..Len(Ops) /\ 1 < i + 1 /\ 1 \in 1..Len(Ops)
    BY <1>1, <1>2
  <2> QED
    BY <1>1, <2>1 DEF OpsOrdered
<1>4. OpsOrdered'
  <2> SUFFICES ASSUME NEW i \in 1..Len(Ops'), NEW j \in 1..Len(Ops'), i < j, Ops'[i].chip = Ops'[j].chip
               PROVE  Rank(Ops'[i].busOp) < Rank(Ops'[j].busOp)
    BY DEF OpsOrdered
  <2>1. i + 1 < j + 1
    OBVIOUS
  <2> QED
    BY <1>2, <2>1 DEF OpsOrdered
<1>5. \A d \in Chip : StartDue(d) => StartDue(d)' \/ (d = o.chip /\ Rank(o.busOp) = 2)
  <2> SUFFICES ASSUME NEW d \in Chip, NEW i \in 1..Len(Ops), Ops[i].chip = d, Rank(Ops[i].busOp) = 2, i # 1
               PROVE  StartDue(d)'
    BY <1>1 DEF StartDue
  <2>1. i - 1 \in 1..Len(Ops') /\ Ops'[i - 1] = Ops[i]
    BY <1>1
  <2> QED
    BY <2>1 DEF StartDue
<1>6. Rank(o.busOp) = 3 => ~StartDue(o.chip)
  <2> SUFFICES ASSUME Rank(o.busOp) = 3, NEW i \in 1..Len(Ops), Ops[i].chip = o.chip, Rank(Ops[i].busOp) = 2
               PROVE  FALSE
    BY DEF StartDue
  <2>1. i # 1
    BY <1>1
  <2> QED
    BY <1>1, <2>1 DEF OpsOrdered
<1>7. 1 \in 1..Len(Ops)
  BY <1>1
<1>8. /\ chipQs[o.chip] # <<>> /\ chipBusy[o.chip] = <<>> /\ o.tag = Head(chipQs[o.chip]).tag
      /\ CommandOf(o.busOp) = Head(chipQs[o.chip]).op
      /\ Rank(o.busOp) <= StageRank(chipStages[o.chip])
      /\ Rank(o.busOp) = 2 => nandOp[o.chip] = "idle"
  BY <1>1, <1>7 DEF OpsAgree
<1>9. o.chip \in Chip
  BY <1>1 DEF BusOpEntry
<1> QED
  BY <1>1, <1>2, <1>3, <1>4, <1>5, <1>6, <1>8, <1>9

(* The operation that starts a chip ends. *)
LEMMA StartControl ==
  ASSUME MoreTypes, Control, NEW op, Start(op), Doing # "NONE", Rank(Doing) = 2,
         UNCHANGED <<chipR, cmdTagR, cmdOutQ, chipQs, chipStages, chipBusy>>
  PROVE  Control'
<1>1. Doing' = "NONE" /\ state' = "IDLE"
  BY DEF Start, Doing
<1>2. PICK o : o = [tag |-> cmdTagR, busOp |-> Doing, chip |-> chipR]
  OBVIOUS
<1>3. Ops # <<>> /\ Ops' = Tail(Ops) /\ o = Head(Ops)
  BY <1>1, <1>2, OpsTyped DEF Ops
<1>4. /\ \A i \in 1..Len(Ops') : Ops'[i] = Ops[i + 1] /\ i + 1 \in 1..Len(Ops)
      /\ \A i \in 1..Len(Ops') : Ops'[i].chip = o.chip => Rank(o.busOp) < Rank(Ops'[i].busOp)
      /\ OpsOrdered'
      /\ \A d \in Chip : StartDue(d) => StartDue(d)' \/ (d = o.chip /\ Rank(o.busOp) = 2)
      /\ chipBusy[o.chip] = <<>> /\ o.tag = Head(chipQs[o.chip]).tag
      /\ Rank(o.busOp) <= StageRank(chipStages[o.chip])
  BY <1>3, EndedFacts DEF Control
<1>5. o.tag = cmdTagR /\ o.chip = chipR /\ Rank(o.busOp) = 2
  BY <1>2
<1>6. \A d \in Chip : /\ nandOp'[d] = IF d = chipR THEN op ELSE nandOp[d]
                      /\ nandTag'[d] = IF d = chipR THEN cmdTagR ELSE nandTag[d]
  BY DEF Start, MoreTypes, TypeOK
<1>7. OpsAgree'
  <2> SUFFICES ASSUME NEW i \in 1..Len(Ops')
               PROVE  LET e == Ops'[i] IN
                 /\ chipQs[e.chip] # <<>> /\ chipBusy[e.chip] = <<>>
                 /\ e.tag = Head(chipQs[e.chip]).tag
                 /\ CommandOf(e.busOp) = Head(chipQs[e.chip]).op
                 /\ Rank(e.busOp) <= StageRank(chipStages[e.chip])
                 /\ Rank(e.busOp) = 2 => nandOp'[e.chip] = "idle"
    BY DEF OpsAgree
  <2>1. Ops'[i] = Ops[i + 1] /\ i + 1 \in 1..Len(Ops) /\ Ops[i + 1].chip \in Chip
    BY <1>4, OpAt
  <2>2. Ops[i + 1].chip = chipR => Rank(Ops[i + 1].busOp) # 2
    BY <1>4, <1>5, <2>1, Ranks
  <2> QED
    BY <1>6, <2>1, <2>2 DEF Control, OpsAgree
<1>8. StagesAgree'
  BY DEF Control, StagesAgree
<1>9. ChipsAgree'
  <2>1. ASSUME NEW d \in Chip, d # chipR
        PROVE  /\ nandOp'[d] # "idle" => StageRank(chipStages'[d]) >= 2
               /\ StageRank(chipStages'[d]) >= 2 => StartDue(d)' \/ nandTag'[d] = Head(chipQs'[d]).tag
    BY <1>4, <1>5, <1>6, <2>1 DEF Control, ChipsAgree
  <2>2. nandTag'[chipR] = Head(chipQs'[chipR]).tag /\ StageRank(chipStages'[chipR]) >= 2
    BY <1>4, <1>5, <1>6, Ranks DEF MoreTypes, TypeOK
  <2> QED
    BY <2>1, <2>2 DEF ChipsAgree
<1>10. AnswersAgree'
  <2> SUFFICES ASSUME NEW d \in Chip, chipBusy[d] # <<>>
               PROVE  /\ Len(chipBusy[d]) = 1
                      /\ StageRank(chipStages[d]) = 3
                      /\ ~Head(chipBusy[d]) => nandOp'[d] = "idle" /\ nandTag'[d] = Head(chipQs[d]).tag
    BY DEF AnswersAgree
  <2>1. d # chipR
    BY <1>4, <1>5
  <2>2. nandOp'[d] = nandOp[d] /\ nandTag'[d] = nandTag[d]
    BY <1>6, <2>1
  <2> QED
    BY <2>2 DEF Control, AnswersAgree
<1>11. Moving'
  BY <1>1 DEF Moving
<1> QED
  BY <1>4, <1>7, <1>8, <1>9, <1>10, <1>11 DEF Control

LEMMA LastTaken ==
  ASSUME NEW T, NEW q \in Seq(T), Len(q) = 1
  PROVE  Tail(q) = <<>>
<1>1. q # <<>>
  BY EmptySeq
<1>2. Tail(q) \in Seq(T) /\ Len(Tail(q)) = 0
  BY <1>1, Take
<1> QED
  BY <1>2, EmptySeq

(* The scoreboard takes in a command: the heads stay. *)
LEMMA PutControl ==
  ASSUME MoreTypes, Control, DoSBCmd
  PROVE  Control'
<1>1. PICK c \in Chip, cmd \in FlashCmd : chipQs' = Enq(chipQs, c, cmd)
  BY Take, CmdTyped DEF DoSBCmd, MoreTypes, TypeOK
<1>2. /\ UNCHANGED <<chipStages, chipBusy, cmdOutQ, state, chipR, cmdTagR, nandOp, nandTag>>
      /\ Doing' = Doing
  BY DEF DoSBCmd, bus, nand, Doing
<1>3. Ops' = Ops
  BY <1>2, OpsSame
<1>4. \A d \in Chip : chipQs[d] # <<>> => chipQs'[d] # <<>> /\ Head(chipQs'[d]) = Head(chipQs[d])
  BY <1>1, EnqHead DEF MoreTypes, TypeOK
<1>5. OpsAgree'
  BY <1>2, <1>3, <1>4, OpAt DEF Control, OpsAgree
<1>6. OpsOrdered' /\ Moving'
  BY <1>2, <1>3 DEF Control, OpsOrdered, Moving
<1>7. StagesAgree'
  BY <1>2, <1>4 DEF Control, StagesAgree
<1>8. \A d \in Chip : StageRank(chipStages[d]) >= 2 => chipQs[d] # <<>>
  BY DEF Control, StagesAgree, StageRank
<1>9. \A d \in Chip : StartDue(d)' <=> StartDue(d)
  BY <1>3 DEF StartDue
<1>10. ChipsAgree'
  BY <1>2, <1>4, <1>8, <1>9 DEF Control, ChipsAgree
<1>11. AnswersAgree'
  <2>1. \A d \in Chip : chipBusy[d] # <<>> => StageRank(chipStages[d]) >= 2
    <3> TAKE d \in Chip
    <3>1. chipBusy[d] # <<>> => StageRank(chipStages[d]) = 3
      BY DEF Control, AnswersAgree
    <3> QED
      BY <3>1
  <2> QED
    BY <1>2, <1>4, <1>8, <2>1 DEF Control, AnswersAgree
<1> QED
  BY <1>5, <1>6, <1>7, <1>10, <1>11 DEF Control

(* The scoreboard takes an answer: the chip has no operation left. *)
LEMMA AnswerControl ==
  ASSUME MoreTypes, Control, TakeStatus
  PROVE  Control'
<1>1. PICK c \in Chip : c = currChip /\ chipQs[c] # <<>> /\ chipBusy[c] # <<>> /\ Head(chipQs[c]) \in FlashCmd
  BY Take DEF TakeStatus, Served, MoreTypes, TypeOK, FifoFamily
<1>2. /\ UNCHANGED <<cmdOutQ, state, chipR, cmdTagR, nandOp, nandTag>>
      /\ Doing' = Doing
  BY DEF TakeStatus, bus, nand, Doing
<1>3. Ops' = Ops
  BY <1>2, OpsSame
<1>4. StageRank(chipStages[c]) = 3 /\ Len(chipBusy[c]) = 1
      /\ (~Head(chipBusy[c]) => nandOp[c] = "idle" /\ nandTag[c] = Head(chipQs[c]).tag)
  BY <1>1 DEF Control, AnswersAgree
<1>5. \A i \in 1..Len(Ops) : Ops[i].chip # c
  BY <1>1 DEF Control, OpsAgree
<1>6. /\ chipBusy'[c] = <<>>
      /\ \A d \in Chip \ {c} : chipQs'[d] = chipQs[d] /\ chipStages'[d] = chipStages[d] /\ chipBusy'[d] = chipBusy[d]
  <2>1. chipBusy'[c] = Tail(chipBusy[c])
    BY <1>1 DEF TakeStatus, Deq, MoreTypes, TypeOK, FifoFamily
  <2>2. Tail(chipBusy[c]) = <<>>
    <3>1. chipBusy[c] \in Seq(BOOLEAN)
      BY DEF MoreTypes, TypeOK, FifoFamily
    <3> QED
      BY <1>4, <3>1, LastTaken
  <2>3. \A d \in Chip \ {c} : chipQs'[d] = chipQs[d] /\ chipStages'[d] = chipStages[d] /\ chipBusy'[d] = chipBusy[d]
    BY <1>1 DEF TakeStatus, Deq, MoreTypes, TypeOK, FifoFamily
  <2> QED
    BY <2>1, <2>2, <2>3
<1>7. \/ /\ chipStages'[c] = "INIT" /\ nandOp[c] = "idle"
      \/ /\ chipStages'[c] = PollStage(Head(chipQs[c]).op) /\ chipQs'[c] = chipQs[c]
  <2>1. CASE Head(chipBusy[c])
    <3>1. Head(chipBusy[currChip])
      BY <1>1, <2>1
    <3>2. chipStages' = [chipStages EXCEPT ![currChip] = PollStage(Req.op)] /\ UNCHANGED chipQs
      BY <3>1 DEF TakeStatus
    <3> QED
      BY <1>1, <3>2 DEF Req, MoreTypes, TypeOK
  <2>2. CASE ~Head(chipBusy[c])
    <3>1. ~Head(chipBusy[currChip])
      BY <1>1, <2>2
    <3>2. chipStages' = [chipStages EXCEPT ![currChip] = "INIT"]
      BY <3>1 DEF TakeStatus
    <3> QED
      BY <1>1, <1>4, <2>2, <3>2 DEF MoreTypes, TypeOK
  <2> QED
    BY <2>1, <2>2
<1>8. StageRank("INIT") = 0
  BY DEF StageRank
<1>9. LET o == Head(chipQs[c]).op
      IN StageRank(PollStage(o)) = 2 /\ \E s \in StepsOf : s[1] = o /\ s[4] = PollStage(o)
  <2>1. PICK o \in FlashOp : o = Head(chipQs[c]).op
    BY <1>1, CmdTyped
  <2>2. CASE o = "READ_PAGE"
    <3>1. PollStage(o) = "RD_ISSUED"
      BY <2>2 DEF PollStage
    <3>2. <<"READ_PAGE", "INIT", "READ_CMD", "RD_ISSUED", TRUE>> \in StepsOf
      BY DEF StepsOf
    <3> QED
      BY <2>1, <2>2, <3>1, <3>2 DEF StageRank
  <2>3. CASE o = "WRITE_PAGE"
    <3>1. PollStage(o) = "WR_ISSUED"
      BY <2>3 DEF PollStage
    <3>2. <<"WRITE_PAGE", "WR_BUF_REQ_ISSUED", "WRITE_CMD_DATA", "WR_ISSUED", TRUE>> \in StepsOf
      BY DEF StepsOf
    <3> QED
      BY <2>1, <2>3, <3>1, <3>2 DEF StageRank
  <2>4. CASE o = "ERASE_BLOCK"
    <3>1. PollStage(o) = "ER_ISSUED"
      BY <2>4 DEF PollStage
    <3>2. <<"ERASE_BLOCK", "INIT", "ERASE_CMD", "ER_ISSUED", TRUE>> \in StepsOf
      BY DEF StepsOf
    <3> QED
      BY <2>1, <2>4, <3>1, <3>2 DEF StageRank
  <2> QED
    BY <2>2, <2>3, <2>4 DEF FlashOp
<1>10. OpsAgree'
  <2>1. \A i \in 1..Len(Ops) : Ops[i].chip \in Chip \ {c}
    BY <1>5, OpAt
  <2> QED
    BY <1>2, <1>3, <1>6, <2>1 DEF Control, OpsAgree
<1>11. OpsOrdered' /\ Moving'
  BY <1>2, <1>3 DEF Control, OpsOrdered, Moving
<1>12. StagesAgree'
  <2>1. ASSUME NEW d \in Chip \ {c}, chipStages'[d] # "INIT"
        PROVE  chipQs'[d] # <<>> /\ \E s \in StepsOf : s[1] = Head(chipQs'[d]).op /\ s[4] = chipStages'[d]
    BY <1>6, <2>1 DEF Control, StagesAgree
  <2>2. ASSUME chipStages'[c] # "INIT"
        PROVE  chipQs'[c] # <<>> /\ \E s \in StepsOf : s[1] = Head(chipQs'[c]).op /\ s[4] = chipStages'[c]
    BY <1>1, <1>7, <1>9, <2>2
  <2> QED
    BY <2>1, <2>2 DEF StagesAgree
<1>13. \A d \in Chip : StartDue(d)' <=> StartDue(d)
  BY <1>3 DEF StartDue
<1>14. ChipsAgree'
  <2>1. ASSUME NEW d \in Chip \ {c}
        PROVE  /\ nandOp'[d] # "idle" => StageRank(chipStages'[d]) >= 2
               /\ StageRank(chipStages'[d]) >= 2 => StartDue(d)' \/ nandTag'[d] = Head(chipQs'[d]).tag
    BY <1>2, <1>6, <1>13 DEF Control, ChipsAgree
  <2>2. /\ nandOp'[c] # "idle" => StageRank(chipStages'[c]) >= 2
        /\ StageRank(chipStages'[c]) >= 2 => StartDue(c)' \/ nandTag'[c] = Head(chipQs'[c]).tag
    <3>1. StartDue(c) \/ nandTag[c] = Head(chipQs[c]).tag
      <4>1. StageRank(chipStages[c]) >= 2
        <5>1. StageRank(chipStages[c]) = 3
          BY <1>4
        <5> QED
          BY <5>1
      <4> QED
        BY <4>1 DEF Control, ChipsAgree
    <3>2. CASE chipStages'[c] = "INIT" /\ nandOp[c] = "idle"
      BY <1>2, <1>8, <3>2
    <3>3. CASE chipStages'[c] = PollStage(Head(chipQs[c]).op) /\ chipQs'[c] = chipQs[c]
      <4>1. StageRank(chipStages'[c]) = 2
        BY <1>9, <3>3
      <4> QED
        BY <1>2, <1>13, <3>1, <3>3, <4>1
    <3> QED
      BY <1>7, <3>2, <3>3
  <2> QED
    BY <2>1, <2>2 DEF ChipsAgree
<1>15. AnswersAgree'
  BY <1>2, <1>6 DEF Control, AnswersAgree
<1> QED
  BY <1>10, <1>11, <1>12, <1>14, <1>15 DEF Control

(* A poll is answered: the chip's operations are over, and a chip found     *)
(* ready is left so while its data moves.                                  *)
LEMMA PollControl ==
  ASSUME MoreTypes, Control, DoGetStatus
  PROVE  Control'
<1>1. /\ Doing # "NONE" /\ Rank(Doing) = 3 /\ Doing' = "NONE" /\ cmdTagR \in Tag
      /\ state' \in {"IDLE", "READ_DATA_WAIT_BUF"}
      /\ (state' = "READ_DATA_WAIT_BUF" => nandOp[chipR] = "idle")
  BY DEF DoGetStatus, Doing, Rank, StillBusy, MoreTypes
<1>2. UNCHANGED <<cmdOutQ, chipQs, chipStages, chipR, cmdTagR, nandOp, nandTag>>
  BY DEF DoGetStatus, nand
<1>3. PICK o : o = [tag |-> cmdTagR, busOp |-> Doing, chip |-> chipR]
  OBVIOUS
<1>4. o.tag = cmdTagR /\ o.chip = chipR /\ Rank(o.busOp) = 3
  BY <1>1, <1>3
<1>5. Ops # <<>> /\ Ops' = Tail(Ops) /\ o = Head(Ops)
  BY <1>1, <1>2, <1>3, OpsTyped DEF Ops
<1>6. /\ \A i \in 1..Len(Ops') : Ops'[i] = Ops[i + 1] /\ i + 1 \in 1..Len(Ops)
      /\ \A i \in 1..Len(Ops') : Ops'[i].chip = o.chip => Rank(o.busOp) < Rank(Ops'[i].busOp)
      /\ OpsOrdered'
      /\ \A d \in Chip : StartDue(d) => StartDue(d)' \/ (d = o.chip /\ Rank(o.busOp) = 2)
      /\ ~StartDue(chipR)
      /\ chipQs[chipR] # <<>> /\ chipBusy[chipR] = <<>> /\ o.tag = Head(chipQs[chipR]).tag
      /\ Rank(o.busOp) <= StageRank(chipStages[chipR])
  BY <1>4, <1>5, EndedFacts DEF Control
<1>7. StageRank(chipStages[chipR]) = 3 /\ StageRank(chipStages[chipR]) >= 2
  BY <1>4, <1>6, Ranks
<1>8. chipR \in Chip /\ nandTag[chipR] = cmdTagR
  <2>1. chipR \in Chip
    BY DEF MoreTypes, TypeOK
  <2> QED
    BY <1>4, <1>6, <1>7, <2>1 DEF Control, ChipsAgree
<1>9. PICK b \in BOOLEAN : b = StillBusy
  BY DEF StillBusy
<1>10. /\ Len(chipBusy'[chipR]) = 1 /\ Head(chipBusy'[chipR]) = b
       /\ \A d \in Chip \ {chipR} : chipBusy'[d] = chipBusy[d]
  <2>1. chipBusy' = Enq(chipBusy, chipR, b) /\ chipBusy \in [Chip -> Seq(BOOLEAN)]
    BY <1>9 DEF DoGetStatus, MoreTypes, TypeOK, FifoFamily
  <2>2. chipBusy'[chipR] = <<b>>
    BY <1>6, <1>8, <2>1 DEF Enq
  <2>3. \A d \in Chip \ {chipR} : chipBusy'[d] = chipBusy[d]
    BY <2>1 DEF Enq
  <2> QED
    BY <2>2, <2>3
<1>11. OpsAgree'
  <2> SUFFICES ASSUME NEW i \in 1..Len(Ops')
               PROVE  LET e == Ops'[i] IN
                 /\ chipQs[e.chip] # <<>> /\ chipBusy'[e.chip] = <<>>
                 /\ e.tag = Head(chipQs[e.chip]).tag
                 /\ CommandOf(e.busOp) = Head(chipQs[e.chip]).op
                 /\ Rank(e.busOp) <= StageRank(chipStages[e.chip])
                 /\ Rank(e.busOp) = 2 => nandOp[e.chip] = "idle"
    BY <1>2 DEF OpsAgree
  <2>1. Ops'[i] = Ops[i + 1] /\ i + 1 \in 1..Len(Ops) /\ Ops[i + 1].chip \in Chip
    BY <1>6, OpAt
  <2>2. Ops[i + 1].chip # chipR
    BY <1>4, <1>6, <2>1, Ranks
  <2> QED
    BY <1>10, <2>1, <2>2 DEF Control, OpsAgree
<1>12. StagesAgree'
  BY <1>2 DEF Control, StagesAgree
<1>13. ChipsAgree'
  <2>1. \A d \in Chip : StartDue(d) => StartDue(d)'
    BY <1>4, <1>6
  <2> QED
    BY <1>2, <2>1 DEF Control, ChipsAgree
<1>14. AnswersAgree'
  <2>1. ASSUME NEW d \in Chip \ {chipR}, chipBusy'[d] # <<>>
        PROVE  /\ Len(chipBusy'[d]) = 1
               /\ StageRank(chipStages'[d]) = 3
               /\ ~Head(chipBusy'[d]) => nandOp'[d] = "idle" /\ nandTag'[d] = Head(chipQs'[d]).tag
    BY <1>2, <1>10, <2>1 DEF Control, AnswersAgree
  <2>2. /\ Len(chipBusy'[chipR]) = 1
        /\ StageRank(chipStages'[chipR]) = 3
        /\ ~Head(chipBusy'[chipR]) => nandOp'[chipR] = "idle" /\ nandTag'[chipR] = Head(chipQs'[chipR]).tag
    <3>1. ~b => nandOp[chipR] = "idle"
      BY <1>9 DEF StillBusy
    <3> QED
      BY <1>2, <1>4, <1>6, <1>7, <1>8, <1>10, <3>1
  <2> QED
    BY <2>1, <2>2 DEF AnswersAgree
<1>15. Moving'
  BY <1>1, <1>2, <1>8 DEF Moving
<1> QED
  BY <1>6, <1>11, <1>12, <1>13, <1>14, <1>15 DEF Control

(* The bus takes the next operation: it is carried out, or it asked for a   *)
(* page and is over.                                                       *)
LEMMA DecodeControl ==
  ASSUME MoreTypes, Control, DoDecodeCmd
  PROVE  Control'
<1>1. PICK o \in BusOpEntry : o = Head(cmdOutQ)
  BY Take, OpsTyped DEF DoDecodeCmd
<1>2. Doing = "NONE" /\ Ops = cmdOutQ /\ Ops # <<>> /\ cmdOutQ' = Tail(Ops) /\ o = Head(Ops)
  <2>1. Doing = "NONE"
    BY DEF DoDecodeCmd, Doing
  <2> QED
    BY <1>1, <2>1, OpsTyped DEF DoDecodeCmd
<1>3. /\ UNCHANGED <<chipQs, chipStages, chipBusy, nandOp, nandTag>>
      /\ cmdTagR' = o.tag /\ chipR' = o.chip
  BY <1>1 DEF DoDecodeCmd, nand
<1>4. state' \notin {"READ_DATA_WAIT_BUF", "READ_DATA"}
      /\ Doing' = IF o.busOp = "WRITE_DATA_BUF_REQ" THEN "NONE" ELSE o.busOp
  <2>1. o.busOp \in BusOp
    BY <1>1 DEF BusOpEntry
  <2> QED
    BY <1>1, <2>1 DEF DoDecodeCmd, Doing, BusOp
<1>5. Moving'
  BY <1>4 DEF Moving
<1>6. CASE o.busOp = "WRITE_DATA_BUF_REQ"
  <2>1. Ops' = Tail(Ops)
    BY <1>2, <1>4, <1>6 DEF Ops
  <2>2. Rank(o.busOp) = 1
    BY <1>6 DEF Rank
  <2>3. /\ \A i \in 1..Len(Ops') : Ops'[i] = Ops[i + 1] /\ i + 1 \in 1..Len(Ops)
        /\ OpsOrdered'
        /\ \A d \in Chip : StartDue(d) => StartDue(d)' \/ (d = o.chip /\ Rank(o.busOp) = 2)
    BY <1>2, <2>1, EndedFacts DEF Control
  <2>4. OpsAgree'
    BY <1>3, <2>3 DEF Control, OpsAgree
  <2>5. ChipsAgree'
    <3>1. \A d \in Chip : StartDue(d) => StartDue(d)'
      BY <2>2, <2>3
    <3> QED
      BY <1>3, <3>1 DEF Control, ChipsAgree
  <2>6. StagesAgree' /\ AnswersAgree'
    BY <1>3 DEF Control, StagesAgree, AnswersAgree
  <2> QED
    BY <1>5, <2>3, <2>4, <2>5, <2>6 DEF Control
<1>7. CASE o.busOp # "WRITE_DATA_BUF_REQ"
  <2>1. Ops' = Ops
    <3>1. o.busOp # "NONE"
      BY <1>1 DEF BusOpEntry, BusOp
    <3>2. [tag |-> cmdTagR', busOp |-> Doing', chip |-> chipR'] = o
      BY <1>1, <1>3, <1>4, <1>7 DEF BusOpEntry
    <3>3. Ops' = <<o>> \o Tail(Ops)
      BY <1>2, <1>4, <1>7, <3>1, <3>2 DEF Ops
    <3>4. Ops \in Seq(BusOpEntry) /\ <<o>> \in Seq(BusOpEntry)
      BY OpsTyped
    <3>5. /\ Tail(Ops) \in Seq(BusOpEntry) /\ Len(Ops) \in Nat /\ Len(Ops) > 0 /\ Ops[1] = o
          /\ Len(Tail(Ops)) = Len(Ops) - 1
          /\ \A i \in 1..Len(Tail(Ops)) : Tail(Ops)[i] = Ops[i + 1]
      BY <1>2, <3>4, Take
    <3>6. Len(<<o>>) = 1 /\ <<o>>[1] = o
      OBVIOUS
    <3>7. /\ Ops' \in Seq(BusOpEntry) /\ Len(Ops') = Len(<<o>>) + Len(Tail(Ops))
          /\ \A i \in 1..(Len(<<o>>) + Len(Tail(Ops))) :
                Ops'[i] = IF i <= Len(<<o>>) THEN <<o>>[i] ELSE Tail(Ops)[i - Len(<<o>>)]
      BY <3>3, <3>4, <3>5, ConcatProperties
    <3>8. Len(Ops') = Len(Ops) /\ \A i \in 1..Len(Ops') : Ops'[i] = Ops[i]
      <4>1. Len(Ops') = Len(Ops)
        BY <3>5, <3>6, <3>7
      <4>2. ASSUME NEW i \in 1..Len(Ops) PROVE Ops'[i] = Ops[i]
        <5>1. CASE i = 1
          BY <3>5, <3>6, <3>7, <5>1
        <5>2. CASE i # 1
          <6>1. i - 1 \in 1..Len(Tail(Ops)) /\ Ops'[i] = Tail(Ops)[i - 1]
            BY <3>5, <3>6, <3>7, <5>2
          <6> QED
            BY <3>5, <6>1
        <5> QED
          BY <5>1, <5>2
      <4> QED
        BY <4>1, <4>2
    <3> QED
      BY <3>4, <3>7, <3>8, SeqEqual
  <2>2. OpsAgree' /\ OpsOrdered'
    BY <1>3, <2>1 DEF Control, OpsAgree, OpsOrdered
  <2>3. \A d \in Chip : StartDue(d)' <=> StartDue(d)
    BY <2>1 DEF StartDue
  <2>4. StagesAgree' /\ ChipsAgree' /\ AnswersAgree'
    BY <1>3, <2>3 DEF Control, StagesAgree, ChipsAgree, AnswersAgree
  <2> QED
    BY <1>5, <2>2, <2>4 DEF Control
<1> QED
  BY <1>6, <1>7

(* The other steps leave the operations alone. *)
LEMMA ElseControl ==
  ASSUME MoreTypes, Control, DoReadDataWaitBuf \/ DoReadData \/ DoWriteDataWait
  PROVE  Control'
<1>1. /\ UNCHANGED <<cmdOutQ, chipQs, chipStages, chipBusy, chipR, cmdTagR, nandOp, nandTag>>
      /\ Doing' = Doing
      /\ state' \in {"READ_DATA_WAIT_BUF", "READ_DATA"} => state \in {"READ_DATA_WAIT_BUF", "READ_DATA"}
  BY DEF DoReadDataWaitBuf, DoReadData, DoWriteDataWait, board, nand, Doing
<1>2. Ops' = Ops
  BY <1>1, OpsSame
<1>3. OpsAgree' /\ OpsOrdered'
  BY <1>1, <1>2 DEF Control, OpsAgree, OpsOrdered
<1>4. \A d \in Chip : StartDue(d)' <=> StartDue(d)
  BY <1>2 DEF StartDue
<1>5. StagesAgree' /\ ChipsAgree' /\ AnswersAgree' /\ Moving'
  BY <1>1, <1>4 DEF Control, StagesAgree, ChipsAgree, AnswersAgree, Moving
<1> QED
  BY <1>3, <1>5 DEF Control

LEMMA DoneControl ==
  ASSUME MoreTypes, Control, NEW c \in Chip, NandDone(c)
  PROVE  Control'
<1>1. /\ UNCHANGED <<cmdOutQ, chipQs, chipStages, chipBusy, state, chipR, cmdTagR, nandTag>>
      /\ Doing' = Doing
      /\ \A d \in Chip : nandOp'[d] = IF d = c THEN "idle" ELSE nandOp[d]
  BY DEF NandDone, board, bus, Doing, MoreTypes, TypeOK
<1>2. Ops' = Ops
  BY <1>1, OpsSame
<1>3. OpsAgree' /\ OpsOrdered'
  BY <1>1, <1>2, OpAt DEF Control, OpsAgree, OpsOrdered
<1>4. \A d \in Chip : StartDue(d)' <=> StartDue(d)
  BY <1>2 DEF StartDue
<1>5. ChipsAgree'
  BY <1>1, <1>4 DEF Control, ChipsAgree
<1>6. StagesAgree' /\ AnswersAgree'
  BY <1>1 DEF Control, StagesAgree, AnswersAgree
<1>7. Moving'
  BY <1>1 DEF Control, Moving, MoreTypes, TypeOK
<1> QED
  BY <1>3, <1>5, <1>6, <1>7 DEF Control

LEMMA IdleControl ==
  ASSUME MoreTypes, Control,
         UNCHANGED <<cmdOutQ, chipQs, chipStages, chipBusy, state, chipR, cmdTagR, nandOp, nandTag>>
  PROVE  Control'
<1>1. Doing' = Doing
  BY DEF Doing
<1>2. Ops' = Ops
  BY <1>1, OpsSame
<1>3. OpsAgree' /\ OpsOrdered'
  BY <1>2 DEF Control, OpsAgree, OpsOrdered
<1>4. \A d \in Chip : StartDue(d)' <=> StartDue(d)
  BY <1>2 DEF StartDue
<1>5. StagesAgree' /\ ChipsAgree' /\ AnswersAgree' /\ Moving'
  BY <1>4 DEF Control, StagesAgree, ChipsAgree, AnswersAgree, Moving
<1> QED
  BY <1>3, <1>5 DEF Control

LEMMA ControlInit == Init => Control
<1> SUFFICES ASSUME Init PROVE Control
  OBVIOUS
<1>1. Ops = <<>> /\ Len(Ops) = 0
  BY DEF Init, Ops, Doing
<1>2. OpsAgree /\ OpsOrdered
  BY <1>1 DEF OpsAgree, OpsOrdered
<1>3. StageRank("INIT") = 0
  BY DEF StageRank
<1>4. ChipsAgree
  <2>1. \A c \in Chip : chipStages[c] = "INIT" /\ nandOp[c] = "idle"
    BY DEF Init
  <2>2. \A c \in Chip : StageRank(chipStages[c]) = 0
    BY <1>3, <2>1
  <2> QED
    BY <2>1, <2>2 DEF ChipsAgree
<1>5. StagesAgree /\ AnswersAgree /\ Moving
  BY DEF Init, StagesAgree, AnswersAgree, Moving
<1> QED
  BY <1>2, <1>4, <1>5 DEF Control

LEMMA ControlStep ==
  ASSUME MoreTypes, Control, [Next]_vars
  PROVE  Control'
<1>1. CASE DoSBCmd
  BY <1>1, PutControl
<1>2. CASE Scoreboard
  <2>1. CASE IssueStep
    BY <2>1, IssueControl
  <2>2. CASE TakeStatus
    BY <2>2, AnswerControl
  <2>3. CASE DoChooseChip
    <3>1. UNCHANGED <<cmdOutQ, chipQs, chipStages, chipBusy, state, chipR, cmdTagR, nandOp, nandTag>>
      BY <2>3 DEF DoChooseChip, bus, nand
    <3> QED
      BY <3>1, IdleControl
  <2>4. CASE AwaitData
    <3>1. UNCHANGED <<cmdOutQ, chipQs, chipStages, chipBusy, state, chipR, cmdTagR, nandOp, nandTag>>
      BY <2>4 DEF AwaitData, bus, nand
    <3> QED
      BY <3>1, IdleControl
  <2> QED
    BY <1>2, <2>1, <2>2, <2>3, <2>4 DEF Scoreboard
<1>3. CASE BusController
  <2>1. CASE DoDecodeCmd
    BY <2>1, DecodeControl
  <2>2. CASE DoReadPage \/ DoEraseBlock \/ DoWriteDone
    <3>1. Doing # "NONE" /\ Rank(Doing) = 2
      BY <2>2 DEF DoReadPage, DoEraseBlock, DoWriteDone, Doing, Rank
    <3>2. UNCHANGED <<chipR, cmdTagR, cmdOutQ, chipQs, chipStages, chipBusy>>
      BY <2>2 DEF DoReadPage, DoEraseBlock, DoWriteDone, board
    <3>3. \E op \in {"reading", "erasing", "programming"} : Start(op)
      BY <2>2 DEF DoReadPage, DoEraseBlock, DoWriteDone
    <3> QED
      BY <3>1, <3>2, <3>3, StartControl
  <2>3. CASE DoGetStatus
    BY <2>3, PollControl
  <2>4. CASE DoReadDataWaitBuf \/ DoReadData \/ DoWriteDataWait
    BY <2>4, ElseControl
  <2>5. CASE DoWritePageData
    <3>1. UNCHANGED <<cmdOutQ, chipQs, chipStages, chipBusy, state, chipR, cmdTagR, nandOp, nandTag>>
      BY <2>5 DEF DoWritePageData, board
    <3> QED
      BY <3>1, IdleControl
  <2> QED
    BY <1>3, <2>1, <2>2, <2>3, <2>4, <2>5 DEF BusController
<1>4. CASE \E c \in Chip : NandDone(c)
  BY <1>4, DoneControl
<1>5. CASE PageBuffer \/ ReadPath
  <2>1. UNCHANGED <<cmdOutQ, chipQs, chipStages, chipBusy, state, chipR, cmdTagR, nandOp, nandTag>>
    <3>1. CASE PageBuffer
      BY <3>1 DEF PageBuffer, DoHandleWriteDataReq, DoWriteFetchWait, WriteWord, DoWriteBufTransfer,
                  DoWriteDataTransferReq, DoWriteDataTransferToBus, board, bus, nand
    <3>2. CASE ReadPath
      BY <3>2 DEF ReadPath, DoDecode, ReadWord, board, bus, nand
    <3> QED
      BY <1>5, <3>1, <3>2
  <2> QED
    BY <2>1, IdleControl
<1>6. CASE SetWriteDataRdy \/ AckStatus \/ (\E c \in Chip : TimerExpires(c))
           \/ (\E cmd \in FlashCmd : SendCmd(cmd)) \/ UNCHANGED vars
  <2>1. UNCHANGED <<cmdOutQ, chipQs, chipStages, chipBusy, state, chipR, cmdTagR, nandOp, nandTag>>
    <3>1. CASE SetWriteDataRdy
      BY <3>1 DEF SetWriteDataRdy, board, bus, nand
    <3>2. CASE AckStatus
      BY <3>2 DEF AckStatus, board, bus, nand
    <3>3. CASE \E c \in Chip : TimerExpires(c)
      BY <3>3 DEF TimerExpires, bus, nand
    <3>4. CASE \E cmd \in FlashCmd : SendCmd(cmd)
      BY <3>4 DEF SendCmd, board, bus, nand
    <3>5. CASE UNCHANGED vars
      BY <3>5 DEF vars, board, bus, nand
    <3> QED
      BY <1>6, <3>1, <3>2, <3>3, <3>4, <3>5
  <2> QED
    BY <2>1, IdleControl
<1> QED
  BY <1>1, <1>2, <1>3, <1>4, <1>5, <1>6 DEF Next

(* The operations of the bus, the scoreboard's stages and timers, its polls *)
(* and the chips always agree on what each chip is doing: what doServiceReq *)
(* and doDecodeCmd rely on without a check.                                *)
THEOREM FlashBusControl == Spec => [](MoreTypes /\ Control)
<1>1. MoreTypes /\ Control /\ [Next]_vars => (MoreTypes /\ Control)'
  BY TypesStep, ControlStep DEF Control
<1> QED
  BY <1>1, TypesInit, ControlInit, PTL DEF Spec

(* Every register and FIFO of the bus holds what its declaration says. *)
THEOREM FlashBusTypeCorrect == Spec => []TypeOK
<1>1. MoreTypes => TypeOK
  BY DEF MoreTypes
<1> QED
  BY <1>1, FlashBusControl, PTL

(* The operation in progress is the oldest of its chip's. *)
LEMMA NotDisturbed ==
  ASSUME MoreTypes, Control
  PROVE  ChipNotDisturbed
<1> SUFFICES ASSUME MoreTypes, Control,
                    state \in {"READ_PAGE_REQ", "WRITE_PAGE_WAIT", "WRITE_PAGE", "ERASE_BLOCK",
                               "READ_DATA_WAIT_BUF", "READ_DATA"}
             PROVE  nandOp[chipR] = "idle"
  BY DEF ChipNotDisturbed
<1>1. CASE state \in {"READ_DATA_WAIT_BUF", "READ_DATA"}
  BY <1>1 DEF Control, Moving
<1>2. CASE state \in {"READ_PAGE_REQ", "WRITE_PAGE_WAIT", "WRITE_PAGE", "ERASE_BLOCK"}
  <2>1. Doing # "NONE" /\ Rank(Doing) = 2
    BY <1>2 DEF Doing, Rank
  <2>2. PICK o : o = [tag |-> cmdTagR, busOp |-> Doing, chip |-> chipR]
    OBVIOUS
  <2>3. Ops \in Seq(BusOpEntry) /\ Ops # <<>> /\ Head(Ops) = o /\ Len(Ops) > 0 /\ Ops[1] = o
    BY <2>1, <2>2, OpsTyped, Take
  <2>4. o.chip = chipR /\ Rank(o.busOp) = 2 /\ 1 \in 1..Len(Ops)
    BY <2>1, <2>2, <2>3, LenProperties
  <2> QED
    BY <2>3, <2>4 DEF Control, OpsAgree
<1> QED
  BY <1>1, <1>2

(* doServiceReq never lets two commands of a chip overlap on the bus,       *)
(* however many chips share it.                                            *)
THEOREM ChipsUndisturbed == Spec => []ChipNotDisturbed
<1>1. MoreTypes /\ Control => ChipNotDisturbed
  BY NotDisturbed
<1> QED
  BY <1>1, FlashBusControl, PTL

-----------------------------------------------------------------------------
(* Reading.  The bus is in the middle of a page. *)
Started == state = "READ_DATA" /\ dataCnt > 0

(* The tag and the place of the k-th word on its way to the host. *)
Expected(k) ==
  LET pos == rdWdCnt + k - 1
  IN IF pos < PageWords THEN <<readTagQ[1], pos>> ELSE <<readTagQ[2], pos - PageWords>>

(* At most two pages are on their way, whole but for the words given to the *)
(* host and those that the burst has not read yet.                         *)
PagesOnTheWay ==
  /\ Len(readTagQ) <= 2
  /\ Len(decodeOutQ) <= PageWords
  /\ rdWdCnt + Len(decodeOutQ) + Len(decodeInQ)
       = IF Started THEN PageWords * (Len(readTagQ) - 1) + dataCnt ELSE PageWords * Len(readTagQ)
  /\ Started => Len(readTagQ) > 0 /\ readTagQ[Len(readTagQ)] = cmdTagR
  /\ state = "READ_DATA" => Len(decodeInQ) <= dataCnt
  /\ state # "READ_ERROR"
WordsInPlace ==
  /\ \A k \in 1..Len(decodeOutQ) : decodeOutQ[k] = Expected(k)
  /\ \A k \in 1..Len(decodeInQ) : decodeInQ[k] = Expected(Len(decodeOutQ) + k)
Reads == PagesOnTheWay /\ WordsInPlace

LEMMA ReadsTyped ==
  ASSUME MoreTypes
  PROVE  /\ readTagQ \in Seq(Tag) /\ decodeInQ \in Seq(Word) /\ decodeOutQ \in Seq(Word)
         /\ Len(readTagQ) \in Nat /\ Len(decodeInQ) \in Nat /\ Len(decodeOutQ) \in Nat
         /\ rdWdCnt \in 0..(PageWords - 1) /\ dataCnt \in 0..PageWords
         /\ PageWords \in Nat /\ PageWords > 1
         /\ PageWords * 0 = 0 /\ PageWords * 1 = PageWords /\ PageWords * 2 = PageWords + PageWords
<1>1. readTagQ \in Seq(Tag) /\ decodeInQ \in Seq(Word) /\ decodeOutQ \in Seq(Word)
  BY DEF MoreTypes, TypeOK
<1>2. rdWdCnt \in 0..(PageWords - 1) /\ dataCnt \in 0..PageWords
  BY DEF MoreTypes, TypeOK
<1> QED
  BY <1>1, <1>2, Sizes, LenProperties

(* A burst waits for the buffer to be empty; then at most one page is on   *)
(* its way.                                                                *)
LEMMA BurstReads ==
  ASSUME MoreTypes, Moving, Reads, DoReadData
  PROVE  Reads'
<1>1. PICK a \in Nat, b \in Nat, p \in Nat, r \in 0..(PageWords - 1), d \in 0..(PageWords - 1) :
        a = Len(decodeOutQ) /\ b = Len(decodeInQ) /\ p = Len(readTagQ) /\ r = rdWdCnt /\ d = dataCnt
  BY ReadsTyped DEF DoReadData, MoreTypes
<1>2. /\ PageWords \in Nat /\ PageWords > 1 /\ PageWords * 0 = 0 /\ PageWords * 1 = PageWords
      /\ PageWords * 2 = PageWords + PageWords
  BY ReadsTyped
<1>3. p \in {0, 1, 2} /\ a <= PageWords /\ b <= d
  BY <1>1 DEF Reads, PagesOnTheWay, DoReadData
<1>4. r + a + b = IF d > 0 THEN PageWords * (p - 1) + d ELSE PageWords * p
  BY <1>1 DEF Reads, PagesOnTheWay, DoReadData, Started
<1>5. cmdTagR \in Tag /\ nandTag[chipR] = cmdTagR
  BY DEF Moving, DoReadData
<1>6. ~(b > PageWords)
  BY <1>2, <1>3
<1>7. /\ readTagQ' = IF d = 0 THEN Append(readTagQ, cmdTagR) ELSE readTagQ
      /\ decodeInQ' = Append(decodeInQ, <<cmdTagR, d>>)
      /\ dataCnt' = d + 1 /\ decodeOutQ' = decodeOutQ /\ rdWdCnt' = r /\ cmdTagR' = cmdTagR
      /\ state' = IF d = PageWords - 1 THEN "IDLE" ELSE "READ_DATA"
  BY <1>1, <1>5, <1>6 DEF DoReadData
<1>8. <<cmdTagR, d>> \in Word
  BY <1>5 DEF Word
<1>9. /\ Len(decodeInQ') = b + 1 /\ decodeInQ'[b + 1] = <<cmdTagR, d>>
      /\ \A k \in 1..b : decodeInQ'[k] = decodeInQ[k]
  BY <1>1, <1>7, <1>8, ReadsTyped, Put
<1>10. CASE d = 0
  <2>1. p \in {0, 1} /\ b = 0 /\ r + a = PageWords * p
    BY <1>2, <1>3, <1>4, <1>10
  <2>2. /\ Len(readTagQ') = p + 1 /\ readTagQ'[p + 1] = cmdTagR
        /\ \A k \in 1..p : readTagQ'[k] = readTagQ[k]
    BY <1>1, <1>5, <1>7, <1>10, ReadsTyped, Put
  <2>3. state' = "READ_DATA" /\ dataCnt' = 1
    BY <1>2, <1>7, <1>10
  <2>4. PagesOnTheWay'
    <3>1. Started'
      BY <2>3 DEF Started
    <3>2. r + a + (b + 1) = PageWords * ((p + 1) - 1) + 1
      BY <1>2, <2>1
    <3>3. rdWdCnt' + Len(decodeOutQ') + Len(decodeInQ') = PageWords * (Len(readTagQ') - 1) + dataCnt'
      BY <1>1, <1>7, <1>9, <2>2, <2>3, <3>2
    <3>4. /\ Len(readTagQ') <= 2 /\ Len(decodeOutQ') <= PageWords
          /\ Len(readTagQ') > 0 /\ readTagQ'[Len(readTagQ')] = cmdTagR'
          /\ Len(decodeInQ') <= dataCnt'
      BY <1>1, <1>3, <1>7, <1>9, <2>1, <2>2, <2>3
    <3> QED
      BY <2>3, <3>1, <3>3, <3>4 DEF PagesOnTheWay
  <2>5. \A k \in 1..a : decodeOutQ'[k] = Expected(k)'
    <3> TAKE k \in 1..a
    <3>1. decodeOutQ[k] = Expected(k)
      BY <1>1 DEF Reads, WordsInPlace
    <3>2. p = 1 /\ r + k - 1 < PageWords
      BY <1>2, <2>1
    <3>3. readTagQ'[1] = readTagQ[1]
      BY <2>2, <3>2
    <3> QED
      BY <1>1, <1>7, <3>1, <3>2, <3>3 DEF Expected
  <2>6. decodeInQ'[b + 1] = Expected(a + (b + 1))'
    <3>1. r + (a + (b + 1)) - 1 = PageWords * p
      BY <1>2, <2>1
    <3>2. CASE p = 0
      <4>1. r + (a + (b + 1)) - 1 = 0 /\ 0 < PageWords
        BY <1>2, <3>1, <3>2
      <4>2. readTagQ'[1] = cmdTagR
        BY <2>2, <3>2
      <4> QED
        BY <1>7, <1>9, <1>10, <4>1, <4>2 DEF Expected
    <3>3. CASE p = 1
      <4>1. r + (a + (b + 1)) - 1 = PageWords
        BY <1>2, <3>1, <3>3
      <4>2. readTagQ'[2] = cmdTagR
        BY <2>2, <3>3
      <4>3. PageWords - PageWords = 0 /\ ~(PageWords < PageWords)
        BY <1>2
      <4> QED
        BY <1>7, <1>9, <1>10, <4>1, <4>2, <4>3 DEF Expected
    <3> QED
      BY <2>1, <3>2, <3>3
  <2>7. WordsInPlace'
    BY <1>1, <1>7, <1>9, <2>1, <2>5, <2>6 DEF WordsInPlace
  <2> QED
    BY <2>4, <2>7 DEF Reads
<1>11. CASE d > 0
  <2>1. p \in {1, 2} /\ readTagQ[p] = cmdTagR /\ r + a + b = PageWords * (p - 1) + d
    BY <1>1, <1>3, <1>4, <1>11 DEF Reads, PagesOnTheWay, DoReadData, Started
  <2>2. readTagQ' = readTagQ
    BY <1>7, <1>11
  <2>3. PagesOnTheWay'
    <3>1. r + a + (b + 1) = PageWords * (p - 1) + (d + 1)
      BY <1>2, <2>1
    <3>2. d = PageWords - 1 => PageWords * (p - 1) + (d + 1) = PageWords * p
      BY <1>2, <2>1
    <3>3. Started' <=> d # PageWords - 1
      BY <1>2, <1>7 DEF Started
    <3>4. rdWdCnt' + Len(decodeOutQ') + Len(decodeInQ')
            = IF Started' THEN PageWords * (Len(readTagQ') - 1) + dataCnt' ELSE PageWords * Len(readTagQ')
      BY <1>1, <1>7, <1>9, <2>2, <3>1, <3>2, <3>3
    <3>5. /\ Len(readTagQ') <= 2 /\ Len(decodeOutQ') <= PageWords
          /\ Started' => Len(readTagQ') > 0 /\ readTagQ'[Len(readTagQ')] = cmdTagR'
          /\ state' = "READ_DATA" => Len(decodeInQ') <= dataCnt'
          /\ state' # "READ_ERROR"
      BY <1>1, <1>3, <1>7, <1>9, <2>1, <2>2
    <3> QED
      BY <3>4, <3>5 DEF PagesOnTheWay
  <2>4. decodeInQ'[b + 1] = Expected(a + (b + 1))'
    <3>1. r + (a + (b + 1)) - 1 = PageWords * (p - 1) + d
      BY <1>2, <2>1
    <3>2. CASE p = 1
      <4>1. r + (a + (b + 1)) - 1 = d /\ d < PageWords
        BY <1>2, <3>1, <3>2
      <4> QED
        BY <1>7, <1>9, <2>1, <2>2, <3>2, <4>1 DEF Expected
    <3>3. CASE p = 2
      <4>1. r + (a + (b + 1)) - 1 = PageWords + d /\ ~(PageWords + d < PageWords) /\ (PageWords + d) - PageWords = d
        BY <1>2, <3>1, <3>3
      <4> QED
        BY <1>7, <1>9, <2>1, <2>2, <3>3, <4>1 DEF Expected
    <3> QED
      BY <2>1, <3>2, <3>3
  <2>5. WordsInPlace'
    <3>1. \A k \in Nat : Expected(k)' = Expected(k)
      BY <1>1, <1>7, <2>2 DEF Expected
    <3>2. \A k \in 1..a : decodeOutQ'[k] = Expected(k)'
      BY <1>1, <1>7, <3>1 DEF Reads, WordsInPlace
    <3>3. \A k \in 1..b : decodeInQ'[k] = Expected(a + k)'
      BY <1>1, <1>9, <3>1 DEF Reads, WordsInPlace
    <3>4. \A k \in 1..(b + 1) : decodeInQ'[k] = Expected(a + k)'
      <4> TAKE k \in 1..(b + 1)
      <4>1. CASE k = b + 1
        BY <2>4, <4>1
      <4>2. CASE k # b + 1
        <5>1. k \in 1..b
          BY <4>2
        <5> QED
          BY <3>3, <5>1
      <4> QED
        BY <4>1, <4>2
    <3>5. Len(decodeOutQ') = a /\ Len(decodeInQ') = b + 1
      BY <1>1, <1>7, <1>9
    <3> QED
      BY <3>2, <3>4, <3>5 DEF WordsInPlace
  <2> QED
    BY <2>3, <2>5 DEF Reads
<1> QED
  BY <1>10, <1>11

(* The decoder hands a word on. *)
LEMMA DecodeReads ==
  ASSUME MoreTypes, Reads, DoDecode
  PROVE  Reads'
<1>1. PICK a \in Nat, b \in Nat : a = Len(decodeOutQ) /\ b = Len(decodeInQ)
  BY ReadsTyped
<1>2. /\ UNCHANGED <<state, dataCnt, cmdTagR, readTagQ, rdWdCnt>> /\ decodeInQ # <<>> /\ a < PageWords
      /\ decodeInQ' = Tail(decodeInQ) /\ decodeOutQ' = Append(decodeOutQ, Head(decodeInQ))
  BY <1>1 DEF DoDecode, bus
<1>3. /\ b > 0 /\ decodeInQ[1] = Head(decodeInQ) /\ Head(decodeInQ) \in Word
      /\ Len(decodeInQ') = b - 1
      /\ \A k \in 1..(b - 1) : decodeInQ'[k] = decodeInQ[k + 1]
  BY <1>1, <1>2, ReadsTyped, Take
<1>4. /\ Len(decodeOutQ') = a + 1 /\ decodeOutQ'[a + 1] = Head(decodeInQ)
      /\ \A k \in 1..a : decodeOutQ'[k] = decodeOutQ[k]
  BY <1>1, <1>2, <1>3, ReadsTyped, Put
<1>5. PagesOnTheWay'
  <2>1. rdWdCnt + (a + 1) + (b - 1) = rdWdCnt + a + b
    BY ReadsTyped
  <2>2. Started' <=> Started
    BY <1>2 DEF Started
  <2>3. state = "READ_DATA" => b <= dataCnt
    BY <1>1 DEF Reads, PagesOnTheWay
  <2>4. dataCnt \in Nat /\ PageWords \in Nat
    BY ReadsTyped
  <2> QED
    BY <1>1, <1>2, <1>3, <1>4, <2>1, <2>2, <2>3, <2>4 DEF Reads, PagesOnTheWay
<1>6. \A k \in Nat : Expected(k)' = Expected(k)
  BY <1>2 DEF Expected
<1>7. \A k \in 1..(a + 1) : decodeOutQ'[k] = Expected(k)'
  <2> TAKE k \in 1..(a + 1)
  <2>1. CASE k = a + 1
    <3>1. decodeInQ[1] = Expected(a + 1)
      BY <1>1, <1>3 DEF Reads, WordsInPlace
    <3> QED
      BY <1>3, <1>4, <1>6, <2>1, <3>1
  <2>2. CASE k # a + 1
    <3>1. k \in 1..a
      BY <2>2
    <3>2. decodeOutQ[k] = Expected(k)
      BY <1>1, <3>1 DEF Reads, WordsInPlace
    <3> QED
      BY <1>4, <1>6, <3>1, <3>2
  <2> QED
    BY <2>1, <2>2
<1>8. \A k \in 1..(b - 1) : decodeInQ'[k] = Expected((a + 1) + k)'
  <2> TAKE k \in 1..(b - 1)
  <2>1. k + 1 \in 1..b /\ a + (k + 1) = (a + 1) + k
    BY <1>1
  <2>2. decodeInQ[k + 1] = Expected(a + (k + 1))
    BY <1>1, <2>1 DEF Reads, WordsInPlace
  <2> QED
    BY <1>3, <1>6, <2>1, <2>2
<1>9. WordsInPlace'
  BY <1>3, <1>4, <1>7, <1>8 DEF WordsInPlace
<1> QED
  BY <1>5, <1>9 DEF Reads

(* The host takes a word, the last one with the tag of its page. *)
LEMMA ReadWordReads ==
  ASSUME MoreTypes, Reads, ReadWord
  PROVE  Reads'
<1>1. PICK a \in Nat, b \in Nat, p \in Nat, r \in 0..(PageWords - 1) :
        a = Len(decodeOutQ) /\ b = Len(decodeInQ) /\ p = Len(readTagQ) /\ r = rdWdCnt
  BY ReadsTyped
<1>2. /\ PageWords \in Nat /\ PageWords > 1 /\ PageWords * 0 = 0 /\ PageWords * 1 = PageWords
      /\ PageWords * 2 = PageWords + PageWords /\ dataCnt \in 0..PageWords
  BY ReadsTyped
<1>3. /\ UNCHANGED <<state, dataCnt, cmdTagR, decodeInQ>> /\ decodeOutQ # <<>> /\ readTagQ # <<>>
      /\ decodeOutQ' = Tail(decodeOutQ)
      /\ rdWdCnt' = IF r = PageWords - 1 THEN 0 ELSE r + 1
      /\ readTagQ' = IF r = PageWords - 1 THEN Tail(readTagQ) ELSE readTagQ
  BY <1>1, NextWordIs DEF ReadWord, bus
<1>4. /\ a > 0 /\ Len(decodeOutQ') = a - 1
      /\ \A k \in 1..(a - 1) : decodeOutQ'[k] = decodeOutQ[k + 1]
  BY <1>1, <1>3, ReadsTyped, Take
<1>5. p > 0 /\ p \in {1, 2} /\ a <= PageWords /\ (state = "READ_DATA" => b <= dataCnt) /\ state # "READ_ERROR"
  <2>1. p > 0
    BY <1>1, <1>3, ReadsTyped, Take
  <2>2. p <= 2 /\ a <= PageWords /\ (state = "READ_DATA" => b <= dataCnt) /\ state # "READ_ERROR"
    BY <1>1 DEF Reads, PagesOnTheWay
  <2> QED
    BY <2>1, <2>2
<1>6. r + a + b = IF Started THEN PageWords * (p - 1) + dataCnt ELSE PageWords * p
  BY <1>1 DEF Reads, PagesOnTheWay
<1>7. Started' <=> Started
  BY <1>3 DEF Started
<1>8. Started => dataCnt < PageWords /\ readTagQ[p] = cmdTagR
  BY <1>1 DEF Started, MoreTypes, Reads, PagesOnTheWay
<1>9. CASE r # PageWords - 1
  <2>1. rdWdCnt' = r + 1 /\ readTagQ' = readTagQ
    BY <1>3, <1>9
  <2>2. PagesOnTheWay'
    <3>1. (r + 1) + (a - 1) + b = r + a + b
      OBVIOUS
    <3>2. rdWdCnt' + Len(decodeOutQ') + Len(decodeInQ')
            = IF Started' THEN PageWords * (Len(readTagQ') - 1) + dataCnt' ELSE PageWords * Len(readTagQ')
      BY <1>1, <1>3, <1>4, <1>6, <1>7, <2>1, <3>1
    <3>3. Started' => Len(readTagQ') > 0 /\ readTagQ'[Len(readTagQ')] = cmdTagR'
      BY <1>1, <1>3, <1>5, <1>7, <1>8, <2>1
    <3>4. Len(readTagQ') <= 2 /\ Len(decodeOutQ') <= PageWords
      <4>1. Len(readTagQ') = p /\ p <= 2
        <5>1. Len(readTagQ') = Len(readTagQ)
          BY <2>1
        <5>2. p = 1 \/ p = 2
          BY <1>5
        <5>3. Len(readTagQ') = p
          BY <1>1, <5>1
        <5>4. p <= 2
          BY <5>2
        <5> QED
          BY <5>3, <5>4
      <4>2. a - 1 <= PageWords
        BY <1>2, <1>4, <1>5
      <4> QED
        BY <1>4, <4>1, <4>2
    <3>5. (state' = "READ_DATA" => Len(decodeInQ') <= dataCnt') /\ state' # "READ_ERROR"
      BY <1>1, <1>3, <1>5
    <3> QED
      BY <3>2, <3>3, <3>4, <3>5 DEF PagesOnTheWay
  <2>3. \A k \in Nat : Expected(k)' = Expected(k + 1)
    <3> TAKE k \in Nat
    <3>1. (r + 1) + k - 1 = r + (k + 1) - 1
      OBVIOUS
    <3> QED
      BY <1>1, <2>1, <3>1 DEF Expected
  <2>4. \A k \in 1..(a - 1) : decodeOutQ'[k] = Expected(k)'
    <3> TAKE k \in 1..(a - 1)
    <3>1. k + 1 \in 1..a /\ k \in Nat
      BY <1>1
    <3>2. decodeOutQ[k + 1] = Expected(k + 1)
      BY <1>1, <3>1 DEF Reads, WordsInPlace
    <3> QED
      BY <1>4, <2>3, <3>1, <3>2
  <2>5. \A k \in 1..b : decodeInQ'[k] = Expected((a - 1) + k)'
    <3> TAKE k \in 1..b
    <3>1. (a - 1) + k \in Nat /\ ((a - 1) + k) + 1 = a + k
      BY <1>1, <1>4
    <3>2. decodeInQ[k] = Expected(a + k)
      BY <1>1 DEF Reads, WordsInPlace
    <3>3. Expected((a - 1) + k)' = Expected(((a - 1) + k) + 1)
      BY <2>3, <3>1
    <3> QED
      BY <1>3, <3>1, <3>2, <3>3
  <2>6. WordsInPlace'
    BY <1>1, <1>3, <1>4, <2>4, <2>5 DEF WordsInPlace
  <2> QED
    BY <2>2, <2>6 DEF Reads
<1>10. CASE r = PageWords - 1
  <2>1. rdWdCnt' = 0 /\ readTagQ' = Tail(readTagQ)
    BY <1>3, <1>10
  <2>2. Len(readTagQ') = p - 1 /\ \A k \in 1..(p - 1) : readTagQ'[k] = readTagQ[k + 1]
    BY <1>1, <1>3, <2>1, ReadsTyped, Take
  <2>3. (a - 1) + b = IF Started THEN PageWords * ((p - 1) - 1) + dataCnt ELSE PageWords * (p - 1)
    BY <1>2, <1>5, <1>6, <1>10
  <2>4. Started => p = 2
    <3>1. (Started /\ p = 1) => r + a + b < PageWords
      BY <1>2, <1>6, <1>8
    <3> QED
      BY <1>1, <1>2, <1>4, <1>5, <1>10, <3>1
  <2>5. PagesOnTheWay'
    <3>2. rdWdCnt' + Len(decodeOutQ') + Len(decodeInQ')
            = IF Started' THEN PageWords * (Len(readTagQ') - 1) + dataCnt' ELSE PageWords * Len(readTagQ')
      BY <1>1, <1>3, <1>4, <1>7, <2>1, <2>2, <2>3
    <3>3. Started' => Len(readTagQ') > 0 /\ readTagQ'[Len(readTagQ')] = cmdTagR'
      BY <1>3, <1>7, <1>8, <2>2, <2>4
    <3>4. p - 1 <= 2 /\ a - 1 <= PageWords
      BY <1>2, <1>5
    <3>5. Len(readTagQ') <= 2 /\ Len(decodeOutQ') <= PageWords
      BY <1>4, <2>2, <3>4
    <3>6. (state' = "READ_DATA" => Len(decodeInQ') <= dataCnt') /\ state' # "READ_ERROR"
      BY <1>1, <1>3, <1>5
    <3> QED
      BY <3>2, <3>3, <3>5, <3>6 DEF PagesOnTheWay
  <2>6. (a - 1) + b <= PageWords /\ (p = 1 => (a - 1) + b = 0)
    BY <1>2, <1>5, <2>3, <2>4
  <2>7. ASSUME NEW k \in 1..((a - 1) + b) PROVE Expected(k)' = Expected(k + 1)
    <3>1. p = 2 /\ k <= PageWords /\ k - 1 < PageWords /\ 1 \in 1..(p - 1)
      BY <1>2, <1>5, <2>6
    <3>2. readTagQ'[1] = readTagQ[2]
      BY <2>2, <3>1
    <3>3. /\ r + (k + 1) - 1 = PageWords + (k - 1) /\ ~(r + (k + 1) - 1 < PageWords)
          /\ (r + (k + 1) - 1) - PageWords = k - 1 /\ 0 + k - 1 = k - 1
      BY <1>2, <1>10
    <3>4. Expected(k)' = <<readTagQ'[1], k - 1>>
      BY <2>1, <3>1, <3>3 DEF Expected
    <3>5. Expected(k + 1) = <<readTagQ[2], k - 1>>
      BY <1>1, <3>3 DEF Expected
    <3> QED
      BY <3>2, <3>4, <3>5
  <2>8. \A k \in 1..(a - 1) : decodeOutQ'[k] = Expected(k)'
    <3> TAKE k \in 1..(a - 1)
    <3>1. k + 1 \in 1..a /\ k \in 1..((a - 1) + b)
      BY <1>1
    <3>2. decodeOutQ[k + 1] = Expected(k + 1)
      BY <1>1, <3>1 DEF Reads, WordsInPlace
    <3> QED
      BY <1>4, <2>7, <3>1, <3>2
  <2>9. \A k \in 1..b : decodeInQ'[k] = Expected((a - 1) + k)'
    <3> TAKE k \in 1..b
    <3>1. (a - 1) + k \in 1..((a - 1) + b) /\ ((a - 1) + k) + 1 = a + k
      BY <1>1, <1>4
    <3>2. decodeInQ[k] = Expected(a + k)
      BY <1>1 DEF Reads, WordsInPlace
    <3>3. Expected((a - 1) + k)' = Expected(((a - 1) + k) + 1)
      BY <2>7, <3>1
    <3> QED
      BY <1>3, <3>1, <3>2, <3>3
  <2>10. WordsInPlace'
    BY <1>1, <1>3, <1>4, <2>8, <2>9 DEF WordsInPlace
  <2> QED
    BY <2>5, <2>10 DEF Reads
<1> QED
  BY <1>9, <1>10

(* Every other step leaves the read path alone, and no burst under way. *)
LEMMA ElseReads ==
  ASSUME MoreTypes, Reads, UNCHANGED readPath,
         \/ UNCHANGED <<state, dataCnt, cmdTagR>>
         \/ /\ state # "READ_DATA" /\ state' \notin {"READ_DATA", "READ_ERROR"}
         \/ DoReadDataWaitBuf
  PROVE  Reads'
<1>1. UNCHANGED <<readTagQ, decodeInQ, decodeOutQ, rdWdCnt>>
  BY DEF readPath
<1>2. \A k \in Nat : Expected(k)' = Expected(k)
  BY <1>1 DEF Expected
<1>3. WordsInPlace'
  <2>1. PICK a \in Nat, b \in Nat : a = Len(decodeOutQ) /\ b = Len(decodeInQ)
    BY ReadsTyped
  <2>2. \A k \in 1..a : decodeOutQ'[k] = Expected(k)'
    BY <1>1, <1>2, <2>1 DEF Reads, WordsInPlace
  <2>3. \A k \in 1..b : decodeInQ'[k] = Expected(a + k)'
    <3> TAKE k \in 1..b
    <3>1. a + k \in Nat /\ decodeInQ[k] = Expected(a + k)
      BY <2>1 DEF Reads, WordsInPlace
    <3> QED
      BY <1>1, <1>2, <3>1
  <2> QED
    BY <1>1, <2>1, <2>2, <2>3 DEF WordsInPlace
<1>4. CASE UNCHANGED <<state, dataCnt, cmdTagR>>
  <2>1. Started' <=> Started
    BY <1>4 DEF Started
  <2> QED
    BY <1>1, <1>3, <1>4, <2>1 DEF Reads, PagesOnTheWay
<1>5. CASE state # "READ_DATA" /\ state' \notin {"READ_DATA", "READ_ERROR"}
  <2>1. ~Started' /\ ~Started
    BY <1>5 DEF Started
  <2> QED
    BY <1>1, <1>3, <1>5, <2>1 DEF Reads, PagesOnTheWay
<1>6. CASE DoReadDataWaitBuf
  <2>1. decodeInQ = <<>> /\ dataCnt' = 0 /\ state = "READ_DATA_WAIT_BUF" /\ state' = "READ_DATA"
    BY <1>6 DEF DoReadDataWaitBuf, DecodeInQEmpty, MoreTypes
  <2>2. ~Started' /\ ~Started /\ Len(decodeInQ) = 0
    BY <2>1 DEF Started
  <2> QED
    BY <1>1, <1>3, <2>1, <2>2 DEF Reads, PagesOnTheWay
<1> QED
  BY <1>4, <1>5, <1>6

LEMMA ReadsInit == Init => Reads
<1> SUFFICES ASSUME Init PROVE Reads
  OBVIOUS
<1>1. readTagQ = <<>> /\ decodeInQ = <<>> /\ decodeOutQ = <<>> /\ rdWdCnt = 0 /\ state = "IDLE"
  BY DEF Init
<1>2. Len(readTagQ) = 0 /\ Len(decodeInQ) = 0 /\ Len(decodeOutQ) = 0 /\ PageWords * 0 = 0
      /\ PageWords \in Nat
  BY <1>1, Sizes
<1>3. ~Started
  BY <1>1 DEF Started
<1>4. PagesOnTheWay
  BY <1>1, <1>2, <1>3 DEF PagesOnTheWay
<1>5. WordsInPlace
  BY <1>2 DEF WordsInPlace
<1> QED
  BY <1>4, <1>5 DEF Reads

LEMMA ReadsStep ==
  ASSUME MoreTypes, Moving, Reads, [Next]_vars
  PROVE  Reads'
<1>1. CASE DoReadData
  BY <1>1, BurstReads
<1>2. CASE DoDecode
  BY <1>2, DecodeReads
<1>3. CASE ReadWord
  BY <1>3, ReadWordReads
<1>4. CASE DoReadDataWaitBuf
  <2>1. UNCHANGED readPath
    BY <1>4 DEF DoReadDataWaitBuf
  <2> QED
    BY <1>4, <2>1, ElseReads
<1>5. CASE DoDecodeCmd \/ DoReadPage \/ DoEraseBlock \/ DoGetStatus \/ DoWriteDataWait \/ DoWriteDone
  <2>1. UNCHANGED readPath
    BY <1>5 DEF DoDecodeCmd, DoReadPage, DoEraseBlock, DoGetStatus, DoWriteDataWait, DoWriteDone
  <2>2. state # "READ_DATA"
    BY <1>5 DEF DoDecodeCmd, DoReadPage, DoEraseBlock, DoGetStatus, DoWriteDataWait, DoWriteDone
  <2>3. state' \notin {"READ_DATA", "READ_ERROR"}
    <3>1. CASE DoDecodeCmd
      <4>1. Head(cmdOutQ) \in BusOpEntry
        BY <3>1, OpsTyped, Take DEF DoDecodeCmd
      <4> QED
        BY <3>1, <4>1 DEF DoDecodeCmd, BusOpEntry, BusOp
    <3> QED
      BY <1>5, <3>1 DEF DoReadPage, DoEraseBlock, DoGetStatus, DoWriteDataWait, DoWriteDone, Start
  <2> QED
    BY <2>1, <2>2, <2>3, ElseReads
<1>6. CASE DoWritePageData
  <2>1. UNCHANGED readPath /\ state # "READ_DATA" /\ state' \notin {"READ_DATA", "READ_ERROR"}
    BY <1>6 DEF DoWritePageData
  <2> QED
    BY <2>1, ElseReads
<1>7. CASE Scoreboard \/ DoSBCmd \/ PageBuffer
  <2>1. UNCHANGED <<readPath, state, dataCnt, cmdTagR>>
    <3>1. CASE Scoreboard \/ DoSBCmd
      BY <3>1 DEF Scoreboard, DoSBCmd, DoChooseChip, IssueStep, AwaitData, TakeStatus, bus
    <3>2. CASE PageBuffer
      BY <3>2 DEF PageBuffer, DoHandleWriteDataReq, DoWriteFetchWait, WriteWord, DoWriteBufTransfer,
                  DoWriteDataTransferReq, DoWriteDataTransferToBus, bus
    <3> QED
      BY <1>7, <3>1, <3>2
  <2> QED
    BY <2>1, ElseReads
<1>8. CASE SetWriteDataRdy \/ AckStatus \/ (\E c \in Chip : TimerExpires(c) \/ NandDone(c))
           \/ (\E cmd \in FlashCmd : SendCmd(cmd)) \/ UNCHANGED vars
  <2>1. UNCHANGED <<readPath, state, dataCnt, cmdTagR>>
    <3>1. CASE SetWriteDataRdy \/ AckStatus
      BY <3>1 DEF SetWriteDataRdy, AckStatus, bus
    <3>2. CASE \E c \in Chip : TimerExpires(c) \/ NandDone(c)
      BY <3>2 DEF TimerExpires, NandDone, bus
    <3>3. CASE \E cmd \in FlashCmd : SendCmd(cmd)
      BY <3>3 DEF SendCmd, bus
    <3>4. CASE UNCHANGED vars
      BY <3>4 DEF vars, bus
    <3> QED
      BY <1>8, <3>1, <3>2, <3>3, <3>4
  <2> QED
    BY <2>1, ElseReads
<1> QED
  BY <1>1, <1>2, <1>3, <1>4, <1>5, <1>6, <1>7, <1>8 DEF Next, BusController, ReadPath

(* At most two pages read are on their way to the host, the older one       *)
(* first, and every word of them is in its place behind readTagQ.          *)
THEOREM FlashBusReads == Spec => []Reads
<1>1. MoreTypes /\ Control /\ Reads /\ [Next]_vars => Reads'
  BY ReadsStep DEF Control
<1> QED
  BY <1>1, ReadsInit, FlashBusControl, PTL DEF Spec

(* doReadDataWaitBuf suffices: no burst overruns the buffer, and readTagQ   *)
(* names the command of every word that readWord gives the host.           *)
THEOREM WordsAlwaysTagged == Spec => []WordsTagged
<1>1. MoreTypes /\ Reads => WordsTagged
  <2> SUFFICES ASSUME MoreTypes, Reads
               PROVE  state # "READ_ERROR" /\ (decodeOutQ # <<>> /\ readTagQ # <<>> =>
                         Head(decodeOutQ) = <<Head(readTagQ), rdWdCnt>>)
    BY DEF WordsTagged
  <2>1. state # "READ_ERROR"
    BY DEF Reads, PagesOnTheWay
  <2>2. ASSUME decodeOutQ # <<>>, readTagQ # <<>>
        PROVE  Head(decodeOutQ) = <<Head(readTagQ), rdWdCnt>>
    <3>1. Len(decodeOutQ) \in Nat /\ Len(decodeOutQ) > 0 /\ decodeOutQ[1] = Head(decodeOutQ)
      BY <2>2, ReadsTyped, Take
    <3>2. readTagQ[1] = Head(readTagQ)
      BY <2>2, ReadsTyped, Take
    <3>3. rdWdCnt + 1 - 1 = rdWdCnt /\ rdWdCnt < PageWords
      BY ReadsTyped
    <3>4. decodeOutQ[1] = Expected(1)
      BY <3>1 DEF Reads, WordsInPlace
    <3> QED
      BY <3>1, <3>2, <3>3, <3>4 DEF Expected
  <2> QED
    BY <2>1, <2>2
<1> QED
  BY <1>1, FlashBusControl, FlashBusReads, PTL

-----------------------------------------------------------------------------
(* Tags.  A chip is answered when the scoreboard can see that its command   *)
(* is over; its command then is no longer one of those to be done.         *)
Answered(c) == chipBusy[c] # <<>> /\ ~Head(chipBusy[c])
Live(c) == IF Answered(c) THEN Tail(chipQs[c]) ELSE chipQs[c]

Of(t) == {cmd \in FlashCmd : cmd.tag = t}

(* A read whose command is over but whose tag is not in readTagQ yet.       *)
Unread(t) ==
  IF cmdTagR = t /\ (state = "READ_DATA_WAIT_BUF" \/ (state = "READ_DATA" /\ dataCnt = 0)) THEN 1 ELSE 0

(* The places where the command of tag t can be, on its way to chip c. *)
InFlight(t, c) ==
  Occurs(flashCmdQ, Of(t)) + Occurs(Live(c), Of(t)) + Occurs(ackQ, {t}) + Occurs(readTagQ, {t}) + Unread(t)

KnownToHost ==
  /\ \A i \in 1..Len(flashCmdQ) : host[flashCmdQ[i].tag] = flashCmdQ[i]
  /\ \A c \in Chip : \A i \in 1..Len(Live(c)) :
        host[Live(c)[i].tag] = Live(c)[i] /\ Live(c)[i].chip = c
OneOfEach == \A t \in Tag, c \in Chip : InFlight(t, c) <= IF host[t] = NoTag THEN 0 ELSE 1
Tags == KnownToHost /\ OneOfEach

LEMMA OccursMember ==
  ASSUME NEW T, NEW q \in Seq(T), NEW S, NEW i \in 1..Len(q), q[i] \in S
  PROVE  Occurs(q, S) >= 1
<1>1. IsFiniteSet({j \in 1..Len(q) : q[j] \in S}) /\ Occurs(q, S) \in Nat
  BY OccursType
<1>2. {j \in 1..Len(q) : q[j] \in S} # {}
  OBVIOUS
<1>3. Cardinality({j \in 1..Len(q) : q[j] \in S}) # 0
  BY <1>1, <1>2, FS_EmptySet
<1> QED
  BY <1>1, <1>3 DEF Occurs

LEMMA HeadCounted ==
  ASSUME NEW T, NEW q \in Seq(T), q # <<>>, NEW S
  PROVE  /\ Occurs(q, S) \in Nat /\ Occurs(Tail(q), S) \in Nat
         /\ Head(q) \in S => Occurs(q, S) >= 1 /\ Occurs(Tail(q), S) = Occurs(q, S) - 1
         /\ Head(q) \notin S => Occurs(Tail(q), S) = Occurs(q, S)
<1>1. Tail(q) \in Seq(T)
  BY Take
<1>2. Occurs(q, S) \in Nat /\ Occurs(Tail(q), S) \in Nat
  BY <1>1, OccursType
<1>3. Occurs(Tail(q), S) = Occurs(q, S) - (IF Head(q) \in S THEN 1 ELSE 0)
  BY OccursTail
<1> QED
  BY <1>2, <1>3

LEMMA LiveTyped ==
  ASSUME MoreTypes, Control
  PROVE  /\ flashCmdQ \in Seq(FlashCmd) /\ ackQ \in Seq(Tag) /\ readTagQ \in Seq(Tag)
         /\ \A c \in Chip : /\ chipQs[c] \in Seq(FlashCmd) /\ Live(c) \in Seq(FlashCmd)
                            /\ Answered(c) => chipQs[c] # <<>>
<1>1. flashCmdQ \in Seq(FlashCmd) /\ ackQ \in Seq(Tag) /\ readTagQ \in Seq(Tag)
  BY DEF MoreTypes, TypeOK
<1>2. ASSUME NEW c \in Chip
      PROVE  /\ chipQs[c] \in Seq(FlashCmd) /\ Live(c) \in Seq(FlashCmd)
             /\ Answered(c) => chipQs[c] # <<>>
  <2>1. chipQs[c] \in Seq(FlashCmd)
    BY DEF MoreTypes, TypeOK, FifoFamily
  <2>2. ASSUME Answered(c) PROVE chipQs[c] # <<>>
    <3>1. chipBusy[c] # <<>>
      BY <2>2 DEF Answered
    <3>2. StageRank(chipStages[c]) = 3
      BY <3>1 DEF Control, AnswersAgree
    <3>3. chipStages[c] # "INIT"
      BY <3>2 DEF StageRank
    <3> QED
      BY <3>3 DEF Control, StagesAgree
  <2>3. chipQs[c] # <<>> => Tail(chipQs[c]) \in Seq(FlashCmd)
    BY <2>1, Take
  <2> QED
    BY <2>1, <2>2, <2>3 DEF Live
<1> QED
  BY <1>1, <1>2

LEMMA CountsTyped ==
  ASSUME MoreTypes, Control, NEW t \in Tag, NEW c \in Chip
  PROVE  /\ Occurs(flashCmdQ, Of(t)) \in Nat /\ Occurs(Live(c), Of(t)) \in Nat
         /\ Occurs(ackQ, {t}) \in Nat /\ Occurs(readTagQ, {t}) \in Nat /\ Unread(t) \in {0, 1}
<1>1. flashCmdQ \in Seq(FlashCmd) /\ Live(c) \in Seq(FlashCmd) /\ ackQ \in Seq(Tag) /\ readTagQ \in Seq(Tag)
  BY LiveTyped
<1> QED
  BY <1>1, OccursType DEF Unread

(* A tag that is on its way back has no command left to be done. *)
LEMMA NoCommandLeft ==
  ASSUME MoreTypes, Control, Tags, NEW t \in Tag,
         host[t] = NoTag \/ Occurs(ackQ, {t}) + Occurs(readTagQ, {t}) + Unread(t) >= 1
  PROVE  /\ \A i \in 1..Len(flashCmdQ) : flashCmdQ[i].tag # t
         /\ \A c \in Chip : \A i \in 1..Len(Live(c)) : Live(c)[i].tag # t
<1>1. ASSUME NEW c \in Chip PROVE Occurs(flashCmdQ, Of(t)) = 0 /\ Occurs(Live(c), Of(t)) = 0
  <2>1. InFlight(t, c) <= IF host[t] = NoTag THEN 0 ELSE 1
    BY DEF Tags, OneOfEach
  <2> QED
    BY <2>1, CountsTyped DEF InFlight
<1>2. Chip # {}
  BY Sizes DEF Chip
<1>3. ASSUME NEW i \in 1..Len(flashCmdQ), flashCmdQ[i].tag = t PROVE FALSE
  <2>1. flashCmdQ[i] \in FlashCmd /\ flashCmdQ \in Seq(FlashCmd)
    BY LiveTyped, ElementOfSeq
  <2>2. flashCmdQ[i] \in Of(t)
    BY <1>3, <2>1 DEF Of
  <2>3. Occurs(flashCmdQ, Of(t)) >= 1
    BY <2>1, <2>2, OccursMember
  <2> QED
    BY <1>1, <1>2, <2>3
<1>4. ASSUME NEW c \in Chip, NEW i \in 1..Len(Live(c)), Live(c)[i].tag = t PROVE FALSE
  <2>1. Live(c)[i] \in FlashCmd /\ Live(c) \in Seq(FlashCmd)
    BY LiveTyped, ElementOfSeq
  <2>2. Live(c)[i] \in Of(t)
    BY <1>4, <2>1 DEF Of
  <2>3. Occurs(Live(c), Of(t)) >= 1
    BY <2>1, <2>2, OccursMember
  <2> QED
    BY <1>1, <2>3
<1> QED
  BY <1>3, <1>4

(* Steps that move no tag. *)
LEMMA ElseTags ==
  ASSUME MoreTypes, Control, Tags, UNCHANGED <<flashCmdQ, ackQ, readTagQ, host>>,
         \A c \in Chip : Live(c)' = Live(c), \A t \in Tag : Unread(t)' = Unread(t)
  PROVE  Tags'
<1>1. KnownToHost'
  BY DEF Tags, KnownToHost
<1>2. OneOfEach'
  <2> SUFFICES ASSUME NEW t \in Tag, NEW c \in Chip
               PROVE  InFlight(t, c)' <= IF host'[t] = NoTag THEN 0 ELSE 1
    BY DEF OneOfEach
  <2>1. InFlight(t, c)' = InFlight(t, c)
    BY DEF InFlight
  <2> QED
    BY <2>1 DEF Tags, OneOfEach
<1> QED
  BY <1>1, <1>2 DEF Tags

LEMMA TagsKnown ==
  ASSUME Tags
  PROVE  /\ \A i \in 1..Len(flashCmdQ) : host[flashCmdQ[i].tag] = flashCmdQ[i]
         /\ \A c \in Chip : \A i \in 1..Len(Live(c)) :
               host[Live(c)[i].tag] = Live(c)[i] /\ Live(c)[i].chip = c
         /\ \A t \in Tag, c \in Chip : InFlight(t, c) <= IF host[t] = NoTag THEN 0 ELSE 1
BY DEF Tags, KnownToHost, OneOfEach

(* A command goes to its chip's queue. *)
LEMMA PutTags ==
  ASSUME MoreTypes, Control, Tags, DoSBCmd
  PROVE  Tags'
<1>1. PICK cmd \in FlashCmd : cmd = Head(flashCmdQ)
  BY LiveTyped, Take DEF DoSBCmd
<1>2. PICK k \in Chip : k = cmd.chip
  BY CmdTyped
<1>3. /\ flashCmdQ # <<>> /\ flashCmdQ' = Tail(flashCmdQ) /\ chipQs' = Enq(chipQs, k, cmd)
      /\ UNCHANGED <<chipBusy, state, cmdTagR, dataCnt, ackQ, readTagQ, host>>
  BY <1>1, <1>2 DEF DoSBCmd, bus, readPath
<1>4. \A c \in Chip : Live(c)' = IF c = k THEN Append(Live(c), cmd) ELSE Live(c)
  <2> TAKE c \in Chip
  <2>1. Answered(c)' <=> Answered(c)
    BY <1>3 DEF Answered
  <2>2. chipQs'[c] = IF c = k THEN Append(chipQs[c], cmd) ELSE chipQs[c]
    BY <1>3 DEF Enq, MoreTypes, TypeOK, FifoFamily
  <2>3. chipQs[c] \in Seq(FlashCmd) /\ (Answered(c) => chipQs[c] # <<>>)
    BY LiveTyped
  <2>4. Answered(c) => Tail(Append(chipQs[c], cmd)) = Append(Tail(chipQs[c]), cmd)
    BY <2>3, HeadTailAppend
  <2> QED
    BY <2>1, <2>2, <2>4 DEF Live
<1>5. /\ Len(flashCmdQ) \in Nat /\ Len(flashCmdQ) > 0 /\ flashCmdQ[1] = cmd
      /\ Len(flashCmdQ') = Len(flashCmdQ) - 1
      /\ \A i \in 1..Len(flashCmdQ') : flashCmdQ'[i] = flashCmdQ[i + 1]
  BY <1>1, <1>3, LiveTyped, Take
<1>6. KnownToHost'
  <2>1. ASSUME NEW i \in 1..Len(flashCmdQ') PROVE host'[flashCmdQ'[i].tag] = flashCmdQ'[i]
    <3>1. i + 1 \in 1..Len(flashCmdQ)
      BY <1>5
    <3> QED
      BY <1>3, <1>5, <3>1, TagsKnown
  <2>2. ASSUME NEW c \in Chip, NEW i \in 1..Len(Live(c)')
        PROVE  host'[Live(c)'[i].tag] = Live(c)'[i] /\ Live(c)'[i].chip = c
    <3>1. CASE c # k
      BY <1>3, <1>4, <3>1, TagsKnown
    <3>2. CASE c = k
      <4>1. /\ Len(Live(c)) \in Nat /\ Len(Append(Live(c), cmd)) = Len(Live(c)) + 1
            /\ Append(Live(c), cmd)[Len(Live(c)) + 1] = cmd
            /\ \A j \in 1..Len(Live(c)) : Append(Live(c), cmd)[j] = Live(c)[j]
        BY LiveTyped, Put
      <4>2. Live(c)' = Append(Live(c), cmd)
        BY <1>4, <3>2
      <4>3. CASE i = Len(Live(c)) + 1
        <5>1. host[cmd.tag] = cmd
          BY <1>5, TagsKnown
        <5> QED
          BY <1>2, <1>3, <3>2, <4>1, <4>2, <4>3, <5>1
      <4>4. CASE i # Len(Live(c)) + 1
        <5>1. i \in 1..Len(Live(c))
          BY <4>1, <4>2, <4>4
        <5> QED
          BY <1>3, <4>1, <4>2, <5>1, TagsKnown
      <4> QED
        BY <4>3, <4>4
    <3> QED
      BY <3>1, <3>2
  <2> QED
    BY <2>1, <2>2 DEF KnownToHost
<1>7. OneOfEach'
  <2> SUFFICES ASSUME NEW t \in Tag, NEW c \in Chip
               PROVE  InFlight(t, c)' <= IF host'[t] = NoTag THEN 0 ELSE 1
    BY DEF OneOfEach
  <2>1. /\ Occurs(flashCmdQ', Of(t)) \in Nat
        /\ cmd \in Of(t) => Occurs(flashCmdQ', Of(t)) = Occurs(flashCmdQ, Of(t)) - 1
        /\ cmd \notin Of(t) => Occurs(flashCmdQ', Of(t)) = Occurs(flashCmdQ, Of(t))
    BY <1>1, <1>3, LiveTyped, HeadCounted
  <2>2. Live(c) \in Seq(FlashCmd)
    BY LiveTyped
  <2>3. PICK l \in Nat, n \in Nat : l = Occurs(Live(c), Of(t)) /\ n = Occurs(Append(Live(c), cmd), Of(t))
    <3>1. Append(Live(c), cmd) \in Seq(FlashCmd)
      BY <2>2, Put
    <3> QED
      BY <2>2, <3>1, OccursType
  <2>4. /\ Occurs(Live(c)', Of(t)) \in Nat
        /\ Occurs(Live(c)', Of(t)) <= Occurs(Live(c), Of(t)) + (IF cmd \in Of(t) THEN 1 ELSE 0)
    <3>1. n = l + (IF cmd \in Of(t) THEN 1 ELSE 0)
      BY <2>2, <2>3, OccursAppend
    <3>2. CASE c = k
      <4>1. Live(c)' = Append(Live(c), cmd)
        BY <1>4, <3>2
      <4>2. Occurs(Live(c)', Of(t)) = n
        BY <2>3, <4>1
      <4> QED
        BY <2>3, <3>1, <4>2
    <3>3. CASE c # k
      BY <1>4, <2>3, <3>3
    <3> QED
      BY <3>2, <3>3
  <2>5. Unread(t)' = Unread(t)
    BY <1>3 DEF Unread
  <2>6. InFlight(t, c)' = Occurs(flashCmdQ', Of(t)) + Occurs(Live(c)', Of(t)) + Occurs(ackQ, {t})
                            + Occurs(readTagQ, {t}) + Unread(t)
    BY <1>3, <2>5 DEF InFlight
  <2>8. InFlight(t, c)' <= InFlight(t, c)
    BY <2>1, <2>4, <2>6, CountsTyped DEF InFlight
  <2>9. InFlight(t, c) \in Nat /\ InFlight(t, c)' \in Nat
    BY <2>1, <2>4, <2>6, CountsTyped DEF InFlight
  <2>10. InFlight(t, c) <= IF host[t] = NoTag THEN 0 ELSE 1
    BY TagsKnown
  <2> QED
    BY <1>3, <2>8, <2>9, <2>10
<1> QED
  BY <1>6, <1>7 DEF Tags

(* The scoreboard takes an answer, which only drops what was not live. *)
LEMMA AnswerTags ==
  ASSUME MoreTypes, Control, Tags, TakeStatus
  PROVE  Tags'
<1>1. PICK c \in Chip : c = currChip /\ chipBusy[c] # <<>>
  BY DEF TakeStatus, MoreTypes, TypeOK
<1>2. UNCHANGED <<flashCmdQ, ackQ, readTagQ, host, state, cmdTagR, dataCnt>>
  BY DEF TakeStatus, bus, readPath
<1>3. /\ chipBusy'[c] = <<>>
      /\ \A d \in Chip \ {c} : chipQs'[d] = chipQs[d] /\ chipBusy'[d] = chipBusy[d]
  <2>1. chipBusy'[c] = Tail(chipBusy[c])
    BY <1>1 DEF TakeStatus, Deq, MoreTypes, TypeOK, FifoFamily
  <2>2. chipBusy[c] \in Seq(BOOLEAN) /\ Len(chipBusy[c]) = 1
    BY <1>1 DEF Control, AnswersAgree, MoreTypes, TypeOK, FifoFamily
  <2>3. Tail(chipBusy[c]) = <<>>
    BY <2>2, LastTaken
  <2>4. \A d \in Chip \ {c} : chipQs'[d] = chipQs[d] /\ chipBusy'[d] = chipBusy[d]
    BY <1>1 DEF TakeStatus, Deq, MoreTypes, TypeOK, FifoFamily
  <2> QED
    BY <2>1, <2>3, <2>4
<1>4. Live(c)' = Live(c)
  <2>1. ~Answered(c)'
    BY <1>3 DEF Answered
  <2>2. CASE Head(chipBusy[c])
    <3>1. ~Answered(c) /\ chipQs' = chipQs
      BY <1>1, <2>2 DEF Answered, TakeStatus
    <3> QED
      BY <2>1, <3>1 DEF Live
  <2>3. CASE ~Head(chipBusy[c])
    <3>1. Answered(c) /\ chipQs' = Deq(chipQs, c)
      BY <1>1, <2>3 DEF Answered, TakeStatus
    <3>2. chipQs'[c] = Tail(chipQs[c])
      BY <3>1 DEF Deq, MoreTypes, TypeOK, FifoFamily
    <3> QED
      BY <2>1, <3>1, <3>2 DEF Live
  <2> QED
    BY <2>2, <2>3
<1>5. \A d \in Chip : Live(d)' = Live(d)
  <2> TAKE d \in Chip
  <2>1. CASE d # c
    BY <1>3, <2>1 DEF Live, Answered
  <2> QED
    BY <1>4, <2>1
<1>6. \A t \in Tag : Unread(t)' = Unread(t)
  BY <1>2 DEF Unread
<1> QED
  BY <1>2, <1>5, <1>6, ElseTags

LEMMA HeadOfOne ==
  ASSUME NEW b
  PROVE  <<b>> # <<>> /\ Head(<<b>>) = b
OBVIOUS

(* A chip is found ready: its command is over, and its tag is acked or read. *)
LEMMA PollTags ==
  ASSUME MoreTypes, Control, Tags, DoGetStatus
  PROVE  Tags'
<1>1. PICK k \in Chip, g \in Tag : k = chipR /\ g = cmdTagR
  BY DEF DoGetStatus, Doing, MoreTypes, TypeOK
<1>2. UNCHANGED <<flashCmdQ, chipQs, readTagQ, host, cmdTagR, dataCnt>>
  BY DEF DoGetStatus, readPath
<1>3. Doing # "NONE" /\ state \in {"GET_STATUS", "WRITE_GET_STATUS", "ERASE_GET_STATUS"}
  BY DEF DoGetStatus, Doing
<1>4. chipQs[k] # <<>> /\ chipBusy[k] = <<>> /\ g = Head(chipQs[k]).tag
  <2>1. PICK o : o = [tag |-> cmdTagR, busOp |-> Doing, chip |-> chipR]
    OBVIOUS
  <2>2. Ops # <<>> /\ o = Head(Ops)
    BY <1>3, <2>1, OpsTyped
  <2>3. o.tag = g /\ o.chip = k
    BY <1>1, <2>1
  <2>4. Ops[1] = o /\ 1 \in 1..Len(Ops)
    <3>1. Ops[1] = o /\ Len(Ops) \in Nat /\ Len(Ops) > 0
      BY <2>2, OpsTyped, Take
    <3> QED
      BY <3>1
  <2>5. chipQs[o.chip] # <<>> /\ chipBusy[o.chip] = <<>> /\ o.tag = Head(chipQs[o.chip]).tag
    BY <2>4 DEF Control, OpsAgree
  <2> QED
    BY <2>3, <2>5
<1>5. chipQs[k] \in Seq(FlashCmd)
  BY LiveTyped
<1>6. PICK cmd \in FlashCmd : cmd = Head(chipQs[k]) /\ cmd.tag = g
  BY <1>4, <1>5, Take
<1>7. Live(k) = chipQs[k]
  BY <1>4 DEF Live, Answered
<1>8. PICK b \in BOOLEAN : b = StillBusy
  BY DEF StillBusy
<1>9. chipBusy'[k] = <<b>> /\ \A d \in Chip \ {k} : chipBusy'[d] = chipBusy[d]
  <2>1. chipBusy' = Enq(chipBusy, k, b) /\ chipBusy \in [Chip -> Seq(BOOLEAN)]
    BY <1>1, <1>8 DEF DoGetStatus, MoreTypes, TypeOK, FifoFamily
  <2>2. chipBusy'[k] = <<b>>
    BY <1>4, <2>1 DEF Enq
  <2>3. \A d \in Chip \ {k} : chipBusy'[d] = chipBusy[d]
    BY <2>1 DEF Enq
  <2> QED
    BY <2>2, <2>3
<1>10. Answered(k)' <=> ~b
  <2>1. <<b>> # <<>> /\ Head(<<b>>) = b
    BY HeadOfOne
  <2>2. chipBusy'[k] # <<>>
    BY <1>9, <2>1
  <2>3. Head(chipBusy'[k]) = b
    BY <1>9, <2>1
  <2> QED
    BY <2>2, <2>3, Zenon DEF Answered
<1>11. \A d \in Chip \ {k} : Live(d)' = Live(d)
  <2> TAKE d \in Chip \ {k}
  <2>1. chipBusy'[d] = chipBusy[d] /\ chipQs' = chipQs
    BY <1>2, <1>9
  <2> QED
    BY <2>1, Zenon DEF Live, Answered
<1>12. \A t \in Tag : Unread(t) = 0
  BY <1>3 DEF Unread
<1>13. CASE b
  <2>1. ~Answered(k)'
    BY <1>10, <1>13
  <2>2. Live(k)' = Live(k)
    BY <1>2, <1>7, <2>1 DEF Live
  <2>3. StillBusy
    BY <1>8, <1>13
  <2>4. state' = "IDLE" /\ UNCHANGED ackQ
    BY <2>3 DEF DoGetStatus
  <2>5. \A t \in Tag : Unread(t)' = Unread(t)
    BY <1>12, <2>4 DEF Unread
  <2>6. \A d \in Chip : Live(d)' = Live(d)
    BY <1>11, <2>2
  <2> QED
    BY <1>2, <2>4, <2>5, <2>6, ElseTags
<1>14. CASE ~b
  <2>1. Answered(k)'
    BY <1>10, <1>14
  <2>2. Live(k)' = Tail(Live(k))
    BY <1>2, <1>7, <2>1 DEF Live
  <2>3. /\ Live(k) \in Seq(FlashCmd) /\ Live(k) # <<>> /\ Head(Live(k)) = cmd
        /\ Len(Live(k)) \in Nat /\ Len(Live(k)) > 0 /\ Live(k)[1] = cmd
    BY <1>4, <1>5, <1>6, <1>7, Take
  <2>4. host[g] = cmd /\ cmd.chip = k
    <3>1. 1 \in 1..Len(Live(k))
      BY <2>3
    <3>2. host[Live(k)[1].tag] = Live(k)[1] /\ Live(k)[1].chip = k
      BY <3>1, TagsKnown
    <3> QED
      BY <1>6, <2>3, <3>2
  <2>5. KnownToHost'
    <3>1. \A i \in 1..Len(flashCmdQ') : host'[flashCmdQ'[i].tag] = flashCmdQ'[i]
      BY <1>2, TagsKnown
    <3>2. ASSUME NEW d \in Chip, NEW i \in 1..Len(Live(d)')
          PROVE  host'[Live(d)'[i].tag] = Live(d)'[i] /\ Live(d)'[i].chip = d
      <4>1. CASE d # k
        BY <1>2, <1>11, <4>1, TagsKnown
      <4>2. CASE d = k
        <5>1. Live(d)' = Tail(Live(d)) /\ Live(d) \in Seq(FlashCmd) /\ Live(d) # <<>>
          BY <2>2, <2>3, <4>2
        <5>2. /\ Len(Live(d)) \in Nat /\ Len(Tail(Live(d))) = Len(Live(d)) - 1
              /\ \A j \in 1..Len(Tail(Live(d))) : Tail(Live(d))[j] = Live(d)[j + 1]
          BY <5>1, Take
        <5>3. i \in 1..Len(Tail(Live(d)))
          BY <5>1
        <5>4. Live(d)'[i] = Live(d)[i + 1] /\ i + 1 \in 1..Len(Live(d))
          BY <5>1, <5>2, <5>3
        <5>5. host[Live(d)[i + 1].tag] = Live(d)[i + 1] /\ Live(d)[i + 1].chip = d
          BY <5>4, TagsKnown
        <5> QED
          BY <1>2, <5>4, <5>5
      <4> QED
        BY <4>1, <4>2
    <3> QED
      BY <3>1, <3>2 DEF KnownToHost
  <2>6. \/ state' = "READ_DATA_WAIT_BUF" /\ ackQ' = ackQ
        \/ state' = "IDLE" /\ ackQ' = Append(ackQ, g)
    <3>1. ~StillBusy
      BY <1>8, <1>14
    <3> QED
      BY <1>1, <3>1 DEF DoGetStatus
  <2>7. OneOfEach'
    <3> SUFFICES ASSUME NEW t \in Tag, NEW c \in Chip
                 PROVE  InFlight(t, c)' <= IF host'[t] = NoTag THEN 0 ELSE 1
      BY DEF OneOfEach
    <3>1. PICK h \in {0, 1} : h = IF host[t] = NoTag THEN 0 ELSE 1
      OBVIOUS
    <3>2. PICK f \in Nat, l \in Nat, a \in Nat, r \in Nat :
            /\ f = Occurs(flashCmdQ, Of(t)) /\ l = Occurs(Live(c), Of(t))
            /\ a = Occurs(ackQ, {t}) /\ r = Occurs(readTagQ, {t})
      BY CountsTyped
    <3>3. f + l + a + r <= h
      <4>1. InFlight(t, c) = f + l + a + r
        BY <1>12, <3>2 DEF InFlight
      <4>2. InFlight(t, c) <= IF host[t] = NoTag THEN 0 ELSE 1
        BY TagsKnown
      <4> QED
        BY <3>1, <4>1, <4>2
    <3>4. PICK e \in {0, 1} : e = IF t = g THEN 1 ELSE 0
      OBVIOUS
    <3>5. PICK n \in Nat : n = Occurs(Live(c)', Of(t)) /\ n + e <= l + (IF c = k THEN 0 ELSE e)
      <4>1. CASE c = k
        <5>1. /\ Occurs(Live(k), Of(t)) \in Nat /\ Occurs(Tail(Live(k)), Of(t)) \in Nat
              /\ cmd \in Of(t) => Occurs(Tail(Live(k)), Of(t)) = Occurs(Live(k), Of(t)) - 1
              /\ cmd \notin Of(t) => Occurs(Tail(Live(k)), Of(t)) = Occurs(Live(k), Of(t))
          BY <2>3, HeadCounted
        <5>2. cmd \in Of(t) <=> t = g
          BY <1>6 DEF Of
        <5>3. Live(c)' = Tail(Live(k)) /\ Live(c) = Live(k)
          BY <2>2, <4>1
        <5>4. PICK n \in Nat : n = Occurs(Tail(Live(k)), Of(t))
          BY <5>1
        <5>5. n = l - e
          BY <3>2, <3>4, <5>1, <5>2, <5>3, <5>4
        <5>6. n = Occurs(Live(c)', Of(t))
          BY <5>3, <5>4
        <5> QED
          BY <4>1, <5>5, <5>6
      <4>2. CASE c # k
        <5>1. Live(c)' = Live(c)
          BY <1>11, <4>2
        <5> QED
          BY <3>2, <4>2, <5>1
      <4> QED
        BY <4>1, <4>2
    <3>6. c # k /\ e = 1 => l = 0 /\ f + a + r + 1 <= h
      <4> SUFFICES ASSUME c # k, e = 1
                   PROVE  l = 0 /\ f + a + r + 1 <= h
        OBVIOUS
      <4>1. t = g
        BY <3>4
      <4>2. InFlight(t, k) <= h
        <5>1. InFlight(t, k) <= IF host[t] = NoTag THEN 0 ELSE 1
          BY TagsKnown
        <5> QED
          BY <3>1, <5>1
      <4>3. Occurs(Live(k), Of(t)) \in Nat /\ Occurs(Live(k), Of(t)) >= 1
        <5>1. cmd \in Of(t)
          BY <1>6, <4>1 DEF Of
        <5>2. Occurs(Live(k), Of(t)) \in Nat /\ (Head(Live(k)) \in Of(t) => Occurs(Live(k), Of(t)) >= 1)
          BY <2>3, HeadCounted
        <5> QED
          BY <2>3, <5>1, <5>2
      <4>4. InFlight(t, k) = f + Occurs(Live(k), Of(t)) + a + r
        BY <1>12, <3>2, <4>3 DEF InFlight
      <4>5. f + a + r + 1 <= h
        BY <4>2, <4>3, <4>4
      <4>6. \A i \in 1..Len(Live(c)) : Live(c)[i] \notin Of(t)
        <5> SUFFICES ASSUME NEW i \in 1..Len(Live(c)), Live(c)[i] \in Of(t)
                     PROVE  FALSE
          OBVIOUS
        <5>1. host[Live(c)[i].tag] = Live(c)[i] /\ Live(c)[i].chip = c
          BY TagsKnown
        <5>2. Live(c)[i].tag = g
          BY <4>1 DEF Of
        <5> QED
          BY <2>4, <5>1, <5>2
      <4>7. {i \in 1..Len(Live(c)) : Live(c)[i] \in Of(t)} = {}
        BY <4>6
      <4>8. l = 0
        BY <3>2, <4>7, FS_EmptySet DEF Occurs
      <4> QED
        BY <4>5, <4>8
    <3>7. PICK a1 \in Nat, u \in {0, 1} : a1 = Occurs(ackQ', {t}) /\ u = Unread(t)' /\ a1 + u = a + e
      <4>1. CASE state' = "READ_DATA_WAIT_BUF" /\ ackQ' = ackQ
        <5>1. Unread(t)' = e
          BY <1>1, <1>2, <3>4, <4>1 DEF Unread
        <5> QED
          BY <3>2, <4>1, <5>1
      <4>2. CASE state' = "IDLE" /\ ackQ' = Append(ackQ, g)
        <5>1. Unread(t)' = 0
          BY <4>2 DEF Unread
        <5>2. ackQ \in Seq(Tag)
          BY LiveTyped
        <5>3. Occurs(Append(ackQ, g), {t}) = Occurs(ackQ, {t}) + (IF g \in {t} THEN 1 ELSE 0)
          BY <5>2, OccursAppend
        <5>4. Occurs(ackQ', {t}) = a + e
          BY <3>2, <3>4, <4>2, <5>3
        <5> QED
          BY <5>1, <5>4
      <4> QED
        BY <2>6, <4>1, <4>2
    <3>8. InFlight(t, c)' = f + n + a1 + r + u
      BY <1>2, <3>2, <3>5, <3>7 DEF InFlight
    <3>9. f + n + a1 + r + u <= h
      <4>1. CASE c = k \/ e = 0
        <5>1. n + e <= l
          BY <3>5, <4>1
        <5> QED
          BY <3>1, <3>3, <3>4, <3>7, <5>1
      <4>2. CASE c # k /\ e = 1
        <5>1. n <= l
          BY <3>5, <4>2
        <5>2. l = 0 /\ f + a + r + 1 <= h
          BY <3>6, <4>2
        <5> QED
          BY <3>7, <4>2, <5>1, <5>2
      <4> QED
        BY <3>4, <4>1, <4>2
    <3> QED
      BY <1>2, <3>1, <3>8, <3>9
  <2> QED
    BY <2>5, <2>7 DEF Tags
<1> QED
  BY <1>13, <1>14

(* Tags may disappear on the way back, and never come back twice. *)
LEMMA FewerTags ==
  ASSUME MoreTypes, Control, Tags, UNCHANGED <<flashCmdQ, host>>,
         \A c \in Chip : Live(c)' = Live(c),
         \A t \in Tag : /\ Occurs(ackQ', {t}) \in Nat /\ Occurs(readTagQ', {t}) \in Nat
                        /\ Occurs(ackQ', {t}) + Occurs(readTagQ', {t}) + Unread(t)'
                             <= Occurs(ackQ, {t}) + Occurs(readTagQ, {t}) + Unread(t)
  PROVE  Tags'
<1>1. KnownToHost'
  BY DEF Tags, KnownToHost
<1>2. OneOfEach'
  <2> SUFFICES ASSUME NEW t \in Tag, NEW c \in Chip
               PROVE  InFlight(t, c)' <= IF host'[t] = NoTag THEN 0 ELSE 1
    BY DEF OneOfEach
  <2>1. PICK f \in Nat, l \in Nat, a \in Nat, r \in Nat, u \in {0, 1} :
          /\ f = Occurs(flashCmdQ, Of(t)) /\ l = Occurs(Live(c), Of(t))
          /\ a = Occurs(ackQ, {t}) /\ r = Occurs(readTagQ, {t}) /\ u = Unread(t)
    BY CountsTyped
  <2>2. PICK a1 \in Nat, r1 \in Nat, u1 \in {0, 1} :
          a1 = Occurs(ackQ', {t}) /\ r1 = Occurs(readTagQ', {t}) /\ u1 = Unread(t)'
    BY DEF Unread
  <2>3. a1 + r1 + u1 <= a + r + u
    BY <2>1, <2>2
  <2>4. InFlight(t, c)' = f + l + a1 + r1 + u1
    BY <2>1, <2>2 DEF InFlight
  <2>5. InFlight(t, c) = f + l + a + r + u
    BY <2>1 DEF InFlight
  <2>6. PICK h \in {0, 1} : h = IF host[t] = NoTag THEN 0 ELSE 1
    OBVIOUS
  <2>7. f + l + a + r + u <= h
    BY <2>5, <2>6, TagsKnown
  <2>8. f + l + a1 + r1 + u1 <= h
    BY <2>3, <2>7
  <2> QED
    BY <2>4, <2>6, <2>8
<1> QED
  BY <1>1, <1>2 DEF Tags

LEMMA LiveSame ==
  ASSUME UNCHANGED <<chipQs, chipBusy>>
  PROVE  \A c \in Chip : Live(c)' = Live(c)
BY Zenon DEF Live, Answered

(* The first word of a burst puts its tag in readTagQ. *)
LEMMA BurstTags ==
  ASSUME MoreTypes, Control, Tags, DoReadData
  PROVE  Tags'
<1>1. UNCHANGED <<flashCmdQ, host, chipQs, chipBusy, ackQ, cmdTagR>> /\ state = "READ_DATA"
  BY DEF DoReadData, board
<1>2. \A c \in Chip : Live(c)' = Live(c)
  BY <1>1, LiveSame
<1>3. PICK g \in Tag : g = cmdTagR
  BY <1>1 DEF Control, Moving
<1>4. PICK d \in 0..(PageWords - 1) : d = dataCnt
  BY <1>1, ReadsTyped DEF MoreTypes
<1>5. ASSUME NEW t \in Tag
      PROVE  /\ Occurs(ackQ', {t}) \in Nat /\ Occurs(readTagQ', {t}) \in Nat
             /\ Occurs(ackQ', {t}) + Occurs(readTagQ', {t}) + Unread(t)'
                  <= Occurs(ackQ, {t}) + Occurs(readTagQ, {t}) + Unread(t)
  <2>1. PICK a \in Nat, r \in Nat : a = Occurs(ackQ, {t}) /\ r = Occurs(readTagQ, {t})
    <3>1. ackQ \in Seq(Tag) /\ readTagQ \in Seq(Tag)
      BY LiveTyped
    <3> QED
      BY <3>1, OccursType
  <2>2. Unread(t) = IF t = g /\ d = 0 THEN 1 ELSE 0
    BY <1>1, <1>3, <1>4 DEF Unread
  <2>3. CASE readTagQ' = Append(readTagQ, g) /\ d = 0 /\ dataCnt' = 1 /\ state' # "READ_DATA_WAIT_BUF"
    <3>1. Occurs(Append(readTagQ, g), {t}) = Occurs(readTagQ, {t}) + (IF g \in {t} THEN 1 ELSE 0)
      <4>1. readTagQ \in Seq(Tag)
        BY LiveTyped
      <4> QED
        BY <4>1, OccursAppend
    <3>2. Unread(t)' = 0
      BY <2>3 DEF Unread
    <3>3. Occurs(readTagQ', {t}) = r + Unread(t)
      BY <2>1, <2>2, <2>3, <3>1
    <3>4. Unread(t) \in {0, 1}
      BY <2>2
    <3> QED
      BY <1>1, <2>1, <3>2, <3>3, <3>4
  <2>4. CASE readTagQ' = readTagQ /\ Unread(t)' = 0
    <3>1. Unread(t) \in {0, 1}
      BY <2>2
    <3> QED
      BY <1>1, <2>1, <2>4, <3>1
  <2>5. CASE Len(decodeInQ) > PageWords
    <3>1. readTagQ' = readTagQ /\ state' = "READ_ERROR"
      BY <2>5 DEF DoReadData
    <3>2. Unread(t)' = 0
      BY <3>1 DEF Unread
    <3> QED
      BY <2>4, <3>1, <3>2
  <2>6. CASE ~(Len(decodeInQ) > PageWords)
    <3>1. /\ readTagQ' = IF d = 0 THEN Append(readTagQ, g) ELSE readTagQ
          /\ dataCnt' = d + 1
          /\ state' \in {"IDLE", "READ_DATA"}
      BY <1>1, <1>3, <1>4, <2>6 DEF DoReadData
    <3>2. CASE d = 0
      <4>1. 0 + 1 = 1
        OBVIOUS
      <4> QED
        BY <2>3, <3>1, <3>2, <4>1
    <3>3. CASE d # 0
      <4>1. dataCnt' # 0
        BY <3>1
      <4>2. Unread(t)' = 0
        BY <3>1, <4>1 DEF Unread
      <4> QED
        BY <2>4, <3>1, <3>3, <4>2
    <3> QED
      BY <3>2, <3>3
  <2> QED
    BY <2>5, <2>6
<1> QED
  BY <1>1, <1>2, <1>5, FewerTags

(* A tag given back to the host leaves nothing behind. *)
LEMMA ReturnTags ==
  ASSUME MoreTypes, Control, Tags, NEW g \in Tag, UNCHANGED <<flashCmdQ, chipQs, chipBusy, state, cmdTagR, dataCnt>>,
         host' = [host EXCEPT ![g] = NoTag],
         \A t \in Tag : /\ Occurs(ackQ', {t}) \in Nat /\ Occurs(readTagQ', {t}) \in Nat
                        /\ Occurs(ackQ', {t}) + Occurs(readTagQ', {t}) + (IF t = g THEN 1 ELSE 0)
                             = Occurs(ackQ, {t}) + Occurs(readTagQ, {t})
  PROVE  Tags'
<1>1. \A c \in Chip : Live(c)' = Live(c)
  BY LiveSame
<1>2. host'[g] = NoTag /\ \A t \in Tag \ {g} : host'[t] = host[t]
  BY DEF MoreTypes, TypeOK
<1>3. \A t \in Tag : Unread(t)' = Unread(t)
  BY DEF Unread
<1>4. Occurs(ackQ, {g}) + Occurs(readTagQ, {g}) >= 1
  <2>1. PICK a1 \in Nat, r1 \in Nat : a1 = Occurs(ackQ', {g}) /\ r1 = Occurs(readTagQ', {g})
    OBVIOUS
  <2>2. Occurs(ackQ', {g}) + Occurs(readTagQ', {g}) + 1 = Occurs(ackQ, {g}) + Occurs(readTagQ, {g})
    OBVIOUS
  <2>3. a1 + r1 + 1 >= 1
    BY <2>1
  <2> QED
    BY <2>1, <2>2, <2>3
<1>5. /\ \A i \in 1..Len(flashCmdQ) : flashCmdQ[i].tag # g
      /\ \A c \in Chip : \A i \in 1..Len(Live(c)) : Live(c)[i].tag # g
  <2>1. PICK a \in Nat, r \in Nat, u \in {0, 1} :
          a = Occurs(ackQ, {g}) /\ r = Occurs(readTagQ, {g}) /\ u = Unread(g)
    <3>1. ackQ \in Seq(Tag) /\ readTagQ \in Seq(Tag)
      BY LiveTyped
    <3> QED
      BY <3>1, OccursType DEF Unread
  <2>2. a + r + u >= 1
    BY <1>4, <2>1
  <2>3. Occurs(ackQ, {g}) + Occurs(readTagQ, {g}) + Unread(g) >= 1
    BY <2>1, <2>2
  <2> QED
    BY <2>3, NoCommandLeft
<1>6. KnownToHost'
  <2>1. ASSUME NEW i \in 1..Len(flashCmdQ')
        PROVE  host'[flashCmdQ'[i].tag] = flashCmdQ'[i]
    <3>1. flashCmdQ[i] \in FlashCmd /\ flashCmdQ[i].tag # g
      BY <1>5, LiveTyped, ElementOfSeq
    <3>2. flashCmdQ[i].tag \in Tag \ {g}
      BY <3>1, CmdTyped
    <3>3. host[flashCmdQ[i].tag] = flashCmdQ[i]
      BY TagsKnown
    <3> QED
      BY <1>2, <3>2, <3>3
  <2>2. ASSUME NEW c \in Chip, NEW i \in 1..Len(Live(c)')
        PROVE  host'[Live(c)'[i].tag] = Live(c)'[i] /\ Live(c)'[i].chip = c
    <3>0. Live(c)' = Live(c) /\ i \in 1..Len(Live(c))
      BY <1>1
    <3>1. Live(c)[i] \in FlashCmd /\ Live(c)[i].tag # g
      BY <1>5, <3>0, LiveTyped, ElementOfSeq
    <3>2. Live(c)[i].tag \in Tag \ {g}
      BY <3>1, CmdTyped
    <3>3. host[Live(c)[i].tag] = Live(c)[i] /\ Live(c)[i].chip = c
      BY <3>0, TagsKnown
    <3> QED
      BY <1>2, <3>0, <3>2, <3>3
  <2> QED
    BY <2>1, <2>2 DEF KnownToHost
<1>7. OneOfEach'
  <2> SUFFICES ASSUME NEW t \in Tag, NEW c \in Chip
               PROVE  InFlight(t, c)' <= IF host'[t] = NoTag THEN 0 ELSE 1
    BY DEF OneOfEach
  <2>1. PICK f \in Nat, l \in Nat, a \in Nat, r \in Nat, u \in {0, 1} :
          /\ f = Occurs(flashCmdQ, Of(t)) /\ l = Occurs(Live(c), Of(t))
          /\ a = Occurs(ackQ, {t}) /\ r = Occurs(readTagQ, {t}) /\ u = Unread(t)
    BY CountsTyped
  <2>2. PICK a1 \in Nat, r1 \in Nat : a1 = Occurs(ackQ', {t}) /\ r1 = Occurs(readTagQ', {t})
    OBVIOUS
  <2>3. InFlight(t, c)' = f + l + a1 + r1 + u
    BY <1>1, <1>3, <2>1, <2>2 DEF InFlight
  <2>4. InFlight(t, c) = f + l + a + r + u
    BY <2>1 DEF InFlight
  <2>5. PICK h \in {0, 1} : h = IF host[t] = NoTag THEN 0 ELSE 1
    OBVIOUS
  <2>6. f + l + a + r + u <= h
    BY <2>4, <2>5, TagsKnown
  <2>7. CASE t = g
    <3>1. a1 + r1 + 1 = a + r
      BY <2>1, <2>2, <2>7
    <3>2. f + l + a1 + r1 + u <= 0
      BY <2>6, <3>1
    <3> QED
      BY <1>2, <2>3, <2>7, <3>2
  <2>8. CASE t # g
    <3>1. a1 + r1 + 0 = a + r
      BY <2>1, <2>2, <2>8
    <3>2. f + l + a1 + r1 + u <= h
      BY <2>6, <3>1
    <3> QED
      BY <1>2, <2>3, <2>5, <2>8, <3>2
  <2> QED
    BY <2>7, <2>8
<1> QED
  BY <1>6, <1>7 DEF Tags

(* The host takes the last word of a page, *)
LEMMA ReadWordTags ==
  ASSUME MoreTypes, Control, Tags, ReadWord
  PROVE  Tags'
<1>1. UNCHANGED <<flashCmdQ, chipQs, chipBusy, state, cmdTagR, dataCnt, ackQ>>
  BY DEF ReadWord, board, bus
<1>2. \A c \in Chip : Live(c)' = Live(c)
  BY <1>1, LiveSame
<1>3. ackQ \in Seq(Tag) /\ readTagQ \in Seq(Tag)
  BY LiveTyped
<1>4. CASE rdWdCnt = PageWords - 1
  <2>1. readTagQ # <<>> /\ readTagQ' = Tail(readTagQ) /\ host' = [host EXCEPT ![Head(readTagQ)] = NoTag]
    BY <1>4 DEF ReadWord
  <2>2. PICK g \in Tag : g = Head(readTagQ)
    BY <1>3, <2>1, Take
  <2>3. ASSUME NEW t \in Tag
        PROVE  /\ Occurs(ackQ', {t}) \in Nat /\ Occurs(readTagQ', {t}) \in Nat
               /\ Occurs(ackQ', {t}) + Occurs(readTagQ', {t}) + (IF t = g THEN 1 ELSE 0)
                    = Occurs(ackQ, {t}) + Occurs(readTagQ, {t})
    <3>1. /\ Occurs(readTagQ, {t}) \in Nat /\ Occurs(Tail(readTagQ), {t}) \in Nat
          /\ Head(readTagQ) \in {t} => Occurs(Tail(readTagQ), {t}) = Occurs(readTagQ, {t}) - 1
          /\ Head(readTagQ) \notin {t} => Occurs(Tail(readTagQ), {t}) = Occurs(readTagQ, {t})
      BY <1>3, <2>1, HeadCounted
    <3>2. Occurs(ackQ, {t}) \in Nat
      BY <1>3, OccursType
    <3>3. PICK a \in Nat, r \in Nat, r1 \in Nat :
            a = Occurs(ackQ, {t}) /\ r = Occurs(readTagQ, {t}) /\ r1 = Occurs(Tail(readTagQ), {t})
      BY <3>1, <3>2
    <3>4. r1 + (IF t = g THEN 1 ELSE 0) = r
      BY <2>2, <3>1, <3>3
    <3>5. a + r1 + (IF t = g THEN 1 ELSE 0) = a + r
      BY <3>4
    <3> QED
      BY <1>1, <2>1, <3>3, <3>5
  <2>4. host' = [host EXCEPT ![g] = NoTag]
    BY <2>1, <2>2
  <2> QED
    BY <1>1, <2>3, <2>4, ReturnTags
<1>5. CASE rdWdCnt # PageWords - 1
  <2>1. UNCHANGED <<readTagQ, host>>
    BY <1>5 DEF ReadWord
  <2>2. \A t \in Tag : Unread(t)' = Unread(t)
    BY <1>1 DEF Unread
  <2> QED
    BY <1>1, <1>2, <2>1, <2>2, ElseTags
<1> QED
  BY <1>4, <1>5

(* or an ack. *)
LEMMA AckTags ==
  ASSUME MoreTypes, Control, Tags, AckStatus
  PROVE  Tags'
<1>1. UNCHANGED <<flashCmdQ, chipQs, chipBusy, state, cmdTagR, dataCnt, readTagQ>>
  BY DEF AckStatus, board, bus, readPath
<1>2. ackQ \in Seq(Tag) /\ readTagQ \in Seq(Tag)
  BY LiveTyped
<1>3. ackQ # <<>> /\ ackQ' = Tail(ackQ) /\ host' = [host EXCEPT ![Head(ackQ)] = NoTag]
  BY DEF AckStatus
<1>4. PICK g \in Tag : g = Head(ackQ)
  BY <1>2, <1>3, Take
<1>5. ASSUME NEW t \in Tag
      PROVE  /\ Occurs(ackQ', {t}) \in Nat /\ Occurs(readTagQ', {t}) \in Nat
             /\ Occurs(ackQ', {t}) + Occurs(readTagQ', {t}) + (IF t = g THEN 1 ELSE 0)
                  = Occurs(ackQ, {t}) + Occurs(readTagQ, {t})
  <2>1. /\ Occurs(ackQ, {t}) \in Nat /\ Occurs(Tail(ackQ), {t}) \in Nat
        /\ Head(ackQ) \in {t} => Occurs(Tail(ackQ), {t}) = Occurs(ackQ, {t}) - 1
        /\ Head(ackQ) \notin {t} => Occurs(Tail(ackQ), {t}) = Occurs(ackQ, {t})
    BY <1>2, <1>3, HeadCounted
  <2>2. Occurs(readTagQ, {t}) \in Nat
    BY <1>2, OccursType
  <2>3. PICK r \in Nat, a \in Nat, a1 \in Nat :
          r = Occurs(readTagQ, {t}) /\ a = Occurs(ackQ, {t}) /\ a1 = Occurs(Tail(ackQ), {t})
    BY <2>1, <2>2
  <2>4. a1 + (IF t = g THEN 1 ELSE 0) = a
    BY <1>4, <2>1, <2>3
  <2>5. a1 + r + (IF t = g THEN 1 ELSE 0) = a + r
    BY <2>4
  <2> QED
    BY <1>1, <1>3, <2>3, <2>5
<1>6. host' = [host EXCEPT ![g] = NoTag]
  BY <1>3, <1>4
<1> QED
  BY <1>1, <1>5, <1>6, ReturnTags

(* The host sends a command under a tag that is nowhere. *)
LEMMA SendTags ==
  ASSUME MoreTypes, Control, Tags, NEW cmd \in FlashCmd, SendCmd(cmd)
  PROVE  Tags'
<1>1. PICK g \in Tag : g = cmd.tag
  BY CmdTyped
<1>2. /\ UNCHANGED <<chipQs, chipBusy, state, cmdTagR, dataCnt, ackQ, readTagQ>>
      /\ host[g] = NoTag /\ flashCmdQ' = Append(flashCmdQ, cmd)
      /\ host'[g] = cmd /\ \A t \in Tag \ {g} : host'[t] = host[t]
  BY <1>1 DEF SendCmd, board, bus, readPath, MoreTypes, TypeOK
<1>3. \A c \in Chip : Live(c)' = Live(c)
  BY <1>2, LiveSame
<1>4. \A t \in Tag : Unread(t)' = Unread(t)
  BY <1>2 DEF Unread
<1>5. /\ \A i \in 1..Len(flashCmdQ) : flashCmdQ[i].tag # g
      /\ \A c \in Chip : \A i \in 1..Len(Live(c)) : Live(c)[i].tag # g
  BY <1>2, NoCommandLeft
<1>6. cmd # NoTag
  BY CommandAssumption
<1>7. flashCmdQ \in Seq(FlashCmd)
  BY LiveTyped
<1>8. /\ Len(flashCmdQ) \in Nat /\ Len(Append(flashCmdQ, cmd)) = Len(flashCmdQ) + 1
      /\ Append(flashCmdQ, cmd)[Len(flashCmdQ) + 1] = cmd
      /\ \A i \in 1..Len(flashCmdQ) : Append(flashCmdQ, cmd)[i] = flashCmdQ[i]
  BY <1>7, Put
<1>9. KnownToHost'
  <2>1. ASSUME NEW i \in 1..Len(flashCmdQ')
        PROVE  host'[flashCmdQ'[i].tag] = flashCmdQ'[i]
    <3>1. CASE i = Len(flashCmdQ) + 1
      <4>1. flashCmdQ'[i] = cmd
        BY <1>2, <1>8, <3>1
      <4> QED
        BY <1>1, <1>2, <4>1
    <3>2. CASE i # Len(flashCmdQ) + 1
      <4>1. i \in 1..Len(flashCmdQ) /\ flashCmdQ'[i] = flashCmdQ[i]
        BY <1>2, <1>8, <3>2
      <4>2. flashCmdQ[i].tag \in Tag \ {g}
        BY <1>5, <1>7, <4>1, ElementOfSeq, CmdTyped
      <4>3. host[flashCmdQ[i].tag] = flashCmdQ[i]
        BY <4>1, TagsKnown
      <4> QED
        BY <1>2, <4>1, <4>2, <4>3
    <3> QED
      BY <3>1, <3>2
  <2>2. ASSUME NEW c \in Chip, NEW i \in 1..Len(Live(c)')
        PROVE  host'[Live(c)'[i].tag] = Live(c)'[i] /\ Live(c)'[i].chip = c
    <3>0. Live(c)' = Live(c) /\ i \in 1..Len(Live(c))
      BY <1>3
    <3>1. Live(c)[i] \in FlashCmd /\ Live(c)[i].tag # g
      BY <1>5, <3>0, LiveTyped, ElementOfSeq
    <3>2. Live(c)[i].tag \in Tag \ {g}
      BY <3>1, CmdTyped
    <3>3. host[Live(c)[i].tag] = Live(c)[i] /\ Live(c)[i].chip = c
      BY <3>0, TagsKnown
    <3> QED
      BY <1>2, <3>0, <3>2, <3>3
  <2> QED
    BY <2>1, <2>2 DEF KnownToHost
<1>10. OneOfEach'
  <2> SUFFICES ASSUME NEW t \in Tag, NEW c \in Chip
               PROVE  InFlight(t, c)' <= IF host'[t] = NoTag THEN 0 ELSE 1
    BY DEF OneOfEach
  <2>1. PICK f \in Nat, l \in Nat, a \in Nat, r \in Nat, u \in {0, 1} :
          /\ f = Occurs(flashCmdQ, Of(t)) /\ l = Occurs(Live(c), Of(t))
          /\ a = Occurs(ackQ, {t}) /\ r = Occurs(readTagQ, {t}) /\ u = Unread(t)
    BY CountsTyped
  <2>2. PICK e \in {0, 1} : e = IF t = g THEN 1 ELSE 0
    OBVIOUS
  <2>3. Occurs(flashCmdQ', Of(t)) = f + e
    <3>1. Occurs(Append(flashCmdQ, cmd), Of(t)) = Occurs(flashCmdQ, Of(t)) + (IF cmd \in Of(t) THEN 1 ELSE 0)
      BY <1>7, OccursAppend
    <3>2. cmd \in Of(t) <=> t = g
      BY <1>1 DEF Of
    <3> QED
      BY <1>2, <2>1, <2>2, <3>1, <3>2
  <2>4. InFlight(t, c)' = f + e + l + a + r + u
    BY <1>2, <1>3, <1>4, <2>1, <2>3 DEF InFlight
  <2>5. InFlight(t, c) = f + l + a + r + u
    BY <2>1 DEF InFlight
  <2>6. PICK h \in {0, 1} : h = IF host[t] = NoTag THEN 0 ELSE 1
    OBVIOUS
  <2>7. f + l + a + r + u <= h
    BY <2>5, <2>6, TagsKnown
  <2>8. CASE t = g
    <3>1. f + e + l + a + r + u <= 1
      BY <1>2, <2>2, <2>6, <2>7, <2>8
    <3> QED
      BY <1>2, <1>6, <2>4, <2>8, <3>1
  <2>9. CASE t # g
    <3>1. f + e + l + a + r + u <= h
      BY <2>2, <2>7, <2>9
    <3> QED
      BY <1>2, <2>4, <2>6, <2>9, <3>1
  <2> QED
    BY <2>8, <2>9
<1> QED
  BY <1>9, <1>10 DEF Tags

(* Steps that leave the queues alone and move between states that hold no   *)
(* unread page.                                                            *)
LEMMA QuietTags ==
  ASSUME MoreTypes, Control, Tags, UNCHANGED <<flashCmdQ, chipQs, chipBusy, ackQ, readTagQ, host>>,
         \/ UNCHANGED <<state, cmdTagR, dataCnt>>
         \/ /\ state \notin {"READ_DATA_WAIT_BUF", "READ_DATA"}
            /\ state' \notin {"READ_DATA_WAIT_BUF", "READ_DATA"}
         \/ /\ state = "READ_DATA_WAIT_BUF" /\ dataCnt = 0
            /\ state' = "READ_DATA" /\ UNCHANGED <<cmdTagR, dataCnt>>
  PROVE  Tags'
<1>1. \A c \in Chip : Live(c)' = Live(c)
  BY LiveSame
<1>2. \A t \in Tag : Unread(t)' = Unread(t)
  BY DEF Unread
<1> QED
  BY <1>1, <1>2, ElseTags

LEMMA TagsInit == Init => Tags
<1> SUFFICES ASSUME Init PROVE Tags
  OBVIOUS
<1>1. flashCmdQ = <<>> /\ ackQ = <<>> /\ readTagQ = <<>> /\ state = "IDLE"
  BY DEF Init
<1>2. \A c \in Chip : chipQs[c] = <<>> /\ chipBusy[c] = <<>>
  BY DEF Init
<1>3. \A c \in Chip : Live(c) = <<>>
  BY <1>2, Zenon DEF Live, Answered
<1>4. Len(<<>>) = 0
  OBVIOUS
<1>5. KnownToHost
  BY <1>1, <1>3, <1>4 DEF KnownToHost
<1>6. OneOfEach
  <2> SUFFICES ASSUME NEW t \in Tag, NEW c \in Chip
               PROVE  InFlight(t, c) <= IF host[t] = NoTag THEN 0 ELSE 1
    BY DEF OneOfEach
  <2>1. Occurs(<<>>, Of(t)) = 0 /\ Occurs(<<>>, {t}) = 0
    BY OccursEmpty
  <2>2. Unread(t) = 0
    BY <1>1 DEF Unread
  <2>3. InFlight(t, c) = 0 + 0 + 0 + 0 + 0
    BY <1>1, <1>3, <2>1, <2>2 DEF InFlight
  <2> QED
    BY <2>3
<1> QED
  BY <1>5, <1>6 DEF Tags

LEMMA TagsStep ==
  ASSUME MoreTypes, Control, Tags, [Next]_vars
  PROVE  Tags'
<1>1. CASE DoSBCmd
  BY <1>1, PutTags
<1>2. CASE TakeStatus
  BY <1>2, AnswerTags
<1>3. CASE DoGetStatus
  BY <1>3, PollTags
<1>4. CASE DoReadData
  BY <1>4, BurstTags
<1>5. CASE ReadWord
  BY <1>5, ReadWordTags
<1>6. CASE AckStatus
  BY <1>6, AckTags
<1>7. CASE \E cmd \in FlashCmd : SendCmd(cmd)
  BY <1>7, SendTags
<1>8. CASE DoReadDataWaitBuf
  <2>1. UNCHANGED <<flashCmdQ, chipQs, chipBusy, ackQ, readTagQ, host>>
    BY <1>8 DEF DoReadDataWaitBuf, board, readPath
  <2>2. /\ state = "READ_DATA_WAIT_BUF" /\ dataCnt = 0
        /\ state' = "READ_DATA" /\ UNCHANGED <<cmdTagR, dataCnt>>
    BY <1>8 DEF DoReadDataWaitBuf, MoreTypes
  <2> QED
    BY <2>1, <2>2, QuietTags
<1>9. CASE DoDecodeCmd \/ DoReadPage \/ DoEraseBlock \/ DoWriteDataWait \/ DoWritePageData \/ DoWriteDone
  <2>1. UNCHANGED <<flashCmdQ, chipQs, chipBusy, ackQ, readTagQ, host>>
    BY <1>9 DEF DoDecodeCmd, DoReadPage, DoEraseBlock, DoWriteDataWait, DoWritePageData, DoWriteDone,
                board, readPath
  <2>2. state \notin {"READ_DATA_WAIT_BUF", "READ_DATA"}
    BY <1>9 DEF DoDecodeCmd, DoReadPage, DoEraseBlock, DoWriteDataWait, DoWritePageData, DoWriteDone
  <2>3. state' \notin {"READ_DATA_WAIT_BUF", "READ_DATA"}
    <3>1. CASE DoDecodeCmd
      <4>1. Head(cmdOutQ) \in BusOpEntry
        BY <3>1, OpsTyped, Take DEF DoDecodeCmd
      <4> QED
        BY <3>1, <4>1 DEF DoDecodeCmd, BusOpEntry, BusOp
    <3>2. CASE DoWritePageData
      BY <3>2 DEF DoWritePageData
    <3> QED
      BY <1>9, <3>1, <3>2 DEF DoReadPage, DoEraseBlock, DoWriteDataWait, DoWriteDone, Start
  <2> QED
    BY <2>1, <2>2, <2>3, QuietTags
<1>10. CASE DoChooseChip \/ IssueStep \/ AwaitData \/ PageBuffer \/ DoDecode
  <2>1. UNCHANGED <<flashCmdQ, chipQs, chipBusy, ackQ, readTagQ, host, state, cmdTagR, dataCnt>>
    <3>1. CASE DoChooseChip \/ IssueStep \/ AwaitData
      BY <3>1 DEF DoChooseChip, IssueStep, AwaitData, bus, readPath
    <3>2. CASE PageBuffer
      BY <3>2 DEF PageBuffer, DoHandleWriteDataReq, DoWriteFetchWait, WriteWord, DoWriteBufTransfer,
                  DoWriteDataTransferReq, DoWriteDataTransferToBus, board, bus, readPath
    <3>3. CASE DoDecode
      BY <3>3 DEF DoDecode, board, bus
    <3> QED
      BY <1>10, <3>1, <3>2, <3>3
  <2> QED
    BY <2>1, QuietTags
<1>11. CASE SetWriteDataRdy \/ (\E c \in Chip : TimerExpires(c) \/ NandDone(c)) \/ UNCHANGED vars
  <2>1. UNCHANGED <<flashCmdQ, chipQs, chipBusy, ackQ, readTagQ, host, state, cmdTagR, dataCnt>>
    <3>1. CASE SetWriteDataRdy
      BY <3>1 DEF SetWriteDataRdy, board, bus, readPath
    <3>2. CASE \E c \in Chip : TimerExpires(c) \/ NandDone(c)
      BY <3>2 DEF TimerExpires, NandDone, board, bus, readPath
    <3>3. CASE UNCHANGED vars
      BY <3>3 DEF vars, board, bus, readPath
    <3> QED
      BY <1>11, <3>1, <3>2, <3>3
  <2> QED
    BY <2>1, QuietTags
<1> QED
  BY <1>1, <1>2, <1>3, <1>4, <1>5, <1>6, <1>7, <1>8, <1>9, <1>10, <1>11
     DEF Next, Scoreboard, BusController, ReadPath

(* The command of a tag that the host has in flight is in one place at a    *)
(* time, the place that its answer comes from; other tags are nowhere.     *)
THEOREM FlashBusTags == Spec => []Tags
<1>1. MoreTypes /\ Control /\ Tags /\ [Next]_vars => Tags'
  BY TagsStep
<1> QED
  BY <1>1, TagsInit, FlashBusControl, PTL DEF Spec

(* An answer that ends a write or an erase is about the command at the head *)
(* of its chip's queue, which is the one the chip was started on.          *)
LEMMA FinishedFirst ==
  ASSUME MoreTypes, Control, Tags, DoGetStatus, ackQ' # ackQ
  PROVE  \E g \in Tag, k \in Chip :
           /\ ackQ' = Append(ackQ, g)
           /\ host[g] # NoTag /\ host[g].op # "READ_PAGE" /\ host[g].chip = k
           /\ nandTag[k] = g /\ nandOp[k] = "idle"
<1>1. PICK k \in Chip, g \in Tag : k = chipR /\ g = cmdTagR
  BY DEF DoGetStatus, Doing, MoreTypes, TypeOK
<1>2. /\ ackQ' = Append(ackQ, g) /\ nandOp[k] = "idle"
      /\ state \in {"WRITE_GET_STATUS", "ERASE_GET_STATUS"}
  BY <1>1 DEF DoGetStatus, StillBusy
<1>3. Doing # "NONE" /\ CommandOf(Doing) # "READ_PAGE" /\ Rank(Doing) = 3
  BY <1>2 DEF Doing, CommandOf, Rank
<1>4. PICK o : o = [tag |-> cmdTagR, busOp |-> Doing, chip |-> chipR]
  OBVIOUS
<1>5. o.tag = g /\ o.chip = k /\ CommandOf(o.busOp) # "READ_PAGE" /\ Rank(o.busOp) = 3
  BY <1>1, <1>3, <1>4
<1>6. Ops # <<>> /\ o = Head(Ops) /\ Ops[1] = o /\ 1 \in 1..Len(Ops)
  <2>1. Ops # <<>> /\ o = Head(Ops)
    BY <1>3, <1>4, OpsTyped
  <2>2. Ops[1] = o /\ Len(Ops) \in Nat /\ Len(Ops) > 0
    BY <2>1, OpsTyped, Take
  <2> QED
    BY <2>1, <2>2
<1>7. /\ chipQs[k] # <<>> /\ chipBusy[k] = <<>> /\ g = Head(chipQs[k]).tag
      /\ CommandOf(o.busOp) = Head(chipQs[k]).op
      /\ Rank(o.busOp) <= StageRank(chipStages[k])
  BY <1>5, <1>6 DEF Control, OpsAgree
<1>8. chipQs[k] \in Seq(FlashCmd)
  BY LiveTyped
<1>9. PICK cmd \in FlashCmd : cmd = Head(chipQs[k]) /\ cmd.tag = g /\ cmd.op # "READ_PAGE"
  BY <1>5, <1>7, <1>8, Take
<1>10. host[g] = cmd /\ cmd.chip = k
  <2>1. Live(k) = chipQs[k]
    BY <1>7, Zenon DEF Live, Answered
  <2>2. Live(k)[1] = cmd /\ 1 \in 1..Len(Live(k))
    <3>1. Live(k)[1] = cmd /\ Len(Live(k)) \in Nat /\ Len(Live(k)) > 0
      BY <1>7, <1>8, <1>9, <2>1, Take
    <3> QED
      BY <3>1
  <2>3. host[Live(k)[1].tag] = Live(k)[1] /\ Live(k)[1].chip = k
    BY <2>2, TagsKnown
  <2> QED
    BY <1>9, <2>2, <2>3
<1>11. nandTag[k] = g
  <2>0. Ops' = Tail(Ops)
    <3>1. Doing' = "NONE" /\ UNCHANGED cmdOutQ
      BY <1>2 DEF DoGetStatus, StillBusy, Doing
    <3> QED
      BY <1>3, <3>1, OpsTyped DEF Ops
  <2>1. ~StartDue(k)
    BY <1>5, <1>6, <2>0, EndedFacts DEF Control
  <2>2. StageRank(chipStages[k]) >= 2
    BY <1>5, <1>7, Ranks
  <2> QED
    BY <1>7, <2>1, <2>2 DEF Control, ChipsAgree
<1>12. cmd # NoTag
  BY CommandAssumption
<1> QED
  BY <1>2, <1>9, <1>10, <1>11, <1>12

(* doGetStatusData acks a tag only for the command that the host has under  *)
(* it, on a chip that has finished it.                                     *)
THEOREM OnlyFinishedWorkAcked == Spec => AcksFinishedWork
<1> DEFINE A == ackQ' # ackQ /\ Len(ackQ') >= Len(ackQ) =>
                  LET t == ackQ'[Len(ackQ')]
                  IN /\ host[t] # NoTag
                     /\ host[t].op # "READ_PAGE"
                     /\ nandTag[host[t].chip] = t
                     /\ nandOp[host[t].chip] = "idle"
<1>1. ASSUME MoreTypes, Control, Tags, [Next]_vars PROVE A
  <2>1. CASE DoGetStatus
    <3> SUFFICES ASSUME ackQ' # ackQ PROVE A
      OBVIOUS
    <3>1. PICK g \in Tag, k \in Chip :
            /\ ackQ' = Append(ackQ, g)
            /\ host[g] # NoTag /\ host[g].op # "READ_PAGE" /\ host[g].chip = k
            /\ nandTag[k] = g /\ nandOp[k] = "idle"
      BY <1>1, <2>1, FinishedFirst
    <3>2. ackQ \in Seq(Tag)
      BY <1>1, LiveTyped
    <3>3. Len(ackQ') = Len(ackQ) + 1 /\ ackQ'[Len(ackQ) + 1] = g
      BY <3>1, <3>2, Put
    <3> QED
      BY <3>1, <3>3
  <2>2. CASE AckStatus
    <3>1. ackQ \in Seq(Tag) /\ ackQ # <<>> /\ ackQ' = Tail(ackQ)
      BY <1>1, <2>2, LiveTyped DEF AckStatus
    <3>2. Len(ackQ) \in Nat /\ Len(ackQ') = Len(ackQ) - 1
      BY <3>1, Take
    <3> QED
      BY <3>2
  <2>3. CASE ~DoGetStatus /\ ~AckStatus
    <3>1. ackQ' = ackQ
      <4>1. CASE DoSBCmd \/ Scoreboard
        BY <4>1 DEF DoSBCmd, Scoreboard, DoChooseChip, IssueStep, AwaitData, TakeStatus
      <4>2. CASE BusController
        BY <2>3, <4>2 DEF BusController, DoDecodeCmd, DoReadPage, DoEraseBlock, DoReadDataWaitBuf, DoReadData,
                          DoWriteDataWait, DoWritePageData, DoWriteDone
      <4>3. CASE PageBuffer \/ SetWriteDataRdy \/ ReadPath
        BY <4>3 DEF PageBuffer, DoHandleWriteDataReq, DoWriteFetchWait, WriteWord, DoWriteBufTransfer,
                    DoWriteDataTransferReq, DoWriteDataTransferToBus, SetWriteDataRdy, ReadPath, DoDecode, ReadWord
      <4>4. CASE (\E c \in Chip : TimerExpires(c) \/ NandDone(c)) \/ UNCHANGED vars
        BY <4>4 DEF TimerExpires, NandDone, vars
      <4>5. CASE \E cmd \in FlashCmd : SendCmd(cmd)
        BY <4>5 DEF SendCmd
      <4> QED
        BY <1>1, <2>3, <4>1, <4>2, <4>3, <4>4, <4>5 DEF Next
    <3> QED
      BY <3>1
  <2> QED
    BY <2>1, <2>2, <2>3
<1>2. Spec => [](MoreTypes /\ Control /\ Tags)
  BY FlashBusControl, FlashBusTags, PTL
<1>3. MoreTypes /\ Control /\ Tags /\ [Next]_vars => [A]_vars
  BY <1>1
<1>4. Spec => [][A]_vars
  BY <1>2, <1>3, PTL DEF Spec
<1> QED
  BY <1>4 DEF AcksFinishedWork

-----------------------------------------------------------------------------
(* Writing.  The bus is programming a page; Given words of it have left the *)
(* front buffer, and the page is owed as long as there are more.           *)
Writing == state \in {"WRITE_PAGE_WAIT", "WRITE_PAGE"}
Given == IF wrDataTransReqQ # <<>> THEN 0 ELSE IF wrState = 1 THEN wdataCnt ELSE PageWords
Owed == Writing /\ Given < PageWords

(* The words in the two buffers, oldest first: the rest of the page owed and *)
(* whole pages, up to the one that the host is still sending.  Words of up  *)
(* to three pages, of tags a, b and c, follow each other; First is the      *)
(* place of the oldest.                                                    *)
Words == pageBufFront \o pageBufBack
First == IF Owed THEN Given ELSE 0
TagAt(a, b, c, p) == IF p < PageWords THEN a ELSE IF p < PageWords + PageWords THEN b ELSE c
PlaceAt(p) ==
  IF p < PageWords THEN p
  ELSE IF p < PageWords + PageWords THEN p - PageWords ELSE p - (PageWords + PageWords)
WordAt(a, b, c, p) == <<TagAt(a, b, c, p), PlaceAt(p)>>
PageOf(t) == [i \in 1..PageWords |-> <<t, i - 1>>]

Stream ==
  /\ Len(pageBufFront) <= PageWords /\ Len(pageBufBack) <= PageWords
  /\ Owed => First + Len(pageBufFront) >= PageWords
  /\ PlaceAt(First + Len(Words)) = writeWordCnt
  /\ writeWordCnt > 0 => wrDataReqQ # <<>>
  /\ \E a, b, c \in Tag \cup {NoTag} :
       /\ Owed => a = cmdTagR
       /\ writeWordCnt > 0 => TagAt(a, b, c, First + Len(Words)) = Head(wrDataReqQ)
       /\ \A k \in 1..Len(Words) : Words[k] = WordAt(a, b, c, First + k - 1)

(* What has left the front buffer is in encodeOutQ or in the chip's register. *)
Burst ==
  /\ wrDataTransReqQ = <<>> \/ wrDataTransReqQ = <<1>>
  /\ wrDataTransReqQ # <<>> => Writing
  /\ wrState = 1 /\ (wrDataTransReqQ # <<>> \/ ~Writing) => wdataCnt = PageWords
  /\ Writing => /\ Len(encodeOutQ) = Given - dataCnt
                /\ \A k \in 1..Len(encodeOutQ) : encodeOutQ[k] = <<cmdTagR, dataCnt + k - 1>>
  /\ ~Writing => encodeOutQ = <<>>
  /\ state = "WRITE_PAGE" => /\ Len(nandPage[chipR]) = dataCnt
                             /\ \A k \in 1..dataCnt : nandPage[chipR][k] = <<cmdTagR, k - 1>>

(* The ready signal names the page in the front buffer, or lags behind it. *)
RdyHonest == wdataRdyTag # NoTag => pageBufFront = PageOf(wdataRdyTag) \/ (Writing /\ cmdTagR = wdataRdyTag)
PageWaits ==
  \A i \in 1..Len(cmdOutQ) :
    cmdOutQ[i].busOp = "WRITE_CMD_DATA" => pageBufFront = PageOf(cmdOutQ[i].tag) /\ ~Owed
Programmed == \A c \in Chip : nandOp[c] = "programming" => nandPage[c] = PageOf(nandTag[c])
Writes == Stream /\ Burst /\ RdyHonest /\ PageWaits /\ Programmed

LEMMA WritesTyped ==
  ASSUME MoreTypes
  PROVE  /\ pageBufFront \in Seq(Word) /\ pageBufBack \in Seq(Word) /\ encodeOutQ \in Seq(Word)
         /\ Words \in Seq(Word) /\ Len(Words) = Len(pageBufFront) + Len(pageBufBack)
         /\ Len(pageBufFront) \in Nat /\ Len(pageBufBack) \in Nat /\ Len(encodeOutQ) \in Nat
         /\ writeWordCnt \in 0..(PageWords - 1) /\ wrDataReqQ \in Seq(Tag)
         /\ wdataCnt \in 0..PageWords /\ dataCnt \in 0..PageWords
         /\ Given \in 0..PageWords /\ First \in 0..(PageWords - 1)
         /\ PageWords \in Nat /\ PageWords > 1
<1>1. pageBufFront \in Seq(Word) /\ pageBufBack \in Seq(Word) /\ encodeOutQ \in Seq(Word)
  BY DEF MoreTypes, TypeOK
<1>2. Words \in Seq(Word) /\ Len(Words) = Len(pageBufFront) + Len(pageBufBack)
  BY <1>1, ConcatProperties DEF Words
<1>3. Len(pageBufFront) \in Nat /\ Len(pageBufBack) \in Nat /\ Len(encodeOutQ) \in Nat
  BY <1>1, LenProperties
<1>4. /\ writeWordCnt \in 0..(PageWords - 1) /\ wrDataReqQ \in Seq(Tag)
      /\ wdataCnt \in 0..PageWords /\ dataCnt \in 0..PageWords
  BY DEF MoreTypes, TypeOK
<1>5. PageWords \in Nat /\ PageWords > 1
  BY Sizes
<1>6. Given \in 0..PageWords
  BY <1>4, <1>5 DEF Given
<1>7. First \in 0..(PageWords - 1)
  BY <1>5, <1>6 DEF First, Owed
<1> QED
  BY <1>1, <1>2, <1>3, <1>4, <1>5, <1>6, <1>7

LEMMA PageOfLen ==
  ASSUME NEW t, NEW q \in Seq(Word), q = PageOf(t)
  PROVE  /\ Len(q) = PageWords /\ q # <<>> /\ Head(q) = <<t, 0>> /\ q[1] = <<t, 0>>
         /\ \A i \in 1..PageWords : q[i] = <<t, i - 1>>
<1>1. PageWords \in Nat /\ PageWords > 1
  BY Sizes
<1>2. \A i \in 1..PageWords : q[i] = <<t, i - 1>>
  BY DEF PageOf
<1>3. DOMAIN q = 1..PageWords
  BY DEF PageOf
<1>4. Len(q) = PageWords
  <2>1. PICK n \in Nat : n = Len(q)
    BY LenProperties
  <2>2. 1..n = 1..PageWords
    BY <1>3, <2>1, LenProperties
  <2>3. PageWords \in 1..PageWords
    BY <1>1
  <2>4. PageWords \in 1..n
    BY <2>2, <2>3
  <2>5. PageWords <= n
    BY <1>1, <2>4
  <2>6. n \in 1..n
    BY <1>1, <2>5
  <2>7. n \in 1..PageWords
    BY <2>2, <2>6
  <2>8. n <= PageWords
    BY <1>1, <2>7
  <2>9. n = PageWords
    BY <1>1, <2>5, <2>8
  <2> QED
    BY <2>1, <2>9
<1>5. q # <<>>
  BY <1>1, <1>4, EmptySeq
<1>6. 1 \in 1..PageWords /\ 1 - 1 = 0
  BY <1>1
<1>7. q[1] = <<t, 0>>
  BY <1>2, <1>6
<1>8. Head(q) = q[1]
  BY <1>5, Take
<1> QED
  BY <1>2, <1>4, <1>5, <1>7, <1>8

LEMMA IsPageOf ==
  ASSUME NEW t, NEW q \in Seq(Word), Len(q) = PageWords, \A i \in 1..PageWords : q[i] = <<t, i - 1>>
  PROVE  q = PageOf(t)
<1>1. DOMAIN q = 1..PageWords /\ q = [i \in DOMAIN q |-> q[i]]
  BY LenProperties
<1> QED
  BY <1>1 DEF PageOf

(* The first word of the front buffer is the oldest. *)
LEMMA FrontFirst ==
  ASSUME MoreTypes
  PROVE  /\ \A k \in 1..Len(pageBufFront) : k \in 1..Len(Words) /\ Words[k] = pageBufFront[k]
         /\ pageBufFront # <<>> => Words # <<>> /\ Head(Words) = Head(pageBufFront)
                                   /\ Len(Words) > 0 /\ Len(pageBufFront) > 0
                                   /\ Words[1] = Head(pageBufFront)
<1>1. \A k \in 1..(Len(pageBufFront) + Len(pageBufBack)) :
         Words[k] = IF k <= Len(pageBufFront) THEN pageBufFront[k] ELSE pageBufBack[k - Len(pageBufFront)]
  BY WritesTyped, ConcatProperties DEF Words
<1>2. \A k \in 1..Len(pageBufFront) : k \in 1..Len(Words) /\ Words[k] = pageBufFront[k]
  <2> TAKE k \in 1..Len(pageBufFront)
  <2>1. k \in 1..(Len(pageBufFront) + Len(pageBufBack)) /\ k <= Len(pageBufFront)
    BY WritesTyped
  <2> QED
    BY <1>1, <2>1, WritesTyped
<1>3. ASSUME pageBufFront # <<>>
      PROVE  Words # <<>> /\ Head(Words) = Head(pageBufFront) /\ Len(Words) > 0 /\ Len(pageBufFront) > 0
             /\ Words[1] = Head(pageBufFront)
  <2>1. Len(pageBufFront) > 0 /\ pageBufFront[1] = Head(pageBufFront)
    BY <1>3, WritesTyped, Take
  <2>2. Len(Words) > 0
    BY <2>1, WritesTyped
  <2>3. Words # <<>>
    BY <2>2, EmptySeq
  <2>4. Words[1] = Head(Words)
    BY <2>3, WritesTyped, Take
  <2>5. 1 \in 1..Len(pageBufFront)
    BY <2>1, WritesTyped
  <2> QED
    BY <1>2, <2>1, <2>2, <2>3, <2>4, <2>5
<1> QED
  BY <1>2, <1>3

(* Moving the oldest word of the back buffer to the front one changes nothing. *)
LEMMA WordsMoved ==
  ASSUME NEW f \in Seq(Word), NEW b \in Seq(Word), b # <<>>
  PROVE  Append(f, Head(b)) \o Tail(b) = f \o b
<1>1. PICK h \in Word : h = Head(b)
  BY Take
<1>2. Tail(b) \in Seq(Word) /\ <<h>> \in Seq(Word)
  BY Take
<1>3. Append(f, h) = f \o <<h>>
  BY AppendIsConcat
<1>4. (f \o <<h>>) \o Tail(b) = f \o (<<h>> \o Tail(b))
  BY <1>2, ConcatAssociative
<1>5. <<h>> \o Tail(b) = b
  <2>1. Len(<<h>>) = 1 /\ <<h>>[1] = h
    OBVIOUS
  <2>2. /\ <<h>> \o Tail(b) \in Seq(Word)
        /\ Len(<<h>> \o Tail(b)) = 1 + Len(Tail(b))
        /\ \A i \in 1..(1 + Len(Tail(b))) :
              (<<h>> \o Tail(b))[i] = IF i <= 1 THEN <<h>>[i] ELSE Tail(b)[i - 1]
    BY <1>2, <2>1, ConcatProperties
  <2>3. /\ Len(b) \in Nat /\ Len(b) > 0 /\ b[1] = h /\ Len(Tail(b)) = Len(b) - 1
        /\ \A i \in 1..Len(Tail(b)) : Tail(b)[i] = b[i + 1]
    BY <1>1, Take
  <2>4. \A i \in 1..Len(b) : (<<h>> \o Tail(b))[i] = b[i]
    <3> TAKE i \in 1..Len(b)
    <3>1. CASE i = 1
      BY <2>1, <2>2, <2>3, <3>1
    <3>2. CASE i # 1
      <4>1. i - 1 \in 1..Len(Tail(b)) /\ (i - 1) + 1 = i /\ i \in 1..(1 + Len(Tail(b))) /\ ~(i <= 1)
        BY <2>3, <3>2
      <4> QED
        BY <2>2, <2>3, <4>1
    <3> QED
      BY <3>1, <3>2
  <2>5. Len(<<h>> \o Tail(b)) = Len(b)
    BY <2>2, <2>3
  <2> QED
    BY <2>2, <2>4, <2>5, SeqEqual
<1> QED
  BY <1>1, <1>3, <1>4, <1>5

(* Stream after a step, from its parts. *)
LEMMA StreamNext ==
  ASSUME Len(pageBufFront') <= PageWords, Len(pageBufBack') <= PageWords,
         Owed' => First' + Len(pageBufFront') >= PageWords,
         PlaceAt(First' + Len(Words')) = writeWordCnt',
         writeWordCnt' > 0 => wrDataReqQ' # <<>>,
         NEW a \in Tag \cup {NoTag}, NEW b \in Tag \cup {NoTag}, NEW c \in Tag \cup {NoTag},
         Owed' => a = cmdTagR',
         writeWordCnt' > 0 => TagAt(a, b, c, First' + Len(Words')) = Head(wrDataReqQ'),
         \A k \in 1..Len(Words') : Words'[k] = WordAt(a, b, c, First' + k - 1)
  PROVE  Stream'
<1>1. PlaceAt(First + Len(Words))' = writeWordCnt'
  BY DEF PlaceAt
<1>2. (\E d, e, g \in Tag \cup {NoTag} :
         /\ Owed => d = cmdTagR
         /\ writeWordCnt > 0 => TagAt(d, e, g, First + Len(Words)) = Head(wrDataReqQ)
         /\ \A k \in 1..Len(Words) : Words[k] = WordAt(d, e, g, First + k - 1))'
  <2>1. \E d, e, g \in Tag \cup {NoTag} :
         /\ Owed' => d = cmdTagR'
         /\ writeWordCnt' > 0 => TagAt(d, e, g, First' + Len(Words')) = Head(wrDataReqQ')
         /\ \A k \in 1..Len(Words') : Words'[k] = WordAt(d, e, g, First' + k - 1)
    <3> WITNESS a \in Tag \cup {NoTag}, b \in Tag \cup {NoTag}, c \in Tag \cup {NoTag}
    <3> QED
      OBVIOUS
  <2> QED
    BY <2>1 DEF TagAt, PlaceAt, WordAt
<1> QED
  BY <1>1, <1>2 DEF Stream

(* A step that moves no word of a page, between states of which both or     *)
(* neither program one.                                                    *)
LEMMA ElseWrites ==
  ASSUME MoreTypes, Control, Writes,
         UNCHANGED <<encodeOutQ, wrDataTransReqQ, pageBufFront, pageBufBack, writeWordCnt, wrDataReqQ,
                     wrState, wdataCnt, wdataRdyTag>>,
         UNCHANGED <<state, cmdTagR, chipR, dataCnt, nandPage>> \/ (~Writing /\ ~Writing'),
         \A i \in 1..Len(cmdOutQ') : cmdOutQ'[i].busOp = "WRITE_CMD_DATA" =>
            \E j \in 1..Len(cmdOutQ) : cmdOutQ'[i] = cmdOutQ[j],
         \A c \in Chip : nandOp'[c] = "programming" =>
            nandOp[c] = "programming" /\ nandTag'[c] = nandTag[c] /\ nandPage'[c] = nandPage[c]
  PROVE  Writes'
<1>1. Words' = Words /\ Given' = Given
  BY DEF Words, Given
<1>2. \/ UNCHANGED <<state, cmdTagR, chipR, dataCnt, nandPage>> /\ Writing' = Writing
      \/ ~Writing /\ ~Writing'
  BY DEF Writing
<1>3. Owed' = Owed /\ First' = First
  BY <1>1, <1>2 DEF Owed, First
<1>4. Owed => cmdTagR' = cmdTagR
  BY <1>2 DEF Owed
<1>5. Stream'
  <2>1. /\ Len(pageBufFront) <= PageWords /\ Len(pageBufBack) <= PageWords
        /\ Owed => First + Len(pageBufFront) >= PageWords
        /\ PlaceAt(First + Len(Words)) = writeWordCnt
        /\ writeWordCnt > 0 => wrDataReqQ # <<>>
    BY DEF Writes, Stream
  <2>2. PICK a \in Tag \cup {NoTag}, b \in Tag \cup {NoTag}, c \in Tag \cup {NoTag} :
          /\ Owed => a = cmdTagR
          /\ writeWordCnt > 0 => TagAt(a, b, c, First + Len(Words)) = Head(wrDataReqQ)
          /\ \A k \in 1..Len(Words) : Words[k] = WordAt(a, b, c, First + k - 1)
    BY DEF Writes, Stream
  <2>3. First' = First /\ Len(Words') = Len(Words) /\ Words' = Words
    BY <1>1, <1>3
  <2>4. PlaceAt(First' + Len(Words')) = writeWordCnt'
    BY <2>1, <2>3
  <2>5. Owed' => a = cmdTagR'
    BY <1>3, <1>4, <2>2
  <2>6. writeWordCnt' > 0 => TagAt(a, b, c, First' + Len(Words')) = Head(wrDataReqQ')
    BY <2>2, <2>3
  <2>7. \A k \in 1..Len(Words') : Words'[k] = WordAt(a, b, c, First' + k - 1)
    BY <2>2, <2>3
  <2>8. /\ Len(pageBufFront') <= PageWords /\ Len(pageBufBack') <= PageWords
        /\ Owed' => First' + Len(pageBufFront') >= PageWords
        /\ writeWordCnt' > 0 => wrDataReqQ' # <<>>
    BY <1>3, <2>1, <2>3
  <2> QED
    BY <2>4, <2>5, <2>6, <2>7, <2>8, StreamNext
<1>6. Burst'
  <2>1. CASE UNCHANGED <<state, cmdTagR, chipR, dataCnt, nandPage>> /\ Writing' = Writing
    BY <1>1, <2>1 DEF Writes, Burst
  <2>2. CASE ~Writing /\ ~Writing'
    BY <1>1, <2>2 DEF Writes, Burst, Writing
  <2> QED
    BY <1>2, <2>1, <2>2
<1>7. RdyHonest'
  BY <1>2 DEF Writes, RdyHonest, PageOf
<1>8. PageWaits'
  BY <1>3 DEF Writes, PageWaits, PageOf
<1>9. Programmed'
  BY DEF Writes, Programmed, PageOf
<1> QED
  BY <1>5, <1>6, <1>7, <1>8, <1>9 DEF Writes

LEMMA WritesInit == Init => Writes
<1> SUFFICES ASSUME Init PROVE Writes
  OBVIOUS
<1>1. /\ state = "IDLE" /\ wrDataTransReqQ = <<>> /\ encodeOutQ = <<>> /\ pageBufFront = <<>>
      /\ pageBufBack = <<>> /\ writeWordCnt = 0 /\ wrState = 0 /\ wdataRdyTag = NoTag /\ cmdOutQ = <<>>
      /\ \A c \in Chip : nandOp[c] = "idle"
  BY DEF Init
<1>2. ~Writing /\ ~Owed /\ First = 0
  BY <1>1 DEF Writing, Owed, First
<1>3. PageWords \in Nat /\ PageWords > 1
  BY Sizes
<1>4. Len(Words) = 0 /\ Len(<<>>) = 0
  BY <1>1, ConcatEmptySeq, EmptySeq DEF Words
<1>5. Stream
  <2>1. 0 + 0 = 0 /\ 0 <= PageWords /\ PlaceAt(0) = 0
    BY <1>3 DEF PlaceAt
  <2>2. \A k \in 1..Len(Words) : FALSE
    BY <1>4
  <2>3. NoTag \in Tag \cup {NoTag}
    OBVIOUS
  <2>4. \E a, b, c \in Tag \cup {NoTag} :
           /\ Owed => a = cmdTagR
           /\ writeWordCnt > 0 => TagAt(a, b, c, First + Len(Words)) = Head(wrDataReqQ)
           /\ \A k \in 1..Len(Words) : Words[k] = WordAt(a, b, c, First + k - 1)
    BY <1>1, <1>2, <2>2, <2>3
  <2> QED
    BY <1>1, <1>2, <1>4, <2>1, <2>4 DEF Stream
<1>6. Burst
  BY <1>1, <1>2 DEF Burst
<1>7. RdyHonest /\ PageWaits /\ Programmed
  BY <1>1, <1>4 DEF RdyHonest, PageWaits, Programmed
<1> QED
  BY <1>5, <1>6, <1>7 DEF Writes

(* With the word at p, of tag t, pages of tags a, b and c are of d, e and g. *)
Begun(a, b, c, d, e, g, t, p) ==
  /\ p >= PageWords => d = a
  /\ WordAt(d, e, g, p) = <<t, PlaceAt(p)>>
  /\ PlaceAt(p) < PageWords - 1 => TagAt(d, e, g, p + 1) = t /\ PlaceAt(p + 1) = PlaceAt(p) + 1
  /\ PlaceAt(p) = PageWords - 1 /\ p + 1 < PageWords + PageWords + PageWords => PlaceAt(p + 1) = 0
  /\ \A q \in Nat : q < p => WordAt(d, e, g, q) = WordAt(a, b, c, q)

(* The host sends the next word, of a page begun or of a new one. *)
LEMMA NextPage ==
  ASSUME NEW S, NEW a \in S, NEW b \in S, NEW c \in S, NEW t \in S, NEW p \in Nat,
         p < PageWords + PageWords + PageWords,
         PlaceAt(p) > 0 => TagAt(a, b, c, p) = t
  PROVE  \E d \in S, e \in S, g \in S : Begun(a, b, c, d, e, g, t, p)
<1>1. PageWords \in Nat /\ PageWords > 1
  BY Sizes
<1>2. CASE PlaceAt(p) > 0
  <2>1. TagAt(a, b, c, p) = t
    BY <1>2
  <2>2. WordAt(a, b, c, p) = <<t, PlaceAt(p)>>
    BY <2>1 DEF WordAt
  <2>3. PlaceAt(p) < PageWords - 1 => TagAt(a, b, c, p + 1) = t /\ PlaceAt(p + 1) = PlaceAt(p) + 1
    BY <1>1, <2>1 DEF TagAt, PlaceAt
  <2>4. PlaceAt(p) = PageWords - 1 /\ p + 1 < PageWords + PageWords + PageWords => PlaceAt(p + 1) = 0
    BY <1>1 DEF PlaceAt
  <2> QED
    BY <2>1, <2>2, <2>3, <2>4 DEF Begun
<1>3. CASE ~(PlaceAt(p) > 0)
  <2>1. PlaceAt(p) = 0 /\ (p = 0 \/ p = PageWords \/ p = PageWords + PageWords)
    BY <1>1, <1>3 DEF PlaceAt
  <2>2. CASE p = 0
    <3>1. TagAt(t, b, c, p) = t /\ TagAt(t, b, c, p + 1) = t /\ PlaceAt(p + 1) = 1
      BY <1>1, <2>2 DEF TagAt, PlaceAt
    <3>2. ~(p >= PageWords) /\ \A q \in Nat : ~(q < p)
      BY <1>1, <2>2
    <3>3. 0 < PageWords - 1 /\ 0 # PageWords - 1 /\ 0 + 1 = 1
      BY <1>1
    <3> QED
      BY <2>1, <3>1, <3>2, <3>3 DEF WordAt, Begun
  <2>3. CASE p = PageWords
    <3>1. TagAt(a, t, c, p) = t /\ TagAt(a, t, c, p + 1) = t /\ PlaceAt(p + 1) = 1
      BY <1>1, <2>3 DEF TagAt, PlaceAt
    <3>2. \A q \in Nat : q < p => TagAt(a, t, c, q) = TagAt(a, b, c, q)
      BY <1>1, <2>3 DEF TagAt
    <3>3. 0 < PageWords - 1 /\ 0 # PageWords - 1 /\ 0 + 1 = 1
      BY <1>1
    <3> QED
      BY <2>1, <3>1, <3>2, <3>3 DEF WordAt, Begun
  <2>4. CASE p = PageWords + PageWords
    <3>1. TagAt(a, b, t, p) = t /\ TagAt(a, b, t, p + 1) = t /\ PlaceAt(p + 1) = 1
      BY <1>1, <2>4 DEF TagAt, PlaceAt
    <3>2. \A q \in Nat : q < p => TagAt(a, b, t, q) = TagAt(a, b, c, q)
      BY <1>1, <2>4 DEF TagAt
    <3>3. 0 < PageWords - 1 /\ 0 # PageWords - 1 /\ 0 + 1 = 1
      BY <1>1
    <3> QED
      BY <2>1, <3>1, <3>2, <3>3 DEF WordAt, Begun
  <2> QED
    BY <2>1, <2>2, <2>3, <2>4
<1> QED
  BY <1>2, <1>3

(* Once a page has left, the next one comes first. *)
LEMMA PageLeft ==
  ASSUME NEW a, NEW b, NEW c, NEW p \in Nat, p >= PageWords, p < PageWords + PageWords + PageWords
  PROVE  /\ PlaceAt(p - PageWords) = PlaceAt(p)
         /\ TagAt(b, c, c, p - PageWords) = TagAt(a, b, c, p)
         /\ WordAt(b, c, c, p - PageWords) = WordAt(a, b, c, p)
<1>1. PageWords \in Nat /\ PageWords > 1
  BY Sizes
<1>2. PlaceAt(p - PageWords) = PlaceAt(p)
  BY <1>1 DEF PlaceAt
<1>3. TagAt(b, c, c, p - PageWords) = TagAt(a, b, c, p)
  BY <1>1 DEF TagAt
<1> QED
  BY <1>2, <1>3 DEF WordAt

LEMMA StreamIs ==
  ASSUME Writes
  PROVE  /\ Len(pageBufFront) <= PageWords /\ Len(pageBufBack) <= PageWords
         /\ Owed => First + Len(pageBufFront) >= PageWords
         /\ PlaceAt(First + Len(Words)) = writeWordCnt
         /\ writeWordCnt > 0 => wrDataReqQ # <<>>
         /\ \E a, b, c \in Tag \cup {NoTag} :
              /\ Owed => a = cmdTagR
              /\ writeWordCnt > 0 => TagAt(a, b, c, First + Len(Words)) = Head(wrDataReqQ)
              /\ \A k \in 1..Len(Words) : Words[k] = WordAt(a, b, c, First + k - 1)
BY DEF Writes, Stream

(* The host's side of the buffers does not disturb the page that the bus takes. *)
LEMMA BusSideSame ==
  ASSUME Writes, UNCHANGED <<encodeOutQ, wrDataTransReqQ, pageBufFront, wrState, wdataCnt, wdataRdyTag,
                             state, cmdTagR, chipR, dataCnt, nandPage, nandOp, nandTag, cmdOutQ>>
  PROVE  /\ Burst' /\ RdyHonest' /\ PageWaits' /\ Programmed'
         /\ (Owed' <=> Owed) /\ First' = First
<1>1. Given' = Given /\ (Writing' <=> Writing)
  BY DEF Given, Writing
<1>2. (Owed' <=> Owed) /\ First' = First
  BY <1>1 DEF Owed, First
<1>3. Burst'
  BY <1>1 DEF Writes, Burst
<1>4. RdyHonest' /\ Programmed'
  BY <1>1 DEF Writes, RdyHonest, Programmed, PageOf
<1>5. PageWaits'
  BY <1>2 DEF Writes, PageWaits, PageOf
<1> QED
  BY <1>2, <1>3, <1>4, <1>5

(* The host sends a word. *)
LEMMA WordWrites ==
  ASSUME MoreTypes, Control, Writes, WriteWord
  PROVE  Writes'
<1>1. /\ UNCHANGED <<encodeOutQ, wrDataTransReqQ, pageBufFront, wrState, wdataCnt, wdataRdyTag,
                     state, cmdTagR, chipR, dataCnt, nandPage, nandOp, nandTag, cmdOutQ>>
      /\ wrDataReqQ # <<>> /\ Len(pageBufBack) < PageWords
      /\ pageBufBack' = Append(pageBufBack, <<Head(wrDataReqQ), writeWordCnt>>)
      /\ writeWordCnt' = NextWord(writeWordCnt)
      /\ wrDataReqQ' = IF writeWordCnt = PageWords - 1 THEN Tail(wrDataReqQ) ELSE wrDataReqQ
  BY DEF WriteWord, board, bus, requests, nand
<1>2. Burst' /\ RdyHonest' /\ PageWaits' /\ Programmed' /\ (Owed' <=> Owed) /\ First' = First
  BY <1>1, BusSideSame
<1>3. PICK t \in Tag, w \in 0..(PageWords - 1) : t = Head(wrDataReqQ) /\ w = writeWordCnt
  BY <1>1, WritesTyped, Take
<1>4. <<t, w>> \in Word /\ pageBufBack' = Append(pageBufBack, <<t, w>>)
  BY <1>1, <1>3 DEF Word
<1>5. Words' = Append(Words, <<t, w>>) /\ Len(pageBufBack') = Len(pageBufBack) + 1
  <2>1. PICK e \in Word : e = <<t, w>>
    BY <1>4
  <2>2. pageBufFront \in Seq(Word) /\ pageBufBack \in Seq(Word) /\ <<e>> \in Seq(Word) /\ Words \in Seq(Word)
    BY WritesTyped
  <2>3. Append(pageBufBack, e) = pageBufBack \o <<e>>
    BY <2>2, AppendIsConcat
  <2>4. (pageBufFront \o pageBufBack) \o <<e>> = pageBufFront \o (pageBufBack \o <<e>>)
    BY <2>2, ConcatAssociative
  <2>5. Append(Words, e) = Words \o <<e>>
    BY <2>2, AppendIsConcat
  <2>6. Words' = pageBufFront \o Append(pageBufBack, e)
    BY <1>1, <1>4, <2>1 DEF Words
  <2>7. Words' = Append(Words, e)
    BY <2>3, <2>4, <2>5, <2>6 DEF Words
  <2>8. Len(Append(pageBufBack, e)) = Len(pageBufBack) + 1
    BY <2>2, Put
  <2> QED
    BY <1>4, <2>1, <2>7, <2>8
<1>6. PICK f \in 0..(PageWords - 1), n \in Nat, u \in Nat, v \in Nat :
        f = First /\ n = Len(Words) /\ u = Len(pageBufFront) /\ v = Len(pageBufBack) /\ n = u + v
  BY WritesTyped
<1>7. PageWords \in Nat /\ PageWords > 1
  BY Sizes
<1>8. PICK a \in Tag \cup {NoTag}, b \in Tag \cup {NoTag}, c \in Tag \cup {NoTag} :
        /\ Owed => a = cmdTagR
        /\ w > 0 => TagAt(a, b, c, f + n) = t
        /\ \A k \in 1..n : Words[k] = WordAt(a, b, c, f + k - 1)
  BY <1>3, <1>6, StreamIs
<1>9. PlaceAt(f + n) = w /\ u <= PageWords /\ v <= PageWords /\ (Owed => f + u >= PageWords)
  BY <1>3, <1>6, StreamIs
<1>10. v < PageWords /\ f + n + 1 < PageWords + PageWords + PageWords
  <2>1. v < PageWords
    BY <1>1, <1>6
  <2> QED
    BY <1>6, <1>7, <1>9, <2>1
<1>11. PICK p \in Nat : p = f + n /\ PlaceAt(p) = w /\ p < PageWords + PageWords + PageWords
                        /\ p + 1 < PageWords + PageWords + PageWords /\ (w > 0 => TagAt(a, b, c, p) = t)
  BY <1>6, <1>7, <1>8, <1>9, <1>10
<1>12. PICK d \in Tag \cup {NoTag}, e \in Tag \cup {NoTag}, g \in Tag \cup {NoTag} :
         /\ p >= PageWords => d = a
         /\ WordAt(d, e, g, p) = <<t, w>>
         /\ w < PageWords - 1 => TagAt(d, e, g, p + 1) = t /\ PlaceAt(p + 1) = w + 1
         /\ w = PageWords - 1 => PlaceAt(p + 1) = 0
         /\ \A q \in Nat : q < p => WordAt(d, e, g, q) = WordAt(a, b, c, q)
  <2>1. PICK S : S = Tag \cup {NoTag}
    OBVIOUS
  <2>2. a \in S /\ b \in S /\ c \in S /\ t \in S
    BY <2>1
  <2>3. PlaceAt(p) > 0 => TagAt(a, b, c, p) = t
    BY <1>11
  <2>4. p < PageWords + PageWords + PageWords
    BY <1>11
  <2>5. \E d \in S, e \in S, g \in S : Begun(a, b, c, d, e, g, t, p)
    BY <2>2, <2>3, <2>4, NextPage
  <2>6. PICK d \in S, e \in S, g \in S : Begun(a, b, c, d, e, g, t, p)
    BY <2>5
  <2>7. /\ p >= PageWords => d = a
        /\ WordAt(d, e, g, p) = <<t, w>>
        /\ w < PageWords - 1 => TagAt(d, e, g, p + 1) = t /\ PlaceAt(p + 1) = w + 1
        /\ w = PageWords - 1 => PlaceAt(p + 1) = 0
        /\ \A q \in Nat : q < p => WordAt(d, e, g, q) = WordAt(a, b, c, q)
    BY <1>11, <2>6 DEF Begun
  <2> QED
    BY <2>1, <2>7
<1>13. Words \in Seq(Word)
  BY WritesTyped
<1>14. /\ Len(Words') = n + 1 /\ Words'[n + 1] = <<t, w>>
       /\ \A k \in 1..n : Words'[k] = Words[k]
  <2>1. PICK h \in Word : h = <<t, w>>
    BY <1>4
  <2>2. /\ Len(Append(Words, h)) = Len(Words) + 1 /\ Append(Words, h)[Len(Words) + 1] = h
        /\ \A k \in 1..Len(Words) : Append(Words, h)[k] = Words[k]
    BY <1>13, Put
  <2>3. Words' = Append(Words, h)
    BY <1>5, <2>1
  <2> QED
    BY <1>6, <2>1, <2>2, <2>3
<1>15. First' + Len(Words') = p + 1 /\ writeWordCnt' = IF w = PageWords - 1 THEN 0 ELSE w + 1
  <2>1. f + (n + 1) = p + 1
    BY <1>6, <1>11
  <2>2. NextWord(w) = IF w = PageWords - 1 THEN 0 ELSE w + 1
    BY NextWordIs
  <2> QED
    BY <1>1, <1>2, <1>3, <1>6, <1>14, <2>1, <2>2
<1>16. Stream'
  <2>1. Len(pageBufFront') <= PageWords /\ Len(pageBufBack') <= PageWords
    <3>1. v + 1 <= PageWords
      BY <1>7, <1>10
    <3> QED
      BY <1>1, <1>5, <1>6, <1>9, <3>1
  <2>2. Owed' => First' + Len(pageBufFront') >= PageWords
    BY <1>1, <1>2, <1>6, <1>9
  <2>3. PlaceAt(First' + Len(Words')) = writeWordCnt'
    <3>1. PlaceAt(p + 1) = IF w = PageWords - 1 THEN 0 ELSE w + 1
      BY <1>7, <1>12
    <3> QED
      BY <1>15, <3>1
  <2>4. writeWordCnt' > 0 => w # PageWords - 1 /\ w < PageWords - 1
    BY <1>7, <1>15
  <2>5. writeWordCnt' > 0 => wrDataReqQ' = wrDataReqQ
    BY <1>1, <1>3, <2>4
  <2>6. writeWordCnt' > 0 => wrDataReqQ' # <<>>
    BY <1>1, <2>5
  <2>7. writeWordCnt' > 0 => TagAt(d, e, g, First' + Len(Words')) = Head(wrDataReqQ')
    BY <1>3, <1>12, <1>15, <2>4, <2>5
  <2>8. Owed' => d = cmdTagR'
    <3>1. Owed => p >= PageWords
      BY <1>6, <1>7, <1>9, <1>11
    <3> QED
      BY <1>1, <1>2, <1>8, <1>12, <3>1
  <2>9. \A k \in 1..Len(Words') : Words'[k] = WordAt(d, e, g, First' + k - 1)
    <3> TAKE k \in 1..Len(Words')
    <3>1. CASE k = n + 1
      <4>1. f + k - 1 = p
        BY <1>6, <1>11, <3>1
      <4> QED
        BY <1>2, <1>6, <1>12, <1>14, <3>1, <4>1
    <3>2. CASE k # n + 1
      <4>1. k \in 1..n
        BY <1>6, <1>14, <3>2
      <4>2. f + k - 1 \in Nat /\ f + k - 1 < p
        BY <1>6, <1>11, <4>1
      <4>3. WordAt(d, e, g, f + k - 1) = WordAt(a, b, c, f + k - 1)
        BY <1>12, <4>2
      <4> QED
        BY <1>2, <1>6, <1>8, <1>14, <4>1, <4>3
    <3> QED
      BY <3>1, <3>2
  <2> QED
    BY <2>1, <2>2, <2>3, <2>6, <2>7, <2>8, <2>9, StreamNext
<1> QED
  BY <1>2, <1>16 DEF Writes

(* A page is asked for, between two pages. *)
LEMMA AskWrites ==
  ASSUME MoreTypes, Control, Writes, DoHandleWriteDataReq
  PROVE  Writes'
<1>1. /\ UNCHANGED <<encodeOutQ, wrDataTransReqQ, pageBufFront, pageBufBack, wrState, wdataCnt, wdataRdyTag,
                     state, cmdTagR, chipR, dataCnt, nandPage, nandOp, nandTag, cmdOutQ, writeWordCnt>>
      /\ writeWordCnt = 0
  BY DEF DoHandleWriteDataReq, BackBufferFree, board, bus, nand
<1>2. Burst' /\ RdyHonest' /\ PageWaits' /\ Programmed' /\ (Owed' <=> Owed) /\ First' = First
  BY <1>1, BusSideSame
<1>3. Words' = Words
  BY <1>1 DEF Words
<1>4. PICK a \in Tag \cup {NoTag}, b \in Tag \cup {NoTag}, c \in Tag \cup {NoTag} :
        /\ Owed => a = cmdTagR
        /\ \A k \in 1..Len(Words) : Words[k] = WordAt(a, b, c, First + k - 1)
  BY StreamIs
<1>5. /\ Len(pageBufFront') <= PageWords /\ Len(pageBufBack') <= PageWords
      /\ Owed' => First' + Len(pageBufFront') >= PageWords
      /\ Owed' => a = cmdTagR'
  BY <1>1, <1>2, <1>4, StreamIs
<1>6. PlaceAt(First' + Len(Words')) = writeWordCnt'
  BY <1>1, <1>2, <1>3, StreamIs
<1>7. ~(writeWordCnt' > 0)
  BY <1>1
<1>8. \A k \in 1..Len(Words') : Words'[k] = WordAt(a, b, c, First' + k - 1)
  BY <1>2, <1>3, <1>4
<1>9. Stream'
  BY <1>5, <1>6, <1>7, <1>8, StreamNext
<1> QED
  BY <1>2, <1>9 DEF Writes

(* A step that leaves the buffers alone and what is owed of the page. *)
LEMMA StreamSame ==
  ASSUME MoreTypes, Writes,
         UNCHANGED <<pageBufFront, pageBufBack, writeWordCnt, wrDataReqQ>>,
         Owed' <=> Owed, First' = First, Owed => cmdTagR' = cmdTagR
  PROVE  Stream'
<1>1. Words' = Words
  BY DEF Words
<1>2. PICK a \in Tag \cup {NoTag}, b \in Tag \cup {NoTag}, c \in Tag \cup {NoTag} :
        /\ Owed => a = cmdTagR
        /\ writeWordCnt > 0 => TagAt(a, b, c, First + Len(Words)) = Head(wrDataReqQ)
        /\ \A k \in 1..Len(Words) : Words[k] = WordAt(a, b, c, First + k - 1)
  BY StreamIs
<1>3. /\ Len(pageBufFront') <= PageWords /\ Len(pageBufBack') <= PageWords
      /\ Owed' => First' + Len(pageBufFront') >= PageWords
      /\ writeWordCnt' > 0 => wrDataReqQ' # <<>>
      /\ Owed' => a = cmdTagR'
  BY <1>2, StreamIs
<1>4. PlaceAt(First' + Len(Words')) = writeWordCnt'
  BY <1>1, StreamIs
<1>5. writeWordCnt' > 0 => TagAt(a, b, c, First' + Len(Words')) = Head(wrDataReqQ')
  BY <1>1, <1>2
<1>6. \A k \in 1..Len(Words') : Words'[k] = WordAt(a, b, c, First' + k - 1)
  BY <1>1, <1>2
<1> QED
  BY <1>3, <1>4, <1>5, <1>6, StreamNext

LEMMA BuffersSame ==
  ASSUME MoreTypes, Writes,
         UNCHANGED <<pageBufFront, pageBufBack, writeWordCnt, wrDataReqQ, cmdTagR, cmdOutQ, wdataRdyTag,
                     nandOp, nandTag, nandPage>>,
         Given' = Given, Writing' <=> Writing
  PROVE  Stream' /\ RdyHonest' /\ PageWaits' /\ Programmed'
<1>1. (Owed' <=> Owed) /\ First' = First
  BY DEF Owed, First
<1>2. Stream'
  BY <1>1, StreamSame
<1>3. RdyHonest'
  BY DEF Writes, RdyHonest, PageOf
<1>4. PageWaits'
  BY <1>1 DEF Writes, PageWaits, PageOf
<1>5. Programmed'
  BY DEF Writes, Programmed, PageOf
<1> QED
  BY <1>2, <1>3, <1>4, <1>5

(* A page is full only while no more goes into the front buffer. *)
LEMMA TransferWrites ==
  ASSUME MoreTypes, Control, Writes, DoWriteBufTransfer
  PROVE  Writes'
<1>1. /\ UNCHANGED <<encodeOutQ, wrDataTransReqQ, wrState, wdataCnt, wdataRdyTag, state, cmdTagR, chipR,
                     dataCnt, nandPage, nandOp, nandTag, cmdOutQ, writeWordCnt, wrDataReqQ>>
      /\ pageBufBack # <<>> /\ Len(pageBufFront) < PageWords
      /\ pageBufFront' = Append(pageBufFront, Head(pageBufBack)) /\ pageBufBack' = Tail(pageBufBack)
  BY DEF DoWriteBufTransfer, board, bus, requests, nand
<1>2. Given' = Given /\ (Writing' <=> Writing)
  BY <1>1 DEF Given, Writing
<1>3. (Owed' <=> Owed) /\ First' = First
  BY <1>2 DEF Owed, First
<1>4. Words' = Words
  <2>1. pageBufFront \in Seq(Word) /\ pageBufBack \in Seq(Word)
    BY WritesTyped
  <2>2. Append(pageBufFront, Head(pageBufBack)) \o Tail(pageBufBack) = pageBufFront \o pageBufBack
    BY <1>1, <2>1, WordsMoved
  <2> QED
    BY <1>1, <2>2 DEF Words
<1>5. PICK u \in Nat, v \in Nat, f \in Nat :
        /\ u = Len(pageBufFront) /\ v = Len(pageBufBack) /\ f = First
        /\ Len(pageBufFront') = u + 1 /\ Len(pageBufBack') = v - 1
  <2>1. pageBufFront \in Seq(Word) /\ pageBufBack \in Seq(Word) /\ Head(pageBufBack) \in Word
    BY <1>1, WritesTyped, Take
  <2>2. Len(Append(pageBufFront, Head(pageBufBack))) = Len(pageBufFront) + 1
    BY <2>1, Put
  <2>3. Len(Tail(pageBufBack)) = Len(pageBufBack) - 1
    BY <1>1, <2>1, Take
  <2>4. First \in Nat /\ Len(pageBufFront) \in Nat /\ Len(pageBufBack) \in Nat
    BY WritesTyped
  <2>5. Len(pageBufFront') = Len(pageBufFront) + 1 /\ Len(pageBufBack') = Len(pageBufBack) - 1
    BY <1>1, <2>2, <2>3
  <2> QED
    BY <2>4, <2>5
<1>6. PageWords \in Nat
  BY Sizes
<1>7. Stream'
  <2>1. PICK a \in Tag \cup {NoTag}, b \in Tag \cup {NoTag}, c \in Tag \cup {NoTag} :
          /\ Owed => a = cmdTagR
          /\ writeWordCnt > 0 => TagAt(a, b, c, First + Len(Words)) = Head(wrDataReqQ)
          /\ \A k \in 1..Len(Words) : Words[k] = WordAt(a, b, c, First + k - 1)
    BY StreamIs
  <2>2. u < PageWords /\ v <= PageWords /\ (Owed => f + u >= PageWords)
    BY <1>1, <1>5, StreamIs
  <2>3. u + 1 <= PageWords /\ v - 1 <= PageWords /\ (Owed => f + (u + 1) >= PageWords)
    BY <1>5, <1>6, <2>2
  <2>4. /\ Len(pageBufFront') <= PageWords /\ Len(pageBufBack') <= PageWords
        /\ Owed' => First' + Len(pageBufFront') >= PageWords
    BY <1>3, <1>5, <2>3
  <2>5. /\ writeWordCnt' > 0 => wrDataReqQ' # <<>>
        /\ Owed' => a = cmdTagR'
    BY <1>1, <1>3, <2>1, StreamIs
  <2>6. PlaceAt(First' + Len(Words')) = writeWordCnt'
    BY <1>1, <1>3, <1>4, StreamIs
  <2>7. writeWordCnt' > 0 => TagAt(a, b, c, First' + Len(Words')) = Head(wrDataReqQ')
    BY <1>1, <1>3, <1>4, <2>1
  <2>8. \A k \in 1..Len(Words') : Words'[k] = WordAt(a, b, c, First' + k - 1)
    BY <1>3, <1>4, <2>1
  <2> QED
    BY <2>4, <2>5, <2>6, <2>7, <2>8, StreamNext
<1>8. \A t : pageBufFront # PageOf(t)
  <2> SUFFICES ASSUME NEW t, pageBufFront = PageOf(t)
               PROVE  FALSE
    OBVIOUS
  <2>1. Len(pageBufFront) = PageWords
    BY WritesTyped, PageOfLen
  <2> QED
    BY <1>1, <1>5, <1>6, <2>1
<1>9. RdyHonest'
  BY <1>1, <1>2, <1>8 DEF Writes, RdyHonest
<1>10. PageWaits'
  BY <1>1, <1>8 DEF Writes, PageWaits
<1>11. Burst' /\ Programmed'
  BY <1>1, <1>2 DEF Writes, Burst, Programmed, PageOf
<1> QED
  BY <1>7, <1>9, <1>10, <1>11 DEF Writes

(* The bus is given a page: the one in the front buffer. *)
LEMMA GiveWrites ==
  ASSUME MoreTypes, Control, Writes, DoWriteDataTransferReq
  PROVE  Writes'
<1>1. /\ UNCHANGED <<encodeOutQ, wdataRdyTag, state, cmdTagR, chipR, dataCnt, nandPage, nandOp, nandTag, cmdOutQ,
                     writeWordCnt, wrDataReqQ, pageBufFront, pageBufBack>>
      /\ wrDataTransReqQ # <<>> /\ wrDataTransReqQ' = Tail(wrDataTransReqQ)
      /\ wdataCnt' = 0 /\ wrState' = 1
  BY DEF DoWriteDataTransferReq, board, bus, requests, nand
<1>2. Writing /\ (Writing' <=> Writing)
  BY <1>1 DEF Writes, Burst, Writing
<1>3. wrDataTransReqQ' = <<>>
  <2>1. wrDataTransReqQ = <<1>>
    BY <1>1 DEF Writes, Burst
  <2> QED
    BY <1>1, <2>1
<1>4. Given = 0 /\ Given' = 0
  BY <1>1, <1>3 DEF Given
<1>5. Stream' /\ RdyHonest' /\ PageWaits' /\ Programmed'
  BY <1>1, <1>2, <1>4, BuffersSame
<1>6. Burst'
  BY <1>1, <1>2, <1>3, <1>4 DEF Writes, Burst
<1> QED
  BY <1>5, <1>6 DEF Writes

(* Taking the oldest word of the front buffer. *)
LEMMA WordsTaken ==
  ASSUME NEW f \in Seq(Word), NEW b \in Seq(Word), f # <<>>
  PROVE  /\ Len(Tail(f) \o b) = Len(f \o b) - 1
         /\ \A k \in 1..Len(Tail(f) \o b) : (Tail(f) \o b)[k] = (f \o b)[k + 1]
<1>1. /\ Tail(f) \in Seq(Word) /\ Len(f) \in Nat /\ Len(f) > 0 /\ Len(Tail(f)) = Len(f) - 1
      /\ \A k \in 1..Len(Tail(f)) : Tail(f)[k] = f[k + 1]
  BY Take
<1>2. /\ Len(Tail(f) \o b) = Len(Tail(f)) + Len(b)
      /\ \A k \in 1..(Len(Tail(f)) + Len(b)) :
            (Tail(f) \o b)[k] = IF k <= Len(Tail(f)) THEN Tail(f)[k] ELSE b[k - Len(Tail(f))]
  BY <1>1, ConcatProperties
<1>3. /\ Len(f \o b) = Len(f) + Len(b)
      /\ \A k \in 1..(Len(f) + Len(b)) : (f \o b)[k] = IF k <= Len(f) THEN f[k] ELSE b[k - Len(f)]
  BY ConcatProperties
<1>4. Len(b) \in Nat
  BY LenProperties
<1>5. \A k \in 1..Len(Tail(f) \o b) : (Tail(f) \o b)[k] = (f \o b)[k + 1]
  <2> TAKE k \in 1..Len(Tail(f) \o b)
  <2>1. k \in 1..(Len(Tail(f)) + Len(b)) /\ k + 1 \in 1..(Len(f) + Len(b))
    BY <1>1, <1>2, <1>4
  <2>2. CASE k <= Len(Tail(f))
    <3>1. k \in 1..Len(Tail(f)) /\ k + 1 <= Len(f)
      BY <1>1, <1>4, <2>1, <2>2
    <3> QED
      BY <1>1, <1>2, <1>3, <2>1, <2>2, <3>1
  <2>3. CASE ~(k <= Len(Tail(f)))
    <3>1. ~(k + 1 <= Len(f)) /\ k - Len(Tail(f)) = (k + 1) - Len(f)
      BY <1>1, <1>4, <2>1, <2>3
    <3> QED
      BY <1>2, <1>3, <2>1, <2>3, <3>1
  <2> QED
    BY <2>2, <2>3
<1> QED
  BY <1>1, <1>2, <1>3, <1>4, <1>5

(* The bus takes a word of the page it programs. *)
LEMMA TakeWrites ==
  ASSUME MoreTypes, Control, Writes, DoWriteDataTransferToBus
  PROVE  Writes'
<1>1. UNCHANGED <<wrDataTransReqQ, wdataRdyTag, state, cmdTagR, chipR, dataCnt, nandPage, nandOp, nandTag,
                  cmdOutQ, writeWordCnt, wrDataReqQ, pageBufBack>> /\ wrState = 1
  BY DEF DoWriteDataTransferToBus, board, bus, requests, nand
<1>2. Writing' <=> Writing
  BY <1>1 DEF Writing
<1>3. PageWords \in Nat /\ PageWords > 1
  BY Sizes
<1>4. CASE ~(wdataCnt < PageWords)
  <2>1. wrState' = 0 /\ UNCHANGED <<encodeOutQ, pageBufFront, wdataCnt>>
    BY <1>4 DEF DoWriteDataTransferToBus
  <2>2. wdataCnt = PageWords
    BY <1>3, <1>4, WritesTyped
  <2>3. Given' = Given
    BY <1>1, <2>1, <2>2 DEF Given
  <2>4. Stream' /\ RdyHonest' /\ PageWaits' /\ Programmed'
    BY <1>1, <1>2, <2>1, <2>3, BuffersSame
  <2>5. Burst'
    BY <1>1, <1>2, <2>1, <2>3 DEF Writes, Burst
  <2> QED
    BY <2>4, <2>5 DEF Writes
<1>5. CASE wdataCnt < PageWords
  <2>1. /\ pageBufFront # <<>> /\ encodeOutQ' = Append(encodeOutQ, Head(pageBufFront))
        /\ pageBufFront' = Tail(pageBufFront) /\ wdataCnt' = wdataCnt + 1 /\ wrState' = 1
    BY <1>1, <1>5 DEF DoWriteDataTransferToBus
  <2>2. wrDataTransReqQ = <<>> /\ Writing
    <3>1. wdataCnt # PageWords
      BY <1>3, <1>5, WritesTyped
    <3> QED
      BY <1>1, <3>1 DEF Writes, Burst
  <2>3. PICK g \in 0..(PageWords - 1), d \in Nat, x \in Nat :
          g = wdataCnt /\ d = dataCnt /\ x = Len(encodeOutQ)
    BY <1>3, <1>5, WritesTyped
  <2>4. Given = g /\ Given' = g + 1
    BY <1>1, <2>1, <2>2, <2>3 DEF Given
  <2>5. Owed /\ First = g
    BY <1>3, <2>2, <2>3, <2>4 DEF Owed, First
  <2>6. PICK a \in Tag \cup {NoTag}, b \in Tag \cup {NoTag}, c \in Tag \cup {NoTag} :
          /\ a = cmdTagR
          /\ writeWordCnt > 0 => TagAt(a, b, c, g + Len(Words)) = Head(wrDataReqQ)
          /\ \A k \in 1..Len(Words) : Words[k] = WordAt(a, b, c, g + k - 1)
    BY <2>5, StreamIs
  <2>7. Head(pageBufFront) = <<cmdTagR, g>> /\ Head(pageBufFront) \in Word
    <3>1. Len(Words) > 0 /\ Words[1] = Head(pageBufFront) /\ Len(Words) \in Nat
      BY <2>1, FrontFirst, WritesTyped, LenProperties
    <3>2. 1 \in 1..Len(Words) /\ g + 1 - 1 = g /\ g < PageWords
      BY <1>3, <3>1
    <3>3. Words[1] = WordAt(a, b, c, g)
      BY <2>6, <3>2
    <3>4. WordAt(a, b, c, g) = <<a, g>>
      BY <3>2 DEF WordAt, TagAt, PlaceAt
    <3>5. Head(pageBufFront) \in Word
      BY <2>1, WritesTyped, Take
    <3> QED
      BY <2>6, <3>1, <3>3, <3>4, <3>5
  <2>8. Burst'
    <3>1. encodeOutQ \in Seq(Word)
      BY WritesTyped
    <3>2. /\ Len(encodeOutQ') = x + 1 /\ encodeOutQ'[x + 1] = <<cmdTagR, g>>
          /\ \A k \in 1..x : encodeOutQ'[k] = encodeOutQ[k]
      <4>1. PICK h \in Word : h = Head(pageBufFront)
        BY <2>7
      <4>2. /\ Len(Append(encodeOutQ, h)) = Len(encodeOutQ) + 1 /\ Append(encodeOutQ, h)[Len(encodeOutQ) + 1] = h
            /\ \A k \in 1..Len(encodeOutQ) : Append(encodeOutQ, h)[k] = encodeOutQ[k]
        BY <3>1, Put
      <4> QED
        BY <2>1, <2>3, <2>7, <4>1, <4>2
    <3>3. x = g - d /\ \A k \in 1..x : encodeOutQ[k] = <<cmdTagR, d + k - 1>>
      BY <2>2, <2>3, <2>4 DEF Writes, Burst
    <3>4. \A k \in 1..(x + 1) : encodeOutQ'[k] = <<cmdTagR, d + k - 1>>
      <4> TAKE k \in 1..(x + 1)
      <4>1. CASE k = x + 1
        <5>1. d + k - 1 = g
          BY <2>3, <3>3, <4>1
        <5> QED
          BY <3>2, <4>1, <5>1
      <4>2. CASE k # x + 1
        <5>1. k \in 1..x
          BY <2>3, <4>2
        <5> QED
          BY <3>2, <3>3, <5>1
      <4> QED
        BY <4>1, <4>2
    <3>5. x + 1 = (g + 1) - d
      BY <2>3, <3>3
    <3>6. Len(encodeOutQ') = Given' - dataCnt' /\ \A k \in 1..Len(encodeOutQ') : encodeOutQ'[k] = <<cmdTagR', dataCnt' + k - 1>>
      BY <1>1, <2>3, <2>4, <3>2, <3>4, <3>5
    <3>7. wrDataTransReqQ' = <<>> /\ Writing'
      BY <1>1, <1>2, <2>2
    <3>8. state' = "WRITE_PAGE" => /\ Len(nandPage'[chipR']) = dataCnt'
                                   /\ \A k \in 1..dataCnt' : nandPage'[chipR'][k] = <<cmdTagR', k - 1>>
      BY <1>1 DEF Writes, Burst
    <3> QED
      BY <3>6, <3>7, <3>8 DEF Burst
  <2>9. RdyHonest'
    <3> SUFFICES ASSUME wdataRdyTag # NoTag
                 PROVE  Writing /\ cmdTagR = wdataRdyTag
      BY <1>1, <1>2 DEF RdyHonest
    <3>1. CASE pageBufFront = PageOf(wdataRdyTag)
      <4>1. Head(pageBufFront) = <<wdataRdyTag, 0>>
        BY <3>1, WritesTyped, PageOfLen
      <4> QED
        BY <2>2, <2>7, <4>1
    <3> QED
      BY <3>1 DEF Writes, RdyHonest
  <2>10. PageWaits'
    BY <1>1, <2>5 DEF Writes, PageWaits
  <2>11. Programmed'
    BY <1>1 DEF Writes, Programmed, PageOf
  <2>12. PICK n \in Nat, u \in Nat, v \in Nat :
           /\ n = Len(Words) /\ u = Len(pageBufFront) /\ v = Len(pageBufBack) /\ n = u + v /\ u > 0
           /\ u <= PageWords /\ v <= PageWords /\ g + u >= PageWords /\ PlaceAt(g + n) = writeWordCnt
    <3>1. Len(pageBufFront) > 0
      BY <2>1, FrontFirst
    <3>2. Len(Words) = Len(pageBufFront) + Len(pageBufBack) /\ Len(pageBufFront) \in Nat /\ Len(pageBufBack) \in Nat
      BY WritesTyped
    <3>3. /\ Len(pageBufFront) <= PageWords /\ Len(pageBufBack) <= PageWords
          /\ First + Len(pageBufFront) >= PageWords /\ PlaceAt(First + Len(Words)) = writeWordCnt
      BY <2>5, StreamIs
    <3>4. Len(Words) \in Nat
      BY <3>2
    <3> QED
      BY <2>5, <3>1, <3>2, <3>3, <3>4
  <2>13. Len(Words') = n - 1 /\ Len(pageBufFront') = u - 1 /\ \A k \in 1..(n - 1) : Words'[k] = Words[k + 1]
    <3>1. pageBufFront \in Seq(Word) /\ pageBufBack \in Seq(Word)
      BY WritesTyped
    <3>2. /\ Len(Tail(pageBufFront) \o pageBufBack) = Len(pageBufFront \o pageBufBack) - 1
          /\ \A k \in 1..Len(Tail(pageBufFront) \o pageBufBack) :
                (Tail(pageBufFront) \o pageBufBack)[k] = (pageBufFront \o pageBufBack)[k + 1]
      BY <2>1, <3>1, WordsTaken
    <3>3. Words' = Tail(pageBufFront) \o pageBufBack /\ Words = pageBufFront \o pageBufBack
      BY <1>1, <2>1 DEF Words
    <3>4. Len(Tail(pageBufFront)) = Len(pageBufFront) - 1
      BY <2>1, <3>1, Take
    <3> QED
      BY <2>1, <2>12, <3>2, <3>3, <3>4
  <2>14. /\ Len(pageBufFront') <= PageWords /\ Len(pageBufBack') <= PageWords
         /\ writeWordCnt' > 0 => wrDataReqQ' # <<>>
    <3>1. u - 1 <= PageWords
      BY <1>3, <2>12
    <3> QED
      BY <1>1, <2>12, <2>13, <3>1, StreamIs
  <2>15. Stream'
    <3>1. CASE g + 1 < PageWords
      <4>1. Owed' /\ First' = g + 1
        BY <1>2, <2>2, <2>4, <3>1 DEF Owed, First
      <4>2. First' + Len(Words') = g + n
        <5>1. (g + 1) + (n - 1) = g + n
          BY <2>12
        <5> QED
          BY <2>13, <4>1, <5>1
      <4>3. First' + Len(pageBufFront') >= PageWords
        <5>1. (g + 1) + (u - 1) >= PageWords
          BY <1>3, <2>12
        <5> QED
          BY <2>13, <4>1, <5>1
      <4>4. PlaceAt(First' + Len(Words')) = writeWordCnt'
        BY <1>1, <2>12, <4>2
      <4>5. writeWordCnt' > 0 => TagAt(a, b, c, First' + Len(Words')) = Head(wrDataReqQ')
        BY <1>1, <2>6, <2>12, <4>2
      <4>6. \A k \in 1..Len(Words') : Words'[k] = WordAt(a, b, c, First' + k - 1)
        <5> TAKE k \in 1..Len(Words')
        <5>1. k \in 1..(n - 1) /\ k + 1 \in 1..n /\ g + (k + 1) - 1 = (g + 1) + k - 1
          BY <2>12, <2>13
        <5>2. Words'[k] = Words[k + 1] /\ Words[k + 1] = WordAt(a, b, c, g + (k + 1) - 1)
          BY <2>6, <2>12, <2>13, <5>1
        <5> QED
          BY <4>1, <5>1, <5>2
      <4>7. Owed' => a = cmdTagR'
        BY <1>1, <2>6
      <4> QED
        BY <2>14, <4>3, <4>4, <4>5, <4>6, <4>7, StreamNext
    <3>2. CASE ~(g + 1 < PageWords)
      <4>1. g = PageWords - 1
        BY <1>3, <3>2
      <4>2. ~Owed' /\ First' = 0
        <5>1. ~(Given' < PageWords)
          BY <2>4, <3>2
        <5> QED
          BY <5>1 DEF Owed, First
      <4>3. PICK p \in Nat : p = g + n /\ p >= PageWords /\ p < PageWords + PageWords + PageWords
                             /\ n - 1 = p - PageWords
        BY <1>3, <2>12, <4>1
      <4>4. PlaceAt(p - PageWords) = PlaceAt(p) /\ TagAt(b, c, c, p - PageWords) = TagAt(a, b, c, p)
        BY <4>3, PageLeft
      <4>5. First' + Len(Words') = p - PageWords
        <5>1. 0 + (n - 1) = p - PageWords
          BY <2>12, <4>3
        <5> QED
          BY <2>13, <4>2, <5>1
      <4>6. PlaceAt(First' + Len(Words')) = writeWordCnt'
        BY <1>1, <2>12, <4>3, <4>4, <4>5
      <4>7. writeWordCnt' > 0 => TagAt(b, c, c, First' + Len(Words')) = Head(wrDataReqQ')
        BY <1>1, <2>6, <2>12, <4>3, <4>4, <4>5
      <4>8. \A k \in 1..Len(Words') : Words'[k] = WordAt(b, c, c, First' + k - 1)
        <5> TAKE k \in 1..Len(Words')
        <5>1. k \in 1..(n - 1) /\ k + 1 \in 1..n /\ g + (k + 1) - 1 = g + k
          BY <2>12, <2>13
        <5>2. Words'[k] = Words[k + 1] /\ Words[k + 1] = WordAt(a, b, c, g + k)
          BY <2>6, <2>12, <2>13, <5>1
        <5>3. PICK q \in Nat : q = g + k /\ q >= PageWords /\ q < PageWords + PageWords + PageWords
                               /\ q - PageWords = 0 + k - 1
          BY <1>3, <2>12, <4>1, <4>3, <5>1
        <5>4. WordAt(b, c, c, q - PageWords) = WordAt(a, b, c, q)
          BY <5>3, PageLeft
        <5> QED
          BY <4>2, <5>2, <5>3, <5>4
      <4> QED
        BY <2>14, <4>2, <4>6, <4>7, <4>8, StreamNext
    <3> QED
      BY <3>1, <3>2
  <2> QED
    BY <2>8, <2>9, <2>10, <2>11, <2>15 DEF Writes
<1> QED
  BY <1>4, <1>5

(* The command at the head of a chip's queue is the host's, on that chip. *)
LEMMA HeadKnown ==
  ASSUME MoreTypes, Control, Tags, NEW k \in Chip, chipQs[k] # <<>>, chipBusy[k] = <<>>
  PROVE  /\ host[Head(chipQs[k]).tag] = Head(chipQs[k]) /\ Head(chipQs[k]).chip = k
         /\ Head(chipQs[k]) \in FlashCmd
<1>1. chipQs[k] \in Seq(FlashCmd)
  BY LiveTyped
<1>2. PICK cmd \in FlashCmd : cmd = Head(chipQs[k])
  BY <1>1, Take
<1>3. Live(k) = chipQs[k]
  BY Zenon DEF Live, Answered
<1>4. Live(k)[1] = cmd /\ 1 \in 1..Len(Live(k))
  <2>1. Live(k)[1] = cmd /\ Len(Live(k)) \in Nat /\ Len(Live(k)) > 0
    BY <1>1, <1>2, <1>3, Take
  <2> QED
    BY <2>1
<1>5. host[Live(k)[1].tag] = Live(k)[1] /\ Live(k)[1].chip = k
  BY <1>4, TagsKnown
<1> QED
  BY <1>2, <1>4, <1>5

(* Operations of one tag are of one chip, the one whose queue the tag heads. *)
LEMMA OpsChip ==
  ASSUME MoreTypes, Control, Tags, NEW i \in 1..Len(Ops), NEW k \in Chip, chipQs[k] # <<>>,
         chipBusy[k] = <<>>, Ops[i].tag = Head(chipQs[k]).tag
  PROVE  Ops[i].chip = k
<1>1. PICK c \in Chip : c = Ops[i].chip
  BY OpAt
<1>2. chipQs[c] # <<>> /\ chipBusy[c] = <<>> /\ Ops[i].tag = Head(chipQs[c]).tag
  BY <1>1 DEF Control, OpsAgree
<1>3. host[Head(chipQs[c]).tag] = Head(chipQs[c]) /\ Head(chipQs[c]).chip = c
  BY <1>2, HeadKnown
<1>4. host[Head(chipQs[k]).tag] = Head(chipQs[k]) /\ Head(chipQs[k]).chip = k
  BY HeadKnown
<1>5. Head(chipQs[c]) = Head(chipQs[k])
  BY <1>2, <1>3, <1>4
<1> QED
  BY <1>1, <1>3, <1>4, <1>5

(* The page being programmed is that of the oldest operation. *)
LEMMA WritingFirst ==
  ASSUME MoreTypes, Writing
  PROVE  /\ 1 \in 1..Len(Ops) /\ Ops[1].tag = cmdTagR /\ Ops[1].chip = chipR
         /\ Ops[1].busOp = "WRITE_CMD_DATA" /\ cmdTagR \in Tag
<1>1. Doing = "WRITE_CMD_DATA"
  BY DEF Doing, Writing
<1>2. PICK o : o = [tag |-> cmdTagR, busOp |-> Doing, chip |-> chipR]
  OBVIOUS
<1>3. Ops \in Seq(BusOpEntry) /\ Ops # <<>> /\ Head(Ops) = o
  BY <1>1, <1>2, OpsTyped
<1>4. Ops[1] = o /\ Len(Ops) \in Nat /\ Len(Ops) > 0
  BY <1>3, Take
<1>5. 1 \in 1..Len(Ops)
  BY <1>4
<1>6. cmdTagR \in Tag
  BY <1>1 DEF MoreTypes
<1> QED
  BY <1>1, <1>2, <1>4, <1>5, <1>6

(* While words of a page are owed, it is not a page of the front buffer that waits. *)
LEMMA OwedFirst ==
  ASSUME MoreTypes, Writes, Owed, pageBufFront # <<>>
  PROVE  Head(pageBufFront) = <<cmdTagR, First>>
<1>1. PICK a \in Tag \cup {NoTag}, b \in Tag \cup {NoTag}, c \in Tag \cup {NoTag} :
        /\ a = cmdTagR
        /\ \A k \in 1..Len(Words) : Words[k] = WordAt(a, b, c, First + k - 1)
  BY StreamIs
<1>2. PICK f \in 0..(PageWords - 1) : f = First
  BY WritesTyped
<1>3. 1 \in 1..Len(Words) /\ f + 1 - 1 = f /\ f < PageWords
  <2>1. Len(Words) > 0 /\ Len(Words) \in Nat /\ PageWords \in Nat
    BY FrontFirst, WritesTyped, LenProperties
  <2> QED
    BY <2>1
<1>4. Words[1] = WordAt(a, b, c, f)
  BY <1>1, <1>2, <1>3
<1>5. WordAt(a, b, c, f) = <<a, f>>
  BY <1>3 DEF WordAt, TagAt, PlaceAt
<1>6. Words[1] = Head(pageBufFront)
  BY FrontFirst
<1> QED
  BY <1>1, <1>2, <1>4, <1>5, <1>6

(* A full front buffer that owes nothing holds a page. *)
LEMMA FullFront ==
  ASSUME MoreTypes, Writes, ~Owed, Len(pageBufFront) = PageWords
  PROVE  \E a \in Tag \cup {NoTag} : pageBufFront = PageOf(a)
<1>1. First = 0 /\ PageWords \in Nat
  BY WritesTyped DEF First
<1>2. PICK a \in Tag \cup {NoTag}, b \in Tag \cup {NoTag}, c \in Tag \cup {NoTag} :
        \A k \in 1..Len(Words) : Words[k] = WordAt(a, b, c, First + k - 1)
  BY StreamIs
<1>3. \A k \in 1..PageWords : pageBufFront[k] = <<a, k - 1>>
  <2> TAKE k \in 1..PageWords
  <2>1. k \in 1..Len(Words) /\ Words[k] = pageBufFront[k]
    BY FrontFirst
  <2>2. 0 + k - 1 = k - 1 /\ k - 1 < PageWords
    BY <1>1
  <2>3. Words[k] = WordAt(a, b, c, k - 1)
    BY <1>1, <1>2, <2>1, <2>2
  <2>4. WordAt(a, b, c, k - 1) = <<a, k - 1>>
    BY <2>2 DEF WordAt, TagAt, PlaceAt
  <2> QED
    BY <2>1, <2>3, <2>4
<1>4. pageBufFront \in Seq(Word)
  BY WritesTyped
<1>5. pageBufFront = PageOf(a)
  BY <1>3, <1>4, IsPageOf
<1> QED
  BY <1>5

(* The ready signal follows the front buffer. *)
LEMMA RdyWrites ==
  ASSUME MoreTypes, Control, Writes, SetWriteDataRdy
  PROVE  Writes'
<1>1. /\ UNCHANGED <<encodeOutQ, wrDataTransReqQ, pageBufFront, pageBufBack, writeWordCnt, wrDataReqQ,
                     wrState, wdataCnt, state, cmdTagR, chipR, dataCnt, nandPage, nandOp, nandTag, cmdOutQ>>
      /\ wdataRdyTag' = ReadyNow
  BY DEF SetWriteDataRdy, board, bus, requests, writePath, nand
<1>2. Given' = Given /\ (Writing' <=> Writing)
  BY <1>1 DEF Given, Writing
<1>3. (Owed' <=> Owed) /\ First' = First
  BY <1>2 DEF Owed, First
<1>4. Stream'
  BY <1>1, <1>3, StreamSame
<1>5. Burst' /\ Programmed'
  BY <1>1, <1>2 DEF Writes, Burst, Programmed, PageOf
<1>6. PageWaits'
  BY <1>1, <1>3 DEF Writes, PageWaits, PageOf
<1>7. RdyHonest'
  <2> SUFFICES ASSUME wdataRdyTag' # NoTag
               PROVE  pageBufFront = PageOf(wdataRdyTag') \/ (Writing /\ cmdTagR = wdataRdyTag')
    BY <1>1, <1>2 DEF RdyHonest, PageOf
  <2>1. Len(pageBufFront) = PageWords /\ wdataRdyTag' = Head(pageBufFront)[1]
    BY <1>1 DEF ReadyNow, FrontFull
  <2>2. pageBufFront \in Seq(Word) /\ pageBufFront # <<>>
    <3>1. pageBufFront \in Seq(Word) /\ PageWords > 1 /\ PageWords \in Nat
      BY WritesTyped
    <3> QED
      BY <2>1, <3>1, EmptySeq
  <2>3. CASE Owed
    <3>1. Head(pageBufFront) = <<cmdTagR, First>>
      BY <2>2, <2>3, OwedFirst
    <3> QED
      BY <2>1, <2>3, <3>1 DEF Owed
  <2>4. CASE ~Owed
    <3>1. PICK a \in Tag \cup {NoTag} : pageBufFront = PageOf(a)
      BY <2>1, <2>4, FullFront
    <3>2. Head(pageBufFront) = <<a, 0>>
      BY <2>2, <3>1, PageOfLen
    <3> QED
      BY <2>1, <3>1, <3>2
  <2> QED
    BY <2>3, <2>4
<1> QED
  BY <1>4, <1>5, <1>6, <1>7 DEF Writes

(* The chip's register is empty when the burst starts. *)
LEMMA WaitWrites ==
  ASSUME MoreTypes, Control, Writes, DoWriteDataWait
  PROVE  Writes'
<1>1. /\ UNCHANGED <<encodeOutQ, wrDataTransReqQ, pageBufFront, pageBufBack, writeWordCnt, wrDataReqQ,
                     wrState, wdataCnt, wdataRdyTag, cmdTagR, chipR, dataCnt, nandOp, nandTag, cmdOutQ>>
      /\ state = "WRITE_PAGE_WAIT" /\ state' = "WRITE_PAGE"
      /\ nandPage' = [nandPage EXCEPT ![chipR] = <<>>]
  BY DEF DoWriteDataWait, board, bus, requests, writePath, nand
<1>2. Given' = Given /\ Writing /\ Writing'
  BY <1>1 DEF Given, Writing
<1>3. (Owed' <=> Owed) /\ First' = First
  BY <1>2 DEF Owed, First
<1>4. Stream'
  BY <1>1, <1>3, StreamSame
<1>5. chipR \in Chip /\ dataCnt = 0 /\ nandOp[chipR] = "idle"
  BY <1>1, NotDisturbed DEF MoreTypes, TypeOK, ChipNotDisturbed
<1>6. \A c \in Chip : nandPage'[c] = IF c = chipR THEN <<>> ELSE nandPage[c]
  BY <1>1 DEF MoreTypes, TypeOK, FifoFamily
<1>7. Len(nandPage'[chipR]) = 0
  BY <1>5, <1>6
<1>8. Burst'
  BY <1>1, <1>2, <1>5, <1>7 DEF Writes, Burst
<1>9. Programmed'
  BY <1>1, <1>5, <1>6 DEF Writes, Programmed, PageOf
<1>10. RdyHonest'
  BY <1>1, <1>2 DEF Writes, RdyHonest, PageOf
<1>11. PageWaits'
  BY <1>1, <1>3 DEF Writes, PageWaits, PageOf
<1> QED
  BY <1>4, <1>8, <1>9, <1>10, <1>11 DEF Writes

(* A word of the burst goes to the chip's register. *)
LEMMA ProgramWrites ==
  ASSUME MoreTypes, Control, Writes, DoWritePageData
  PROVE  Writes'
<1>1. /\ UNCHANGED <<wrDataTransReqQ, pageBufFront, pageBufBack, writeWordCnt, wrDataReqQ, state,
                     wrState, wdataCnt, wdataRdyTag, cmdTagR, chipR, nandOp, nandTag, cmdOutQ>>
      /\ state = "WRITE_PAGE" /\ encodeOutQ # <<>> /\ encodeOutQ' = Tail(encodeOutQ)
      /\ nandPage' = Enq(nandPage, chipR, Head(encodeOutQ)) /\ dataCnt' = dataCnt + 1
  BY DEF DoWritePageData, board, requests, writePath
<1>2. Given' = Given /\ Writing /\ Writing'
  BY <1>1 DEF Given, Writing
<1>3. (Owed' <=> Owed) /\ First' = First
  BY <1>2 DEF Owed, First
<1>4. Stream'
  BY <1>1, <1>3, StreamSame
<1>5. chipR \in Chip /\ nandOp[chipR] = "idle"
  BY <1>1, NotDisturbed DEF MoreTypes, TypeOK, ChipNotDisturbed
<1>6. PICK d \in Nat, g \in Nat, h \in Word, x \in Nat :
        d = dataCnt /\ g = Given /\ h = Head(encodeOutQ) /\ x = Len(encodeOutQ)
  <2>1. dataCnt \in Nat /\ Given \in Nat /\ encodeOutQ \in Seq(Word)
    BY WritesTyped
  <2>2. Head(encodeOutQ) \in Word /\ Len(encodeOutQ) \in Nat
    BY <1>1, <2>1, Take
  <2> QED
    BY <2>1, <2>2
<1>7. /\ x = g - d /\ \A k \in 1..x : encodeOutQ[k] = <<cmdTagR, d + k - 1>>
      /\ Len(nandPage[chipR]) = d /\ \A k \in 1..d : nandPage[chipR][k] = <<cmdTagR, k - 1>>
  BY <1>1, <1>2, <1>6 DEF Writes, Burst
<1>8. /\ x > 0 /\ encodeOutQ[1] = h /\ Len(encodeOutQ') = x - 1
      /\ \A k \in 1..(x - 1) : encodeOutQ'[k] = encodeOutQ[k + 1]
  <2>1. encodeOutQ \in Seq(Word)
    BY WritesTyped
  <2>2. /\ Len(encodeOutQ) > 0 /\ encodeOutQ[1] = Head(encodeOutQ) /\ Len(Tail(encodeOutQ)) = Len(encodeOutQ) - 1
        /\ \A k \in 1..Len(Tail(encodeOutQ)) : Tail(encodeOutQ)[k] = encodeOutQ[k + 1]
    BY <1>1, <2>1, Take
  <2> QED
    BY <1>1, <1>6, <2>2
<1>9. h = <<cmdTagR, d>>
  <2>1. 1 \in 1..x /\ d + 1 - 1 = d
    BY <1>6, <1>8
  <2> QED
    BY <1>7, <1>8, <2>1
<1>10. \A c \in Chip : nandPage'[c] = IF c = chipR THEN Append(nandPage[c], h) ELSE nandPage[c]
  BY <1>1, <1>5, <1>6 DEF Enq, MoreTypes, TypeOK, FifoFamily
<1>11. /\ Len(nandPage'[chipR]) = d + 1 /\ nandPage'[chipR][d + 1] = h
       /\ \A k \in 1..d : nandPage'[chipR][k] = nandPage[chipR][k]
  <2>1. PICK q \in Seq(Word) : q = nandPage[chipR]
    BY <1>5 DEF MoreTypes, TypeOK, FifoFamily
  <2>2. Len(Append(q, h)) = Len(q) + 1 /\ Append(q, h)[Len(q) + 1] = h /\ \A k \in 1..Len(q) : Append(q, h)[k] = q[k]
    BY Put
  <2>3. nandPage'[chipR] = Append(q, h)
    BY <1>5, <1>10, <2>1
  <2> QED
    BY <1>7, <2>1, <2>2, <2>3
<1>12. \A k \in 1..(d + 1) : nandPage'[chipR][k] = <<cmdTagR, k - 1>>
  <2> TAKE k \in 1..(d + 1)
  <2>1. CASE k = d + 1
    <3>1. k - 1 = d
      BY <1>6, <2>1
    <3> QED
      BY <1>9, <1>11, <2>1, <3>1
  <2>2. CASE k # d + 1
    <3>1. k \in 1..d
      BY <1>6, <2>2
    <3> QED
      BY <1>7, <1>11, <3>1
  <2> QED
    BY <2>1, <2>2
<1>13. \A k \in 1..(x - 1) : encodeOutQ'[k] = <<cmdTagR, (d + 1) + k - 1>>
  <2> TAKE k \in 1..(x - 1)
  <2>1. k + 1 \in 1..x /\ d + (k + 1) - 1 = (d + 1) + k - 1
    BY <1>6
  <2>2. encodeOutQ[k + 1] = <<cmdTagR, d + (k + 1) - 1>>
    BY <1>7, <2>1
  <2> QED
    BY <1>8, <2>1, <2>2
<1>14. x - 1 = g - (d + 1)
  BY <1>6, <1>7
<1>15. Burst'
  <2>1. Len(encodeOutQ') = Given' - dataCnt'
        /\ \A k \in 1..Len(encodeOutQ') : encodeOutQ'[k] = <<cmdTagR', dataCnt' + k - 1>>
    BY <1>1, <1>2, <1>6, <1>8, <1>13, <1>14
  <2>2. Len(nandPage'[chipR']) = dataCnt' /\ \A k \in 1..dataCnt' : nandPage'[chipR'][k] = <<cmdTagR', k - 1>>
    BY <1>1, <1>6, <1>11, <1>12
  <2>3. /\ wrDataTransReqQ' = <<>> \/ wrDataTransReqQ' = <<1>>
        /\ wrState' = 1 /\ (wrDataTransReqQ' # <<>> \/ ~Writing') => wdataCnt' = PageWords
    BY <1>1, <1>2 DEF Writes, Burst
  <2> QED
    BY <1>2, <2>1, <2>2, <2>3 DEF Burst
<1>16. Programmed'
  BY <1>1, <1>5, <1>10 DEF Writes, Programmed, PageOf
<1>17. RdyHonest'
  BY <1>1, <1>2 DEF Writes, RdyHonest, PageOf
<1>18. PageWaits'
  BY <1>1, <1>3 DEF Writes, PageWaits, PageOf
<1> QED
  BY <1>4, <1>15, <1>16, <1>17, <1>18 DEF Writes

(* The whole page is in the chip's register when the chip starts on it. *)
LEMMA DoneWrites ==
  ASSUME MoreTypes, Control, Writes, DoWriteDone
  PROVE  Writes'
<1>1. /\ UNCHANGED <<encodeOutQ, wrDataTransReqQ, pageBufFront, pageBufBack, writeWordCnt, wrDataReqQ,
                     wrState, wdataCnt, wdataRdyTag, cmdTagR, chipR, dataCnt, nandPage, cmdOutQ>>
      /\ state = "WRITE_PAGE" /\ state' = "IDLE" /\ dataCnt = PageWords /\ wdataRdyTag # cmdTagR
      /\ nandOp' = [nandOp EXCEPT ![chipR] = "programming"]
      /\ nandTag' = [nandTag EXCEPT ![chipR] = cmdTagR]
  BY DEF DoWriteDone, Start, board, bus, requests, writePath, nand
<1>2. Writing /\ ~Writing' /\ PageWords \in Nat /\ PageWords > 1
  BY <1>1, Sizes DEF Writing
<1>3. Given = PageWords /\ Len(encodeOutQ) = 0
  <2>1. Len(encodeOutQ) = Given - PageWords
    BY <1>1, <1>2 DEF Writes, Burst
  <2> QED
    BY <1>2, <2>1, WritesTyped
<1>4. encodeOutQ = <<>>
  BY <1>3, WritesTyped, EmptySeq
<1>5. wrDataTransReqQ = <<>> /\ (wrState = 1 => wdataCnt = PageWords)
  <2>1. wrDataTransReqQ = <<>>
    BY <1>2, <1>3 DEF Given
  <2> QED
    BY <1>3, <2>1 DEF Given
<1>6. ~Owed /\ ~Owed' /\ First = 0 /\ First' = 0
  BY <1>2, <1>3 DEF Owed, First
<1>7. Stream'
  BY <1>1, <1>6, StreamSame
<1>8. Burst'
  BY <1>1, <1>2, <1>4, <1>5 DEF Burst
<1>9. RdyHonest'
  BY <1>1 DEF Writes, RdyHonest, PageOf
<1>10. PageWaits'
  BY <1>1, <1>6 DEF Writes, PageWaits, PageOf
<1>11. chipR \in Chip /\ nandPage[chipR] \in Seq(Word)
  BY DEF MoreTypes, TypeOK, FifoFamily
<1>12. nandPage[chipR] = PageOf(cmdTagR)
  <2>1. PICK q \in Seq(Word) : q = nandPage[chipR]
    BY <1>11
  <2>2. Len(q) = PageWords /\ \A k \in 1..PageWords : q[k] = <<cmdTagR, k - 1>>
    BY <1>1, <2>1 DEF Writes, Burst
  <2>3. q = PageOf(cmdTagR)
    BY <2>2, IsPageOf
  <2> QED
    BY <2>1, <2>3
<1>13. \A c \in Chip : /\ nandOp'[c] = IF c = chipR THEN "programming" ELSE nandOp[c]
                       /\ nandTag'[c] = IF c = chipR THEN cmdTagR ELSE nandTag[c]
  BY <1>1 DEF MoreTypes, TypeOK
<1>14. Programmed'
  <2>1. \A c \in Chip : nandOp'[c] = "programming" => nandPage[c] = PageOf(nandTag'[c])
    <3> SUFFICES ASSUME NEW c \in Chip, nandOp'[c] = "programming"
                 PROVE  nandPage[c] = PageOf(nandTag'[c])
      OBVIOUS
    <3>1. CASE c = chipR
      <4>1. nandTag'[c] = cmdTagR
        BY <1>13, <3>1
      <4> QED
        BY <1>12, <3>1, <4>1
    <3>2. CASE c # chipR
      <4>1. nandOp[c] = "programming" /\ nandTag'[c] = nandTag[c]
        BY <1>13, <3>2
      <4>2. nandPage[c] = PageOf(nandTag[c])
        BY <4>1 DEF Writes, Programmed
      <4> QED
        BY <4>1, <4>2
    <3> QED
      BY <3>1, <3>2
  <2>2. nandPage' = nandPage
    BY <1>1
  <2> QED
    BY <2>1, <2>2 DEF Programmed, PageOf
<1> QED
  BY <1>7, <1>8, <1>9, <1>10, <1>14 DEF Writes

(* A page is programmed once it is the one in the front buffer. *)
LEMMA IssueWrites ==
  ASSUME MoreTypes, Control, Tags, Writes, IssueStep
  PROVE  Writes'
<1>1. PICK c \in Chip : c = currChip /\ chipQs[c] # <<>> /\ Head(chipQs[c]) \in FlashCmd
  BY Take DEF IssueStep, Served, MoreTypes, TypeOK, FifoFamily
<1>2. PICK s \in StepsOf : /\ s[1] = Head(chipQs[c]).op /\ s[2] = chipStages[c]
       /\ cmdOutQ' = Append(cmdOutQ, [tag |-> Head(chipQs[c]).tag, busOp |-> s[3], chip |-> c])
  BY <1>1 DEF IssueStep, Req, Stage
<1>3. PICK o \in BusOpEntry : o = [tag |-> Head(chipQs[c]).tag, busOp |-> s[3], chip |-> c]
  BY <1>1, CmdTyped, StepTable DEF BusOpEntry
<1>4. UNCHANGED <<encodeOutQ, wrDataTransReqQ, pageBufFront, pageBufBack, writeWordCnt, wrDataReqQ,
                  wrState, wdataCnt, wdataRdyTag, state, cmdTagR, chipR, dataCnt, nandPage, nandOp, nandTag>>
  BY DEF IssueStep, bus, requests, writePath, nand
<1>5. Given' = Given /\ (Writing' <=> Writing)
  BY <1>4 DEF Given, Writing
<1>6. (Owed' <=> Owed) /\ First' = First
  BY <1>5 DEF Owed, First
<1>7. Stream'
  BY <1>4, <1>6, StreamSame
<1>8. Burst' /\ RdyHonest' /\ Programmed'
  BY <1>4, <1>5 DEF Writes, Burst, RdyHonest, Programmed, PageOf
<1>9. o.busOp = "WRITE_CMD_DATA" => pageBufFront = PageOf(o.tag) /\ ~Owed
  <2> SUFFICES ASSUME o.busOp = "WRITE_CMD_DATA"
               PROVE  pageBufFront = PageOf(o.tag) /\ ~Owed
    OBVIOUS
  <2>1. chipStages[c] = "WR_BUF_REQ_ISSUED"
    BY <1>2, <1>3, StepTable
  <2>2. wdataRdyTag = o.tag /\ o.tag \in Tag /\ o.tag = Head(chipQs[c]).tag
    BY <1>1, <1>3, <2>1, CmdTyped DEF IssueStep, DataReady, Stage, Req
  <2>3. StageRank(chipStages[c]) = 1
    BY <2>1 DEF StageRank
  <2>4. chipBusy[c] = <<>>
    <3>1. chipBusy[c] # <<>> => StageRank(chipStages[c]) = 3
      BY DEF Control, AnswersAgree
    <3> QED
      BY <2>3, <3>1
  <2>5. ~(Writing /\ cmdTagR = o.tag)
    <3> SUFFICES ASSUME Writing, cmdTagR = o.tag
                 PROVE  FALSE
      OBVIOUS
    <3>1. 1 \in 1..Len(Ops) /\ Ops[1].tag = cmdTagR /\ Ops[1].busOp = "WRITE_CMD_DATA"
      BY WritingFirst
    <3>2. Ops[1].tag = Head(chipQs[c]).tag
      BY <2>2, <3>1
    <3>3. Ops[1].chip = c
      BY <1>1, <2>4, <3>1, <3>2, OpsChip
    <3>4. Rank(Ops[1].busOp) <= StageRank(chipStages[c])
      BY <3>1, <3>3 DEF Control, OpsAgree
    <3>5. Rank(Ops[1].busOp) = 2
      BY <3>1 DEF Rank
    <3> QED
      BY <2>3, <3>4, <3>5
  <2>6. o.tag # NoTag
    BY <2>2, Sizes
  <2>7. pageBufFront = PageOf(o.tag)
    BY <2>2, <2>5, <2>6 DEF Writes, RdyHonest
  <2>8. ~Owed
    <3> SUFFICES ASSUME Owed
                 PROVE  FALSE
      OBVIOUS
    <3>1. pageBufFront \in Seq(Word)
      BY WritesTyped
    <3>2. pageBufFront # <<>> /\ Head(pageBufFront) = <<o.tag, 0>>
      BY <2>7, <3>1, PageOfLen
    <3>3. Head(pageBufFront) = <<cmdTagR, First>>
      BY <3>2, OwedFirst
    <3>4. cmdTagR = o.tag /\ Writing
      BY <3>2, <3>3 DEF Owed
    <3> QED
      BY <2>5, <3>4
  <2> QED
    BY <2>7, <2>8
<1>10. PageWaits'
  <2>1. /\ Len(cmdOutQ') = Len(cmdOutQ) + 1 /\ Len(cmdOutQ) \in Nat
        /\ cmdOutQ'[Len(cmdOutQ) + 1] = o
        /\ \A i \in 1..Len(cmdOutQ) : cmdOutQ'[i] = cmdOutQ[i]
    <3>1. cmdOutQ \in Seq(BusOpEntry) /\ cmdOutQ' = Append(cmdOutQ, o)
      BY <1>2, <1>3, OpsTyped
    <3> QED
      BY <3>1, Put
  <2>2. \A i \in 1..Len(cmdOutQ') :
          cmdOutQ'[i].busOp = "WRITE_CMD_DATA" => pageBufFront = PageOf(cmdOutQ'[i].tag) /\ ~Owed
    <3> TAKE i \in 1..Len(cmdOutQ')
    <3>1. CASE i = Len(cmdOutQ) + 1
      <4>1. cmdOutQ'[i] = o
        BY <2>1, <3>1
      <4> QED
        BY <1>9, <4>1
    <3>2. CASE i # Len(cmdOutQ) + 1
      <4>1. i \in 1..Len(cmdOutQ)
        BY <2>1, <3>2
      <4>2. cmdOutQ'[i] = cmdOutQ[i]
        BY <2>1, <4>1
      <4>3. cmdOutQ[i].busOp = "WRITE_CMD_DATA" => pageBufFront = PageOf(cmdOutQ[i].tag) /\ ~Owed
        BY <4>1 DEF Writes, PageWaits
      <4> QED
        BY <4>2, <4>3
    <3> QED
      BY <3>1, <3>2
  <2> QED
    BY <1>4, <1>6, <2>2 DEF PageWaits, PageOf
<1> QED
  BY <1>7, <1>8, <1>10 DEF Writes

(* The bus starts on a page: it is the one in the front buffer. *)
LEMMA DecodeWrites ==
  ASSUME MoreTypes, Control, Tags, Writes, DoDecodeCmd
  PROVE  Writes'
<1>1. PICK o \in BusOpEntry : o = Head(cmdOutQ)
  BY Take, OpsTyped DEF DoDecodeCmd
<1>2. /\ UNCHANGED <<encodeOutQ, pageBufFront, pageBufBack, writeWordCnt, wrDataReqQ, wrState, wdataCnt,
                     wdataRdyTag, nandPage, nandOp, nandTag>>
      /\ state = "IDLE" /\ cmdOutQ # <<>> /\ cmdOutQ' = Tail(cmdOutQ)
      /\ cmdTagR' = o.tag /\ chipR' = o.chip /\ dataCnt' = 0
  BY <1>1 DEF DoDecodeCmd, writePath, nand
<1>3. ~Writing /\ ~Owed /\ First = 0
  BY <1>2 DEF Writing, Owed, First
<1>4. /\ Len(cmdOutQ) \in Nat /\ Len(cmdOutQ) > 0 /\ cmdOutQ[1] = o /\ Len(cmdOutQ') = Len(cmdOutQ) - 1
      /\ \A i \in 1..Len(cmdOutQ') : cmdOutQ'[i] = cmdOutQ[i + 1]
  BY <1>1, <1>2, OpsTyped, Take
<1>5. 1 \in 1..Len(cmdOutQ) /\ \A i \in 1..Len(cmdOutQ') : i + 1 \in 1..Len(cmdOutQ) /\ 1 < i + 1
  BY <1>4
<1>6. CASE o.busOp # "WRITE_CMD_DATA"
  <2>1. UNCHANGED wrDataTransReqQ
    BY <1>1, <1>6 DEF DoDecodeCmd
  <2>2. ~Writing'
    <3>1. o.busOp \in BusOp
      BY <1>1 DEF BusOpEntry
    <3> QED
      BY <1>1, <1>6, <3>1 DEF DoDecodeCmd, Writing, BusOp
  <2>3. \A i \in 1..Len(cmdOutQ') : \E j \in 1..Len(cmdOutQ) : cmdOutQ'[i] = cmdOutQ[j]
    BY <1>4, <1>5
  <2> QED
    BY <1>2, <1>3, <2>1, <2>2, <2>3, ElseWrites
<1>7. CASE o.busOp = "WRITE_CMD_DATA"
  <2>1. pageBufFront = PageOf(o.tag)
    BY <1>4, <1>5, <1>7 DEF Writes, PageWaits
  <2>2. pageBufFront \in Seq(Word) /\ PageWords \in Nat /\ PageWords > 1
    BY WritesTyped
  <2>3. Len(pageBufFront) = PageWords /\ pageBufFront # <<>> /\ Head(pageBufFront) = <<o.tag, 0>>
    BY <2>1, <2>2, PageOfLen
  <2>4. wrDataTransReqQ = <<>> /\ encodeOutQ = <<>> /\ (wrState = 1 => wdataCnt = PageWords)
    BY <1>3 DEF Writes, Burst
  <2>5. wrDataTransReqQ' = <<1>> /\ state' = "WRITE_PAGE_WAIT"
    BY <1>1, <1>7, <2>4 DEF DoDecodeCmd
  <2>6. Given' = 0 /\ Writing' /\ Owed' /\ First' = 0
    <3>1. Given' = 0 /\ Writing'
      BY <2>5 DEF Given, Writing
    <3> QED
      BY <2>2, <3>1 DEF Owed, First
  <2>7. Burst'
    <3>1. Len(encodeOutQ') = 0 /\ 0 - 0 = 0 /\ encodeOutQ' = <<>>
      BY <1>2, <2>4, EmptySeq
    <3> QED
      BY <1>2, <2>4, <2>5, <2>6, <3>1 DEF Burst
  <2>8. RdyHonest'
    BY <1>2, <1>3 DEF Writes, RdyHonest, PageOf
  <2>9. Programmed'
    BY <1>2 DEF Writes, Programmed, PageOf
  <2>10. PageWaits'
    <3>1. Ops = cmdOutQ
      BY <1>2, OpsTyped DEF Doing
    <3>2. o.chip \in Chip /\ chipQs[o.chip] # <<>> /\ chipBusy[o.chip] = <<>> /\ o.tag = Head(chipQs[o.chip]).tag
      <4>1. Ops[1] = o /\ 1 \in 1..Len(Ops)
        BY <1>4, <1>5, <3>1
      <4> QED
        BY <4>1, OpAt DEF Control, OpsAgree
    <3>3. \A i \in 1..Len(cmdOutQ') : cmdOutQ'[i].busOp # "WRITE_CMD_DATA"
      <4> SUFFICES ASSUME NEW i \in 1..Len(cmdOutQ'), cmdOutQ'[i].busOp = "WRITE_CMD_DATA"
                   PROVE  FALSE
        OBVIOUS
      <4>1. PICK j \in 1..Len(cmdOutQ) : j = i + 1 /\ 1 < j /\ cmdOutQ[j].busOp = "WRITE_CMD_DATA"
        BY <1>4, <1>5
      <4>2. pageBufFront = PageOf(cmdOutQ[j].tag)
        BY <4>1 DEF Writes, PageWaits
      <4>3. Head(pageBufFront) = <<cmdOutQ[j].tag, 0>>
        BY <2>2, <4>2, PageOfLen
      <4>4. Ops[j].tag = Head(chipQs[o.chip]).tag /\ j \in 1..Len(Ops)
        BY <2>3, <3>1, <3>2, <4>3
      <4>5. Ops[j].chip = o.chip
        BY <3>2, <4>4, OpsChip
      <4>6. Rank(Ops[1].busOp) < Rank(Ops[j].busOp)
        <5>1. 1 \in 1..Len(Ops) /\ 1 < j /\ Ops[1].chip = Ops[j].chip
          BY <1>4, <1>5, <3>1, <4>1, <4>5
        <5> QED
          BY <4>4, <5>1 DEF Control, OpsOrdered
      <4>7. Rank(Ops[1].busOp) = 2 /\ Rank(Ops[j].busOp) = 2
        BY <1>4, <1>7, <3>1, <4>1 DEF Rank
      <4> QED
        BY <4>6, <4>7
    <3> QED
      BY <3>3 DEF PageWaits
  <2>11. Stream'
    <3>1. PICK a \in Tag \cup {NoTag}, b \in Tag \cup {NoTag}, c \in Tag \cup {NoTag} :
            /\ writeWordCnt > 0 => TagAt(a, b, c, First + Len(Words)) = Head(wrDataReqQ)
            /\ \A k \in 1..Len(Words) : Words[k] = WordAt(a, b, c, First + k - 1)
      BY StreamIs
    <3>2. a = o.tag
      <4>1. 1 \in 1..Len(Words) /\ Words[1] = Head(pageBufFront)
        <5>1. Len(Words) > 0 /\ Words[1] = Head(pageBufFront) /\ Len(Words) \in Nat
          BY <2>3, FrontFirst, WritesTyped, LenProperties
        <5> QED
          BY <5>1
      <4>2. Words[1] = WordAt(a, b, c, 0)
        <5>1. Words[1] = WordAt(a, b, c, 0 + 1 - 1)
          BY <1>3, <3>1, <4>1
        <5>2. 0 + 1 - 1 = 0
          OBVIOUS
        <5> QED
          BY <5>1, <5>2
      <4>3. WordAt(a, b, c, 0) = <<a, 0>>
        BY <2>2 DEF WordAt, TagAt, PlaceAt
      <4> QED
        BY <2>3, <4>1, <4>2, <4>3
    <3>3. Words' = Words /\ First' = First
      BY <1>2, <1>3, <2>6 DEF Words
    <3>4. /\ Len(pageBufFront') <= PageWords /\ Len(pageBufBack') <= PageWords
          /\ writeWordCnt' > 0 => wrDataReqQ' # <<>>
          /\ PlaceAt(First' + Len(Words')) = writeWordCnt'
      BY <1>2, <3>3, StreamIs
    <3>5. First' + Len(pageBufFront') >= PageWords
      BY <1>2, <2>2, <2>3, <2>6
    <3>6. a = cmdTagR'
      BY <1>2, <3>2
    <3>7. writeWordCnt' > 0 => TagAt(a, b, c, First' + Len(Words')) = Head(wrDataReqQ')
      BY <1>2, <3>1, <3>3
    <3>8. \A k \in 1..Len(Words') : Words'[k] = WordAt(a, b, c, First' + k - 1)
      BY <3>1, <3>3
    <3> QED
      BY <3>4, <3>5, <3>6, <3>7, <3>8, StreamNext
  <2> QED
    BY <2>7, <2>8, <2>9, <2>10, <2>11 DEF Writes
<1> QED
  BY <1>6, <1>7

(* The other steps of the bus and of the chips. *)
LEMMA QuietWrites ==
  ASSUME MoreTypes, Control, Writes,
         UNCHANGED <<encodeOutQ, wrDataTransReqQ, pageBufFront, pageBufBack, writeWordCnt, wrDataReqQ,
                     wrState, wdataCnt, wdataRdyTag, cmdOutQ>>,
         UNCHANGED <<state, cmdTagR, chipR, dataCnt, nandPage>> \/ (~Writing /\ ~Writing'),
         \A c \in Chip : nandOp'[c] = "programming" =>
            nandOp[c] = "programming" /\ nandTag'[c] = nandTag[c] /\ nandPage'[c] = nandPage[c]
  PROVE  Writes'
<1>1. \A i \in 1..Len(cmdOutQ') : cmdOutQ'[i].busOp = "WRITE_CMD_DATA" =>
        \E j \in 1..Len(cmdOutQ) : cmdOutQ'[i] = cmdOutQ[j]
  OBVIOUS
<1> QED
  BY <1>1, ElseWrites

LEMMA WritesStep ==
  ASSUME MoreTypes, Control, Tags, Writes, [Next]_vars
  PROVE  Writes'
<1>1. CASE DoSBCmd \/ DoChooseChip \/ AwaitData \/ TakeStatus
  <2>1. UNCHANGED <<encodeOutQ, wrDataTransReqQ, pageBufFront, pageBufBack, writeWordCnt, wrDataReqQ,
                    wrState, wdataCnt, wdataRdyTag, cmdOutQ, state, cmdTagR, chipR, dataCnt,
                    nandPage, nandOp, nandTag>>
    BY <1>1 DEF DoSBCmd, DoChooseChip, AwaitData, TakeStatus, bus, requests, writePath, nand
  <2> QED
    BY <2>1, QuietWrites
<1>2. CASE IssueStep
  BY <1>2, IssueWrites
<1>3. CASE BusController
  <2>1. CASE DoDecodeCmd
    BY <2>1, DecodeWrites
  <2>2. CASE DoReadPage \/ DoEraseBlock
    <3>1. PICK op \in {"reading", "erasing"} : Start(op)
      BY <2>2 DEF DoReadPage, DoEraseBlock
    <3>2. /\ UNCHANGED <<encodeOutQ, wrDataTransReqQ, pageBufFront, pageBufBack, writeWordCnt, wrDataReqQ,
                         wrState, wdataCnt, wdataRdyTag, cmdOutQ, nandPage>>
          /\ ~Writing
      BY <2>2 DEF DoReadPage, DoEraseBlock, board, requests, writePath, Writing
    <3>3. ~Writing'
      BY <3>1 DEF Start, Writing
    <3>4. \A c \in Chip : /\ nandOp'[c] = IF c = chipR THEN op ELSE nandOp[c]
                          /\ nandTag'[c] = IF c = chipR THEN cmdTagR ELSE nandTag[c]
      BY <3>1 DEF Start, MoreTypes, TypeOK
    <3>5. \A c \in Chip : nandOp'[c] = "programming" =>
            nandOp[c] = "programming" /\ nandTag'[c] = nandTag[c] /\ nandPage'[c] = nandPage[c]
      BY <3>2, <3>4
    <3> QED
      BY <3>2, <3>3, <3>5, QuietWrites
  <2>3. CASE DoGetStatus \/ DoReadDataWaitBuf \/ DoReadData
    <3>1. /\ UNCHANGED <<encodeOutQ, wrDataTransReqQ, pageBufFront, pageBufBack, writeWordCnt, wrDataReqQ,
                         wrState, wdataCnt, wdataRdyTag, cmdOutQ, nandPage, nandOp, nandTag>>
          /\ ~Writing
      BY <2>3 DEF DoGetStatus, DoReadDataWaitBuf, DoReadData, board, requests, writePath, nand, Writing
    <3>2. ~Writing'
      BY <2>3 DEF DoGetStatus, DoReadDataWaitBuf, DoReadData, Writing
    <3> QED
      BY <3>1, <3>2, QuietWrites
  <2>4. CASE DoWriteDataWait
    BY <2>4, WaitWrites
  <2>5. CASE DoWritePageData
    BY <2>5, ProgramWrites
  <2>6. CASE DoWriteDone
    BY <2>6, DoneWrites
  <2> QED
    BY <1>3, <2>1, <2>2, <2>3, <2>4, <2>5, <2>6 DEF BusController
<1>4. CASE PageBuffer
  <2>1. CASE DoHandleWriteDataReq
    BY <2>1, AskWrites
  <2>2. CASE DoWriteFetchWait
    <3>1. UNCHANGED <<encodeOutQ, wrDataTransReqQ, pageBufFront, pageBufBack, writeWordCnt, wrDataReqQ,
                      wrState, wdataCnt, wdataRdyTag, cmdOutQ, state, cmdTagR, chipR, dataCnt,
                      nandPage, nandOp, nandTag>>
      BY <2>2 DEF DoWriteFetchWait, board, bus, requests, nand
    <3> QED
      BY <3>1, QuietWrites
  <2>3. CASE WriteWord
    BY <2>3, WordWrites
  <2>4. CASE DoWriteBufTransfer
    BY <2>4, TransferWrites
  <2>5. CASE DoWriteDataTransferReq
    BY <2>5, GiveWrites
  <2>6. CASE DoWriteDataTransferToBus
    BY <2>6, TakeWrites
  <2> QED
    BY <1>4, <2>1, <2>2, <2>3, <2>4, <2>5, <2>6 DEF PageBuffer
<1>5. CASE SetWriteDataRdy
  BY <1>5, RdyWrites
<1>6. CASE ReadPath \/ AckStatus \/ (\E c \in Chip : TimerExpires(c)) \/ (\E cmd \in FlashCmd : SendCmd(cmd))
           \/ UNCHANGED vars
  <2>1. UNCHANGED <<encodeOutQ, wrDataTransReqQ, pageBufFront, pageBufBack, writeWordCnt, wrDataReqQ,
                    wrState, wdataCnt, wdataRdyTag, cmdOutQ, state, cmdTagR, chipR, dataCnt,
                    nandPage, nandOp, nandTag>>
    <3>1. CASE ReadPath
      BY <3>1 DEF ReadPath, DoDecode, ReadWord, board, bus, requests, writePath, nand
    <3>2. CASE AckStatus
      BY <3>2 DEF AckStatus, board, bus, requests, writePath, nand
    <3>3. CASE \E c \in Chip : TimerExpires(c)
      BY <3>3 DEF TimerExpires, bus, requests, writePath, nand
    <3>4. CASE \E cmd \in FlashCmd : SendCmd(cmd)
      BY <3>4 DEF SendCmd, board, bus, requests, writePath, nand
    <3>5. CASE UNCHANGED vars
      BY <3>5 DEF vars, board, bus, requests, writePath, nand
    <3> QED
      BY <1>6, <3>1, <3>2, <3>3, <3>4, <3>5
  <2> QED
    BY <2>1, QuietWrites
<1>7. CASE \E c \in Chip : NandDone(c)
  <2>1. PICK c \in Chip : NandDone(c)
    BY <1>7
  <2>2. /\ UNCHANGED <<encodeOutQ, wrDataTransReqQ, pageBufFront, pageBufBack, writeWordCnt, wrDataReqQ,
                       wrState, wdataCnt, wdataRdyTag, cmdOutQ, state, cmdTagR, chipR, dataCnt,
                       nandPage, nandTag>>
        /\ \A d \in Chip : nandOp'[d] = IF d = c THEN "idle" ELSE nandOp[d]
    BY <2>1 DEF NandDone, board, bus, requests, writePath, MoreTypes, TypeOK
  <2>3. \A d \in Chip : nandOp'[d] = "programming" =>
          nandOp[d] = "programming" /\ nandTag'[d] = nandTag[d] /\ nandPage'[d] = nandPage[d]
    BY <2>2
  <2> QED
    BY <2>2, <2>3, QuietWrites
<1> QED
  BY <1>1, <1>2, <1>3, <1>4, <1>5, <1>6, <1>7 DEF Next, Scoreboard

(* The words of the bus's writes follow each other through the two buffers, *)
(* whole pages and in order, whatever the scoreboard and the host do.      *)
THEOREM FlashBusWrites == Spec => []Writes
<1>1. Init => Writes
  BY WritesInit
<1>2. MoreTypes /\ Control /\ Tags /\ Writes /\ [Next]_vars => Writes'
  BY WritesStep
<1> QED
  BY <1>1, <1>2, FlashBusControl, FlashBusTags, PTL DEF Spec

(* doWriteDone starts a chip on the page of its own command, whole and in  *)
(* order.                                                                  *)
THEOREM OwnPagesProgrammed == Spec => []OwnPageProgrammed
<1>1. Writes => OwnPageProgrammed
  BY DEF Writes, Programmed, PageOf, OwnPageProgrammed
<1> QED
  BY <1>1, FlashBusWrites, PTL
=============================================================================
