------------------------------ MODULE FlashBus ------------------------------
(***************************************************************************)
(* One bus of the flash controller (src/controller/src/hw_artix):          *)
(* Scoreboard.bsv, which interleaves the commands of the bus's chips,      *)
(* the state machine of BusController.bsv, which carries out one bus       *)
(* operation at a time, and the double page buffer that FlashController    *)
(* .bsv keeps for the bus.  The chips and the host around them are         *)
(* modelled from how the controller uses them.                             *)
(*                                                                         *)
(* A page is PageWords words; a word is known by the tag of the command it *)
(* belongs to and its place in the page.                                   *)
(***************************************************************************)
EXTENDS Fifos

CONSTANTS
  Chips,        \* ChipsPerBus (8)
  Tag,          \* the tags of commands in flight
  NoTag,        \* no tag
  PageWords,    \* words of a page
  BusQDepth,    \* flashCmdQ of the bus controller (4)
  ChipQDepth,   \* sbChipQDepth (8)
  EncDepth,     \* encodeOutQ (40)
  AckDepth,     \* ackQ (16)
  FifoDepth,    \* mkFIFO's depth (2)
  Work(_, _, _) \* Work(t, op, c): whether the host uses tag t for op on chip c

ASSUME FlashBusAssumption ==
  /\ {Chips, BusQDepth, ChipQDepth, EncDepth, AckDepth, FifoDepth} \subseteq Nat \ {0}
  /\ PageWords \in Nat \ {0, 1}
  /\ EncDepth <= PageWords
  /\ NoTag \notin Tag

Chip == 0..(Chips - 1)
FlashOp == {"READ_PAGE", "WRITE_PAGE", "ERASE_BLOCK"}
FlashCmd == {cmd \in [tag : Tag, op : FlashOp, chip : Chip] : Work(cmd.tag, cmd.op, cmd.chip)}
ASSUME CommandAssumption == NoTag \notin FlashCmd

BusOp == {"READ_CMD", "GET_STATUS_READ_DATA", "WRITE_DATA_BUF_REQ", "WRITE_CMD_DATA",
          "WRITE_GET_STATUS", "ERASE_CMD", "ERASE_GET_STATUS"}
Word == Tag \X (0..(PageWords - 1))

VARIABLES
  flashCmdQ,     \* commands on their way to the scoreboard
  \* Scoreboard
  chipQs,        \* chipQs[c]: the commands of chip c, the head in progress
  chipStages,    \* chipStages[c]: how far the head is
  chipBusy,      \* chipBusy[c]: status polls answered
  busyTimers,    \* busyTimers[c]: c's timer is running
  currChip, sbState,
  cmdOutQ,       \* bus operations for the bus controller
  wdataRdyTag,   \* the tag whose page is ready to be programmed, or NoTag
  \* BusController
  state, chipR, cmdTagR, dataCnt,
  wrDataBufReqQ,   \* tags whose page is to be fetched
  wrDataTransReqQ, \* requests to hand over the page fetched
  encodeOutQ,      \* words on their way to the chip
  readTagQ,        \* tags of the pages being read
  decodeInQ,       \* words read
  decodeOutQ,      \*   and decoded
  rdWdCnt,         \* words of the page given to the host
  ackQ,            \* writes and erases done
  \* FlashController, for this bus
  wrDataReqQ,      \* pages asked from the host
  pageBufBack, pageBufFront,
  writeWordCnt, writeFetchSt,
  wrState, wdataCnt,
  \* the chips and the host
  nandOp,        \* nandOp[c]: what chip c is doing
  nandTag,       \* nandTag[c]: the command it is or was doing
  nandPage,      \* nandPage[c]: the words in its page register
  host           \* host[t]: the command in flight under tag t, or NoTag

board == <<chipQs, chipStages, chipBusy, busyTimers, currChip, sbState, cmdOutQ>>
readPath == <<readTagQ, decodeInQ, decodeOutQ, rdWdCnt>>
writePath == <<wrDataReqQ, pageBufBack, pageBufFront, writeWordCnt, writeFetchSt, wrState, wdataCnt>>
bus == <<state, chipR, cmdTagR, dataCnt>>
requests == <<wrDataBufReqQ, wrDataTransReqQ>>
nand == <<nandOp, nandTag, nandPage>>
vars == <<flashCmdQ, board, wdataRdyTag, bus, requests, encodeOutQ, readPath, ackQ, writePath,
          nand, host>>

Init ==
  /\ flashCmdQ = <<>>
  /\ chipQs = [c \in Chip |-> <<>>]
  /\ chipStages = [c \in Chip |-> "INIT"]
  /\ chipBusy = [c \in Chip |-> <<>>]
  /\ busyTimers = [c \in Chip |-> FALSE]
  /\ currChip = 0 /\ sbState = "NEXT_REQ"
  /\ cmdOutQ = <<>>
  /\ wdataRdyTag = NoTag
  /\ state = "IDLE" /\ chipR = 0 /\ cmdTagR = NoTag /\ dataCnt = 0
  /\ wrDataBufReqQ = <<>> /\ wrDataTransReqQ = <<>>
  /\ encodeOutQ = <<>>
  /\ readTagQ = <<>> /\ decodeInQ = <<>> /\ decodeOutQ = <<>> /\ rdWdCnt = 0
  /\ ackQ = <<>>
  /\ wrDataReqQ = <<>> /\ pageBufBack = <<>> /\ pageBufFront = <<>>
  /\ writeWordCnt = 0 /\ writeFetchSt = 0
  /\ wrState = 0 /\ wdataCnt = 0
  /\ nandOp = [c \in Chip |-> "idle"]
  /\ nandTag = [c \in Chip |-> NoTag]
  /\ nandPage = [c \in Chip |-> <<>>]
  /\ host = [t \in Tag |-> NoTag]
-----------------------------------------------------------------------------
(* Scoreboard.bsv *)

(* put, after doSBCmd of the bus controller. *)
DoSBCmd ==
  /\ flashCmdQ # <<>>
  /\ LET c == Head(flashCmdQ).chip
     IN /\ Len(chipQs[c]) < ChipQDepth
        /\ chipQs' = Enq(chipQs, c, Head(flashCmdQ))
  /\ flashCmdQ' = Tail(flashCmdQ)
  /\ UNCHANGED <<chipStages, chipBusy, busyTimers, currChip, sbState, cmdOutQ, wdataRdyTag, bus,
                 requests, encodeOutQ, readPath, ackQ, writePath, nand, host>>

NextChip == (currChip + 1) % Chips

DoChooseChip ==
  /\ sbState = "NEXT_REQ"
  /\ IF chipQs[currChip] # <<>> /\ ~busyTimers[currChip]
     THEN sbState' = "SERVICE_REQ" /\ UNCHANGED currChip
     ELSE currChip' = NextChip /\ UNCHANGED sbState
  /\ UNCHANGED <<flashCmdQ, chipQs, chipStages, chipBusy, busyTimers, cmdOutQ, wdataRdyTag, bus,
                 requests, encodeOutQ, readPath, ackQ, writePath, nand, host>>

Req == Head(chipQs[currChip])
Stage == chipStages[currChip]
Served == sbState = "SERVICE_REQ" /\ sbState' = "NEXT_REQ" /\ currChip' = NextChip

(* The steps of a command: its operation and stage, the bus operation that *)
(* is sent, the stage after it and whether the chip's timer starts.        *)
StepsOf ==
  {<<"READ_PAGE", "INIT", "READ_CMD", "RD_ISSUED", TRUE>>,
   <<"READ_PAGE", "RD_ISSUED", "GET_STATUS_READ_DATA", "RD_DATA", FALSE>>,
   <<"WRITE_PAGE", "INIT", "WRITE_DATA_BUF_REQ", "WR_BUF_REQ_ISSUED", FALSE>>,
   <<"WRITE_PAGE", "WR_BUF_REQ_ISSUED", "WRITE_CMD_DATA", "WR_ISSUED", TRUE>>,
   <<"WRITE_PAGE", "WR_ISSUED", "WRITE_GET_STATUS", "WAIT_STATUS", FALSE>>,
   <<"ERASE_BLOCK", "INIT", "ERASE_CMD", "ER_ISSUED", TRUE>>,
   <<"ERASE_BLOCK", "ER_ISSUED", "ERASE_GET_STATUS", "WAIT_STATUS", FALSE>>}

(* A page is programmed only once it is the one in the front buffer.  As   *)
(* mutants: once any page is, and without waiting for one.                 *)
AnyDataReady == Stage = "WR_BUF_REQ_ISSUED" => wdataRdyTag # NoTag
DataReady == Stage = "WR_BUF_REQ_ISSUED" => wdataRdyTag = Req.tag

(* doServiceReq: the next bus operation of the command, *)
IssueStep ==
  /\ Served
  /\ DataReady
  /\ Len(cmdOutQ) < FifoDepth
  /\ \E s \in StepsOf :
       /\ s[1] = Req.op /\ s[2] = Stage
       /\ cmdOutQ' = Append(cmdOutQ, [tag |-> Req.tag, busOp |-> s[3], chip |-> currChip])
       /\ chipStages' = [chipStages EXCEPT ![currChip] = s[4]]
       /\ busyTimers' = [busyTimers EXCEPT ![currChip] = s[5]]
  /\ UNCHANGED <<flashCmdQ, chipQs, chipBusy, wdataRdyTag, bus, requests, encodeOutQ, readPath,
                 ackQ, writePath, nand, host>>

(*   nothing, while its page is not ready, *)
AwaitData ==
  /\ Served
  /\ ~DataReady
  /\ UNCHANGED <<flashCmdQ, chipQs, chipStages, chipBusy, busyTimers, cmdOutQ, wdataRdyTag, bus,
                 requests, encodeOutQ, readPath, ackQ, writePath, nand, host>>

(*   or the answer to a status poll: poll again later, or the command is   *)
(* done.  Until it comes the scoreboard waits, for all chips.              *)
PollStage(op) ==
  CASE op = "READ_PAGE" -> "RD_ISSUED" [] op = "WRITE_PAGE" -> "WR_ISSUED"
    [] op = "ERASE_BLOCK" -> "ER_ISSUED"

(* As a mutant: the poll's answer is not waited for. *)
TakeStatusBlindly ==
  /\ Served
  /\ Stage \in {"RD_DATA", "WAIT_STATUS"}
  /\ chipStages' = [chipStages EXCEPT ![currChip] = "INIT"]
  /\ chipQs' = Deq(chipQs, currChip)
  /\ UNCHANGED <<chipBusy, busyTimers, flashCmdQ, cmdOutQ, wdataRdyTag, bus, requests, encodeOutQ,
                 readPath, ackQ, writePath, nand, host>>

TakeStatus ==
  /\ Served
  /\ Stage \in {"RD_DATA", "WAIT_STATUS"}
  /\ chipBusy[currChip] # <<>>
  /\ IF Head(chipBusy[currChip])
     THEN /\ chipStages' = [chipStages EXCEPT ![currChip] = PollStage(Req.op)]
          /\ busyTimers' = [busyTimers EXCEPT ![currChip] = TRUE]
          /\ UNCHANGED chipQs
     ELSE /\ chipStages' = [chipStages EXCEPT ![currChip] = "INIT"]
          /\ chipQs' = Deq(chipQs, currChip)
          /\ UNCHANGED busyTimers
  /\ chipBusy' = Deq(chipBusy, currChip)
  /\ UNCHANGED <<flashCmdQ, cmdOutQ, wdataRdyTag, bus, requests, encodeOutQ, readPath, ackQ,
                 writePath, nand, host>>

(* decBusyTimer, down to 0. *)
TimerExpires(c) ==
  /\ busyTimers[c]
  /\ busyTimers' = [busyTimers EXCEPT ![c] = FALSE]
  /\ UNCHANGED <<flashCmdQ, chipQs, chipStages, chipBusy, currChip, sbState, cmdOutQ, wdataRdyTag,
                 bus, requests, encodeOutQ, readPath, ackQ, writePath, nand, host>>
-----------------------------------------------------------------------------
(* BusController.bsv *)

(* doDecodeCmd *)
DoDecodeCmd ==
  /\ state = "IDLE"
  /\ cmdOutQ # <<>>
  /\ LET cmd == Head(cmdOutQ)
     IN /\ chipR' = cmd.chip
        /\ cmdTagR' = cmd.tag
        /\ state' = CASE cmd.busOp = "READ_CMD" -> "READ_PAGE_REQ"
                      [] cmd.busOp = "GET_STATUS_READ_DATA" -> "GET_STATUS"
                      [] cmd.busOp = "WRITE_DATA_BUF_REQ" -> "IDLE"
                      [] cmd.busOp = "WRITE_CMD_DATA" -> "WRITE_PAGE_WAIT"
                      [] cmd.busOp = "ERASE_CMD" -> "ERASE_BLOCK"
                      [] OTHER -> cmd.busOp
        /\ IF cmd.busOp = "WRITE_DATA_BUF_REQ"
           THEN Len(wrDataBufReqQ) < Chips /\ wrDataBufReqQ' = Append(wrDataBufReqQ, cmd.tag)
           ELSE UNCHANGED wrDataBufReqQ
        /\ IF cmd.busOp = "WRITE_CMD_DATA"
           THEN Len(wrDataTransReqQ) < Chips /\ wrDataTransReqQ' = Append(wrDataTransReqQ, 1)
           ELSE UNCHANGED wrDataTransReqQ
  /\ dataCnt' = 0
  /\ cmdOutQ' = Tail(cmdOutQ)
  /\ UNCHANGED <<flashCmdQ, chipQs, chipStages, chipBusy, busyTimers, currChip, sbState, wdataRdyTag,
                 encodeOutQ, readPath, ackQ, writePath, nand, host>>

(* The chip starts on the command at the end of the command's cycles. *)
Start(op) ==
  /\ nandOp' = [nandOp EXCEPT ![chipR] = op]
  /\ nandTag' = [nandTag EXCEPT ![chipR] = cmdTagR]
  /\ state' = "IDLE"

(* doReadPageCmd, doReadPageAddr, doReadPageCmdDone *)
DoReadPage ==
  /\ state = "READ_PAGE_REQ"
  /\ Start("reading")
  /\ UNCHANGED <<flashCmdQ, board, wdataRdyTag, chipR, cmdTagR, dataCnt, requests, encodeOutQ,
                 readPath, ackQ, writePath, nandPage, host>>

(* doEraseBlockCmd, doEraseBlockAddr, doEraseBlockPoll *)
DoEraseBlock ==
  /\ state = "ERASE_BLOCK"
  /\ Start("erasing")
  /\ UNCHANGED <<flashCmdQ, board, wdataRdyTag, chipR, cmdTagR, dataCnt, requests, encodeOutQ,
                 readPath, ackQ, writePath, nandPage, host>>

(* As a mutant: any status is taken for ready. *)
NeverBusy == FALSE
StillBusy == nandOp[chipR] # "idle"

(* doGetStatusData: tell the scoreboard and, if it is done, the host.      *)
(* Whether an erase succeeded is left out of the ack.                      *)
DoGetStatus ==
  /\ state \in {"GET_STATUS", "WRITE_GET_STATUS", "ERASE_GET_STATUS"}
  /\ Len(chipBusy[chipR]) < FifoDepth
  /\ chipBusy' = Enq(chipBusy, chipR, StillBusy)
  /\ IF StillBusy THEN state' = "IDLE" /\ UNCHANGED ackQ
     ELSE IF state = "GET_STATUS" THEN state' = "READ_DATA_WAIT_BUF" /\ UNCHANGED ackQ
     ELSE /\ Len(ackQ) < AckDepth
          /\ ackQ' = Append(ackQ, cmdTagR)
          /\ state' = "IDLE"
  /\ UNCHANGED <<flashCmdQ, chipQs, chipStages, busyTimers, currChip, sbState, cmdOutQ, wdataRdyTag,
                 chipR, cmdTagR, dataCnt, requests, encodeOutQ, readPath, writePath, nand, host>>

(* doReadDataWaitBuf; as a mutant, the buffer need not be empty. *)
BufferFree == TRUE
DecodeInQEmpty == decodeInQ = <<>>

DoReadDataWaitBuf ==
  /\ state = "READ_DATA_WAIT_BUF"
  /\ DecodeInQEmpty
  /\ state' = "READ_DATA"
  /\ UNCHANGED <<flashCmdQ, board, wdataRdyTag, chipR, cmdTagR, dataCnt, requests, encodeOutQ,
                 readPath, ackQ, writePath, nand, host>>

(* doReadDataDDR and doReadDataDone.  The burst cannot be held up: a full  *)
(* buffer is an error.                                                     *)
DoReadData ==
  /\ state = "READ_DATA"
  /\ IF Len(decodeInQ) > PageWords
     THEN state' = "READ_ERROR" /\ UNCHANGED <<dataCnt, decodeInQ, readTagQ>>
     ELSE /\ readTagQ' = IF dataCnt = 0 THEN Append(readTagQ, cmdTagR) ELSE readTagQ
          /\ decodeInQ' = Append(decodeInQ, <<nandTag[chipR], dataCnt>>)
          /\ dataCnt' = dataCnt + 1
          /\ state' = IF dataCnt = PageWords - 1 THEN "IDLE" ELSE state
  /\ UNCHANGED <<flashCmdQ, board, wdataRdyTag, chipR, cmdTagR, requests, encodeOutQ, decodeOutQ,
                 rdWdCnt, ackQ, writePath, nand, host>>

(* doWriteDataWait *)
DoWriteDataWait ==
  /\ state = "WRITE_PAGE_WAIT"
  /\ Len(encodeOutQ) = EncDepth
  /\ state' = "WRITE_PAGE"
  /\ nandPage' = [nandPage EXCEPT ![chipR] = <<>>]
  /\ UNCHANGED <<flashCmdQ, board, wdataRdyTag, chipR, cmdTagR, dataCnt, requests, encodeOutQ,
                 readPath, ackQ, writePath, nandOp, nandTag, host>>

(* doWritePageDataDDR: the encoder keeps up with the burst, *)
DoWritePageData ==
  /\ state = "WRITE_PAGE"
  /\ dataCnt < PageWords
  /\ encodeOutQ # <<>>
  /\ nandPage' = Enq(nandPage, chipR, Head(encodeOutQ))
  /\ encodeOutQ' = Tail(encodeOutQ)
  /\ dataCnt' = dataCnt + 1
  /\ UNCHANGED <<flashCmdQ, board, wdataRdyTag, state, chipR, cmdTagR, requests, readPath, ackQ,
                 writePath, nandOp, nandTag, host>>

(*   and doWriteDone.  The page left the front buffer at least the 40      *)
(* cycles of a full encodeOutQ ago: the ready signal, two registers         *)
(* behind, no longer names it.                                             *)
DoWriteDone ==
  /\ state = "WRITE_PAGE"
  /\ dataCnt = PageWords
  /\ wdataRdyTag # cmdTagR
  /\ Start("programming")
  /\ UNCHANGED <<flashCmdQ, board, wdataRdyTag, chipR, cmdTagR, dataCnt, requests, encodeOutQ,
                 readPath, ackQ, writePath, nandPage, host>>

(* doDecoderDataBuf, doDecoderDataIn and the decoder. *)
DoDecode ==
  /\ decodeInQ # <<>>
  /\ Len(decodeOutQ) < PageWords
  /\ decodeOutQ' = Append(decodeOutQ, Head(decodeInQ))
  /\ decodeInQ' = Tail(decodeInQ)
  /\ UNCHANGED <<flashCmdQ, board, wdataRdyTag, bus, requests, encodeOutQ, readTagQ, rdWdCnt, ackQ,
                 writePath, nand, host>>
-----------------------------------------------------------------------------
(* FlashController.bsv *)
NextWordLate(n) == (n + 1) % (PageWords + 1)  \* a mutant
NextWord(n) == (n + 1) % PageWords

(* doHandleWriteDataReqFromBus: ask the host for a page. *)
BackBufferFree == pageBufBack = <<>> /\ writeWordCnt = 0 /\ writeFetchSt = 0

DoHandleWriteDataReq ==
  /\ BackBufferFree
  /\ wrDataBufReqQ # <<>>
  /\ Len(wrDataReqQ) < FifoDepth
  /\ wrDataReqQ' = Append(wrDataReqQ, Head(wrDataBufReqQ))
  /\ wrDataBufReqQ' = Tail(wrDataBufReqQ)
  /\ writeFetchSt' = 1
  /\ UNCHANGED <<flashCmdQ, board, wdataRdyTag, bus, wrDataTransReqQ, encodeOutQ, readPath, ackQ,
                 pageBufBack, pageBufFront, writeWordCnt, wrState, wdataCnt, nand, host>>

(* doWriteFetchWait.  Its window is the time between the last two words of  *)
(* a page; nothing keeps it from firing in the first cycle of it, so the   *)
(* last word comes after.  As a mutant: it misses the window.              *)
WindowMissed == FALSE
FetchWaits == writeWordCnt = PageWords - 1 /\ writeFetchSt = 1

DoWriteFetchWait ==
  /\ FetchWaits
  /\ writeFetchSt' = 0
  /\ UNCHANGED <<flashCmdQ, board, wdataRdyTag, bus, requests, encodeOutQ, readPath, ackQ, wrDataReqQ,
                 pageBufBack, pageBufFront, writeWordCnt, wrState, wdataCnt, nand, host>>

(* user.writeWord: the next word of the page asked for first. *)
WriteWord ==
  /\ wrDataReqQ # <<>>
  /\ ~FetchWaits
  /\ Len(pageBufBack) < PageWords
  /\ pageBufBack' = Append(pageBufBack, <<Head(wrDataReqQ), writeWordCnt>>)
  /\ writeWordCnt' = NextWord(writeWordCnt)
  /\ wrDataReqQ' = IF writeWordCnt = PageWords - 1 THEN Tail(wrDataReqQ) ELSE wrDataReqQ
  /\ UNCHANGED <<flashCmdQ, board, wdataRdyTag, bus, requests, encodeOutQ, readPath, ackQ,
                 pageBufFront, writeFetchSt, wrState, wdataCnt, nand, host>>

(* doWriteBufTransfer *)
DoWriteBufTransfer ==
  /\ pageBufBack # <<>>
  /\ Len(pageBufFront) < PageWords
  /\ pageBufFront' = Append(pageBufFront, Head(pageBufBack))
  /\ pageBufBack' = Tail(pageBufBack)
  /\ UNCHANGED <<flashCmdQ, board, wdataRdyTag, bus, requests, encodeOutQ, readPath, ackQ, wrDataReqQ,
                 writeWordCnt, writeFetchSt, wrState, wdataCnt, nand, host>>

FrontFull == Len(pageBufFront) = PageWords
ReadyNow == IF FrontFull THEN Head(pageBufFront)[1] ELSE NoTag

(* setWriteDataRdy, setWriteDataReg: every cycle. *)
SetWriteDataRdy ==
  /\ wdataRdyTag # ReadyNow
  /\ wdataRdyTag' = ReadyNow
  /\ UNCHANGED <<flashCmdQ, board, bus, requests, encodeOutQ, readPath, ackQ, writePath, nand, host>>

(* doWriteDataTransferReq *)
DoWriteDataTransferReq ==
  /\ FrontFull
  /\ wrState = 0
  /\ wrDataTransReqQ # <<>>
  /\ wrDataTransReqQ' = Tail(wrDataTransReqQ)
  /\ wdataCnt' = 0
  /\ wrState' = 1
  /\ UNCHANGED <<flashCmdQ, board, wdataRdyTag, bus, wrDataBufReqQ, encodeOutQ, readPath, ackQ,
                 wrDataReqQ, pageBufBack, pageBufFront, writeWordCnt, writeFetchSt, nand, host>>

(* doWriteDataTransferToBus, busIfc.writeWord and the encoder. *)
DoWriteDataTransferToBus ==
  /\ wrState = 1
  /\ IF wdataCnt < PageWords
     THEN /\ pageBufFront # <<>>
          /\ Len(encodeOutQ) < EncDepth
          /\ encodeOutQ' = Append(encodeOutQ, Head(pageBufFront))
          /\ pageBufFront' = Tail(pageBufFront)
          /\ wdataCnt' = wdataCnt + 1
          /\ UNCHANGED wrState
     ELSE wrState' = 0 /\ UNCHANGED <<encodeOutQ, pageBufFront, wdataCnt>>
  /\ UNCHANGED <<flashCmdQ, board, wdataRdyTag, bus, requests, readPath, ackQ, wrDataReqQ,
                 pageBufBack, writeWordCnt, writeFetchSt, nand, host>>
-----------------------------------------------------------------------------
(* The chips and the host *)

(* A chip is done. *)
NandDone(c) ==
  /\ nandOp[c] # "idle"
  /\ nandOp' = [nandOp EXCEPT ![c] = "idle"]
  /\ UNCHANGED <<flashCmdQ, board, wdataRdyTag, bus, requests, encodeOutQ, readPath, ackQ, writePath,
                 nandTag, nandPage, host>>

(* user.sendCmd: a command under a tag that is not in use. *)
SendCmd(cmd) ==
  /\ host[cmd.tag] = NoTag
  /\ Len(flashCmdQ) < BusQDepth
  /\ host' = [host EXCEPT ![cmd.tag] = cmd]
  /\ flashCmdQ' = Append(flashCmdQ, cmd)
  /\ UNCHANGED <<board, wdataRdyTag, bus, requests, encodeOutQ, readPath, ackQ, writePath, nand>>

(* user.readWord and busIfc.readWord: the word is given to the host with   *)
(* the tag of the oldest read; the last word of a page ends its command.   *)
ReadWord ==
  /\ decodeOutQ # <<>>
  /\ readTagQ # <<>>
  /\ decodeOutQ' = Tail(decodeOutQ)
  /\ rdWdCnt' = NextWord(rdWdCnt)
  /\ IF rdWdCnt = PageWords - 1
     THEN readTagQ' = Tail(readTagQ) /\ host' = [host EXCEPT ![Head(readTagQ)] = NoTag]
     ELSE UNCHANGED <<readTagQ, host>>
  /\ UNCHANGED <<flashCmdQ, board, wdataRdyTag, bus, requests, encodeOutQ, decodeInQ, ackQ,
                 writePath, nand>>

(* user.ackStatus *)
AckStatus ==
  /\ ackQ # <<>>
  /\ host' = [host EXCEPT ![Head(ackQ)] = NoTag]
  /\ ackQ' = Tail(ackQ)
  /\ UNCHANGED <<flashCmdQ, board, wdataRdyTag, bus, requests, encodeOutQ, readPath, writePath, nand>>

Scoreboard == DoChooseChip \/ IssueStep \/ AwaitData \/ TakeStatus

BusController ==
  \/ DoDecodeCmd
  \/ DoReadPage
  \/ DoEraseBlock
  \/ DoGetStatus
  \/ DoReadDataWaitBuf
  \/ DoReadData
  \/ DoWriteDataWait
  \/ DoWritePageData
  \/ DoWriteDone

PageBuffer ==
  \/ DoHandleWriteDataReq
  \/ DoWriteFetchWait
  \/ WriteWord
  \/ DoWriteBufTransfer
  \/ DoWriteDataTransferReq
  \/ DoWriteDataTransferToBus

ReadPath ==
  \/ DoDecode
  \/ ReadWord

Next ==
  \/ DoSBCmd
  \/ Scoreboard
  \/ BusController
  \/ PageBuffer
  \/ SetWriteDataRdy
  \/ ReadPath
  \/ AckStatus
  \/ \E c \in Chip : TimerExpires(c) \/ NandDone(c)
  \/ \E cmd \in FlashCmd : SendCmd(cmd)

Spec == Init /\ [][Next]_vars

(* Each machine moves on while it can; chips finish and the host takes     *)
(* what it is given.  Nothing obliges the host to send.                    *)
FairSpec ==
  /\ Spec
  /\ WF_vars(DoSBCmd) /\ WF_vars(Scoreboard) /\ WF_vars(BusController)
  /\ WF_vars(PageBuffer) /\ WF_vars(SetWriteDataRdy) /\ WF_vars(ReadPath)
  /\ WF_vars(AckStatus)
  /\ \A c \in Chip : WF_vars(TimerExpires(c)) /\ WF_vars(NandDone(c))
-----------------------------------------------------------------------------
(* Every register and FIFO holds what its declaration says. *)
TypeOK ==
  /\ flashCmdQ \in Seq(FlashCmd)
  /\ chipQs \in FifoFamily(Chip, FlashCmd)
  /\ chipStages \in [Chip -> {"INIT", "RD_ISSUED", "RD_DATA", "WR_BUF_REQ_ISSUED", "WR_ISSUED",
                             "ER_ISSUED", "WAIT_STATUS"}]
  /\ chipBusy \in FifoFamily(Chip, BOOLEAN)
  /\ busyTimers \in [Chip -> BOOLEAN]
  /\ currChip \in Chip
  /\ cmdOutQ \in Seq([tag : Tag, busOp : BusOp, chip : Chip])
  /\ wdataRdyTag \in Tag \cup {NoTag}
  /\ chipR \in Chip /\ cmdTagR \in Tag \cup {NoTag} /\ dataCnt \in 0..PageWords
  /\ wrDataBufReqQ \in Seq(Tag) /\ wrDataReqQ \in Seq(Tag)
  /\ \A q \in {encodeOutQ, decodeInQ, decodeOutQ, pageBufBack, pageBufFront} : q \in Seq(Word)
  /\ readTagQ \in Seq(Tag) /\ ackQ \in Seq(Tag)
  /\ rdWdCnt \in 0..(PageWords - 1) /\ writeWordCnt \in 0..(PageWords - 1)
  /\ wdataCnt \in 0..PageWords
  /\ nandOp \in [Chip -> {"idle", "reading", "programming", "erasing"}]
  /\ nandTag \in [Chip -> Tag \cup {NoTag}]
  /\ nandPage \in FifoFamily(Chip, Word)
  /\ host \in [Tag -> FlashCmd \cup {NoTag}]

(* The bus addresses a chip with a command, or moves its data, only while   *)
(* the chip is idle: the timers, the polls and the stages of all the chips  *)
(* that share the bus never let two commands of a chip overlap.            *)
ChipNotDisturbed ==
  state \in {"READ_PAGE_REQ", "WRITE_PAGE_WAIT", "WRITE_PAGE", "ERASE_BLOCK", "READ_DATA_WAIT_BUF",
             "READ_DATA"} => nandOp[chipR] = "idle"

(* A chip programs the page of its own command, whole and in order, however *)
(* the pages of the bus's writes follow each other through the buffers.     *)
OwnPageProgrammed ==
  \A c \in Chip : nandOp[c] = "programming" =>
    nandPage[c] = [i \in 1..PageWords |-> <<nandTag[c], i - 1>>]

(* A word reaches the host under the tag of the command that read it, in    *)
(* its place; and no burst ever overruns the buffer.                       *)
WordsTagged ==
  /\ state # "READ_ERROR"
  /\ (decodeOutQ # <<>> /\ readTagQ # <<>>) => Head(decodeOutQ) = <<Head(readTagQ), rdWdCnt>>

(* An ack is for work that was done: when one is given, the chip has        *)
(* finished the very command the host has in flight under that tag.        *)
AcksFinishedWork ==
  [][ackQ' # ackQ /\ Len(ackQ') >= Len(ackQ) =>
       LET t == ackQ'[Len(ackQ')]
       IN /\ host[t] # NoTag
          /\ host[t].op # "READ_PAGE"
          /\ nandTag[host[t].chip] = t
          /\ nandOp[host[t].chip] = "idle"]_vars

(* Every command is answered: no chip is starved by the others on the bus,  *)
(* and the scoreboard, the bus and the buffers never wait for each other   *)
(* in a circle.                                                            *)
EveryCommandAnswered == \A t \in Tag : host[t] # NoTag ~> host[t] = NoTag
=============================================================================
