--------------------------- MODULE AFTLMapTransfer ---------------------------
(***************************************************************************)
(* The translation layer with what surrounds it in                         *)
(* src/projects/amf_8192_bram: the lock of mkBRAM_Wrapper1, the rules of   *)
(* Main.bsv that upload the tables from the host's memory and download     *)
(* them to it, and the host program, which uploads a file at start, works, *)
(* downloads the tables when it is idle and saves them, and may then be    *)
(* switched off and start again from the file.                             *)
(*                                                                         *)
(* Words of the RAM are moved in one step each (the code moves a word in   *)
(* eight beats).                                                           *)
(***************************************************************************)
EXTENDS AFTL

CONSTANTS
  BufDepth,     \* mkFIFO's depth (2)
  WaitForDone   \* whether the host awaits downloadDone before it saves

VARIABLES
  mapReq,             \* transfers the host asked for
  ftlReadReq2Resp,    \* an upload is under way
  ftlReadResp,        \*   and all of it has been written
  ftlReadBeatCnt,     \* words uploaded
  mapBramReq,         \* a download is requesting words
  ftlWriteReq2Resp,   \*   and is under way
  mapDownloadReqCnt,  \* words requested
  dmaWrDataBuf,       \* words read from the RAM
  dmaWritten,         \* words the DMA engine wrote to the host's memory
  memory,             \* the host's memory for the tables
  file,               \* table.dump.0
  stage,              \* where the host program is
  dirty               \* the tables may differ from the last download

upload == <<ftlReadReq2Resp, ftlReadResp, ftlReadBeatCnt>>
download == <<mapBramReq, ftlWriteReq2Resp, mapDownloadReqCnt, dmaWrDataBuf, dmaWritten>>
program == <<file, stage, dirty>>
transfer == <<mapReq, upload, download, memory, program>>
ftl == <<reqs, procQ, allocQ, phase, mapEntry, scan, respsSuccess, respsFailure>>
allVars == <<vars, transfer>>

(* The RAM word by word: the map, then each chip's rows. *)
Words == 0..(Segs + Chips * Rows - 1)
ChipAt(k) == (k - Segs) \div Rows
RamWord(k) == IF k < Segs THEN MapRow(k) ELSE BlkRow(ChipAt(k), (k - Segs) % Rows)
Image == [k \in Words |-> RamWord(k)]
LastWord == Segs + Chips * Rows - 1

(* As a mutant: the words of the block table are not written. *)
WriteMapWord(k, w) ==
  /\ mapTable' = [lb \in LogBlock |-> IF k = lb[1] THEN w[lb[2]] ELSE mapTable[lb]]
  /\ UNCHANGED blkTable

(* writeB *)
WriteWord(k, w) ==
  /\ mapTable' = [lb \in LogBlock |-> IF k = lb[1] THEN w[lb[2]] ELSE mapTable[lb]]
  /\ blkTable' = [c \in Chip |-> [b \in Block |->
                    IF k >= Segs /\ c = ChipAt(k) /\ b \div Cols = (k - Segs) % Rows
                    THEN w[b % Cols] ELSE blkTable[c][b]]]

Blank == [c \in Chip |-> [b \in Block |-> [status |-> "FREE_BLK", erase |-> 0]]]

(* The host has just uploaded the file, as it does after every start. *)
TransferInit ==
  /\ Init
  /\ file = Image
  /\ memory = Image
  /\ mapReq = <<>>
  /\ ftlReadReq2Resp = FALSE /\ ftlReadResp = FALSE /\ ftlReadBeatCnt = 0
  /\ mapBramReq = FALSE /\ ftlWriteReq2Resp = FALSE /\ mapDownloadReqCnt = 0
  /\ dmaWrDataBuf = <<>> /\ dmaWritten = 0
  /\ stage = "work"
  /\ dirty = FALSE
-----------------------------------------------------------------------------
Mode(m) == lockFIFO # <<>> /\ Head(lockFIFO) = m

(* issueMapReq and lockPortB, which discards responses not read yet. *)
IssueMapReq ==
  /\ mapReq # <<>>
  /\ Unlocked
  /\ lockFIFO' = <<Head(mapReq)>>
  /\ mapReq' = Tail(mapReq)
  /\ ramOut' = <<>>
  /\ UNCHANGED <<ftl, tables, outside, upload, download, memory, program>>

(* initFTLRead *)
InitUpload ==
  /\ Mode("UPLOAD")
  /\ ~ftlReadReq2Resp /\ ~ftlReadResp
  /\ ftlReadReq2Resp' = TRUE
  /\ UNCHANGED <<vars, mapReq, ftlReadResp, ftlReadBeatCnt, download, memory, program>>

(* As a mutant: the counter is not cleared for the next upload. *)
PipeUploadOnce ==
  /\ Mode("UPLOAD")
  /\ ftlReadReq2Resp /\ ~ftlReadResp
  /\ WriteWord(ftlReadBeatCnt, memory[ftlReadBeatCnt])
  /\ ftlReadBeatCnt' = ftlReadBeatCnt + 1
  /\ ftlReadReq2Resp' = (ftlReadBeatCnt < LastWord)
  /\ ftlReadResp' = (ftlReadBeatCnt = LastWord)
  /\ UNCHANGED <<ftl, ramOut, lockFIFO, outside, mapReq, download, memory, program>>

(* pipeFTLRdData and writeB *)
PipeUpload ==
  /\ Mode("UPLOAD")
  /\ ftlReadReq2Resp /\ ~ftlReadResp
  /\ WriteWord(ftlReadBeatCnt, memory[ftlReadBeatCnt])
  /\ IF ftlReadBeatCnt = LastWord
     THEN ftlReadBeatCnt' = 0 /\ ftlReadReq2Resp' = FALSE /\ ftlReadResp' = TRUE
     ELSE ftlReadBeatCnt' = ftlReadBeatCnt + 1 /\ UNCHANGED <<ftlReadReq2Resp, ftlReadResp>>
  /\ UNCHANGED <<ftl, ramOut, lockFIFO, outside, mapReq, download, memory, program>>

(* ftlRdDone, uploadDone and unlockPortB: the host goes to work (the code's *)
(* host sleeps a second for it).                                           *)
UploadDone ==
  /\ Mode("UPLOAD")
  /\ ~ftlReadReq2Resp /\ ftlReadResp
  /\ ftlReadResp' = FALSE
  /\ lockFIFO' = Tail(lockFIFO)
  /\ stage' = "work"
  /\ UNCHANGED <<ftl, ramOut, tables, outside, mapReq, ftlReadReq2Resp, ftlReadBeatCnt, download,
                 memory, file, dirty>>

(* initDownload *)
InitDownload ==
  /\ Mode("DOWNLOAD")
  /\ ~mapBramReq /\ ~ftlWriteReq2Resp
  /\ mapBramReq' = TRUE /\ ftlWriteReq2Resp' = TRUE
  /\ dmaWritten' = 0
  /\ UNCHANGED <<vars, mapReq, upload, mapDownloadReqCnt, dmaWrDataBuf, memory, program>>

(* reqMapData and readReqB *)
ReqMapData ==
  /\ Mode("DOWNLOAD")
  /\ mapBramReq
  /\ Len(ramOut) < RamDepth
  /\ ramOut' = Append(ramOut, RamWord(mapDownloadReqCnt))
  /\ IF mapDownloadReqCnt = LastWord
     THEN mapDownloadReqCnt' = 0 /\ mapBramReq' = FALSE
     ELSE mapDownloadReqCnt' = mapDownloadReqCnt + 1 /\ UNCHANGED mapBramReq
  /\ UNCHANGED <<ftl, tables, lockFIFO, outside, mapReq, upload, ftlWriteReq2Resp, dmaWrDataBuf,
                 dmaWritten, memory, program>>

(* pipeFTLWrData1 and readB *)
PipeDownload1 ==
  /\ Mode("DOWNLOAD")
  /\ ftlWriteReq2Resp
  /\ ramOut # <<>>
  /\ Len(dmaWrDataBuf) < BufDepth
  /\ dmaWrDataBuf' = Append(dmaWrDataBuf, Head(ramOut))
  /\ ramOut' = Tail(ramOut)
  /\ UNCHANGED <<ftl, tables, lockFIFO, outside, mapReq, upload, mapBramReq, ftlWriteReq2Resp,
                 mapDownloadReqCnt, dmaWritten, memory, program>>

(* pipeFTLWrData2 and the DMA engine. *)
PipeDownload2 ==
  /\ Mode("DOWNLOAD")
  /\ ftlWriteReq2Resp
  /\ dmaWrDataBuf # <<>>
  /\ memory' = [memory EXCEPT ![dmaWritten] = Head(dmaWrDataBuf)]
  /\ dmaWrDataBuf' = Tail(dmaWrDataBuf)
  /\ dmaWritten' = dmaWritten + 1
  /\ UNCHANGED <<vars, mapReq, upload, mapBramReq, ftlWriteReq2Resp, mapDownloadReqCnt, program>>

(* As a mutant: the lock is released once every word is requested. *)
DownloadDoneEarly ==
  /\ Mode("DOWNLOAD")
  /\ ftlWriteReq2Resp /\ ~mapBramReq
  /\ ftlWriteReq2Resp' = FALSE
  /\ lockFIFO' = Tail(lockFIFO)
  /\ stage' = IF stage = "downloading" THEN "save" ELSE stage
  /\ UNCHANGED <<ftl, ramOut, tables, outside, mapReq, upload, mapBramReq, mapDownloadReqCnt,
                 dmaWrDataBuf, dmaWritten, memory, file, dirty>>

(* ftlWrDone, downloadDone and unlockPortB: the DMA engine wrote it all. *)
DownloadDone ==
  /\ Mode("DOWNLOAD")
  /\ ftlWriteReq2Resp
  /\ dmaWritten = LastWord + 1
  /\ ftlWriteReq2Resp' = FALSE
  /\ lockFIFO' = Tail(lockFIFO)
  /\ stage' = IF stage = "downloading" THEN "save" ELSE stage
  /\ UNCHANGED <<ftl, ramOut, tables, outside, mapReq, upload, mapBramReq, mapDownloadReqCnt,
                 dmaWrDataBuf, dmaWritten, memory, file, dirty>>
-----------------------------------------------------------------------------
Idle == \A t \in Tag : host[t] = NoCmd

(* readFTLfromFile and uploadMap, at start. *)
HostUpload ==
  /\ stage = "start"
  /\ memory' = file
  /\ mapReq' = Append(mapReq, "UPLOAD")
  /\ stage' = "uploading"
  /\ UNCHANGED <<vars, upload, download, file, dirty>>

(* A request at work.  It takes longer to arrive than issueMapReq needs to *)
(* take up a transfer requested before it.                                 *)
HostWork ==
  /\ stage \in {"work", "downloading", "save"}
  /\ mapReq = <<>>
  /\ \E t \in Tag, op \in Op, lpa \in Lpa :
       /\ HostIssue(t, op, lpa)
       /\ dirty' = (dirty \/ op # "READ_PAGE")
  /\ UNCHANGED <<mapReq, upload, download, memory, file, stage>>

(* As a mutant: without waiting for the requests in flight. *)
DownloadAnytime ==
  /\ stage = "work"
  /\ Unlocked /\ mapReq = <<>>
  /\ mapReq' = Append(mapReq, "DOWNLOAD")
  /\ stage' = IF WaitForDone THEN "downloading" ELSE "save"
  /\ dirty' = FALSE
  /\ UNCHANGED <<vars, upload, download, memory, file>>

(* downloadMap, when nothing is in flight.  The host goes on without       *)
(* waiting; main_example.cpp saves the file at once.                       *)
HostDownload ==
  /\ stage = "work"
  /\ Idle
  /\ Unlocked /\ mapReq = <<>>
  /\ mapReq' = Append(mapReq, "DOWNLOAD")
  /\ stage' = IF WaitForDone THEN "downloading" ELSE "save"
  /\ dirty' = FALSE
  /\ UNCHANGED <<vars, upload, download, memory, file>>

(* writeFTLtoFile *)
HostSave ==
  /\ stage = "save"
  /\ file' = memory
  /\ stage' = "work"
  /\ UNCHANGED <<vars, mapReq, upload, download, memory, dirty>>

(* The power goes off after a save with no work since: the RAM is blank    *)
(* again, the flash and the file keep what they hold.                      *)
PowerCycle ==
  /\ stage = "work"
  /\ ~dirty
  /\ Idle
  /\ Unlocked /\ mapReq = <<>>
  /\ mapTable' = [lb \in LogBlock |-> Unmapped]
  /\ blkTable' = Blank
  /\ mapEntry' = Unmapped
  /\ blkTableReqCnt' = 0 /\ blkTableCnt' = 0
  /\ minEntries' = [c \in Col |-> Invalid]
  /\ width' = Cols
  /\ blkToAlloc' = Invalid
  /\ dmaWritten' = 0
  /\ stage' = "start"
  /\ UNCHANGED <<reqs, procQ, allocQ, phase, respsSuccess, respsFailure, ramOut, lockFIFO, outside,
                 mapReq, upload, mapBramReq, ftlWriteReq2Resp, mapDownloadReqCnt, dmaWrDataBuf,
                 memory, file, dirty>>

Transfer ==
  \/ IssueMapReq
  \/ InitUpload
  \/ PipeUpload
  \/ UploadDone
  \/ InitDownload
  \/ ReqMapData
  \/ PipeDownload1
  \/ PipeDownload2
  \/ DownloadDone

Program ==
  \/ HostUpload
  \/ HostWork
  \/ HostDownload
  \/ HostSave
  \/ PowerCycle

Serve == Translate /\ UNCHANGED transfer
Flash == FlashTakes /\ UNCHANGED transfer
Refusal == HostRefused /\ UNCHANGED transfer
Done(t) == HostDone(t) /\ UNCHANGED transfer

TransferNext == Transfer \/ Program \/ Serve \/ Flash \/ Refusal \/ (\E t \in Tag : Done(t))

TransferSpec == TransferInit /\ [][TransferNext]_allVars

(* Rules fire, the flash and the host's callbacks answer.  Nothing obliges *)
(* the host to work, to download or to stop.                               *)
FairTransferSpec ==
  /\ TransferSpec
  /\ WF_allVars(Transfer) /\ WF_allVars(Serve) /\ WF_allVars(Flash) /\ WF_allVars(Refusal)
  /\ \A t \in Tag : WF_allVars(Done(t))
-----------------------------------------------------------------------------
(* The transfer's registers and the host's memory hold what they should. *)
TransferTypeOK ==
  /\ mapReq \in Seq({"UPLOAD", "DOWNLOAD"})
  /\ lockFIFO \in Seq({"UPLOAD", "DOWNLOAD"})
  /\ ftlReadBeatCnt \in Words /\ mapDownloadReqCnt \in Words
  /\ dmaWritten \in 0..(LastWord + 1)
  /\ DOMAIN memory = Words /\ DOMAIN file = Words
  /\ \A k \in Words : {memory[k], file[k]} \subseteq RamData
  /\ stage \in {"start", "uploading", "work", "downloading", "save"}

(* What is saved is the map: the file of a host that saved, with no write   *)
(* or erase since, is the tables as they are.  A download that overlapped   *)
(* with an unfinished request would save tables that disagree.             *)
SavedIsMap == (stage = "work" /\ ~dirty) => file = Image

(* Every request is answered, whatever transfers it meets: the lock never   *)
(* discards a response the translation waits for.                          *)
EveryRequestAnswered == \A t \in Tag : host[t] # NoCmd ~> host[t] = NoCmd
=============================================================================
