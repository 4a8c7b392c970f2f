----------------------------- MODULE FlashHost -----------------------------
(***************************************************************************)
(* The host side of the projects under src/projects: a program whose main  *)
(* thread erases, writes and reads pages of the flash card through a       *)
(* request proxy, and an indication thread that runs readDone, writeDone   *)
(* and eraseDone.  The two share, under flashReqMutex, a table of busy     *)
(* tags for each kind of request and a count of the requests in flight;    *)
(* main waits for a count to drop to zero between its phases, without the  *)
(* lock.                                                                   *)
(*                                                                         *)
(* The programs are copies of one another that differ in what main does    *)
(* and in what the callbacks check, count and record.  A program is a      *)
(* record (modules HostPrograms...), and the actions below are those of    *)
(* every program: they branch on the record where the copies differ.  The  *)
(* map names the lines of src/projects/zynq_flash/main.cpp for what is     *)
(* common to them.                                                         *)
(***************************************************************************)
EXTENDS CardContents, Sequences, FiniteSets

CONSTANTS
  Page,        \* the pages, or logical pages, a program may address
  NoPage,      \* no page
  BlockOf(_),  \* the block of a page
  Programs,    \* the programs, as a function from their names
  Repeating,   \* bound: the programs whose card may give an answer twice
  MaxFaults    \* bound: bad blocks and answers given a second time

Kind == {"erase", "write", "read"}
Block == {BlockOf(p) : p \in Page}

(* Position j of a script may find requests of kind k in flight: one was   *)
(* made before it and not waited for since.                                *)
MayOwe(script, k, j) ==
  \E i \in 1..(j - 1) :
     /\ script[i].do = k
     /\ \A d \in (i + 1)..(j - 1) : ~(script[d].do = "drain" /\ script[d].kind = k)

(* A program waits for its requests of one kind before it makes some of    *)
(* another, and for its reads before it overwrites their buffers.          *)
Drains(script) ==
  \A j \in 1..Len(script) :
     /\ script[j].do \in Kind => \A k \in Kind \ {script[j].do} : ~MayOwe(script, k, j)
     /\ script[j].do = "clear" => ~MayOwe(script, "read", j)

WellFormed(p) ==
  /\ Len(p.script) \in Nat
  /\ \A i \in 1..Len(p.script) : p.script[i].do \in Kind => p.script[i].pages \subseteq Page
  /\ p.queued => p.done["read"].frees

(* Step s makes a request of kind k for block b. *)
For(s, k, b) == s.do = k /\ \E p \in s.pages : BlockOf(p) = b

(* Before position j, block b was erased; it was, and no page of it written *)
(* since; page p was written, and its block not erased since.              *)
ErasedBefore(script, j, b) == \E i \in 1..(j - 1) : For(script[i], "erase", b)
Blank(script, j, b) ==
  \E i \in 1..(j - 1) : /\ For(script[i], "erase", b)
                        /\ \A d \in (i + 1)..(j - 1) : ~For(script[d], "write", b)
Wrote(script, j, p) ==
  \E i \in 1..(j - 1) : /\ script[i].do = "write" /\ p \in script[i].pages
                        /\ \A d \in (i + 1)..(j - 1) : ~For(script[d], "erase", BlockOf(p))

(* A write or an erase is of one page at a time, and handlers that look    *)
(* for the block of an erase find it in eraseTagTable.                     *)
NamesBlocks(p) ==
  /\ \A i \in 1..Len(p.script) :
       p.script[i].do \in {"write", "erase"} => \E page \in Page : p.script[i].pages = {page}
  /\ p.eraseStatus # "log" => "erase" \in p.records

(* A program that checks what it reads has filled or erased the page, and  *)
(* the tables that checkReadData looks at say so.                          *)
KnowsWhatItReads(p) ==
  p.check # "none" =>
    /\ p.fills /\ "read" \in p.records /\ "write" \in p.tracks
    /\ p.translated \/ "erase" \in p.tracks
    /\ p.skipsBad => p.keepsBad /\ p.eraseStatus = "status" /\ ~p.translated
    /\ \A j \in 1..Len(p.script) :
         /\ p.script[j].do = "begin" => ~MayOwe(p.script, "read", j)
         /\ p.script[j].do = "read" => \A page \in p.script[j].pages :
              \/ Blank(p.script, j, BlockOf(page)) /\ ~p.translated
              \/ /\ Wrote(p.script, j, page)
                 /\ p.translated \/ ErasedBefore(p.script, j, BlockOf(page))

(* The read at position i fails if block b is bad. *)
Reveals(p, i, b) ==
  /\ p.script[i].do = "read"
  /\ \A page \in p.script[i].pages : /\ BlockOf(page) = b
                                     /\ p.golden[page] # Zeros
                                     /\ Wrote(p.script, i, page) \/ ~p.zeroOK

KeepsVerdict(p) == p.check \in {"direct", "locked"} /\ ~p.skipsBad

(* A program reports when it has read every block it erased, in the same   *)
(* test, and waited for the answers.                                       *)
JudgesWhatItErased(p) ==
  \A j \in 1..Len(p.script), b \in Block :
    p.script[j].do = "report" /\ ErasedBefore(p.script, Len(p.script) + 1, b) =>
      /\ p.eraseStatus = "table" => ~MayOwe(p.script, "erase", j) /\ ErasedBefore(p.script, j, b)
      /\ KeepsVerdict(p) =>
           /\ ~MayOwe(p.script, "read", j)
           /\ \E i \in 1..(j - 1) : /\ Reveals(p, i, b)
                                     /\ \A d \in (i + 1)..(j - 1) : p.script[d].do # "begin"

ASSUME NoPageAssumption == NoPage \notin Page
ASSUME ProgramsAssumption == \A n \in DOMAIN Programs : WellFormed(Programs[n]) /\ Drains(Programs[n].script)
ASSUME VerdictAssumption ==
  \A n \in DOMAIN Programs : /\ NamesBlocks(Programs[n]) /\ KnowsWhatItReads(Programs[n])
                            /\ JudgesWhatItErased(Programs[n])
ASSUME MaxFaultsAssumption == MaxFaults \in Nat

VARIABLES
  program,    \* the name of the program that runs
  at,         \* main's position in its script
  stage,      \* how far main is with the request it is making
  held,       \* the tag and the page of that request
  busy,       \* the busy flags of the three tag tables
  inFlight,   \* curReadsInFlight, curWritesInFlight, curErasesInFlight
  address,    \* the addresses in readTagTable and eraseTagTable
  tagQueue,   \* readTagQueue
  status,     \* flashStatus
  badTable,   \* badBlockTable
  testPassed,
  report,     \* what main printed and saved last
  readBuf,    \* readBuffers
  writeBuf,   \* writeBuffers
  sent,       \* requests the device has and has not carried out
  answers,    \* answers the device gave and no callback has taken
  checked,    \* what readDone holds between its check and the lock
  flash,      \* what the pages hold
  bad,        \* the blocks whose erase fails
  repeats     \* answers given a second time so far

mainThread == <<at, stage, held>>
tables == <<busy, inFlight, address, tagQueue, status, badTable>>
device == <<sent, flash>>
fixed == <<program, bad>>
vars == <<program, at, stage, held, busy, inFlight, address, tagQueue, status, badTable,
          testPassed, report, readBuf, writeBuf, sent, answers, checked, flash, bad, repeats>>

This == Programs[program]
Step == This.script[at]
Ended == at > Len(This.script)

NoAnswer == [tag |-> NumTags, pass |-> TRUE]
NoReport == [passed |-> "none", bad |-> {}]
NoRequest == [tag |-> NumTags, page |-> NoPage]

(* flashStatus has an entry for each block, or for each logical page when  *)
(* the card translates addresses.                                          *)
Unit(p) == IF This.translated THEN p ELSE BlockOf(p)
Units == Page \union Block

(***************************************************************************)
(* The main thread.                                                        *)
(***************************************************************************)
Idle(k) == Tag \ busy[k]
Least(T) == CHOOSE t \in T : \A u \in T : t <= u

Queued(k) == This.queued /\ k = "read"
TagFree(k) == IF Queued(k) THEN tagQueue # << >> ELSE Idle(k) # {}
NextTag(k) == IF Queued(k) THEN Head(tagQueue) ELSE Least(Idle(k))

(* waitIdleEraseTag, waitIdleWriteBuffer, waitIdleReadBuffer: the caller   *)
(* spins until a tag is idle.                                              *)
TakeTag ==
  /\ ~Ended /\ stage = "take" /\ Step.do \in Kind
  /\ TagFree(Step.do)
  /\ \E p \in Step.pages : held' = [tag |-> NextTag(Step.do), page |-> p]
  /\ busy' = [busy EXCEPT ![Step.do] = @ \union {NextTag(Step.do)}]
  /\ tagQueue' = IF Queued(Step.do) THEN Tail(tagQueue) ELSE tagQueue
  /\ stage' = IF Step.do = "write" /\ This.fills THEN "fill" ELSE "count"
  /\ UNCHANGED <<fixed, at, inFlight, address, status, badTable, testPassed, report,
                 readBuf, writeBuf, device, answers, checked, repeats>>

(* Mutant of FillBuffer: every page goes to the first buffer.               *)
FillFirst ==
  /\ stage = "fill"
  /\ writeBuf' = [writeBuf EXCEPT ![0] = This.golden[held.page]]
  /\ stage' = "count"
  /\ UNCHANGED <<fixed, at, held, tables, testPassed, report, readBuf, device, answers,
                 checked, repeats>>

(* main fills the write buffer of its tag with hashAddrToData's words *)
FillBuffer ==
  /\ stage = "fill"
  /\ writeBuf' = [writeBuf EXCEPT ![held.tag] = This.golden[held.page]]
  /\ stage' = "count"
  /\ UNCHANGED <<fixed, at, held, tables, testPassed, report, readBuf, device, answers,
                 checked, repeats>>

StatusAfter(k, p) ==
  IF k \notin This.tracks THEN status[Unit(p)]
  ELSE IF k = "erase" THEN "ERASED"
  ELSE IF This.keepsBad /\ status[Unit(p)] = "BAD" THEN "BAD" ELSE "WRITTEN"

(* the part of eraseBlock, writePage and readPage under the lock *)
CountRequest ==
  /\ stage = "count"
  /\ inFlight' = [inFlight EXCEPT ![Step.do] = @ + 1]
  /\ address' = IF Step.do \in This.records
                THEN [address EXCEPT ![Step.do][held.tag] = held.page] ELSE address
  /\ status' = IF Step.do = "read" THEN status
               ELSE [status EXCEPT ![Unit(held.page)] = StatusAfter(Step.do, held.page)]
  /\ stage' = "send"
  /\ UNCHANGED <<fixed, at, held, busy, tagQueue, badTable, testPassed, report, readBuf,
                 writeBuf, device, answers, checked, repeats>>

(* their call of the proxy, after the unlock *)
SendRequest ==
  /\ stage = "send"
  /\ sent' = sent \union {[kind |-> Step.do, tag |-> held.tag, page |-> held.page]}
  /\ at' = at + 1 /\ stage' = "take" /\ held' = NoRequest
  /\ UNCHANGED <<fixed, tables, testPassed, report, readBuf, writeBuf, answers, checked,
                 flash, repeats>>

(* Mutant of Drained: one request may still be in flight. *)
AlmostDrained ==
  /\ ~Ended /\ Step.do = "drain" /\ inFlight[Step.kind] <= 1
  /\ at' = at + 1
  /\ UNCHANGED <<fixed, stage, held, tables, testPassed, report, readBuf, writeBuf, device,
                 answers, checked, repeats>>

(* while (true) { usleep(100); if (getNum...InFlight() == 0) break; } *)
Drained ==
  /\ ~Ended /\ Step.do = "drain" /\ inFlight[Step.kind] = 0
  /\ at' = at + 1
  /\ UNCHANGED <<fixed, stage, held, tables, testPassed, report, readBuf, writeBuf, device,
                 answers, checked, repeats>>

(* main writes 0xDEADBEEF over all read buffers before it reads again *)
ClearBuffers ==
  /\ ~Ended /\ Step.do = "clear"
  /\ readBuf' = [t \in Tag |-> Dead]
  /\ at' = at + 1
  /\ UNCHANGED <<fixed, stage, held, tables, testPassed, report, writeBuf, device, answers,
                 checked, repeats>>

(* g_testpass = true, at the start of each test of the multi-node hosts *)
BeginTest ==
  /\ ~Ended /\ Step.do = "begin"
  /\ testPassed' = TRUE
  /\ at' = at + 1
  /\ UNCHANGED <<fixed, stage, held, tables, report, readBuf, writeBuf, device, answers,
                 checked, repeats>>

(* main prints the verdict; where it has a badBlockTable, it saves it *)
Report ==
  /\ ~Ended /\ Step.do = "report"
  /\ report' = [passed |-> IF testPassed THEN "PASSED" ELSE "FAILED",
                bad |-> {b \in Block : badTable[b] = "bad"}]
  /\ at' = at + 1
  /\ UNCHANGED <<fixed, stage, held, tables, testPassed, readBuf, writeBuf, device, answers,
                 checked, repeats>>

(***************************************************************************)
(* The device and the card: they carry out requests in any order.  A bad   *)
(* block reads as zeros, and its erase answers with status 1.              *)
(***************************************************************************)
FlashAfter(r) ==
  [p \in Page |->
     IF BlockOf(p) # BlockOf(r.page) \/ (r.kind = "write" /\ p # r.page) THEN flash[p]
     ELSE IF BlockOf(p) \in bad THEN Zeros
     ELSE IF r.kind = "erase" THEN Ones ELSE writeBuf[r.tag]]

Execute(r) ==
  /\ r \in sent
  /\ sent' = sent \ {r}
  /\ answers' = answers \union {r}
  /\ IF r.kind = "read"
     THEN readBuf' = [readBuf EXCEPT ![r.tag] = flash[r.page]] /\ UNCHANGED flash
     ELSE flash' = FlashAfter(r) /\ UNCHANGED readBuf
  /\ UNCHANGED <<fixed, mainThread, tables, testPassed, report, writeBuf, checked, repeats>>

(***************************************************************************)
(* The indication thread.                                                  *)
(***************************************************************************)
(* checkReadData: what the buffer of a tag should hold, from flashStatus   *)
Passes(t) ==
  LET page == address.read[t] IN
  CASE status[Unit(page)] = "WRITTEN" -> readBuf[t] = This.golden[page]
    [] status[Unit(page)] = "ERASED" -> readBuf[t] \in {Ones} \union (IF This.zeroOK THEN {Zeros} ELSE {})
    [] OTHER -> This.skipsBad /\ status[Unit(page)] = "BAD"

(* readDone calls checkReadData before it takes flashReqMutex.  Programs   *)
(* assign its result to the verdict ("overwrite"), clear the verdict there *)
(* ("direct"), or keep it in tempPassed for later ("locked").              *)
CheckRead(a) ==
  /\ a \in answers /\ a.kind = "read" /\ This.check # "none" /\ checked = NoAnswer
  /\ checked' = [tag |-> a.tag, pass |-> Passes(a.tag)]
  /\ testPassed' = CASE This.check = "overwrite" -> Passes(a.tag)
                     [] This.check = "direct" -> testPassed /\ Passes(a.tag)
                     [] OTHER -> testPassed
  /\ UNCHANGED <<fixed, mainThread, tables, report, readBuf, writeBuf, device, answers, repeats>>

(* Mutants of CountAfter: idle tags count as well; and the busy flag is    *)
(* looked at after it was cleared.                                         *)
CountAlways(k, isBusy) ==
  IF This.done[k].clamps /\ inFlight[k] = 0 THEN 0 ELSE inFlight[k] - 1
CountAfterFreeing(k, isBusy) == IF isBusy THEN inFlight[k] ELSE inFlight[k] - 1

(* what the handlers do to the count, for a tag that is busy or not *)
CountAfter(k, isBusy) ==
  LET done == This.done[k]
      down == IF done.ifBusy /\ ~isBusy THEN inFlight[k] ELSE inFlight[k] - 1
      low == IF done.clamps /\ down < 0 THEN 0 ELSE down
  IN  IF done.recounts /\ ~isBusy THEN low + 1 ELSE low

(* eraseDone may record the block named in eraseTagTable *)
Failed(t) == BlockOf(address.erase[t]) \in bad

(* Mutant of RecordErase: a failed erase leaves its block's entry alone. *)
RecordGoodErase(k, t) ==
  /\ UNCHANGED status
  /\ badTable' = IF k = "erase" /\ This.eraseStatus = "table" /\ ~Failed(t)
                 THEN [badTable EXCEPT ![BlockOf(address.erase[t])] = "good"] ELSE badTable

RecordErase(k, t) ==
  /\ status' = IF k = "erase" /\ This.eraseStatus = "status" /\ Failed(t)
               THEN [status EXCEPT ![Unit(address.erase[t])] = "BAD"] ELSE status
  /\ badTable' = IF k = "erase" /\ This.eraseStatus = "table"
                 THEN [badTable EXCEPT ![BlockOf(address.erase[t])] = IF Failed(t) THEN "bad" ELSE "good"]
                 ELSE badTable

(* the part of readDone, writeDone and eraseDone under the lock *)
Answered(a) ==
  /\ a \in answers
  /\ IF a.kind = "read" /\ This.check # "none" THEN checked.tag = a.tag ELSE checked = NoAnswer
  /\ inFlight' = [inFlight EXCEPT ![a.kind] = CountAfter(a.kind, a.tag \in busy[a.kind])]
  /\ busy' = IF This.done[a.kind].frees THEN [busy EXCEPT ![a.kind] = @ \ {a.tag}] ELSE busy
  /\ tagQueue' = IF Queued(a.kind) THEN Append(tagQueue, a.tag) ELSE tagQueue
  /\ testPassed' = /\ testPassed /\ (This.check = "locked" => checked.pass)
                   /\ This.done[a.kind].flags => a.tag \in busy[a.kind]
  /\ RecordErase(a.kind, a.tag)
  /\ answers' = answers \ {a} /\ checked' = NoAnswer
  /\ UNCHANGED <<fixed, mainThread, address, report, readBuf, writeBuf, device, repeats>>

(* The card answers once more for a tag that is idle: "received unused     *)
(* buffer".  The callback runs with nothing of note in between.            *)
Repeat(k, t) ==
  /\ program \in Repeating /\ Cardinality(bad) + repeats < MaxFaults
  /\ t \notin busy[k] /\ checked = NoAnswer
  /\ k \in This.records => address[k][t] # NoPage
  /\ inFlight' = [inFlight EXCEPT ![k] = CountAfter(k, FALSE)]
  /\ testPassed' = (testPassed /\ ~This.done[k].flags)
  /\ RecordErase(k, t)
  /\ repeats' = repeats + 1
  /\ UNCHANGED <<fixed, mainThread, busy, address, tagQueue, report, readBuf, writeBuf, device,
                 answers, checked>>

(***************************************************************************)
(* main's set-up, and the specification.                                   *)
(***************************************************************************)
InitialQueue == IF This.queued THEN [i \in 1..NumTags |-> i - 1] ELSE << >>

(* Bad blocks are the translation layer's business where there is one, and *)
(* make no difference to a program that neither checks nor records.        *)
LooksAtErases == ~This.translated /\ (This.check # "none" \/ This.eraseStatus # "log")

Init ==
  /\ program \in DOMAIN Programs
  /\ at = 1 /\ stage = "take" /\ held = NoRequest
  /\ busy = [k \in Kind |-> {}]
  /\ inFlight = [k \in Kind |-> 0]
  /\ address = [k \in {"read", "erase"} |-> [t \in Tag |-> NoPage]]
  /\ tagQueue = InitialQueue
  /\ status = [u \in Units |-> "UNINIT"]
  /\ badTable = [b \in Block |-> "unissued"]
  /\ testPassed = TRUE /\ report = NoReport
  /\ readBuf = [t \in Tag |-> This.fresh] /\ writeBuf = [t \in Tag |-> This.fresh]
  /\ sent = {} /\ answers = {} /\ checked = NoAnswer /\ repeats = 0
  /\ bad \in {B \in SUBSET Block : Cardinality(B) <= MaxFaults /\ (LooksAtErases \/ B = {})}
  /\ flash = [p \in Page |-> Old]

MainNext == TakeTag \/ FillBuffer \/ CountRequest \/ SendRequest \/ Drained
            \/ ClearBuffers \/ BeginTest \/ Report
DeviceNext == \E r \in sent : Execute(r)
CallbackNext == \E a \in answers : CheckRead(a) \/ Answered(a)
RepeatNext == \E k \in Kind, t \in Tag : Repeat(k, t)
Next == MainNext \/ DeviceNext \/ CallbackNext \/ RepeatNext

Spec == Init /\ [][Next]_vars

(* The threads run: main's spinning takes a lock it gives back, and the    *)
(* device carries out every request it has.  Answers may come late, but    *)
(* none is lost, and none need be repeated.                                *)
Fairness == WF_vars(MainNext) /\ WF_vars(DeviceNext) /\ WF_vars(CallbackNext)
FairSpec == Spec /\ Fairness

(***************************************************************************)
(* Properties.                                                             *)
(***************************************************************************)
(* No answer was taken twice, or the handler tells by the busy flag.       *)
Exact(k) == This.done[k].ifBusy /\ ~This.done[k].recounts
Counted(k) == repeats = 0 \/ Exact(k)
Sound == \A k \in Kind : Counted(k)

(* The three tables of tags share one device, whose tables have one entry  *)
(* per tag (FlashController.bsv:202, Main.bsv tag2busTable): main's drains *)
(* keep requests of different kinds, and of one kind, from using a tag at  *)
(* the same time.                                                          *)
RequestTagsDistinct == Sound => \A r, s \in sent \union answers : r.tag = s.tag => r = s

Outstanding(k) == {r \in sent \union answers : r.kind = k}
Sending(k) == IF stage = "send" /\ Step.do = k THEN 1 ELSE 0

(* The counts that main waits for, without the lock, are the requests the  *)
(* device still owes an answer, in spite of spurious answers where the     *)
(* handler looks at the busy flag first (main_eraseall.cpp:163).           *)
CountersMatchDevice ==
  \A k \in Kind : Counted(k) => inFlight[k] = Cardinality(Outstanding(k)) + Sending(k)

(* The buffer of a tag belongs to its request from before it is sent until *)
(* its answer is handled: a write finds its page's data in it, and a read  *)
(* what its page holds, when checkReadData looks at it with the address in *)
(* readTagTable.                                                           *)
BuffersBelong ==
  Sound => /\ \A r \in sent : r.kind = "write" /\ This.fills => writeBuf[r.tag] = This.golden[r.page]
           /\ \A r \in answers : r.kind = "read" =>
                /\ readBuf[r.tag] = flash[r.page]
                /\ "read" \in This.records => address.read[r.tag] = r.page

(* The blocks that the program erases. *)
Touched == {b \in Block : ErasedBefore(This.script, Len(This.script) + 1, b)}
Says(verdict) == report.passed = verdict

(* What main reports is true of the card.  A program that keeps a verdict  *)
(* fails exactly when a block it erased is bad, unless it skips bad blocks;*)
(* one that assigns the verdict anew at every read (flash_connectal) never *)
(* fails a good card; and a saved table of bad blocks names those of the   *)
(* blocks erased that are bad, and no others.                              *)
ReportsTrue ==
  repeats = 0 =>
    /\ bad \intersect Touched = {} => ~Says("FAILED")
    /\ This.check \in {"direct", "locked"} /\ ~This.skipsBad /\ Says("PASSED")
         => bad \intersect Touched = {}
    /\ This.skipsBad => ~Says("FAILED")
    /\ This.eraseStatus = "table" /\ report # NoReport => report.bad = bad \intersect Touched

(* Every program comes to its end: no drain waits for a count that stays   *)
(* up, no wait for a tag that stays busy.  One answer too many is survived *)
(* where counts are clamped, or left alone for idle tags.                  *)
Survives(k) == Exact(k) \/ (This.done[k].clamps /\ ~This.done[k].recounts)
EveryProgramEnds == <>(Ended \/ (repeats > 0 /\ \E k \in Kind : ~Survives(k)))
=============================================================================
