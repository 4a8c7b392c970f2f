-------------------------- MODULE FlashHost_proofs --------------------------
(***************************************************************************)
(* For every number of tags, every card and every set of programs that     *)
(* wait for requests of one kind before they make some of another: no two  *)
(* requests the device has share a tag, the counts main waits for are      *)
(* those of the requests it has, and buffers stay with their requests.     *)
(* For those that read what they erased or wrote, and report when they     *)
(* have, what main reports is true of the card.                            *)
(***************************************************************************)
EXTENDS FlashHost, FiniteSetTheorems, WellFoundedInduction, TLAPS

Request == [kind : Kind, tag : Tag, page : Page]
InDevice == sent \union answers

TypeOK ==
  /\ program \in DOMAIN Programs
  /\ at \in Nat \ {0}
  /\ stage \in {"take", "fill", "count", "send"}
  /\ stage # "take" => ~Ended /\ Step.do \in Kind /\ held.tag \in Tag /\ held.page \in Page
  /\ busy \in [Kind -> SUBSET Tag]
  /\ inFlight \in [Kind -> Int]
  /\ tagQueue \in Seq(Tag)
  /\ sent \subseteq Request /\ answers \subseteq Request
  /\ IsFiniteSet(sent) /\ IsFiniteSet(answers)
  /\ repeats \in Nat

(* A set of naturals has a least element: the first idle tag exists. *)
LEMMA LeastIsLeast ==
  ASSUME NEW T \in SUBSET Nat, T # {}
  PROVE  Least(T) \in T
<1> DEFINE R == OpToRel(<, Nat)
<1>1. PICK t \in T : \A u \in T : ~(<<u, t>> \in R)
  BY NatLessThanWellFounded, WFMin
<1>2. \A u \in T : t <= u
  <2> TAKE u \in T
  <2>1. ~(u < t)
    BY <1>1 DEF OpToRel
  <2> QED
    BY <2>1
<1>3. \E x \in T : \A u \in T : x <= u
  BY <1>2
<1> QED
  BY <1>3 DEF Least

(* The tag that main takes is one of the table's, and idle or queued. *)
LEMMA NextTagTyped ==
  ASSUME TypeOK, NEW k \in Kind, TagFree(k)
  PROVE  /\ NextTag(k) \in Tag
         /\ ~Queued(k) => NextTag(k) \notin busy[k]
         /\ Queued(k) => tagQueue # << >> /\ NextTag(k) = tagQueue[1] /\ Tail(tagQueue) \in Seq(Tag)
<1>1. CASE Queued(k)
  BY <1>1 DEF TypeOK, TagFree, NextTag
<1>2. CASE ~Queued(k)
  <2>1. Idle(k) # {} /\ Idle(k) \in SUBSET Nat
    BY <1>2, NumTagsAssumption DEF TagFree, Idle, Tag
  <2>2. Least(Idle(k)) \in Idle(k)
    BY <2>1, LeastIsLeast
  <2> QED
    BY <1>2, <2>2 DEF NextTag, Idle
<1> QED
  BY <1>1, <1>2

LEMMA ThisProgram ==
  ASSUME TypeOK
  PROVE  WellFormed(This) /\ Drains(This.script)
BY ProgramsAssumption DEF TypeOK, This

(* A step that main takes between requests. *)
Between(do) == ~Ended /\ Step.do = do

LEMMA BetweenIdle ==
  ASSUME TypeOK, NEW do, do \notin Kind, Between(do)
  PROVE  stage = "take"
BY DEF TypeOK, Between

LEMMA TypeInit == Init => TypeOK
<1> SUFFICES ASSUME Init PROVE TypeOK
  OBVIOUS
<1>1. tagQueue \in Seq(Tag)
  <2>1. CASE This.queued
    <3>1. tagQueue = [i \in 1..NumTags |-> i - 1] /\ NumTags \in Nat
      BY <2>1, NumTagsAssumption DEF Init, InitialQueue
    <3>2. \A i \in 1..NumTags : i - 1 \in Tag
      BY <3>1 DEF Tag
    <3> QED
      BY <3>1, <3>2
  <2>2. CASE ~This.queued
    <3>1. tagQueue = << >>
      BY <2>2 DEF Init, InitialQueue
    <3> QED
      BY <3>1
  <2> QED
    BY <2>1, <2>2
<1>2. IsFiniteSet(sent) /\ IsFiniteSet(answers)
  BY FS_EmptySet DEF Init
<1> QED
  BY <1>1, <1>2 DEF Init, TypeOK

LEMMA TypeStep == TypeOK /\ [Next]_vars => TypeOK'
<1> SUFFICES ASSUME TypeOK, [Next]_vars PROVE TypeOK'
  OBVIOUS
<1> USE DEF TypeOK, This, Step, Ended
<1>1. CASE TakeTag
  <2> DEFINE k == Step.do
  <2>1. /\ stage = "take" /\ k \in Kind /\ TagFree(k) /\ ~Ended
        /\ program' = program /\ at' = at /\ inFlight' = inFlight /\ repeats' = repeats
        /\ sent' = sent /\ answers' = answers
        /\ busy' = [busy EXCEPT ![k] = @ \union {NextTag(k)}]
        /\ tagQueue' = IF Queued(k) THEN Tail(tagQueue) ELSE tagQueue
        /\ stage' \in {"fill", "count"}
    BY <1>1 DEF TakeTag, fixed, device
  <2>2. PICK p \in Step.pages : held' = [tag |-> NextTag(k), page |-> p]
    BY <1>1 DEF TakeTag
  <2>3. NextTag(k) \in Tag /\ (Queued(k) => Tail(tagQueue) \in Seq(Tag))
    BY <2>1, NextTagTyped
  <2>4. p \in Page
    <3>1. at \in 1..Len(This.script)
      BY <2>1, ThisProgram DEF WellFormed
    <3> QED
      BY <2>1, <2>2, <3>1, ThisProgram DEF WellFormed
  <2>5. busy' \in [Kind -> SUBSET Tag]
    BY <2>1, <2>3
  <2>6. tagQueue' \in Seq(Tag)
    BY <2>1, <2>3
  <2>7. held'.tag \in Tag /\ held'.page \in Page
    BY <2>2, <2>3, <2>4
  <2> QED
    BY <2>1, <2>5, <2>6, <2>7
<1>2. CASE FillBuffer
  BY <1>2 DEF FillBuffer, fixed, tables, device
<1>3. CASE CountRequest
  <2>1. /\ stage = "count" /\ stage' = "send"
        /\ program' = program /\ at' = at /\ held' = held /\ busy' = busy /\ tagQueue' = tagQueue
        /\ repeats' = repeats /\ sent' = sent /\ answers' = answers
        /\ inFlight' = [inFlight EXCEPT ![Step.do] = @ + 1]
    BY <1>3 DEF CountRequest, fixed, device
  <2>2. inFlight' \in [Kind -> Int]
    BY <2>1
  <2> QED
    BY <2>1, <2>2
<1>4. CASE SendRequest
  <2>1. /\ stage = "send" /\ stage' = "take" /\ at' = at + 1
        /\ program' = program /\ busy' = busy /\ tagQueue' = tagQueue /\ inFlight' = inFlight
        /\ repeats' = repeats /\ answers' = answers
        /\ sent' = sent \union {[kind |-> Step.do, tag |-> held.tag, page |-> held.page]}
    BY <1>4 DEF SendRequest, fixed, tables
  <2>2. sent' \subseteq Request
    BY <2>1 DEF Request
  <2>3. IsFiniteSet(sent')
    BY <2>1, FS_AddElement
  <2> QED
    BY <2>1, <2>2, <2>3
<1>5. ASSUME Drained \/ ClearBuffers \/ BeginTest \/ Report
      PROVE  TypeOK'
  <2>1. stage = "take"
    BY <1>5 DEF Drained, ClearBuffers, BeginTest, Report, Kind
  <2>2. /\ program' = program /\ busy' = busy /\ tagQueue' = tagQueue /\ inFlight' = inFlight
        /\ repeats' = repeats /\ answers' = answers /\ sent' = sent
        /\ at' = at + 1 /\ stage' = stage
    BY <1>5 DEF Drained, ClearBuffers, BeginTest, Report, fixed, tables, device
  <2> QED
    BY <2>1, <2>2
<1>6. ASSUME NEW r \in sent, Execute(r)
      PROVE  TypeOK'
  <2>1. /\ program' = program /\ busy' = busy /\ tagQueue' = tagQueue /\ inFlight' = inFlight
        /\ repeats' = repeats /\ at' = at /\ stage' = stage /\ held' = held
        /\ answers' = answers \union {r} /\ sent' = sent \ {r}
    BY <1>6 DEF Execute, fixed, tables, mainThread
  <2>2. IsFiniteSet(answers') /\ IsFiniteSet(sent')
    BY <2>1, FS_AddElement, FS_RemoveElement
  <2> QED
    BY <2>1, <2>2
<1>7. ASSUME NEW a \in answers, CheckRead(a)
      PROVE  TypeOK'
  BY <1>7 DEF CheckRead, fixed, tables, device, mainThread
<1>8. ASSUME NEW a \in answers, Answered(a)
      PROVE  TypeOK'
  <2>1. /\ program' = program /\ repeats' = repeats /\ at' = at /\ stage' = stage /\ held' = held
        /\ answers' = answers \ {a} /\ sent' = sent
        /\ busy' = IF This.done[a.kind].frees THEN [busy EXCEPT ![a.kind] = @ \ {a.tag}] ELSE busy
        /\ tagQueue' = IF Queued(a.kind) THEN Append(tagQueue, a.tag) ELSE tagQueue
        /\ inFlight' = [inFlight EXCEPT ![a.kind] = CountAfter(a.kind, a.tag \in busy[a.kind])]
    BY <1>8 DEF Answered, fixed, device, mainThread
  <2>2. a.kind \in Kind /\ a.tag \in Tag
    BY DEF Request
  <2>3. CountAfter(a.kind, a.tag \in busy[a.kind]) \in Int
    BY <2>2 DEF CountAfter
  <2>4. IsFiniteSet(answers')
    BY <2>1, FS_RemoveElement
  <2>5. busy' \in [Kind -> SUBSET Tag]
    BY <2>1, <2>2
  <2>6. tagQueue' \in Seq(Tag)
    BY <2>1, <2>2
  <2>7. inFlight' \in [Kind -> Int]
    BY <2>1, <2>3
  <2> QED
    BY <2>1, <2>4, <2>5, <2>6, <2>7
<1>9. ASSUME NEW k \in Kind, NEW t \in Tag, Repeat(k, t)
      PROVE  TypeOK'
  <2>1. /\ program' = program /\ at' = at /\ stage' = stage /\ held' = held
        /\ answers' = answers /\ sent' = sent /\ busy' = busy /\ tagQueue' = tagQueue
        /\ repeats' = repeats + 1
        /\ inFlight' = [inFlight EXCEPT ![k] = CountAfter(k, FALSE)]
    BY <1>9 DEF Repeat, fixed, device, mainThread
  <2>2. CountAfter(k, FALSE) \in Int
    BY DEF CountAfter
  <2>3. inFlight' \in [Kind -> Int]
    BY <2>1, <2>2
  <2>4. repeats' \in Nat
    BY <2>1
  <2>5. stage' # "take" => ~Ended' /\ Step'.do \in Kind /\ held'.tag \in Tag /\ held'.page \in Page
    BY <2>1
  <2> HIDE DEF This, Step, Ended
  <2> QED
    BY <2>1, <2>3, <2>4, <2>5
<1>10. CASE UNCHANGED vars
  BY <1>10 DEF vars
<1> QED
  BY <1>1, <1>2, <1>3, <1>4, <1>5, <1>6, <1>7, <1>8, <1>9, <1>10
     DEF Next, MainNext, DeviceNext, CallbackNext, RepeatNext

(***************************************************************************)
(* Within the requests of a kind, a tag has one owner: a request that the  *)
(* device has, the request that main is making, the queue, or nobody.      *)
(***************************************************************************)
TagsOwned ==
  /\ sent \intersect answers = {}
  /\ \A r \in InDevice : r.tag \in busy[r.kind]
  /\ \A r, s \in InDevice : r.kind = s.kind /\ r.tag = s.tag => r = s
  /\ stage # "take" => /\ held.tag \in busy[Step.do]
                       /\ \A r \in InDevice : r.kind = Step.do => r.tag # held.tag

QueuedTagsIdle ==
  This.queued => /\ \A i \in 1..Len(tagQueue) : tagQueue[i] \notin busy["read"]
                 /\ \A i, j \in 1..Len(tagQueue) : tagQueue[i] = tagQueue[j] => i = j

(* Steps that leave the tags to their owners. *)
Quiet ==
  /\ program' = program /\ busy' = busy /\ tagQueue' = tagQueue
  /\ sent' = sent /\ answers' = answers
  /\ stage' # "take" => stage # "take" /\ at' = at /\ held' = held

LEMMA QuietSteps ==
  ASSUME TypeOK,
         \/ FillBuffer \/ CountRequest \/ Drained \/ ClearBuffers \/ BeginTest \/ Report
         \/ \E a \in answers : CheckRead(a)
         \/ RepeatNext \/ UNCHANGED vars
  PROVE  Quiet
<1> USE DEF Quiet
<1>1. CASE FillBuffer
  BY <1>1 DEF FillBuffer, fixed, tables, device
<1>2. CASE CountRequest
  BY <1>2 DEF CountRequest, fixed, device
<1>3. ASSUME Drained \/ ClearBuffers \/ BeginTest \/ Report
      PROVE  Quiet
  <2>1. stage = "take"
    BY <1>3 DEF Drained, ClearBuffers, BeginTest, Report, Kind, TypeOK
  <2> QED
    BY <1>3, <2>1 DEF Drained, ClearBuffers, BeginTest, Report, fixed, tables, device
<1>4. CASE \E a \in answers : CheckRead(a)
  BY <1>4 DEF CheckRead, fixed, tables, device, mainThread
<1>5. CASE RepeatNext
  BY <1>5 DEF RepeatNext, Repeat, fixed, device, mainThread
<1>6. CASE UNCHANGED vars
  BY <1>6 DEF vars
<1> QED
  BY <1>1, <1>2, <1>3, <1>4, <1>5, <1>6

(* What the four other actions do to tags and requests. *)
LEMMA TakeTagEffect ==
  ASSUME TypeOK, TakeTag
  PROVE  LET k == Step.do IN
         /\ k \in Kind /\ stage = "take" /\ at' = at /\ program' = program
         /\ sent' = sent /\ answers' = answers
         /\ held'.tag = NextTag(k) /\ NextTag(k) \in Tag
         /\ busy' = [busy EXCEPT ![k] = @ \union {NextTag(k)}]
         /\ ~Queued(k) => NextTag(k) \notin busy[k] /\ tagQueue' = tagQueue
         /\ Queued(k) => tagQueue # << >> /\ NextTag(k) = tagQueue[1] /\ tagQueue' = Tail(tagQueue)
<1>1. Step.do \in Kind /\ TagFree(Step.do)
  BY DEF TakeTag
<1>2. /\ NextTag(Step.do) \in Tag
      /\ ~Queued(Step.do) => NextTag(Step.do) \notin busy[Step.do]
      /\ Queued(Step.do) => tagQueue # << >> /\ NextTag(Step.do) = tagQueue[1]
  BY <1>1, NextTagTyped
<1> QED
  BY <1>1, <1>2 DEF TakeTag, fixed, device

LEMMA SendRequestEffect ==
  ASSUME TypeOK, SendRequest
  PROVE  /\ stage = "send" /\ stage' = "take" /\ at' = at + 1 /\ program' = program
         /\ busy' = busy /\ tagQueue' = tagQueue /\ inFlight' = inFlight /\ repeats' = repeats
         /\ answers' = answers
         /\ \E r \in Request : /\ r.kind = Step.do /\ r.tag = held.tag /\ r.page = held.page
                               /\ sent' = sent \union {r}
<1> DEFINE r == [kind |-> Step.do, tag |-> held.tag, page |-> held.page]
<1>1. r \in Request /\ r.kind = Step.do /\ r.tag = held.tag /\ r.page = held.page
  BY DEF TypeOK, SendRequest, Request
<1>2. sent' = sent \union {r}
  BY DEF SendRequest
<1> HIDE DEF r
<1> QED
  BY <1>1, <1>2 DEF SendRequest, fixed, tables

LEMMA ExecuteEffect ==
  ASSUME TypeOK, NEW r \in sent, Execute(r)
  PROVE  /\ program' = program /\ at' = at /\ stage' = stage /\ held' = held
         /\ busy' = busy /\ tagQueue' = tagQueue /\ inFlight' = inFlight /\ repeats' = repeats
         /\ sent' = sent \ {r} /\ answers' = answers \union {r}
BY DEF Execute, fixed, tables, mainThread

LEMMA AnsweredEffect ==
  ASSUME TypeOK, NEW a \in answers, Answered(a)
  PROVE  /\ a.kind \in Kind /\ a.tag \in Tag
         /\ program' = program /\ at' = at /\ stage' = stage /\ held' = held /\ repeats' = repeats
         /\ sent' = sent /\ answers' = answers \ {a}
         /\ busy' = IF This.done[a.kind].frees THEN [busy EXCEPT ![a.kind] = @ \ {a.tag}] ELSE busy
         /\ tagQueue' = IF Queued(a.kind) THEN Append(tagQueue, a.tag) ELSE tagQueue
         /\ inFlight' = [inFlight EXCEPT ![a.kind] = CountAfter(a.kind, a.tag \in busy[a.kind])]
BY DEF Answered, fixed, device, mainThread, TypeOK, Request

LEMMA TagsInit == Init => TagsOwned /\ QueuedTagsIdle
<1> SUFFICES ASSUME Init PROVE TagsOwned /\ QueuedTagsIdle
  OBVIOUS
<1>1. TagsOwned
  BY DEF Init, TagsOwned, InDevice
<1>2. QueuedTagsIdle
  <2> SUFFICES ASSUME This.queued PROVE QueuedTagsIdle
    BY DEF QueuedTagsIdle
  <2>1. tagQueue = [i \in 1..NumTags |-> i - 1] /\ NumTags \in Nat /\ busy["read"] = {}
    BY NumTagsAssumption DEF Init, InitialQueue, Kind
  <2>2. Len(tagQueue) = NumTags
    BY <2>1
  <2> QED
    BY <2>1, <2>2 DEF QueuedTagsIdle
<1> QED
  BY <1>1, <1>2

LEMMA TagsStep ==
  TypeOK /\ TagsOwned /\ QueuedTagsIdle /\ [Next]_vars => TagsOwned' /\ QueuedTagsIdle'
<1> SUFFICES ASSUME TypeOK, TagsOwned, QueuedTagsIdle, [Next]_vars
             PROVE  TagsOwned' /\ QueuedTagsIdle'
  OBVIOUS
<1>1. CASE Quiet
  BY <1>1 DEF Quiet, TagsOwned, QueuedTagsIdle, InDevice, Step, This
<1>2. CASE TakeTag
  <2> DEFINE k == Step.do
             t == NextTag(k)
  <2>1. /\ k \in Kind /\ stage = "take" /\ at' = at /\ program' = program
        /\ sent' = sent /\ answers' = answers /\ held'.tag = t /\ t \in Tag
        /\ busy' = [busy EXCEPT ![k] = @ \union {t}]
        /\ ~Queued(k) => t \notin busy[k] /\ tagQueue' = tagQueue
        /\ Queued(k) => tagQueue # << >> /\ t = tagQueue[1] /\ tagQueue' = Tail(tagQueue)
    BY <1>2, TakeTagEffect
  <2>2. t \notin busy[k]
    <3>1. CASE Queued(k)
      <4>1. 1 \in 1..Len(tagQueue)
        BY <2>1, <3>1 DEF TypeOK
      <4> QED
        BY <2>1, <3>1, <4>1 DEF QueuedTagsIdle, Queued
    <3> QED
      BY <2>1, <3>1
  <2>3. Step' = Step /\ This' = This
    BY <2>1 DEF Step, This
  <2> HIDE DEF t, k
  <2>4. /\ busy'[k] = busy[k] \union {t}
        /\ \A j \in Kind \ {k} : busy'[j] = busy[j]
        /\ \A j \in Kind : busy[j] \subseteq busy'[j]
    BY <2>1 DEF TypeOK
  <2>5. \A r \in InDevice : r.kind \in Kind /\ r.tag \in busy[r.kind]
    BY DEF TagsOwned, InDevice, TypeOK, Request
  <2>6. InDevice' = InDevice
    BY <2>1 DEF InDevice
  <2>7. held'.tag \in busy'[Step'.do] /\ \A r \in InDevice' : r.kind = Step'.do => r.tag # held'.tag
    BY <2>1, <2>2, <2>3, <2>4, <2>5, <2>6 DEF k
  <2>8. TagsOwned'
    BY <2>1, <2>4, <2>5, <2>6, <2>7 DEF TagsOwned
  <2>9. QueuedTagsIdle'
    <3> SUFFICES ASSUME This.queued PROVE QueuedTagsIdle'
      BY <2>3 DEF QueuedTagsIdle
    <3>1. CASE Queued(k)
      <4>1. k = "read" /\ tagQueue \in Seq(Tag) /\ tagQueue # << >>
        BY <2>1, <3>1 DEF Queued, TypeOK
      <4>2. \A i \in 1..Len(tagQueue') :
               i + 1 \in 1..Len(tagQueue) /\ i + 1 # 1 /\ tagQueue'[i] = tagQueue[i + 1]
        BY <2>1, <3>1, <4>1
      <4>3. \A i \in 1..Len(tagQueue') : tagQueue'[i] # t /\ tagQueue'[i] \notin busy["read"]
        <5> TAKE i \in 1..Len(tagQueue')
        <5>1. 1 \in 1..Len(tagQueue) /\ i + 1 \in 1..Len(tagQueue) /\ i + 1 # 1
          BY <4>1, <4>2
        <5> QED
          BY <2>1, <3>1, <4>2, <5>1 DEF QueuedTagsIdle
      <4>4. \A i, j \in 1..Len(tagQueue') : tagQueue'[i] = tagQueue'[j] => i = j
        <5> TAKE i, j \in 1..Len(tagQueue')
        <5> HAVE tagQueue'[i] = tagQueue'[j]
        <5>1. i + 1 = j + 1
          BY <4>2 DEF QueuedTagsIdle
        <5> QED
          BY <5>1, <2>1, <3>1, <4>1
      <4> QED
        BY <4>1, <4>3, <4>4, <2>4 DEF QueuedTagsIdle
    <3>2. CASE ~Queued(k)
      <4>1. "read" # k /\ tagQueue' = tagQueue
        BY <2>1, <3>2 DEF Queued
      <4>2. busy'["read"] = busy["read"]
        BY <2>4, <4>1 DEF Kind
      <4> QED
        BY <4>1, <4>2 DEF QueuedTagsIdle
    <3> QED
      BY <3>1, <3>2
  <2> QED
    BY <2>8, <2>9
<1>3. CASE SendRequest
  <2>1. PICK r \in Request : /\ r.kind = Step.do /\ r.tag = held.tag
                             /\ sent' = sent \union {r}
    BY <1>3, SendRequestEffect
  <2>2. /\ stage = "send" /\ stage' = "take" /\ program' = program
        /\ busy' = busy /\ tagQueue' = tagQueue /\ answers' = answers
    BY <1>3, SendRequestEffect
  <2>3. r.tag \in busy[r.kind] /\ \A s \in InDevice : s.kind = r.kind => s.tag # r.tag
    BY <2>1, <2>2 DEF TagsOwned
  <2>4. r \notin InDevice
    BY <2>3
  <2>5. InDevice' = InDevice \union {r}
    BY <2>1, <2>2 DEF InDevice
  <2>6. sent' \intersect answers' = {}
    BY <2>1, <2>2, <2>4 DEF InDevice, TagsOwned
  <2>7. TagsOwned'
    BY <2>2, <2>3, <2>5, <2>6 DEF TagsOwned
  <2>8. QueuedTagsIdle'
    BY <2>2 DEF QueuedTagsIdle, This
  <2> QED
    BY <2>7, <2>8
<1>4. ASSUME NEW r \in sent, Execute(r)
      PROVE  TagsOwned' /\ QueuedTagsIdle'
  <2>1. /\ program' = program /\ at' = at /\ stage' = stage /\ held' = held
        /\ busy' = busy /\ tagQueue' = tagQueue
        /\ sent' = sent \ {r} /\ answers' = answers \union {r}
    BY <1>4, ExecuteEffect
  <2>2. InDevice' = InDevice /\ Step' = Step /\ This' = This
    BY <2>1 DEF InDevice, Step, This
  <2>3. sent' \intersect answers' = {}
    BY <2>1 DEF TagsOwned
  <2> QED
    BY <2>1, <2>2, <2>3 DEF TagsOwned, QueuedTagsIdle
<1>5. ASSUME NEW a \in answers, Answered(a)
      PROVE  TagsOwned' /\ QueuedTagsIdle'
  <2>1. /\ a.kind \in Kind /\ a.tag \in Tag
        /\ program' = program /\ at' = at /\ stage' = stage /\ held' = held
        /\ sent' = sent /\ answers' = answers \ {a}
        /\ busy' = IF This.done[a.kind].frees THEN [busy EXCEPT ![a.kind] = @ \ {a.tag}] ELSE busy
        /\ tagQueue' = IF Queued(a.kind) THEN Append(tagQueue, a.tag) ELSE tagQueue
    BY <1>5, AnsweredEffect
  <2>2. Step' = Step /\ This' = This
    BY <2>1 DEF Step, This
  <2>3. InDevice' \subseteq InDevice /\ a \in InDevice /\ a \notin InDevice'
    BY <2>1 DEF InDevice, TagsOwned
  <2>4. \A k \in Kind, t \in Tag : t \in busy[k] /\ (k # a.kind \/ t # a.tag) => t \in busy'[k]
    BY <2>1 DEF TypeOK
  <2>5. \A k \in Kind, t \in Tag : t \in busy'[k] => t \in busy[k]
    BY <2>1 DEF TypeOK
  <2>6. \A r \in InDevice : r.kind \in Kind /\ r.tag \in Tag
    BY DEF InDevice, TypeOK, Request
  <2>7. \A r \in InDevice' : r.tag \in busy'[r.kind]
    <3> TAKE r \in InDevice'
    <3>1. r \in InDevice /\ r # a
      BY <2>3
    <3>2. r.kind # a.kind \/ r.tag # a.tag
      BY <2>3, <3>1 DEF TagsOwned
    <3> QED
      BY <2>4, <2>6, <3>1, <3>2 DEF TagsOwned
  <2>8. ASSUME stage # "take"
        PROVE  held.tag \in busy'[Step.do]
    <3>1. Step.do \in Kind /\ held.tag \in Tag /\ held.tag \in busy[Step.do]
      BY <2>8 DEF TypeOK, TagsOwned
    <3>2. Step.do # a.kind \/ held.tag # a.tag
      BY <2>3, <2>8 DEF TagsOwned
    <3> QED
      BY <2>4, <3>1, <3>2
  <2>9. TagsOwned'
    BY <2>1, <2>2, <2>3, <2>7, <2>8 DEF TagsOwned
  <2>10. QueuedTagsIdle'
    <3> SUFFICES ASSUME This.queued PROVE QueuedTagsIdle'
      BY <2>2 DEF QueuedTagsIdle
    <3>1. CASE Queued(a.kind)
      <4>1. a.kind = "read" /\ This.done["read"].frees /\ tagQueue \in Seq(Tag)
        BY <3>1, ThisProgram DEF Queued, WellFormed, TypeOK
      <4>2. a.tag \in busy["read"] /\ a.tag \notin busy'["read"]
        BY <2>1, <2>3, <4>1 DEF TagsOwned, TypeOK
      <4>3. /\ Len(tagQueue') = Len(tagQueue) + 1 /\ Len(tagQueue) \in Nat
            /\ tagQueue'[Len(tagQueue) + 1] = a.tag
            /\ \A i \in 1..Len(tagQueue) : tagQueue'[i] = tagQueue[i]
        BY <2>1, <3>1, <4>1
      <4>4. \A i \in 1..Len(tagQueue) : tagQueue[i] # a.tag
        BY <4>2 DEF QueuedTagsIdle
      <4>5. \A i \in 1..Len(tagQueue) : tagQueue[i] \notin busy'["read"]
        BY <2>1, <4>1 DEF QueuedTagsIdle, TypeOK
      <4>6. \A i \in 1..Len(tagQueue') : i \in 1..Len(tagQueue) \/ i = Len(tagQueue) + 1
        BY <4>3
      <4>7. \A i \in 1..Len(tagQueue') : tagQueue'[i] \notin busy'["read"]
        BY <4>2, <4>3, <4>5, <4>6
      <4>8. \A i, j \in 1..Len(tagQueue') : tagQueue'[i] = tagQueue'[j] => i = j
        BY <4>3, <4>4, <4>6 DEF QueuedTagsIdle
      <4> QED
        BY <4>7, <4>8 DEF QueuedTagsIdle
    <3>2. CASE ~Queued(a.kind)
      <4>1. "read" # a.kind /\ tagQueue' = tagQueue
        BY <2>1, <3>2 DEF Queued
      <4>2. busy'["read"] = busy["read"]
        BY <2>1, <4>1 DEF Kind, TypeOK
      <4> QED
        BY <4>1, <4>2 DEF QueuedTagsIdle
    <3> QED
      BY <3>1, <3>2
  <2> QED
    BY <2>9, <2>10
<1> QED
  BY <1>1, <1>2, <1>3, <1>4, <1>5, QuietSteps DEF Next, MainNext, DeviceNext, CallbackNext

(***************************************************************************)
(* The counts.                                                             *)
(***************************************************************************)
LEMMA OutstandingFinite ==
  ASSUME TypeOK, NEW k \in Kind
  PROVE  IsFiniteSet(Outstanding(k)) /\ Cardinality(Outstanding(k)) \in Nat
<1>1. IsFiniteSet(sent \union answers)
  BY FS_Union DEF TypeOK
<1>2. Outstanding(k) \subseteq sent \union answers
  BY DEF Outstanding
<1>3. IsFiniteSet(Outstanding(k))
  BY <1>1, <1>2, FS_Subset
<1> QED
  BY <1>3, FS_CardinalityType

LEMMA CountInit == Init => CountersMatchDevice
<1> SUFFICES ASSUME Init, NEW k \in Kind
             PROVE  inFlight[k] = Cardinality(Outstanding(k)) + Sending(k)
  BY DEF CountersMatchDevice
<1>1. Outstanding(k) = {} /\ Sending(k) = 0 /\ inFlight[k] = 0
  BY DEF Init, Outstanding, Sending
<1> QED
  BY <1>1, FS_EmptySet

LEMMA CountStep ==
  TypeOK /\ TagsOwned /\ CountersMatchDevice /\ [Next]_vars => CountersMatchDevice'
<1> SUFFICES ASSUME TypeOK, TagsOwned, CountersMatchDevice, [Next]_vars,
                    NEW k \in Kind, Counted(k)'
             PROVE  inFlight'[k] = Cardinality(Outstanding(k)') + Sending(k)'
  BY DEF CountersMatchDevice
<1>a. Cardinality(Outstanding(k)) \in Nat /\ IsFiniteSet(Outstanding(k)) /\ inFlight[k] \in Int
  BY OutstandingFinite DEF TypeOK
<1>b. ASSUME program' = program, repeats' = repeats
      PROVE  inFlight[k] = Cardinality(Outstanding(k)) + Sending(k)
  <2>1. Counted(k)
    BY <1>b DEF Counted, Exact, This
  <2> QED
    BY <2>1 DEF CountersMatchDevice
<1>1. ASSUME program' = program, repeats' = repeats, inFlight' = inFlight, sent' = sent,
             answers' = answers, Sending(k)' = Sending(k)
      PROVE  inFlight'[k] = Cardinality(Outstanding(k)') + Sending(k)'
  BY <1>1, <1>b DEF Outstanding
<1>2. CASE TakeTag \/ FillBuffer
  BY <1>1, <1>2 DEF TakeTag, FillBuffer, fixed, tables, device, Sending
<1>3. CASE Drained \/ ClearBuffers \/ BeginTest \/ Report
  <2>1. stage = "take"
    BY <1>3 DEF Drained, ClearBuffers, BeginTest, Report, Kind, TypeOK
  <2>2. stage' = stage
    BY <1>3 DEF Drained, ClearBuffers, BeginTest, Report
  <2>3. Sending(k)' = Sending(k)
    BY <2>1, <2>2 DEF Sending
  <2> QED
    BY <1>1, <1>3, <2>3 DEF Drained, ClearBuffers, BeginTest, Report, fixed, tables, device
<1>4. CASE CallbackNext /\ ~\E a \in answers : Answered(a)
  BY <1>1, <1>4 DEF CallbackNext, CheckRead, fixed, tables, device, mainThread, Sending, Step, This
<1>5. CASE UNCHANGED vars
  BY <1>1, <1>5 DEF vars, Sending, Step, This
<1>6. CASE CountRequest
  <2>1. /\ program' = program /\ repeats' = repeats /\ sent' = sent /\ answers' = answers
        /\ stage = "count" /\ stage' = "send" /\ at' = at
        /\ inFlight' = [inFlight EXCEPT ![Step.do] = @ + 1]
    BY <1>6 DEF CountRequest, fixed, device
  <2>2. inFlight[k] = Cardinality(Outstanding(k)) + Sending(k) /\ Sending(k) = 0
    BY <1>b, <2>1 DEF Sending
  <2>3. Outstanding(k)' = Outstanding(k) /\ Step' = Step
    BY <2>1 DEF Outstanding, Step, This
  <2>4. inFlight'[k] = IF k = Step.do THEN inFlight[k] + 1 ELSE inFlight[k]
    BY <2>1 DEF TypeOK
  <2>5. Sending(k)' = IF k = Step.do THEN 1 ELSE 0
    BY <2>1, <2>3 DEF Sending
  <2> QED
    BY <1>a, <2>2, <2>3, <2>4, <2>5
<1>7. CASE SendRequest
  <2>1. PICK r \in Request : /\ r.kind = Step.do /\ r.tag = held.tag
                             /\ sent' = sent \union {r}
    BY <1>7, SendRequestEffect
  <2>2. /\ stage = "send" /\ stage' = "take" /\ program' = program
        /\ inFlight' = inFlight /\ repeats' = repeats /\ answers' = answers
    BY <1>7, SendRequestEffect
  <2>3. inFlight[k] = Cardinality(Outstanding(k)) + Sending(k) /\ Sending(k)' = 0
    BY <1>b, <2>2 DEF Sending
  <2>4. CASE k = Step.do
    <3>1. r \notin Outstanding(k) /\ Outstanding(k)' = Outstanding(k) \union {r}
      BY <2>1, <2>2, <2>4 DEF Outstanding, TagsOwned, InDevice
    <3>2. Cardinality(Outstanding(k)') = Cardinality(Outstanding(k)) + 1
      BY <1>a, <3>1, FS_AddElement
    <3>3. Sending(k) = 1
      BY <2>2, <2>4 DEF Sending
    <3> QED
      BY <1>a, <2>2, <2>3, <3>2, <3>3
  <2>5. CASE k # Step.do
    <3>1. Outstanding(k)' = Outstanding(k) /\ Sending(k) = 0
      BY <2>1, <2>2, <2>5 DEF Outstanding, Sending
    <3> QED
      BY <1>a, <2>2, <2>3, <3>1
  <2> QED
    BY <2>4, <2>5
<1>8. ASSUME NEW r \in sent, Execute(r)
      PROVE  inFlight'[k] = Cardinality(Outstanding(k)') + Sending(k)'
  <2>1. /\ program' = program /\ at' = at /\ stage' = stage /\ inFlight' = inFlight
        /\ repeats' = repeats /\ sent' = sent \ {r} /\ answers' = answers \union {r}
    BY <1>8, ExecuteEffect
  <2>2. Outstanding(k)' = Outstanding(k) /\ Sending(k)' = Sending(k)
    BY <2>1 DEF Outstanding, Sending, Step, This
  <2> QED
    BY <1>b, <2>1, <2>2
<1>9. ASSUME NEW a \in answers, Answered(a)
      PROVE  inFlight'[k] = Cardinality(Outstanding(k)') + Sending(k)'
  <2>1. /\ a.kind \in Kind /\ program' = program /\ at' = at /\ stage' = stage /\ repeats' = repeats
        /\ sent' = sent /\ answers' = answers \ {a}
        /\ inFlight' = [inFlight EXCEPT ![a.kind] = CountAfter(a.kind, a.tag \in busy[a.kind])]
    BY <1>9, AnsweredEffect
  <2>2. Sending(k)' = Sending(k) /\ Sending(k) \in {0, 1}
    BY <2>1 DEF Sending, Step, This
  <2>3. inFlight[k] = Cardinality(Outstanding(k)) + Sending(k)
    BY <1>b, <2>1
  <2>4. CASE k = a.kind
    <3>1. a.tag \in busy[k] /\ a \notin sent
      BY <2>4 DEF TagsOwned, InDevice
    <3>2. a \in Outstanding(k) /\ Outstanding(k)' = Outstanding(k) \ {a}
      BY <2>1, <2>4, <3>1 DEF Outstanding
    <3>3. Cardinality(Outstanding(k)') = Cardinality(Outstanding(k)) - 1
      BY <1>a, <3>2, FS_RemoveElement
    <3>4. Cardinality(Outstanding(k)') \in Nat
      <4>1. IsFiniteSet(Outstanding(k)')
        BY <1>a, <3>2, FS_RemoveElement
      <4> QED
        BY <4>1, FS_CardinalityType
    <3>5. inFlight[k] - 1 >= 0
      BY <1>a, <2>2, <2>3, <3>3, <3>4
    <3>6. inFlight'[k] = CountAfter(k, a.tag \in busy[k])
      BY <2>1, <2>4 DEF TypeOK
    <3>7. inFlight'[k] = inFlight[k] - 1
      BY <1>a, <3>1, <3>5, <3>6 DEF CountAfter
    <3> QED
      BY <1>a, <2>2, <2>3, <3>3, <3>7
  <2>5. CASE k # a.kind
    <3>1. Outstanding(k)' = Outstanding(k) /\ inFlight'[k] = inFlight[k]
      BY <2>1, <2>5 DEF Outstanding, TypeOK
    <3> QED
      BY <2>2, <2>3, <3>1
  <2> QED
    BY <2>4, <2>5
<1>10. ASSUME NEW j \in Kind, NEW t \in Tag, Repeat(j, t)
       PROVE  inFlight'[k] = Cardinality(Outstanding(k)') + Sending(k)'
  <2>1. /\ program' = program /\ at' = at /\ stage' = stage
        /\ answers' = answers /\ sent' = sent /\ repeats' = repeats + 1
        /\ inFlight' = [inFlight EXCEPT ![j] = CountAfter(j, FALSE)]
    BY <1>10 DEF Repeat, fixed, device, mainThread
  <2>2. Exact(k) /\ Counted(k)
    BY <2>1 DEF Counted, Exact, This, TypeOK
  <2>3. inFlight[k] = Cardinality(Outstanding(k)) + Sending(k) /\ Sending(k) \in {0, 1}
    BY <2>2 DEF CountersMatchDevice, Sending
  <2>4. inFlight[k] >= 0
    BY <1>a, <2>3
  <2>5. CountAfter(k, FALSE) = inFlight[k]
    BY <1>a, <2>2, <2>4 DEF CountAfter, Exact
  <2>6. inFlight'[k] = inFlight[k]
    BY <2>1, <2>5 DEF TypeOK
  <2>7. Outstanding(k)' = Outstanding(k) /\ Sending(k)' = Sending(k)
    BY <2>1 DEF Outstanding, Sending, Step, This
  <2> QED
    BY <2>3, <2>6, <2>7
<1> QED
  BY <1>2, <1>3, <1>4, <1>5, <1>6, <1>7, <1>8, <1>9, <1>10
     DEF Next, MainNext, DeviceNext, CallbackNext, RepeatNext

(***************************************************************************)
(* The phases: while requests of a kind are in the device, main is at a    *)
(* place that may find them there, and no others.                          *)
(***************************************************************************)
PhasesKept == Sound => \A k \in Kind : Outstanding(k) # {} => MayOwe(This.script, k, at)
OneKind == Sound => \A r, s \in InDevice : r.kind = s.kind

LEMMA MayOweNext ==
  ASSUME NEW script, NEW k, NEW j \in Nat \ {0}
  PROVE  /\ script[j].do = k => MayOwe(script, k, j + 1)
         /\ MayOwe(script, k, j) /\ ~(script[j].do = "drain" /\ script[j].kind = k)
              => MayOwe(script, k, j + 1)
<1>1. ASSUME script[j].do = k
      PROVE  MayOwe(script, k, j + 1)
  <2>1. j \in 1..((j + 1) - 1) /\ (j + 1)..((j + 1) - 1) = {}
    OBVIOUS
  <2> QED
    BY <1>1, <2>1 DEF MayOwe
<1>2. ASSUME MayOwe(script, k, j), ~(script[j].do = "drain" /\ script[j].kind = k)
      PROVE  MayOwe(script, k, j + 1)
  <2>1. PICK i \in 1..(j - 1) :
           /\ script[i].do = k
           /\ \A d \in (i + 1)..(j - 1) : ~(script[d].do = "drain" /\ script[d].kind = k)
    BY <1>2 DEF MayOwe
  <2>2. i \in 1..((j + 1) - 1)
    BY <2>1
  <2>3. \A d \in (i + 1)..((j + 1) - 1) : d \in (i + 1)..(j - 1) \/ d = j
    BY <2>1
  <2>4. \A d \in (i + 1)..((j + 1) - 1) : ~(script[d].do = "drain" /\ script[d].kind = k)
    BY <1>2, <2>1, <2>3
  <2> QED
    BY <2>1, <2>2, <2>4 DEF MayOwe
<1> QED
  BY <1>1, <1>2

(* Once an answer too many has been miscounted, nothing is promised. *)
LEMMA StaysUnsound ==
  ASSUME TypeOK, [Next]_vars, Sound'
  PROVE  Sound /\ program' = program
<1>1. program' = program /\ (repeats' = repeats \/ repeats' = repeats + 1)
  BY DEF Next, MainNext, DeviceNext, CallbackNext, RepeatNext, TakeTag, FillBuffer, CountRequest,
         SendRequest, Drained, ClearBuffers, BeginTest, Report, Execute, CheckRead, Answered,
         Repeat, fixed, vars
<1>2. \A k \in Kind : Counted(k)' => Counted(k)
  BY <1>1 DEF Counted, Exact, This, TypeOK
<1> QED
  BY <1>1, <1>2 DEF Sound

LEMMA PhasesInit == Init => PhasesKept /\ OneKind
BY DEF Init, PhasesKept, OneKind, InDevice, Outstanding

LEMMA PhasesStep ==
  TypeOK /\ TagsOwned /\ CountersMatchDevice /\ PhasesKept /\ OneKind /\ [Next]_vars
    => PhasesKept' /\ OneKind'
<1> SUFFICES ASSUME TypeOK, TagsOwned, CountersMatchDevice, PhasesKept, OneKind, [Next]_vars, Sound'
             PROVE  /\ \A k \in Kind : Outstanding(k)' # {} => MayOwe(This.script, k, at)'
                    /\ \A r, s \in InDevice' : r.kind = s.kind
  BY DEF PhasesKept, OneKind
<1>a. Sound /\ This' = This
  BY StaysUnsound DEF This
<1>b. /\ \A k \in Kind : Outstanding(k) # {} => MayOwe(This.script, k, at)
      /\ \A r, s \in InDevice : r.kind = s.kind
  BY <1>a DEF PhasesKept, OneKind
<1>c. at \in Nat \ {0}
  BY DEF TypeOK
<1> DEFINE Goal == /\ \A k \in Kind : Outstanding(k)' # {} => MayOwe(This.script, k, at)'
                   /\ \A r, s \in InDevice' : r.kind = s.kind
<1>1. ASSUME at' = at, InDevice' \subseteq InDevice
      PROVE  Goal
  <2>1. \A k \in Kind : Outstanding(k)' \subseteq Outstanding(k)
    BY <1>1 DEF Outstanding, InDevice
  <2>2. \A k \in Kind : MayOwe(This.script, k, at)' <=> MayOwe(This.script, k, at)
    BY <1>1, <1>a DEF MayOwe
  <2> QED
    BY <1>1, <1>b, <2>1, <2>2
<1>2. CASE TakeTag \/ FillBuffer \/ CountRequest
  BY <1>1, <1>2 DEF TakeTag, FillBuffer, CountRequest, device, InDevice
<1>3. CASE CallbackNext \/ RepeatNext \/ UNCHANGED vars
  <2>1. at' = at /\ InDevice' \subseteq InDevice
    BY <1>3 DEF CallbackNext, RepeatNext, CheckRead, Answered, Repeat, mainThread, device, InDevice, vars
  <2> QED
    BY <1>1, <2>1
<1>4. ASSUME NEW r \in sent, Execute(r)
      PROVE  Goal
  <2>1. at' = at /\ InDevice' = InDevice
    BY <1>4, ExecuteEffect DEF InDevice
  <2> QED
    BY <1>1, <2>1
<1>5. ASSUME at' = at + 1, sent' = sent, answers' = answers,
             \A k \in Kind : Step.do = "drain" /\ Step.kind = k => Outstanding(k) = {}
      PROVE  Goal
  <2>1. InDevice' = InDevice /\ \A k \in Kind : Outstanding(k)' = Outstanding(k)
    BY <1>5 DEF InDevice, Outstanding
  <2>2. ASSUME NEW k \in Kind, Outstanding(k) # {}
        PROVE  MayOwe(This.script, k, at)'
    <3>1. MayOwe(This.script, k, at) /\ ~(This.script[at].do = "drain" /\ This.script[at].kind = k)
      BY <1>b, <1>5, <2>2 DEF Step
    <3>2. MayOwe(This.script, k, at + 1)
      BY <1>c, <3>1, MayOweNext
    <3> QED
      BY <1>a, <1>5, <3>2 DEF MayOwe
  <2> QED
    BY <1>b, <2>1, <2>2
<1>6. CASE Drained
  <2>1. /\ at' = at + 1 /\ sent' = sent /\ answers' = answers
        /\ inFlight[Step.kind] = 0 /\ Step.do = "drain"
    BY <1>6 DEF Drained, device
  <2>2. stage = "take"
    BY <2>1 DEF TypeOK, Kind
  <2>3. ASSUME NEW k \in Kind, Step.kind = k
        PROVE  Outstanding(k) = {}
    <3>1. inFlight[k] = Cardinality(Outstanding(k)) + Sending(k)
      BY <1>a DEF Sound, CountersMatchDevice
    <3>2. Sending(k) = 0 /\ inFlight[k] = 0
      BY <2>1, <2>2, <2>3 DEF Sending
    <3>3. Cardinality(Outstanding(k)) = 0 /\ IsFiniteSet(Outstanding(k))
      BY <3>1, <3>2, OutstandingFinite
    <3> QED
      BY <3>3, FS_EmptySet
  <2> QED
    BY <1>5, <2>1, <2>3
<1>7. CASE ClearBuffers \/ BeginTest \/ Report
  <2>1. at' = at + 1 /\ sent' = sent /\ answers' = answers /\ Step.do # "drain"
    BY <1>7 DEF ClearBuffers, BeginTest, Report, device
  <2> QED
    BY <1>5, <2>1
<1>8. CASE SendRequest
  <2>1. PICK r \in Request : r.kind = Step.do /\ sent' = sent \union {r}
    BY <1>8, SendRequestEffect
  <2>2. stage = "send" /\ at' = at + 1 /\ answers' = answers
    BY <1>8, SendRequestEffect
  <2>3. at \in 1..Len(This.script) /\ This.script[at].do \in Kind
    BY <2>2, ThisProgram DEF TypeOK, Ended, Step, WellFormed
  <2>4. \A k \in Kind \ {Step.do} : ~MayOwe(This.script, k, at)
    BY <2>3, ThisProgram DEF Drains, Step
  <2>5. \A k \in Kind \ {Step.do} : Outstanding(k) = {}
    BY <1>b, <2>4
  <2>6. \A s \in InDevice : s.kind \in Kind /\ s \in Outstanding(s.kind)
    BY DEF InDevice, Outstanding, TypeOK, Request
  <2>7. \A s \in InDevice : s.kind = Step.do
    BY <2>5, <2>6
  <2>8. InDevice' = InDevice \union {r}
    BY <2>1, <2>2 DEF InDevice
  <2>9. \A s \in InDevice' : s.kind = Step.do
    BY <2>1, <2>7, <2>8
  <2>10. ASSUME NEW k \in Kind, Outstanding(k)' # {}
         PROVE  MayOwe(This.script, k, at)'
    <3>1. k = Step.do
      BY <2>9, <2>10 DEF Outstanding, InDevice
    <3>2. MayOwe(This.script, k, at + 1)
      BY <1>c, <3>1, MayOweNext DEF Step
    <3> QED
      BY <1>a, <2>2, <3>2 DEF MayOwe
  <2> QED
    BY <2>9, <2>10
<1> QED
  BY <1>2, <1>3, <1>4, <1>6, <1>7, <1>8 DEF Next, MainNext, DeviceNext

(***************************************************************************)
(* The buffers and addresses of tags.                                      *)
(***************************************************************************)
BuffersTyped ==
  /\ DOMAIN readBuf = Tag /\ DOMAIN writeBuf = Tag
  /\ DOMAIN address = {"read", "erase"} /\ DOMAIN address["read"] = Tag
  /\ stage = "fill" => Step.do = "write"

Filled(t, p) == This.fills => writeBuf[t] = This.golden[p]
Recorded(t, p) == "read" \in This.records => address["read"][t] = p

BuffersKept ==
  Sound => /\ stage \in {"count", "send"} /\ Step.do = "write" => Filled(held.tag, held.page)
           /\ stage = "send" /\ Step.do = "read" => Recorded(held.tag, held.page)
           /\ \A r \in sent : r.kind = "write" => Filled(r.tag, r.page)
           /\ \A r \in InDevice : r.kind = "read" => Recorded(r.tag, r.page)
           /\ \A r \in answers : r.kind = "read" => readBuf[r.tag] = flash[r.page]

LEMMA BuffersInit == Init => BuffersTyped /\ BuffersKept
BY DEF Init, BuffersTyped, BuffersKept, InDevice

LEMMA BuffersTypedStep == TypeOK /\ BuffersTyped /\ [Next]_vars => BuffersTyped'
<1> SUFFICES ASSUME TypeOK, BuffersTyped, [Next]_vars PROVE BuffersTyped'
  OBVIOUS
<1> USE DEF BuffersTyped
<1>1. CASE TakeTag
  BY <1>1 DEF TakeTag, fixed, Step, This
<1>2. CASE FillBuffer
  BY <1>2 DEF FillBuffer, fixed, tables, Step, This
<1>3. CASE CountRequest
  BY <1>3 DEF CountRequest, fixed, Step, This
<1>4. CASE SendRequest
  BY <1>4 DEF SendRequest, fixed, tables, Step, This
<1>5. CASE Drained \/ BeginTest \/ Report \/ ClearBuffers
  <2>1. stage = "take"
    BY <1>5 DEF Drained, ClearBuffers, BeginTest, Report, Kind, TypeOK
  <2> QED
    BY <1>5, <2>1 DEF Drained, BeginTest, Report, ClearBuffers, fixed, tables
<1>6. CASE DeviceNext
  BY <1>6 DEF DeviceNext, Execute, fixed, tables, mainThread, Step, This
<1>7. CASE CallbackNext
  BY <1>7 DEF CallbackNext, CheckRead, Answered, fixed, tables, mainThread, Step, This
<1>8. CASE RepeatNext
  BY <1>8 DEF RepeatNext, Repeat, fixed, mainThread, Step, This
<1>9. CASE UNCHANGED vars
  BY <1>9 DEF vars, Step, This
<1> QED
  BY <1>1, <1>2, <1>3, <1>4, <1>5, <1>6, <1>7, <1>8, <1>9 DEF Next, MainNext

LEMMA BuffersStep ==
  TypeOK /\ TagsOwned /\ PhasesKept /\ OneKind /\ BuffersTyped /\ BuffersKept /\ [Next]_vars
    => BuffersKept'
<1> SUFFICES ASSUME TypeOK, TagsOwned, PhasesKept, OneKind, BuffersTyped, BuffersKept, [Next]_vars,
                    Sound'
             PROVE  BuffersKept'
  BY DEF BuffersKept
<1>a. Sound /\ This' = This
  BY StaysUnsound DEF This
<1>b. /\ stage \in {"count", "send"} /\ Step.do = "write" => Filled(held.tag, held.page)
      /\ stage = "send" /\ Step.do = "read" => Recorded(held.tag, held.page)
      /\ \A r \in sent : r.kind = "write" => Filled(r.tag, r.page)
      /\ \A r \in InDevice : r.kind = "read" => Recorded(r.tag, r.page)
      /\ \A r \in answers : r.kind = "read" => readBuf[r.tag] = flash[r.page]
  BY <1>a DEF BuffersKept
<1>c. \A r \in InDevice : r.kind \in Kind /\ r.tag \in Tag
  BY DEF InDevice, TypeOK, Request
(* steps that leave the buffers, addresses and pages alone *)
<1>1. ASSUME at' = at, held' = held, sent' = sent, answers' \subseteq answers, readBuf' = readBuf,
             writeBuf' = writeBuf, address' = address, flash' = flash, stage' = stage
      PROVE  BuffersKept'
  BY <1>1, <1>a, <1>b DEF BuffersKept, Filled, Recorded, InDevice, Step
<1>2. ASSUME stage' = "take", sent' = sent, answers' = answers, readBuf' = readBuf,
             writeBuf' = writeBuf, address' = address, flash' = flash
      PROVE  BuffersKept'
  BY <1>2, <1>a, <1>b DEF BuffersKept, Filled, Recorded, InDevice
<1>3. CASE TakeTag
  <2>1. /\ sent' = sent /\ answers' = answers /\ readBuf' = readBuf /\ writeBuf' = writeBuf
        /\ address' = address /\ flash' = flash /\ at' = at
        /\ stage' = IF Step.do = "write" /\ This.fills THEN "fill" ELSE "count"
    BY <1>3 DEF TakeTag, device
  <2>2. Step' = Step
    BY <2>1, <1>a DEF Step
  <2> QED
    BY <2>1, <2>2, <1>a, <1>b DEF BuffersKept, Filled, Recorded, InDevice
<1>4. CASE FillBuffer
  <2>1. /\ sent' = sent /\ answers' = answers /\ readBuf' = readBuf /\ address' = address
        /\ flash' = flash /\ at' = at /\ held' = held /\ stage = "fill" /\ stage' = "count"
        /\ writeBuf' = [writeBuf EXCEPT ![held.tag] = This.golden[held.page]]
    BY <1>4 DEF FillBuffer, device, tables
  <2>2. Step.do = "write" /\ Step' = Step /\ held.tag \in Tag
    BY <2>1, <1>a DEF BuffersTyped, Step, TypeOK
  <2>3. \A r \in sent : r.kind = "write" => r.tag # held.tag /\ r.tag \in Tag
    BY <2>1, <2>2, <1>c DEF TagsOwned, InDevice
  <2>4. \A r \in sent : r.kind = "write" => Filled(r.tag, r.page)'
    BY <2>1, <2>3, <1>a, <1>b DEF Filled, BuffersTyped
  <2>5. Filled(held.tag, held.page)'
    BY <2>1, <2>2, <1>a DEF Filled, BuffersTyped
  <2> QED
    BY <2>1, <2>2, <2>4, <2>5, <1>a, <1>b DEF BuffersKept, Recorded, InDevice
<1>5. CASE CountRequest
  <2>1. /\ sent' = sent /\ answers' = answers /\ readBuf' = readBuf /\ writeBuf' = writeBuf
        /\ flash' = flash /\ at' = at /\ held' = held /\ stage = "count" /\ stage' = "send"
        /\ address' = IF Step.do \in This.records
                      THEN [address EXCEPT ![Step.do][held.tag] = held.page] ELSE address
    BY <1>5 DEF CountRequest, device
  <2>2. Step' = Step /\ held.tag \in Tag
    BY <2>1, <1>a DEF Step, TypeOK
  <2>3. \A r \in InDevice : r.kind = "read" => Recorded(r.tag, r.page)'
    <3>1. CASE Step.do = "read"
      <4>1. \A r \in InDevice : r.kind = "read" => r.tag # held.tag /\ r.tag \in Tag
        BY <2>1, <3>1, <1>c DEF TagsOwned
      <4>2. \A t \in Tag : t # held.tag => address'["read"][t] = address["read"][t]
        BY <2>1 DEF BuffersTyped
      <4> QED
        BY <4>1, <4>2, <1>a, <1>b DEF Recorded
    <3>2. CASE Step.do # "read"
      <4>1. address'["read"] = address["read"]
        BY <2>1, <3>2 DEF BuffersTyped
      <4> QED
        BY <4>1, <1>a, <1>b DEF Recorded
    <3> QED
      BY <3>1, <3>2
  <2>4. Step.do = "read" => Recorded(held.tag, held.page)'
    BY <2>1, <2>2, <1>a DEF Recorded, BuffersTyped
  <2>5. InDevice' = InDevice
    BY <2>1 DEF InDevice
  <2> QED
    BY <2>1, <2>2, <2>3, <2>4, <2>5, <1>a, <1>b DEF BuffersKept, Filled
<1>6. CASE SendRequest
  <2>1. PICK r \in Request : /\ r.kind = Step.do /\ r.tag = held.tag /\ r.page = held.page
                             /\ sent' = sent \union {r}
    BY <1>6, SendRequestEffect
  <2>2. /\ stage = "send" /\ stage' = "take" /\ answers' = answers /\ readBuf' = readBuf
        /\ writeBuf' = writeBuf /\ address' = address /\ flash' = flash
    BY <1>6 DEF SendRequest, tables
  <2>3. /\ r.kind = "write" => Filled(r.tag, r.page)
        /\ r.kind = "read" => Recorded(r.tag, r.page)
    BY <2>1, <2>2, <1>b
  <2>4. InDevice' = InDevice \union {r}
    BY <2>1, <2>2 DEF InDevice
  <2>5. \A s \in sent' : s.kind = "write" => Filled(s.tag, s.page)'
    BY <2>1, <2>2, <2>3, <1>a, <1>b DEF Filled
  <2>6. \A s \in InDevice' : s.kind = "read" => Recorded(s.tag, s.page)'
    BY <2>2, <2>3, <2>4, <1>a, <1>b DEF Recorded
  <2> QED
    BY <2>2, <2>5, <2>6, <1>b DEF BuffersKept
<1>7. CASE Drained \/ BeginTest \/ Report
  <2>1. stage' = "take"
    BY <1>7 DEF Drained, BeginTest, Report, Kind, TypeOK
  <2> QED
    BY <1>2, <1>7, <2>1 DEF Drained, BeginTest, Report, tables, device
<1>8. CASE ClearBuffers
  <2>1. /\ stage' = "take" /\ sent' = sent /\ answers' = answers
        /\ writeBuf' = writeBuf /\ address' = address
    BY <1>8 DEF ClearBuffers, Kind, TypeOK, tables, device
  <2>2. at \in 1..Len(This.script) /\ This.script[at].do = "clear"
    BY <1>8, ThisProgram DEF ClearBuffers, Step, Ended, TypeOK, WellFormed
  <2>3. ~MayOwe(This.script, "read", at)
    BY <2>2, ThisProgram DEF Drains
  <2>4. Outstanding("read") = {}
    BY <2>3, <1>a DEF PhasesKept, Kind
  <2>5. \A r \in answers : r.kind # "read"
    BY <2>4 DEF Outstanding
  <2> QED
    BY <2>1, <2>5, <1>a, <1>b DEF BuffersKept, Filled, Recorded, InDevice
<1>9. ASSUME NEW r \in sent, Execute(r)
      PROVE  BuffersKept'
  <2>1. /\ at' = at /\ stage' = stage /\ held' = held /\ sent' = sent \ {r}
        /\ answers' = answers \union {r} /\ writeBuf' = writeBuf /\ address' = address
    BY <1>9 DEF Execute, mainThread, tables
  <2>2. Step' = Step /\ InDevice' = InDevice /\ r \in InDevice
    BY <2>1, <1>a DEF Step, InDevice
  <2>3. \A a \in answers' : a.kind = "read" => readBuf'[a.tag] = flash'[a.page]
    <3>1. CASE r.kind = "read"
      <4>1. readBuf' = [readBuf EXCEPT ![r.tag] = flash[r.page]] /\ flash' = flash
        BY <1>9, <3>1 DEF Execute
      <4>2. \A a \in answers : a.kind = "read" => a.tag # r.tag
        BY <3>1 DEF TagsOwned, InDevice
      <4> QED
        BY <2>1, <2>2, <4>1, <4>2, <1>b, <1>c DEF BuffersTyped
    <3>2. CASE r.kind # "read"
      <4>1. \A a \in answers' : a.kind # "read"
        BY <2>1, <2>2, <3>2, <1>a DEF OneKind, InDevice
      <4> QED
        BY <4>1
    <3> QED
      BY <3>1, <3>2
  <2> QED
    BY <2>1, <2>2, <2>3, <1>a, <1>b DEF BuffersKept, Filled, Recorded
<1>10. CASE CallbackNext \/ RepeatNext \/ UNCHANGED vars
  BY <1>1, <1>10 DEF CallbackNext, RepeatNext, CheckRead, Answered, Repeat, mainThread, device, vars, tables
<1> QED
  BY <1>3, <1>4, <1>5, <1>6, <1>7, <1>8, <1>9, <1>10 DEF Next, MainNext, DeviceNext

(***************************************************************************)
(* The inductive invariant, and what follows from it.                      *)
(***************************************************************************)
IInv ==
  /\ TypeOK
  /\ TagsOwned /\ QueuedTagsIdle
  /\ CountersMatchDevice
  /\ PhasesKept /\ OneKind
  /\ BuffersTyped /\ BuffersKept

THEOREM IInvHolds == Spec => []IInv
<1>1. Init => IInv
  BY TypeInit, TagsInit, CountInit, PhasesInit, BuffersInit DEF IInv
<1>2. IInv /\ [Next]_vars => IInv'
  BY TypeStep, TagsStep, CountStep, PhasesStep, BuffersTypedStep, BuffersStep DEF IInv
<1> QED
  BY <1>1, <1>2, PTL DEF Spec

(* The main thread's unlocked reads of the counts are right: they are the  *)
(* requests that the device has yet to answer (main.cpp:447).              *)
THEOREM CountsAreRight == Spec => []CountersMatchDevice
<1>1. IInv => CountersMatchDevice
  BY DEF IInv
<1> QED
  BY <1>1, IInvHolds, PTL

(* Three tables of tags are as good as one: the device, which keeps one    *)
(* entry per tag, never has two requests under the same tag.               *)
THEOREM TagsAreDistinct == Spec => []RequestTagsDistinct
<1>1. IInv => RequestTagsDistinct
  BY DEF IInv, RequestTagsDistinct, OneKind, TagsOwned, InDevice
<1> QED
  BY <1>1, IInvHolds, PTL

(* A write is carried out with its page's data in the buffer, and the read *)
(* that a callback checks is in the buffer, of the page the table says.    *)
THEOREM BuffersAreOwned == Spec => []BuffersBelong
<1>1. IInv => BuffersBelong
  BY DEF IInv, BuffersBelong, BuffersKept, Filled, Recorded, InDevice
<1> QED
  BY <1>1, IInvHolds, PTL

(***************************************************************************)
(* The verdicts.  What main knows of the card is what its script says up   *)
(* to where main is, for the pages that no request on its way will change. *)
(***************************************************************************)
(* Main's place, with the request that it has counted and is about to send: *)
(* what the card has yet to do, and what main has yet to hear of.          *)
Steps == This.script
Here == IF stage = "send" THEN at + 1 ELSE at
Making == IF stage = "send" THEN {[kind |-> Step.do, tag |-> held.tag, page |-> held.page]} ELSE {}
ToDo == sent \union Making
Owed == ToDo \union answers

VerdictTyped ==
  /\ Here <= Len(Steps) + 1
  /\ stage # "take" => held.page \in Step.pages
  /\ DOMAIN status = Units /\ DOMAIN flash = Page /\ DOMAIN badTable = Block
  /\ DOMAIN address["erase"] = Tag
  /\ bad \subseteq Block /\ (This.translated => bad = {})
  /\ testPassed \in BOOLEAN /\ checked.pass \in BOOLEAN

(* Every request owed was made at a place not waited for since. *)
MadeAt(r, i) ==
  /\ i \in 1..(Here - 1)
  /\ Steps[i].do = r.kind /\ r.page \in Steps[i].pages
  /\ \A d \in (i + 1)..(Here - 1) : ~(Steps[d].do = "drain" /\ Steps[d].kind = r.kind)
Sourced == \A r \in Owed : \E i \in 1..(Here - 1) : MadeAt(r, i)

LEMMA Disciplined ==
  ASSUME TypeOK
  PROVE  NamesBlocks(This) /\ KnowsWhatItReads(This) /\ JudgesWhatItErased(This)
BY VerdictAssumption DEF TypeOK, This

(* How what a script says changes as main goes on. *)
LEMMA ErasedNext ==
  ASSUME NEW script, NEW j \in Nat \ {0}, NEW b
  PROVE  ErasedBefore(script, j + 1, b) <=> ErasedBefore(script, j, b) \/ For(script[j], "erase", b)
<1>1. 1..((j + 1) - 1) = 1..(j - 1) \union {j}
  OBVIOUS
<1> QED
  BY <1>1 DEF ErasedBefore

LEMMA BlankNext ==
  ASSUME NEW script, NEW j \in Nat \ {0}, NEW b, Blank(script, j + 1, b)
  PROVE  /\ Blank(script, j, b) \/ For(script[j], "erase", b)
         /\ ~For(script[j], "write", b)
<1>1. PICK i \in 1..((j + 1) - 1) :
         /\ For(script[i], "erase", b)
         /\ \A d \in (i + 1)..((j + 1) - 1) : ~For(script[d], "write", b)
  BY DEF Blank
<1>2. CASE i = j
  BY <1>1, <1>2 DEF For
<1>3. CASE i # j
  <2>1. i \in 1..(j - 1) /\ j \in (i + 1)..((j + 1) - 1)
        /\ \A d \in (i + 1)..(j - 1) : d \in (i + 1)..((j + 1) - 1)
    BY <1>3
  <2> QED
    BY <1>1, <2>1 DEF Blank
<1> QED
  BY <1>2, <1>3

LEMMA WroteNext ==
  ASSUME NEW script, NEW j \in Nat \ {0}, NEW p, Wrote(script, j + 1, p)
  PROVE  \/ script[j].do = "write" /\ p \in script[j].pages
         \/ Wrote(script, j, p) /\ ~For(script[j], "erase", BlockOf(p))
<1>1. PICK i \in 1..((j + 1) - 1) :
         /\ script[i].do = "write" /\ p \in script[i].pages
         /\ \A d \in (i + 1)..((j + 1) - 1) : ~For(script[d], "erase", BlockOf(p))
  BY DEF Wrote
<1>2. CASE i = j
  BY <1>1, <1>2
<1>3. CASE i # j
  <2>1. i \in 1..(j - 1) /\ j \in (i + 1)..((j + 1) - 1)
        /\ \A d \in (i + 1)..(j - 1) : d \in (i + 1)..((j + 1) - 1)
    BY <1>3
  <2> QED
    BY <1>1, <2>1 DEF Wrote
<1> QED
  BY <1>2, <1>3

(***************************************************************************)
(* What the actions do to the place, the requests owed and the rest.       *)
(***************************************************************************)
LEMMA OwedTyped ==
  ASSUME TypeOK
  PROVE  Owed \subseteq Request /\ ToDo \subseteq Request
<1>1. Making \subseteq Request
  BY DEF Making, TypeOK, Request
<1> QED
  BY <1>1 DEF Owed, ToDo, TypeOK

Unmoved == Here' = Here /\ ToDo' = ToDo /\ Owed' = Owed /\ Steps' = Steps /\ This' = This

LEMMA QuietKeepsPlace ==
  ASSUME TypeOK, TakeTag \/ FillBuffer \/ SendRequest \/ UNCHANGED vars
  PROVE  /\ Unmoved
         /\ UNCHANGED <<bad, answers, status, flash, badTable, testPassed, checked, report, address>>
<1> USE DEF Unmoved
<1>1. CASE TakeTag
  <2>1. stage = "take" /\ stage' # "send" /\ at' = at /\ sent' = sent /\ answers' = answers
        /\ program' = program
    BY <1>1 DEF TakeTag, fixed, device
  <2> QED
    BY <1>1, <2>1 DEF TakeTag, fixed, device, Here, ToDo, Owed, Making, Steps, This
<1>2. CASE FillBuffer
  <2>1. stage = "fill" /\ stage' = "count" /\ at' = at /\ sent' = sent /\ answers' = answers
        /\ program' = program
    BY <1>2 DEF FillBuffer, fixed, device
  <2> QED
    BY <1>2, <2>1 DEF FillBuffer, fixed, device, tables, Here, ToDo, Owed, Making, Steps, This
<1>3. CASE SendRequest
  <2>1. /\ stage = "send" /\ stage' = "take" /\ at' = at + 1 /\ program' = program /\ answers' = answers
        /\ sent' = sent \union {[kind |-> Step.do, tag |-> held.tag, page |-> held.page]}
    BY <1>3 DEF SendRequest, fixed
  <2>2. ToDo' = ToDo /\ Here' = Here
    BY <2>1 DEF ToDo, Making, Here
  <2> QED
    BY <1>3, <2>1, <2>2 DEF SendRequest, fixed, tables, Owed, Steps, This
<1>4. CASE UNCHANGED vars
  BY <1>4 DEF vars, Here, ToDo, Owed, Making, Steps, This, Step
<1> QED
  BY <1>1, <1>2, <1>3, <1>4

(* A request is made, *)
Makes(r) ==
  /\ r \in Request /\ r.kind = Step.do /\ r.tag = held.tag /\ r.page = held.page
  /\ at \in 1..Len(Steps) /\ Steps[at] = Step
  /\ Here = at /\ Here' = at + 1 /\ Steps' = Steps /\ This' = This
  /\ ToDo' = ToDo \union {r} /\ Owed' = Owed \union {r} /\ stage = "count"

LEMMA CountMakes ==
  ASSUME TypeOK, CountRequest
  PROVE  /\ \E r \in Request : Makes(r)
         /\ UNCHANGED <<bad, answers, flash, badTable, testPassed, checked, report>>
<1> DEFINE r == [kind |-> Step.do, tag |-> held.tag, page |-> held.page]
<1>1. /\ stage = "count" /\ stage' = "send" /\ at' = at /\ held' = held /\ program' = program
      /\ sent' = sent /\ answers' = answers
  BY DEF CountRequest, fixed, device
<1>2. r \in Request /\ r.kind = Step.do /\ r.tag = held.tag /\ r.page = held.page
  BY <1>1 DEF TypeOK, Request
<1>3. Step' = Step /\ This' = This /\ Steps' = Steps
  BY <1>1 DEF Step, This, Steps
<1>4. Making = {} /\ Making' = {r}
  BY <1>1, <1>3 DEF Making
<1>5. at \in 1..Len(Steps) /\ Steps[at] = Step
  BY <1>1, ThisProgram DEF TypeOK, Ended, WellFormed, Steps, Step
<1> HIDE DEF r
<1>6. Makes(r)
  BY <1>1, <1>2, <1>3, <1>4, <1>5 DEF Makes, ToDo, Owed, Here
<1> QED
  BY <1>2, <1>6 DEF CountRequest, fixed, device

(* or main goes on without one; *)
Passed ==
  /\ at \in 1..Len(Steps) /\ Steps[at] = Step /\ stage = "take"
  /\ Here = at /\ Here' = at + 1 /\ Steps' = Steps /\ This' = This
  /\ ToDo' = ToDo /\ Owed' = Owed /\ Owed = InDevice
  /\ Step.do \notin Kind

LEMMA GoesOn ==
  ASSUME TypeOK, Drained \/ ClearBuffers \/ BeginTest \/ Report
  PROVE  /\ Passed
         /\ UNCHANGED <<bad, answers, status, flash, badTable, checked, address>>
         /\ ~BeginTest => testPassed' = testPassed
         /\ ~Report => report' = report
<1>1. Step.do \notin Kind /\ ~Ended
  BY DEF Drained, ClearBuffers, BeginTest, Report, Kind
<1>2. stage = "take"
  BY <1>1 DEF TypeOK
<1>3. /\ stage' = stage /\ at' = at + 1 /\ program' = program /\ sent' = sent /\ answers' = answers
  BY DEF Drained, ClearBuffers, BeginTest, Report, fixed, device
<1>4. at \in 1..Len(Steps) /\ Steps[at] = Step
  BY <1>1, ThisProgram DEF TypeOK, Ended, WellFormed, Steps, Step
<1>5. Passed
  BY <1>1, <1>2, <1>3, <1>4 DEF Passed, Here, ToDo, Owed, InDevice, Making, Steps, This
<1> QED
  BY <1>5 DEF Drained, ClearBuffers, BeginTest, Report, fixed, device, tables

(* the card carries out a request; *)
LEMMA ExecuteDone ==
  ASSUME TypeOK, NEW r \in sent, Execute(r)
  PROVE  /\ Here' = Here /\ Steps' = Steps /\ This' = This /\ Owed' = Owed
         /\ ToDo' \subseteq ToDo /\ ToDo \ {r} \subseteq ToDo' /\ r \in ToDo
         /\ answers' = answers \union {r}
         /\ UNCHANGED <<bad, status, badTable, testPassed, checked, report, address>>
<1>1. /\ program' = program /\ at' = at /\ stage' = stage /\ held' = held
      /\ sent' = sent \ {r} /\ answers' = answers \union {r}
  BY ExecuteEffect
<1>2. Making' = Making /\ This' = This
  BY <1>1 DEF Making, Step, This
<1> QED
  BY <1>1, <1>2 DEF Execute, fixed, tables, Here, Steps, ToDo, Owed

(* a callback checks a page, *)
LEMMA CheckReadDone ==
  ASSUME TypeOK, NEW a \in answers, CheckRead(a)
  PROVE  /\ Unmoved
         /\ UNCHANGED <<bad, answers, status, flash, badTable, report, address>>
         /\ a.kind = "read" /\ This.check # "none" /\ checked = NoAnswer
         /\ checked' = [tag |-> a.tag, pass |-> Passes(a.tag)]
BY DEF CheckRead, fixed, mainThread, device, tables, Unmoved, Here, Steps, This, ToDo, Owed, Making, Step

(* and answers a request. *)
LEMMA AnsweredDone ==
  ASSUME TypeOK, NEW a \in answers, Answered(a)
  PROVE  /\ Here' = Here /\ Steps' = Steps /\ This' = This /\ ToDo' = ToDo
         /\ Owed' \subseteq Owed /\ Owed \ {a} \subseteq Owed' /\ a \in Owed
         /\ answers' = answers \ {a} /\ checked' = NoAnswer
         /\ UNCHANGED <<bad, flash, report, address>>
<1>1. /\ program' = program /\ at' = at /\ stage' = stage /\ held' = held
      /\ sent' = sent /\ answers' = answers \ {a}
  BY AnsweredEffect
<1>2. Making' = Making /\ This' = This
  BY <1>1 DEF Making, Step, This
<1> QED
  BY <1>1, <1>2 DEF Answered, fixed, device, Here, Steps, ToDo, Owed

(* As long as no answer has come twice, that is all that happens. *)
Happens ==
  \/ TakeTag \/ FillBuffer \/ SendRequest \/ UNCHANGED vars
  \/ CountRequest
  \/ Drained \/ ClearBuffers \/ BeginTest \/ Report
  \/ \E r \in sent : Execute(r)
  \/ \E a \in answers : CheckRead(a)
  \/ \E a \in answers : Answered(a)

LEMMA NothingRepeated ==
  ASSUME TypeOK, [Next]_vars, repeats' = 0
  PROVE  repeats = 0 /\ Sound /\ Happens
<1>1. ASSUME NEW k \in Kind, NEW t \in Tag, Repeat(k, t)
      PROVE  FALSE
  BY <1>1 DEF Repeat, TypeOK
<1>2. Happens
  BY <1>1 DEF Next, MainNext, DeviceNext, CallbackNext, RepeatNext, Happens
<1>3. repeats' = repeats
  BY <1>2 DEF Happens, TakeTag, FillBuffer, SendRequest, CountRequest, Drained, ClearBuffers, BeginTest,
              Report, Execute, CheckRead, Answered, vars
<1> QED
  BY <1>2, <1>3 DEF Sound, Counted

LEMMA VerdictTypedInit == Init => VerdictTyped
<1> SUFFICES ASSUME Init PROVE VerdictTyped
  OBVIOUS
<1>1. TypeOK
  BY TypeInit
<1>2. Here = 1 /\ Len(Steps) \in Nat
  BY <1>1, ThisProgram DEF Init, Here, Steps, WellFormed
<1>3. bad \subseteq Block /\ (This.translated => bad = {})
  BY DEF Init, LooksAtErases
<1> QED
  BY <1>2, <1>3 DEF Init, VerdictTyped, NoAnswer

LEMMA PassesTyped ==
  ASSUME NEW t
  PROVE  Passes(t) \in BOOLEAN
<1> DEFINE s == status[Unit(address.read[t])]
           A == readBuf[t] = This.golden[address.read[t]]
           B == readBuf[t] \in {Ones} \union (IF This.zeroOK THEN {Zeros} ELSE {})
           C == This.skipsBad /\ s = "BAD"
<1>1. Passes(t) = CASE s = "WRITTEN" -> A [] s = "ERASED" -> B [] OTHER -> C
  BY DEF Passes
<1>2. A \in BOOLEAN /\ B \in BOOLEAN /\ C \in BOOLEAN
  OBVIOUS
<1> HIDE DEF s, A, B, C
<1>3. CASE s = "WRITTEN"
  BY <1>1, <1>2, <1>3
<1>4. CASE s = "ERASED"
  BY <1>1, <1>2, <1>4
<1>5. CASE s # "WRITTEN" /\ s # "ERASED"
  BY <1>1, <1>2, <1>5
<1> QED
  BY <1>3, <1>4, <1>5

LEMMA VerdictTypedStep ==
  ASSUME IInv, VerdictTyped, Happens
  PROVE  VerdictTyped'
<1> USE DEF VerdictTyped
<1>a. TypeOK /\ BuffersTyped
  BY DEF IInv
<1>b. Len(Steps) \in Nat /\ at \in Nat
  BY <1>a, ThisProgram DEF Steps, WellFormed, TypeOK
<1>1. CASE TakeTag \/ FillBuffer \/ SendRequest \/ UNCHANGED vars
  <2>1. Here' <= Len(Steps') + 1
    BY <1>1, <1>a, QuietKeepsPlace DEF Unmoved
  <2>2. stage' # "take" => held'.page \in Step'.pages
    BY <1>1, <1>a DEF TakeTag, FillBuffer, SendRequest, fixed, tables, vars, Step, This, TypeOK
  <2> QED
    BY <1>1, <1>a, <2>1, <2>2, QuietKeepsPlace DEF Unmoved
<1>2. CASE CountRequest
  <2>1. Here' <= Len(Steps') + 1 /\ This' = This
    BY <1>2, <1>a, <1>b, CountMakes DEF Makes
  <2>2. DOMAIN status' = Units
    BY <1>2 DEF CountRequest
  <2>3. DOMAIN address'["erase"] = Tag
    BY <1>2, <1>a DEF CountRequest, BuffersTyped
  <2>4. stage' # "take" => held'.page \in Step'.pages
    BY <1>2, <2>1 DEF CountRequest, Step
  <2> QED
    BY <1>2, <1>a, <2>1, <2>2, <2>3, <2>4, CountMakes
<1>3. CASE Drained \/ ClearBuffers \/ BeginTest \/ Report
  <2>1. Here' <= Len(Steps') + 1 /\ This' = This
    BY <1>3, <1>a, <1>b, GoesOn DEF Passed
  <2>2. stage' = "take"
    BY <1>3, <1>a, GoesOn DEF Passed, Drained, ClearBuffers, BeginTest, Report
  <2>3. testPassed' \in BOOLEAN
    BY <1>3, <1>a, GoesOn DEF BeginTest
  <2> QED
    BY <1>3, <1>a, <2>1, <2>2, <2>3, GoesOn
<1>4. ASSUME NEW r \in sent, Execute(r)
      PROVE  VerdictTyped'
  <2>1. DOMAIN flash' = Page
    BY <1>4 DEF Execute, FlashAfter
  <2>2. stage' # "take" => held'.page \in Step'.pages
    BY <1>4, <1>a, ExecuteDone DEF Execute, mainThread, Step
  <2> QED
    BY <1>4, <1>a, <2>1, <2>2, ExecuteDone
<1>5. ASSUME NEW a \in answers, CheckRead(a)
      PROVE  VerdictTyped'
  <2>1. stage' # "take" => held'.page \in Step'.pages
    BY <1>5 DEF CheckRead, mainThread, fixed, Step, This
  <2>2. Passes(a.tag) \in BOOLEAN
    BY PassesTyped
  <2>3. testPassed' \in BOOLEAN
    BY <1>5, <2>2 DEF CheckRead
  <2>4. checked'.pass \in BOOLEAN
    BY <1>5, <1>a, <2>2, CheckReadDone
  <2> QED
    BY <1>5, <1>a, <2>1, <2>3, <2>4, CheckReadDone DEF Unmoved
<1>6. ASSUME NEW a \in answers, Answered(a)
      PROVE  VerdictTyped'
  <2>1. stage' # "take" => held'.page \in Step'.pages
    BY <1>6 DEF Answered, mainThread, fixed, Step, This
  <2>2. DOMAIN status' = Units /\ DOMAIN badTable' = Block
    BY <1>6 DEF Answered, RecordErase
  <2>3. testPassed' \in BOOLEAN
    BY <1>6 DEF Answered
  <2>4. checked'.pass \in BOOLEAN
    <3>1. checked' = NoAnswer
      BY <1>6, <1>a, AnsweredDone
    <3>2. NoAnswer.pass = TRUE
      BY DEF NoAnswer
    <3> QED
      BY <3>1, <3>2, Zenon
  <2> QED
    BY <1>6, <1>a, <2>1, <2>2, <2>3, <2>4, AnsweredDone
<1> QED
  BY <1>1, <1>2, <1>3, <1>4, <1>5, <1>6 DEF Happens

(* No request is owed of a kind that main has just waited for. *)
LEMMA DrainedNone ==
  ASSUME TypeOK, Sound, CountersMatchDevice, Drained, NEW r \in InDevice
  PROVE  r.kind # Step.kind
<1> SUFFICES ASSUME r.kind = Step.kind PROVE FALSE
  OBVIOUS
<1>1. r.kind \in Kind /\ r \in Outstanding(r.kind)
  BY DEF TypeOK, InDevice, Request, Outstanding
<1>2. inFlight[r.kind] = 0 /\ Sending(r.kind) = 0
  BY <1>1 DEF Drained, Sending, TypeOK, Kind
<1>3. inFlight[r.kind] = Cardinality(Outstanding(r.kind)) + Sending(r.kind)
  BY <1>1 DEF Sound, CountersMatchDevice
<1>4. Cardinality(Outstanding(r.kind)) = 0 /\ IsFiniteSet(Outstanding(r.kind))
  BY <1>1, <1>2, <1>3, OutstandingFinite
<1> QED
  BY <1>1, <1>4, FS_EmptySet

LEMMA HereTyped ==
  ASSUME TypeOK, VerdictTyped
  PROVE  /\ at \in Nat \ {0} /\ Here \in Nat \ {0} /\ Len(Steps) \in Nat
         /\ 1..(Here - 1) \subseteq 1..Len(Steps)
<1>1. at \in Nat \ {0} /\ Here \in Nat \ {0} /\ Len(Steps) \in Nat
  BY ThisProgram DEF TypeOK, Here, Steps, WellFormed
<1> QED
  BY <1>1 DEF VerdictTyped

LEMMA StillMade ==
  ASSUME IInv, Sound, VerdictTyped, Happens, NEW r \in Owed, NEW i \in Nat, MadeAt(r, i)
  PROVE  MadeAt(r, i)'
<1>a. TypeOK /\ CountersMatchDevice /\ at \in Nat \ {0} /\ Here \in Nat
  BY HereTyped DEF IInv
<1>1. ASSUME Here' = Here, Steps' = Steps
      PROVE  MadeAt(r, i)'
  BY <1>1 DEF MadeAt
<1>2. ASSUME Here = at, Here' = at + 1, Steps' = Steps, ~(Steps[at].do = "drain" /\ Steps[at].kind = r.kind)
      PROVE  MadeAt(r, i)'
  <2>1. \A d \in (i + 1)..((at + 1) - 1) : d \in (i + 1)..(at - 1) \/ d = at
    BY <1>a
  <2>2. i \in 1..((at + 1) - 1)
    BY <1>2, <1>a DEF MadeAt
  <2> QED
    BY <1>2, <2>1, <2>2 DEF MadeAt
<1>3. CASE TakeTag \/ FillBuffer \/ SendRequest \/ UNCHANGED vars
  BY <1>1, <1>3, <1>a, QuietKeepsPlace DEF Unmoved
<1>4. CASE CountRequest
  <2>1. PICK s \in Request : Makes(s)
    BY <1>4, <1>a, CountMakes
  <2>2. Step.do \in Kind /\ Step.do # "drain"
    BY <2>1 DEF Makes, Request, Kind
  <2> QED
    BY <1>2, <2>1, <2>2 DEF Makes
<1>5. CASE Drained \/ ClearBuffers \/ BeginTest \/ Report
  <2>1. Passed
    BY <1>5, <1>a, GoesOn
  <2>2. r \in InDevice
    BY <2>1 DEF Passed
  <2>3. ~(Step.do = "drain" /\ Step.kind = r.kind)
    BY <1>5, <1>a, <2>2, DrainedNone DEF ClearBuffers, BeginTest, Report
  <2> QED
    BY <1>2, <2>1, <2>3 DEF Passed
<1>6. CASE \E s \in sent : Execute(s)
  BY <1>1, <1>6, <1>a, ExecuteDone
<1>7. CASE \E a \in answers : CheckRead(a)
  BY <1>1, <1>7, <1>a, CheckReadDone DEF Unmoved
<1>8. CASE \E a \in answers : Answered(a)
  BY <1>1, <1>8, <1>a, AnsweredDone
<1> QED
  BY <1>3, <1>4, <1>5, <1>6, <1>7, <1>8 DEF Happens

LEMMA MadeHere ==
  ASSUME TypeOK, NEW r, Makes(r), held.page \in Step.pages, NEW i \in Nat, i = at
  PROVE  MadeAt(r, i)'
<1>1. at \in Nat \ {0}
  BY DEF TypeOK
<1>2. at \in 1..((at + 1) - 1) /\ (at + 1)..((at + 1) - 1) = {}
  BY <1>1
<1>3. Here' = at + 1 /\ Steps'[at].do = r.kind /\ r.page \in Steps'[at].pages
  BY DEF Makes
<1> QED
  BY <1>2, <1>3 DEF MadeAt

(* What is owed after a step was owed before, or is made by it. *)
LEMMA OwedAfter ==
  ASSUME TypeOK, Happens
  PROVE  \/ Owed' \subseteq Owed
         \/ CountRequest /\ \E s \in Request : Makes(s)
<1>1. CASE TakeTag \/ FillBuffer \/ SendRequest \/ UNCHANGED vars
  BY <1>1, QuietKeepsPlace DEF Unmoved
<1>2. CASE CountRequest
  BY <1>2, CountMakes
<1>3. CASE Drained \/ ClearBuffers \/ BeginTest \/ Report
  BY <1>3, GoesOn DEF Passed
<1>4. CASE \E s \in sent : Execute(s)
  BY <1>4, ExecuteDone
<1>5. CASE \E a \in answers : CheckRead(a)
  BY <1>5, CheckReadDone DEF Unmoved
<1>6. CASE \E a \in answers : Answered(a)
  BY <1>6, AnsweredDone
<1> QED
  BY <1>1, <1>2, <1>3, <1>4, <1>5, <1>6 DEF Happens

LEMMA SourcedInit == Init => Sourced
BY DEF Init, Sourced, Owed, ToDo, Making

LEMMA SourcedStep ==
  ASSUME IInv, Sound, VerdictTyped, Sourced, Happens
  PROVE  Sourced'
<1>a. TypeOK /\ Here \in Nat \ {0} /\ at \in Nat
  BY HereTyped DEF IInv
<1>1. ASSUME NEW r \in Owed
      PROVE  \E i \in 1..(Here' - 1) : MadeAt(r, i)'
  <2>1. PICK i \in 1..(Here - 1) : MadeAt(r, i)
    BY DEF Sourced
  <2>2. i \in Nat /\ MadeAt(r, i)'
    BY <1>a, <2>1, StillMade
  <2> QED
    BY <2>2 DEF MadeAt
<1>2. ASSUME CountRequest, NEW s \in Request, Makes(s), NEW r \in Owed'
      PROVE  \E i \in 1..(Here' - 1) : MadeAt(r, i)'
  <2>1. CASE r \in Owed
    BY <1>1, <2>1
  <2>2. CASE r = s
    <3>1. held.page \in Step.pages
      BY <1>2 DEF Makes, VerdictTyped
    <3>2. PICK i \in Nat : i = at
      BY <1>a
    <3>3. MadeAt(s, i)'
      BY <1>2, <1>a, <3>1, <3>2, MadeHere
    <3> QED
      BY <2>2, <3>3 DEF MadeAt
  <2> QED
    BY <1>2, <2>1, <2>2 DEF Makes
<1>3. \A r \in Owed' : \E i \in 1..(Here' - 1) : MadeAt(r, i)'
  BY <1>a, <1>1, <1>2, OwedAfter
<1> QED
  BY <1>3 DEF Sourced

(* Since a request that is owed was made, main made none of another kind, *)
LEMMA SameKind ==
  ASSUME TypeOK, VerdictTyped, NEW r \in Owed, NEW i \in Nat, MadeAt(r, i),
         NEW d \in i..(Here - 1), Steps[d].do \in Kind
  PROVE  Steps[d].do = r.kind
<1>1. Here \in Nat \ {0} /\ 1..(Here - 1) \subseteq 1..Len(Steps)
  BY HereTyped
<1>2. CASE d = i
  BY <1>2 DEF MadeAt
<1>3. CASE d # i
  <2>1. d \in 1..Len(Steps) /\ i \in 1..(d - 1) /\ (i + 1)..(d - 1) \subseteq (i + 1)..(Here - 1)
    BY <1>1, <1>3 DEF MadeAt
  <2>2. MayOwe(Steps, r.kind, d)
    BY <2>1 DEF MadeAt, MayOwe
  <2>3. r.kind \in Kind
    BY OwedTyped DEF Request
  <2>4. Drains(Steps)
    BY ThisProgram DEF Steps
  <2> QED
    BY <2>1, <2>2, <2>3, <2>4 DEF Drains
<1> QED
  BY <1>2, <1>3

(* so that all that is owed is of one kind. *)
LEMMA OwedAlike ==
  ASSUME IInv, Sound, VerdictTyped, Sourced, NEW r \in Owed, NEW s \in Owed
  PROVE  r.kind = s.kind
<1>a. TypeOK /\ at \in Nat \ {0} /\ Here \in Nat
  BY HereTyped DEF IInv
<1>1. ASSUME NEW q \in Owed, NEW m \in Making
      PROVE  q.kind = m.kind
  <2>1. PICK i \in 1..(Here - 1) : MadeAt(q, i)
    BY DEF Sourced
  <2>2. m.kind = Steps[at].do /\ Steps[at].do \in Kind /\ stage = "send"
    BY <1>a DEF Making, Step, Steps, TypeOK
  <2>3. at \in i..(Here - 1)
    BY <1>a, <2>1, <2>2 DEF Here
  <2>4. i \in Nat
    BY <1>a
  <2> QED
    BY <1>a, <2>1, <2>2, <2>3, <2>4, SameKind
<1>2. ASSUME r \in InDevice, s \in InDevice
      PROVE  r.kind = s.kind
  BY <1>2 DEF IInv, OneKind
<1>3. \A q \in Owed : q \in InDevice \/ q \in Making
  BY DEF Owed, ToDo, InDevice
<1> QED
  BY <1>1, <1>2, <1>3

Programming(p) == \E r \in ToDo : r.kind = "write" /\ r.page = p
Erasing(S, b) == \E r \in S : r.kind = "erase" /\ BlockOf(r.page) = b
Read(p, data) == flash[p] = IF BlockOf(p) \in bad THEN Zeros ELSE data

(* A page holds what main wrote to it last, or ones where main erased its  *)
(* block last, but for the requests that the card has not carried out.     *)
HoldsData(p) == Wrote(Steps, Here, p) /\ This.fills /\ ~Programming(p) => Read(p, This.golden[p])
HoldsOnes(p) == Blank(Steps, Here, BlockOf(p)) /\ ~Erasing(ToDo, BlockOf(p)) => Read(p, Ones)
FlashKnown == \A p \in Page : HoldsData(p) /\ HoldsOnes(p)

LEMMA NothingBefore ==
  ASSUME Init
  PROVE  /\ \A b : ~ErasedBefore(Steps, Here, b) /\ ~Blank(Steps, Here, b)
         /\ \A p : ~Wrote(Steps, Here, p)
BY DEF Init, Here, ErasedBefore, Blank, Wrote

LEMMA FlashInit == Init => FlashKnown
BY NothingBefore DEF FlashKnown, HoldsData, HoldsOnes

(* Main does not write a page of a block that a request yet erases, nor    *)
(* the other way round.                                                    *)
LEMMA WritesOnce ==
  ASSUME TypeOK, VerdictTyped, Sourced, NEW r \in Owed
  PROVE  /\ r.kind = "write" => ~Blank(Steps, Here, BlockOf(r.page))
         /\ r.kind = "erase" => \A p \in Page : BlockOf(p) = BlockOf(r.page) => ~Wrote(Steps, Here, p)
<1>a. Here \in Nat \ {0}
  BY HereTyped
<1>1. PICK i \in 1..(Here - 1) : MadeAt(r, i)
  BY DEF Sourced
<1>2. i \in Nat /\ Steps[i].do = r.kind /\ r.page \in Steps[i].pages
  BY <1>a, <1>1 DEF MadeAt
<1>3. ASSUME r.kind = "write", Blank(Steps, Here, BlockOf(r.page))
      PROVE  FALSE
  <2>1. PICK j \in 1..(Here - 1) : /\ For(Steps[j], "erase", BlockOf(r.page))
                                   /\ \A d \in (j + 1)..(Here - 1) : ~For(Steps[d], "write", BlockOf(r.page))
    BY <1>3 DEF Blank
  <2>2. For(Steps[i], "write", BlockOf(r.page)) /\ Steps[j].do = "erase"
    BY <1>2, <1>3, <2>1 DEF For
  <2>3. j \in i..(Here - 1)
    BY <1>a, <1>1, <2>1, <2>2
  <2>4. Steps[j].do = "write"
    BY <1>1, <1>2, <1>3, <2>2, <2>3, SameKind DEF Kind
  <2> QED
    BY <2>2, <2>4
<1>4. ASSUME r.kind = "erase", NEW p \in Page, BlockOf(p) = BlockOf(r.page), Wrote(Steps, Here, p)
      PROVE  FALSE
  <2>1. PICK j \in 1..(Here - 1) : /\ Steps[j].do = "write" /\ p \in Steps[j].pages
                                   /\ \A d \in (j + 1)..(Here - 1) : ~For(Steps[d], "erase", BlockOf(p))
    BY <1>4 DEF Wrote
  <2>2. For(Steps[i], "erase", BlockOf(p))
    BY <1>2, <1>4 DEF For
  <2>3. j \in i..(Here - 1)
    <3>1. ~(i \in (j + 1)..(Here - 1))
      BY <2>1, <2>2
    <3> QED
      BY <1>a, <1>1, <2>1, <3>1
  <2>4. Steps[j].do = "erase"
    BY <1>1, <1>2, <2>1, <2>3, SameKind, <1>4 DEF Kind
  <2> QED
    BY <2>1, <2>4
<1> QED
  BY <1>3, <1>4

(* The page of a write or an erase is the only one of its step. *)
LEMMA OnePage ==
  ASSUME TypeOK, VerdictTyped, NEW r, Makes(r), r.kind \in {"write", "erase"}
  PROVE  Steps[at].pages = {r.page}
<1>1. \E page \in Page : Steps[at].pages = {page}
  BY Disciplined DEF Makes, NamesBlocks, Steps
<1>2. r.page \in Steps[at].pages
  BY DEF Makes, VerdictTyped
<1> QED
  BY <1>1, <1>2

(* What main's next step adds: a request of its own, or nothing. *)
LEMMA AddsRequest ==
  ASSUME TypeOK, VerdictTyped, NEW r, Makes(r), NEW p \in Page
  PROVE  /\ Wrote(Steps, Here, p)'
              => \/ r.kind = "write" /\ r.page = p
                 \/ Wrote(Steps, Here, p) /\ ~(r.kind = "erase" /\ BlockOf(r.page) = BlockOf(p))
         /\ Blank(Steps, Here, BlockOf(p))'
              => /\ \/ r.kind = "erase" /\ BlockOf(r.page) = BlockOf(p)
                    \/ Blank(Steps, Here, BlockOf(p))
                 /\ ~(r.kind = "write" /\ BlockOf(r.page) = BlockOf(p))
         /\ ErasedBefore(Steps, Here, BlockOf(p))'
              => \/ r.kind = "erase" /\ BlockOf(r.page) = BlockOf(p)
                 \/ ErasedBefore(Steps, Here, BlockOf(p))
<1>a. at \in Nat \ {0} /\ Here = at /\ Here' = at + 1 /\ Steps' = Steps /\ Steps[at].do = r.kind
      /\ r.page \in Steps[at].pages
  BY DEF TypeOK, Makes, VerdictTyped
<1>b. r.kind \in {"write", "erase"} => Steps[at].pages = {r.page}
  BY OnePage
<1>c. For(Steps[at], "erase", BlockOf(p)) <=> r.kind = "erase" /\ BlockOf(r.page) = BlockOf(p)
  BY <1>a, <1>b DEF For
<1>d. r.kind = "write" /\ BlockOf(r.page) = BlockOf(p) => For(Steps[at], "write", BlockOf(p))
  BY <1>a DEF For
<1>1. /\ Wrote(Steps, Here, p)' <=> Wrote(Steps, at + 1, p)
      /\ Blank(Steps, Here, BlockOf(p))' <=> Blank(Steps, at + 1, BlockOf(p))
      /\ ErasedBefore(Steps, Here, BlockOf(p))' <=> ErasedBefore(Steps, at + 1, BlockOf(p))
  BY <1>a DEF Wrote, Blank, ErasedBefore
<1>2. Wrote(Steps, at + 1, p) => \/ r.kind = "write" /\ r.page = p
                                 \/ Wrote(Steps, at, p) /\ ~For(Steps[at], "erase", BlockOf(p))
  BY <1>a, <1>b, WroteNext
<1>3. Blank(Steps, at + 1, BlockOf(p)) =>
        /\ Blank(Steps, at, BlockOf(p)) \/ For(Steps[at], "erase", BlockOf(p))
        /\ ~For(Steps[at], "write", BlockOf(p))
  BY <1>a, BlankNext
<1>4. ErasedBefore(Steps, at + 1, BlockOf(p)) =>
        ErasedBefore(Steps, at, BlockOf(p)) \/ For(Steps[at], "erase", BlockOf(p))
  BY <1>a, ErasedNext
<1> QED
  BY <1>a, <1>c, <1>d, <1>1, <1>2, <1>3, <1>4

LEMMA AddsNothing ==
  ASSUME TypeOK, Passed, NEW p
  PROVE  /\ Wrote(Steps, Here, p)' => Wrote(Steps, Here, p)
         /\ Blank(Steps, Here, BlockOf(p))' => Blank(Steps, Here, BlockOf(p))
         /\ ErasedBefore(Steps, Here, BlockOf(p))' => ErasedBefore(Steps, Here, BlockOf(p))
<1>a. at \in Nat \ {0} /\ Here = at /\ Here' = at + 1 /\ Steps' = Steps
      /\ Steps[at].do # "erase" /\ Steps[at].do # "write"
  BY DEF TypeOK, Passed, Kind
<1>b. ~For(Steps[at], "erase", BlockOf(p))
  BY <1>a DEF For
<1>1. /\ Wrote(Steps, Here, p)' <=> Wrote(Steps, at + 1, p)
      /\ Blank(Steps, Here, BlockOf(p))' <=> Blank(Steps, at + 1, BlockOf(p))
      /\ ErasedBefore(Steps, Here, BlockOf(p))' <=> ErasedBefore(Steps, at + 1, BlockOf(p))
  BY <1>a DEF Wrote, Blank, ErasedBefore
<1>2. Wrote(Steps, at + 1, p) => Wrote(Steps, at, p)
  BY <1>a, WroteNext
<1>3. Blank(Steps, at + 1, BlockOf(p)) => Blank(Steps, at, BlockOf(p))
  BY <1>a, <1>b, BlankNext
<1>4. ErasedBefore(Steps, at + 1, BlockOf(p)) => ErasedBefore(Steps, at, BlockOf(p))
  BY <1>a, <1>b, ErasedNext
<1> QED
  BY <1>a, <1>1, <1>2, <1>3, <1>4

LEMMA SamePlace ==
  ASSUME Here' = Here, Steps' = Steps, NEW p
  PROVE  /\ Wrote(Steps, Here, p)' <=> Wrote(Steps, Here, p)
         /\ Blank(Steps, Here, BlockOf(p))' <=> Blank(Steps, Here, BlockOf(p))
         /\ ErasedBefore(Steps, Here, BlockOf(p))' <=> ErasedBefore(Steps, Here, BlockOf(p))
BY DEF Wrote, Blank, ErasedBefore

LEMMA FlashStep ==
  ASSUME IInv, Sound, VerdictTyped, Sourced, FlashKnown, Happens
  PROVE  FlashKnown'
<1> SUFFICES ASSUME NEW p \in Page PROVE HoldsData(p)' /\ HoldsOnes(p)'
  BY DEF FlashKnown
<1>a. TypeOK
  BY DEF IInv
<1>b. /\ Wrote(Steps, Here, p) /\ This.fills /\ ~Programming(p) => Read(p, This.golden[p])
      /\ Blank(Steps, Here, BlockOf(p)) /\ ~Erasing(ToDo, BlockOf(p)) => Read(p, Ones)
  BY DEF FlashKnown, HoldsData, HoldsOnes
<1>1. ASSUME This' = This, Read(p, This.golden[p]) => Read(p, This.golden[p])',
             Read(p, Ones) => Read(p, Ones)',
             Wrote(Steps, Here, p)' => Wrote(Steps, Here, p) \/ Programming(p)',
             Blank(Steps, Here, BlockOf(p))' => Blank(Steps, Here, BlockOf(p)) \/ Erasing(ToDo, BlockOf(p))',
             Programming(p) => Programming(p)', Erasing(ToDo, BlockOf(p)) => Erasing(ToDo, BlockOf(p))'
      PROVE  HoldsData(p)' /\ HoldsOnes(p)'
  BY <1>1, <1>b DEF HoldsData, HoldsOnes
<1>2. ASSUME bad' = bad, flash' = flash, This' = This
      PROVE  /\ Read(p, This.golden[p]) => Read(p, This.golden[p])'
             /\ Read(p, Ones) => Read(p, Ones)'
  BY <1>2 DEF Read
<1>3. ASSUME ToDo \subseteq ToDo'
      PROVE  /\ Programming(p) => Programming(p)'
             /\ Erasing(ToDo, BlockOf(p)) => Erasing(ToDo, BlockOf(p))'
  BY <1>3 DEF Programming, Erasing
<1>4. CASE TakeTag \/ FillBuffer \/ SendRequest \/ UNCHANGED vars
  BY <1>1, <1>2, <1>3, <1>4, <1>a, QuietKeepsPlace, SamePlace DEF Unmoved
<1>5. CASE CountRequest
  <2>1. PICK r \in Request : Makes(r)
    BY <1>5, <1>a, CountMakes
  <2>2. ToDo' = ToDo \union {r} /\ This' = This
    BY <2>1 DEF Makes
  <2>3. r.kind = "write" /\ r.page = p => Programming(p)'
    BY <2>2 DEF Programming
  <2>4. r.kind = "erase" /\ BlockOf(r.page) = BlockOf(p) => Erasing(ToDo, BlockOf(p))'
    BY <2>2 DEF Erasing
  <2> QED
    BY <1>1, <1>2, <1>3, <1>5, <1>a, <2>1, <2>2, <2>3, <2>4, AddsRequest, CountMakes
<1>6. CASE Drained \/ ClearBuffers \/ BeginTest \/ Report
  BY <1>1, <1>2, <1>3, <1>6, <1>a, GoesOn, AddsNothing DEF Passed
<1>7. ASSUME NEW r \in sent, Execute(r)
      PROVE  HoldsData(p)' /\ HoldsOnes(p)'
  <2>a. /\ Here' = Here /\ Steps' = Steps /\ This' = This /\ bad' = bad
        /\ ToDo \ {r} \subseteq ToDo' /\ r \in ToDo /\ r \in Owed
    BY <1>7, <1>a, ExecuteDone DEF Owed
  <2>b. /\ Wrote(Steps, Here, p)' => Wrote(Steps, Here, p)
        /\ Blank(Steps, Here, BlockOf(p))' => Blank(Steps, Here, BlockOf(p))
    BY <2>a, SamePlace
  <2>c. r.kind \in Kind /\ r.tag \in Tag /\ r.page \in Page
    BY <1>a DEF TypeOK, Request
  <2>1. ASSUME flash'[p] = flash[p]
        PROVE  /\ Read(p, This.golden[p]) => Read(p, This.golden[p])'
               /\ Read(p, Ones) => Read(p, Ones)'
    BY <2>a, <2>1 DEF Read
  <2>2. ASSUME ~(r.kind = "write" /\ r.page = p)
        PROVE  Programming(p) => Programming(p)'
    BY <2>a, <2>2 DEF Programming
  <2>3. ASSUME ~(r.kind = "erase" /\ BlockOf(r.page) = BlockOf(p))
        PROVE  Erasing(ToDo, BlockOf(p)) => Erasing(ToDo, BlockOf(p))'
    BY <2>a, <2>3 DEF Erasing
  <2>4. CASE r.kind = "read"
    <3>1. flash' = flash
      BY <1>7, <2>4 DEF Execute
    <3> QED
      BY <1>1, <2>a, <2>b, <2>1, <2>2, <2>3, <2>4, <3>1
  <2>5. CASE r.kind # "read" /\ (BlockOf(p) # BlockOf(r.page) \/ (r.kind = "write" /\ p # r.page))
    <3>1. flash'[p] = flash[p]
      BY <1>7, <2>5 DEF Execute, FlashAfter
    <3> QED
      BY <1>1, <2>a, <2>b, <2>1, <2>2, <2>3, <2>5, <3>1
  <2>6. CASE r.kind = "write" /\ p = r.page
    <3>1. flash'[p] = IF BlockOf(p) \in bad THEN Zeros ELSE writeBuf[r.tag]
      BY <1>7, <2>6 DEF Execute, FlashAfter
    <3>2. This.fills => writeBuf[r.tag] = This.golden[p]
      BY <2>6 DEF IInv, BuffersKept, Filled
    <3>3. ~Blank(Steps, Here, BlockOf(p))
      BY <1>a, <2>a, <2>6, WritesOnce
    <3> QED
      BY <2>a, <2>b, <3>1, <3>2, <3>3 DEF HoldsData, HoldsOnes, Read
  <2>7. CASE r.kind = "erase" /\ BlockOf(p) = BlockOf(r.page)
    <3>1. flash'[p] = IF BlockOf(p) \in bad THEN Zeros ELSE Ones
      BY <1>7, <2>7 DEF Execute, FlashAfter
    <3>2. ~Wrote(Steps, Here, p)
      BY <1>a, <2>a, <2>7, WritesOnce
    <3> QED
      BY <2>a, <2>b, <3>1, <3>2 DEF HoldsData, HoldsOnes, Read
  <2> QED
    BY <2>c, <2>4, <2>5, <2>6, <2>7 DEF Kind
<1>8. CASE \E a \in answers : CheckRead(a)
  BY <1>1, <1>2, <1>3, <1>8, <1>a, CheckReadDone, SamePlace DEF Unmoved
<1>9. CASE \E a \in answers : Answered(a)
  BY <1>1, <1>2, <1>3, <1>9, <1>a, AnsweredDone, SamePlace
<1> QED
  BY <1>4, <1>5, <1>6, <1>7, <1>8, <1>9 DEF Happens

(* eraseTagTable holds the page of every erase that is owed. *)
ErasesRecorded ==
  "erase" \in This.records => \A r \in Owed : r.kind = "erase" => address["erase"][r.tag] = r.page

LEMMA ErasesRecordedStep ==
  ASSUME IInv, Sound, VerdictTyped, ErasesRecorded, Happens
  PROVE  ErasesRecorded'
<1>a. TypeOK /\ TagsOwned /\ BuffersTyped
  BY DEF IInv
<1>1. ASSUME This' = This, Owed' \subseteq Owed, address' = address
      PROVE  ErasesRecorded'
  BY <1>1 DEF ErasesRecorded
<1>2. CASE TakeTag \/ FillBuffer \/ SendRequest \/ UNCHANGED vars
  BY <1>1, <1>2, <1>a, QuietKeepsPlace DEF Unmoved
<1>3. CASE CountRequest
  <2>1. PICK r \in Request : Makes(r)
    BY <1>3, <1>a, CountMakes
  <2>2. /\ This' = This /\ Owed' = Owed \union {r} /\ stage = "count"
        /\ r.kind = Step.do /\ r.tag = held.tag /\ r.page = held.page /\ r.tag \in Tag
    BY <2>1 DEF Makes, Request
  <2>3. address' = IF Step.do \in This.records
                   THEN [address EXCEPT ![Step.do][held.tag] = held.page] ELSE address
    BY <1>3 DEF CountRequest
  <2>4. CASE r.kind = "erase"
    <3>1. \A s \in Owed : s.kind = "erase" => s.tag # held.tag /\ s.tag \in Tag
      <4>1. Owed = InDevice
        BY <2>2 DEF Owed, ToDo, Making, InDevice
      <4> QED
        BY <1>a, <2>2, <2>4, <4>1, OwedTyped DEF TagsOwned, Request
    <3>2. "erase" \in This.records =>
             address'["erase"] = [address["erase"] EXCEPT ![held.tag] = held.page]
      BY <1>a, <2>2, <2>3, <2>4 DEF BuffersTyped
    <3> QED
      BY <2>2, <3>1, <3>2 DEF ErasesRecorded, VerdictTyped
  <2>5. CASE r.kind # "erase"
    <3>1. address'["erase"] = address["erase"]
      BY <1>a, <2>2, <2>3, <2>5 DEF BuffersTyped
    <3> QED
      BY <2>2, <2>5, <3>1 DEF ErasesRecorded
  <2> QED
    BY <2>4, <2>5
<1>4. CASE Drained \/ ClearBuffers \/ BeginTest \/ Report
  BY <1>1, <1>4, <1>a, GoesOn DEF Passed
<1>5. CASE \E s \in sent : Execute(s)
  BY <1>1, <1>5, <1>a, ExecuteDone
<1>6. CASE \E a \in answers : CheckRead(a)
  BY <1>1, <1>6, <1>a, CheckReadDone DEF Unmoved
<1>7. CASE \E a \in answers : Answered(a)
  BY <1>1, <1>7, <1>a, AnsweredDone
<1> QED
  BY <1>2, <1>3, <1>4, <1>5, <1>6, <1>7 DEF Happens

(* readDone holds a verdict on an answer that it has yet to take. *)
Checking == checked = NoAnswer \/ \E a \in answers : a.kind = "read" /\ a.tag = checked.tag

LEMMA CheckingStep ==
  ASSUME TypeOK, Checking, Happens
  PROVE  Checking'
<1>1. ASSUME checked' = checked, answers \subseteq answers'
      PROVE  Checking'
  BY <1>1 DEF Checking, NoAnswer
<1>2. CASE TakeTag \/ FillBuffer \/ SendRequest \/ UNCHANGED vars
  BY <1>1, <1>2, QuietKeepsPlace
<1>3. CASE CountRequest
  BY <1>1, <1>3, CountMakes
<1>4. CASE Drained \/ ClearBuffers \/ BeginTest \/ Report
  BY <1>1, <1>4, GoesOn
<1>5. CASE \E s \in sent : Execute(s)
  BY <1>1, <1>5, ExecuteDone
<1>6. CASE \E a \in answers : CheckRead(a)
  <2>1. PICK a \in answers : CheckRead(a)
    BY <1>6
  <2> QED
    BY <2>1, CheckReadDone DEF Checking
<1>7. CASE \E a \in answers : Answered(a)
  BY <1>7, AnsweredDone DEF Checking, NoAnswer
<1> QED
  BY <1>2, <1>3, <1>4, <1>5, <1>6, <1>7 DEF Happens

(* flashStatus says of a page whether main wrote or erased it last, or that *)
(* its block is bad; and it does say so once the failed erase was answered. *)
Is(p, s) == status[Unit(p)] = s \/ (BlockOf(p) \in bad /\ status[Unit(p)] = "BAD")
BadIfSo(p) == status[Unit(p)] = "BAD" => BlockOf(p) \in bad
SaysWritten(p) == Wrote(Steps, Here, p) /\ "write" \in This.tracks => Is(p, "WRITTEN")
SaysErased(p) ==
  Blank(Steps, Here, BlockOf(p)) /\ "erase" \in This.tracks /\ ~This.translated => Is(p, "ERASED")
KeepsBad == This.keepsBad /\ This.eraseStatus = "status" /\ ~This.translated
SaysBad(p) ==
  /\ KeepsBad /\ BlockOf(p) \in bad
  /\ ErasedBefore(Steps, Here, BlockOf(p)) /\ ~Erasing(Owed, BlockOf(p))
  => status[Unit(p)] = "BAD"
StatusOf(p) == BadIfSo(p) /\ SaysWritten(p) /\ SaysErased(p) /\ SaysBad(p)
StatusKnown == \A p \in Page : StatusOf(p)

LEMMA UnitTyped ==
  ASSUME NEW p \in Page
  PROVE  Unit(p) \in Units
BY DEF Unit, Units, Block

LEMMA StatusInit == Init => StatusKnown
<1> SUFFICES ASSUME Init, NEW p \in Page PROVE StatusOf(p)
  BY DEF StatusKnown
<1>1. status[Unit(p)] = "UNINIT"
  BY UnitTyped DEF Init
<1> QED
  BY <1>1, NothingBefore DEF StatusOf, BadIfSo, SaysWritten, SaysErased, SaysBad

(* Where the handlers look for the block of an erase, they find it. *)
LEMMA FailedRight ==
  ASSUME TypeOK, ErasesRecorded, NEW a \in answers, a.kind = "erase", This.eraseStatus # "log"
  PROVE  address.erase[a.tag] = a.page /\ (Failed(a.tag) <=> BlockOf(a.page) \in bad)
<1>1. "erase" \in This.records
  BY Disciplined DEF NamesBlocks
<1>2. address.erase[a.tag] = a.page
  BY <1>1 DEF ErasesRecorded, Owed
<1> QED
  BY <1>2 DEF Failed

(* The entries of blocks that main sends no request to stay as they were. *)
LEMMA StatusKept ==
  ASSUME NEW p \in Page, StatusOf(p), bad' = bad, This' = This, status'[Unit(p)] = status[Unit(p)],
         Wrote(Steps, Here, p)' => Wrote(Steps, Here, p),
         Blank(Steps, Here, BlockOf(p))' => Blank(Steps, Here, BlockOf(p)),
         ErasedBefore(Steps, Here, BlockOf(p))' => ErasedBefore(Steps, Here, BlockOf(p)),
         KeepsBad /\ BlockOf(p) \in bad /\ Erasing(Owed, BlockOf(p)) => Erasing(Owed, BlockOf(p))'
  PROVE  StatusOf(p)'
<1>1. Unit(p)' = Unit(p) /\ KeepsBad' = KeepsBad
  BY DEF Unit, KeepsBad
<1> QED
  BY <1>1 DEF StatusOf, BadIfSo, SaysWritten, SaysErased, SaysBad, Is

LEMMA StatusCounted ==
  ASSUME TypeOK, VerdictTyped, NEW p \in Page, StatusOf(p), CountRequest
  PROVE  StatusOf(p)'
<1>1. PICK r \in Request : Makes(r)
  BY CountMakes
<1>2. /\ This' = This /\ Owed' = Owed \union {r} /\ bad' = bad
      /\ r.kind = Step.do /\ r.page = held.page /\ r.page \in Page /\ r.kind \in Kind
  BY <1>1, CountMakes DEF Makes, Request
<1>3. status' = IF r.kind = "read" THEN status
                ELSE [status EXCEPT ![Unit(r.page)] = StatusAfter(r.kind, r.page)]
  BY <1>2 DEF CountRequest
<1>4. Erasing(Owed, BlockOf(p)) => Erasing(Owed, BlockOf(p))'
  BY <1>2 DEF Erasing
<1>5. Unit(p) \in DOMAIN status /\ Unit(r.page) \in DOMAIN status
  BY <1>2, UnitTyped DEF VerdictTyped
<1>6. CASE r.kind = "read" \/ Unit(p) # Unit(r.page)
  <2>1. status'[Unit(p)] = status[Unit(p)]
    BY <1>3, <1>5, <1>6
  <2>2. r.kind = "write" => r.page # p
    BY <1>6
  <2>3. ~This.translated /\ r.kind = "erase" => BlockOf(r.page) # BlockOf(p)
    BY <1>6 DEF Unit
  <2>4. CASE ~This.translated
    BY <1>1, <1>2, <1>4, <2>1, <2>2, <2>3, <2>4, AddsRequest, StatusKept
  <2>5. CASE This.translated
    <3>1. Wrote(Steps, Here, p)' => Wrote(Steps, Here, p)
      BY <1>1, <2>2, AddsRequest
    <3>2. Unit(p)' = Unit(p) /\ KeepsBad' = KeepsBad /\ ~KeepsBad
      BY <1>2, <2>5 DEF Unit, KeepsBad
    <3> QED
      BY <1>2, <2>1, <2>5, <3>1, <3>2 DEF StatusOf, BadIfSo, SaysWritten, SaysErased, SaysBad, Is
  <2> QED
    BY <2>4, <2>5
<1>7. CASE r.kind # "read" /\ Unit(p) = Unit(r.page)
  <2>a. BlockOf(p) = BlockOf(r.page)
    BY <1>7 DEF Unit
  <2>b. status'[Unit(p)] = StatusAfter(r.kind, r.page) /\ Unit(p)' = Unit(p) /\ KeepsBad' = KeepsBad
    BY <1>2, <1>3, <1>5, <1>7 DEF Unit, KeepsBad
  <2>1. CASE r.kind = "erase"
    <3>1. status'[Unit(p)] = IF "erase" \in This.tracks THEN "ERASED" ELSE status[Unit(p)]
      BY <1>7, <2>b, <2>1 DEF StatusAfter
    <3>2. ~Wrote(Steps, Here, p)'
      BY <1>1, <2>a, <2>1, AddsRequest
    <3>3. Erasing(Owed, BlockOf(p))'
      BY <1>2, <2>a, <2>1 DEF Erasing
    <3> QED
      BY <1>2, <2>b, <3>1, <3>2, <3>3 DEF StatusOf, BadIfSo, SaysWritten, SaysErased, SaysBad, Is
  <2>2. CASE r.kind = "write"
    <3>1. status'[Unit(p)] = IF "write" \notin This.tracks THEN status[Unit(p)]
                             ELSE IF This.keepsBad /\ status[Unit(p)] = "BAD" THEN "BAD" ELSE "WRITTEN"
      BY <1>7, <2>b, <2>2 DEF StatusAfter
    <3>2. ~Blank(Steps, Here, BlockOf(p))'
      BY <1>1, <2>a, <2>2, AddsRequest
    <3>3. ErasedBefore(Steps, Here, BlockOf(p))' => ErasedBefore(Steps, Here, BlockOf(p))
      BY <1>1, <2>2, AddsRequest
    <3>4. "write" \notin This.tracks => (SaysBad(p)' /\ SaysWritten(p)')
      BY <1>2, <1>4, <2>b, <3>1, <3>3 DEF StatusOf, SaysBad, SaysWritten
    <3>5. SaysBad(p)'
      BY <1>2, <1>4, <2>b, <3>1, <3>3 DEF StatusOf, SaysBad, KeepsBad
    <3>6. BadIfSo(p)'
      BY <1>2, <2>b, <3>1 DEF StatusOf, BadIfSo
    <3>7. "write" \in This.tracks => Is(p, "WRITTEN")'
      BY <1>2, <2>b, <3>1 DEF StatusOf, BadIfSo, Is
    <3> QED
      BY <1>2, <3>2, <3>4, <3>5, <3>6, <3>7 DEF StatusOf, SaysWritten, SaysErased
  <2> QED
    BY <1>2, <1>7, <2>1, <2>2 DEF Kind
<1> QED
  BY <1>6, <1>7

LEMMA StatusAnswered ==
  ASSUME TypeOK, VerdictTyped, ErasesRecorded, NEW p \in Page, StatusOf(p),
         NEW a \in answers, Answered(a)
  PROVE  StatusOf(p)'
<1>1. /\ Here' = Here /\ Steps' = Steps /\ This' = This /\ bad' = bad
      /\ Owed \ {a} \subseteq Owed' /\ a.page \in Page
  BY AnsweredDone DEF TypeOK, Request
<1>2. status' = IF a.kind = "erase" /\ This.eraseStatus = "status" /\ Failed(a.tag)
                THEN [status EXCEPT ![Unit(address.erase[a.tag])] = "BAD"] ELSE status
  BY DEF Answered, RecordErase
<1>3. Unit(p) \in DOMAIN status /\ Unit(a.page) \in DOMAIN status
  BY <1>1, UnitTyped DEF VerdictTyped
<1>4. /\ Wrote(Steps, Here, p)' => Wrote(Steps, Here, p)
      /\ Blank(Steps, Here, BlockOf(p))' => Blank(Steps, Here, BlockOf(p))
      /\ ErasedBefore(Steps, Here, BlockOf(p))' => ErasedBefore(Steps, Here, BlockOf(p))
  BY <1>1, SamePlace
<1>5. ~(a.kind = "erase" /\ BlockOf(a.page) = BlockOf(p))
        => (Erasing(Owed, BlockOf(p)) => Erasing(Owed, BlockOf(p))')
  BY <1>1 DEF Erasing
<1>6. CASE a.kind = "erase" /\ This.eraseStatus = "status" /\ BlockOf(a.page) \in bad
  <2>1. status' = [status EXCEPT ![Unit(a.page)] = "BAD"] /\ ~This.translated
    BY <1>2, <1>6, FailedRight DEF VerdictTyped
  <2>2. CASE BlockOf(p) = BlockOf(a.page)
    <3>1. status'[Unit(p)] = "BAD" /\ Unit(p)' = Unit(p) /\ BlockOf(p) \in bad'
      BY <1>1, <1>3, <1>6, <2>1, <2>2 DEF Unit
    <3> QED
      BY <3>1 DEF StatusOf, BadIfSo, SaysWritten, SaysErased, SaysBad, Is
  <2>3. CASE BlockOf(p) # BlockOf(a.page)
    <3>1. status'[Unit(p)] = status[Unit(p)]
      BY <1>3, <2>1, <2>3 DEF Unit
    <3> QED
      BY <1>1, <1>4, <1>5, <2>3, <3>1, StatusKept
  <2> QED
    BY <2>2, <2>3
<1>7. CASE ~(a.kind = "erase" /\ This.eraseStatus = "status" /\ BlockOf(a.page) \in bad)
  <2>1. status' = status
    BY <1>2, <1>7, FailedRight
  <2>2. KeepsBad /\ BlockOf(p) \in bad => ~(a.kind = "erase" /\ BlockOf(a.page) = BlockOf(p))
    BY <1>7 DEF KeepsBad
  <2> QED
    BY <1>1, <1>4, <1>5, <2>1, <2>2, StatusKept
<1> QED
  BY <1>6, <1>7

LEMMA StatusStep ==
  ASSUME IInv, VerdictTyped, ErasesRecorded, StatusKnown, Happens
  PROVE  StatusKnown'
<1> SUFFICES ASSUME NEW p \in Page PROVE StatusOf(p)'
  BY DEF StatusKnown
<1>a. TypeOK /\ StatusOf(p)
  BY DEF IInv, StatusKnown
<1>1. ASSUME Owed' = Owed
      PROVE  KeepsBad /\ BlockOf(p) \in bad /\ Erasing(Owed, BlockOf(p)) => Erasing(Owed, BlockOf(p))'
  BY <1>1 DEF Erasing
<1>2. CASE TakeTag \/ FillBuffer \/ SendRequest \/ UNCHANGED vars
  BY <1>1, <1>2, <1>a, QuietKeepsPlace, SamePlace, StatusKept DEF Unmoved
<1>3. CASE CountRequest
  BY <1>3, <1>a, StatusCounted
<1>4. CASE Drained \/ ClearBuffers \/ BeginTest \/ Report
  BY <1>1, <1>4, <1>a, GoesOn, AddsNothing, StatusKept DEF Passed
<1>5. CASE \E s \in sent : Execute(s)
  BY <1>1, <1>5, <1>a, ExecuteDone, SamePlace, StatusKept
<1>6. CASE \E a \in answers : CheckRead(a)
  BY <1>1, <1>6, <1>a, CheckReadDone, SamePlace, StatusKept DEF Unmoved
<1>7. CASE \E a \in answers : Answered(a)
  BY <1>7, <1>a, StatusAnswered
<1> QED
  BY <1>2, <1>3, <1>4, <1>5, <1>6, <1>7 DEF Happens

(***************************************************************************)
(* Reads.  While one is owed, the card carries out nothing else, so that    *)
(* its page holds and flashStatus says what main's script says.            *)
(***************************************************************************)
(* What was written or erased before the read is what was last. *)
LEMMA LastAsRead ==
  ASSUME TypeOK, VerdictTyped, NEW r \in Owed, r.kind = "read", NEW i \in Nat, MadeAt(r, i), NEW p
  PROVE  /\ Wrote(Steps, i, p) => Wrote(Steps, Here, p)
         /\ Blank(Steps, i, BlockOf(p)) => Blank(Steps, Here, BlockOf(p))
         /\ ErasedBefore(Steps, i, BlockOf(p)) => ErasedBefore(Steps, Here, BlockOf(p))
<1>a. Here \in Nat \ {0} /\ i \in 1..(Here - 1)
  BY HereTyped DEF MadeAt
<1>b. \A d \in i..(Here - 1) : Steps[d].do \notin {"write", "erase"}
  BY SameKind DEF Kind
<1>c. \A d \in i..(Here - 1) : ~For(Steps[d], "erase", BlockOf(p)) /\ ~For(Steps[d], "write", BlockOf(p))
  BY <1>b DEF For
<1>d. \A j \in 1..(i - 1) : \A d \in (j + 1)..(Here - 1) : d \in (j + 1)..(i - 1) \/ d \in i..(Here - 1)
  BY <1>a
<1>e. 1..(i - 1) \subseteq 1..(Here - 1)
  BY <1>a
<1>1. Wrote(Steps, i, p) => Wrote(Steps, Here, p)
  <2> SUFFICES ASSUME Wrote(Steps, i, p) PROVE Wrote(Steps, Here, p)
    OBVIOUS
  <2>1. PICK j \in 1..(i - 1) : /\ Steps[j].do = "write" /\ p \in Steps[j].pages
                                /\ \A d \in (j + 1)..(i - 1) : ~For(Steps[d], "erase", BlockOf(p))
    BY DEF Wrote
  <2>2. \A d \in (j + 1)..(Here - 1) : ~For(Steps[d], "erase", BlockOf(p))
    BY <1>c, <1>d, <2>1
  <2> QED
    BY <1>e, <2>1, <2>2 DEF Wrote
<1>2. Blank(Steps, i, BlockOf(p)) => Blank(Steps, Here, BlockOf(p))
  <2> SUFFICES ASSUME Blank(Steps, i, BlockOf(p)) PROVE Blank(Steps, Here, BlockOf(p))
    OBVIOUS
  <2>1. PICK j \in 1..(i - 1) : /\ For(Steps[j], "erase", BlockOf(p))
                                /\ \A d \in (j + 1)..(i - 1) : ~For(Steps[d], "write", BlockOf(p))
    BY DEF Blank
  <2>2. \A d \in (j + 1)..(Here - 1) : ~For(Steps[d], "write", BlockOf(p))
    BY <1>c, <1>d, <2>1
  <2> QED
    BY <1>e, <2>1, <2>2 DEF Blank
<1>3. ErasedBefore(Steps, i, BlockOf(p)) => ErasedBefore(Steps, Here, BlockOf(p))
  BY <1>e DEF ErasedBefore
<1> QED
  BY <1>1, <1>2, <1>3

LEMMA BlankErased ==
  ASSUME NEW script, NEW j, NEW b, Blank(script, j, b)
  PROVE  ErasedBefore(script, j, b)
BY DEF Blank, ErasedBefore

LEMMA ErasedTouched ==
  ASSUME TypeOK, VerdictTyped, NEW p \in Page, ErasedBefore(Steps, Here, BlockOf(p))
  PROVE  BlockOf(p) \in Touched
<1>1. PICK i \in 1..(Here - 1) : For(Steps[i], "erase", BlockOf(p))
  BY DEF ErasedBefore
<1>2. i \in 1..((Len(Steps) + 1) - 1)
  BY HereTyped
<1>3. ErasedBefore(Steps, Len(Steps) + 1, BlockOf(p))
  BY <1>1, <1>2 DEF ErasedBefore
<1> QED
  BY <1>3 DEF Touched, Block, Steps

Knowing == IInv /\ Sound /\ VerdictTyped /\ Sourced /\ FlashKnown /\ StatusKnown /\ ErasesRecorded

(* The answer of a read that is checked: the buffer holds what the page     *)
(* does, main wrote the page or erased its block last, and flashStatus     *)
(* knows which, or that the block is bad.                                  *)
ReadsWritten(p) ==
  /\ Wrote(Steps, Here, p) /\ Is(p, "WRITTEN") /\ Read(p, This.golden[p])
  /\ This.translated \/ ErasedBefore(Steps, Here, BlockOf(p))
ReadsBlank(p) ==
  /\ ~This.translated /\ ErasedBefore(Steps, Here, BlockOf(p))
  /\ Is(p, "ERASED") /\ Read(p, Ones)

LEMMA AnswerKnown ==
  ASSUME Knowing, NEW a \in answers, a.kind = "read", This.check # "none",
         NEW i \in Nat, MadeAt(a, i)
  PROVE  /\ address.read[a.tag] = a.page /\ readBuf[a.tag] = flash[a.page] /\ a.page \in Page
         /\ ReadsBlank(a.page) \/ ReadsWritten(a.page)
         /\ Wrote(Steps, i, a.page) => Wrote(Steps, Here, a.page)
<1>a. TypeOK /\ BuffersKept /\ Sound /\ VerdictTyped /\ a \in Owed /\ a.page \in Page
  BY DEF Knowing, IInv, Owed, TypeOK, Request
<1>b. KnowsWhatItReads(This)
  BY <1>a, Disciplined
<1>c. Here \in Nat \ {0} /\ i \in 1..Len(Steps) /\ Steps[i].do = "read" /\ a.page \in Steps[i].pages
  BY <1>a, HereTyped DEF MadeAt
<1>1. address.read[a.tag] = a.page /\ readBuf[a.tag] = flash[a.page]
  <2>1. "read" \in This.records
    BY <1>b DEF KnowsWhatItReads
  <2> QED
    BY <1>a, <2>1 DEF BuffersKept, Recorded, InDevice
<1>2. \/ Blank(Steps, i, BlockOf(a.page)) /\ ~This.translated
      \/ /\ Wrote(Steps, i, a.page)
         /\ This.translated \/ ErasedBefore(Steps, i, BlockOf(a.page))
  BY <1>b, <1>c DEF KnowsWhatItReads, Steps
<1>3. /\ Wrote(Steps, i, a.page) => Wrote(Steps, Here, a.page)
      /\ Blank(Steps, i, BlockOf(a.page)) => Blank(Steps, Here, BlockOf(a.page))
      /\ ErasedBefore(Steps, i, BlockOf(a.page)) => ErasedBefore(Steps, Here, BlockOf(a.page))
  BY <1>a, LastAsRead
<1>4. \A s \in ToDo : s.kind = "read"
  BY <1>a, OwedAlike DEF Knowing, Owed
<1>5. ~Programming(a.page) /\ ~Erasing(ToDo, BlockOf(a.page))
  BY <1>4 DEF Programming, Erasing
<1>6. /\ HoldsData(a.page) /\ HoldsOnes(a.page) /\ StatusOf(a.page)
  BY <1>a DEF Knowing, FlashKnown, StatusKnown
<1>7. ASSUME Blank(Steps, i, BlockOf(a.page)), ~This.translated
      PROVE  ReadsBlank(a.page)
  <2>1. "erase" \in This.tracks /\ ErasedBefore(Steps, Here, BlockOf(a.page))
    BY <1>3, <1>7, <1>b, BlankErased DEF KnowsWhatItReads
  <2> QED
    BY <1>3, <1>5, <1>6, <1>7, <2>1 DEF ReadsBlank, HoldsOnes, StatusOf, SaysErased
<1>8. ASSUME Wrote(Steps, i, a.page), This.translated \/ ErasedBefore(Steps, i, BlockOf(a.page))
      PROVE  ReadsWritten(a.page)
  <2>1. "write" \in This.tracks /\ This.fills
    BY <1>b DEF KnowsWhatItReads
  <2> QED
    BY <1>3, <1>5, <1>6, <1>8, <2>1 DEF ReadsWritten, HoldsData, StatusOf, SaysWritten
<1> QED
  BY <1>a, <1>1, <1>2, <1>3, <1>7, <1>8

(* checkReadData passes the page of a good block, and of any where bad     *)
(* blocks are skipped; *)
LEMMA PassesGood ==
  ASSUME Knowing, NEW a \in answers, a.kind = "read", This.check # "none",
         bad \intersect Touched = {} \/ This.skipsBad
  PROVE  Passes(a.tag)
<1>a. TypeOK /\ VerdictTyped /\ a \in Owed /\ StatusOf(a.page) /\ a.page \in Page
  BY DEF Knowing, IInv, Owed, TypeOK, Request, StatusKnown
<1>b. KnowsWhatItReads(This)
  BY <1>a, Disciplined
<1>1. PICK i \in 1..(Here - 1) : MadeAt(a, i)
  BY <1>a DEF Knowing, Sourced
<1>2. /\ address.read[a.tag] = a.page /\ readBuf[a.tag] = flash[a.page]
      /\ ReadsBlank(a.page) \/ ReadsWritten(a.page)
  <2>1. i \in Nat
    BY <1>a, HereTyped
  <2> QED
    BY <1>1, <2>1, AnswerKnown
<1>3. This.translated \/ ErasedBefore(Steps, Here, BlockOf(a.page))
  BY <1>2 DEF ReadsBlank, ReadsWritten
<1>4. CASE BlockOf(a.page) \notin bad
  <2>1. status[Unit(a.page)] # "BAD"
    BY <1>a, <1>4 DEF StatusOf, BadIfSo
  <2>2. CASE ReadsBlank(a.page)
    <3>1. status[Unit(a.page)] = "ERASED" /\ readBuf[a.tag] = Ones
      BY <1>2, <1>4, <2>2 DEF ReadsBlank, Is, Read
    <3> QED
      BY <1>2, <3>1 DEF Passes
  <2>3. CASE ReadsWritten(a.page)
    <3>1. status[Unit(a.page)] = "WRITTEN" /\ readBuf[a.tag] = This.golden[a.page]
      BY <1>2, <1>4, <2>3 DEF ReadsWritten, Is, Read
    <3> QED
      BY <1>2, <3>1 DEF Passes
  <2> QED
    BY <1>2, <2>2, <2>3
<1>5. CASE BlockOf(a.page) \in bad
  <2>1. ErasedBefore(Steps, Here, BlockOf(a.page)) /\ ~This.translated
    BY <1>a, <1>3, <1>5 DEF VerdictTyped
  <2>2. This.skipsBad
    BY <1>a, <1>5, <2>1, ErasedTouched
  <2>3. KeepsBad
    BY <1>b, <2>2, <1>a DEF KnowsWhatItReads, KeepsBad
  <2>4. ~Erasing(Owed, BlockOf(a.page))
    <3>1. \A s \in Owed : s.kind = "read"
      BY <1>a, OwedAlike DEF Knowing
    <3> QED
      BY <3>1 DEF Erasing
  <2>5. status[Unit(a.page)] = "BAD"
    BY <1>a, <1>5, <2>1, <2>3, <2>4 DEF StatusOf, SaysBad
  <2> QED
    BY <1>2, <2>2, <2>5 DEF Passes
<1> QED
  BY <1>4, <1>5

(* and it does not pass a page that tells of a bad block. *)
LEMMA FailsBad ==
  ASSUME Knowing, KeepsVerdict(This), NEW a \in answers, a.kind = "read",
         NEW i \in Nat, MadeAt(a, i), NEW b \in bad, Reveals(This, i, b)
  PROVE  ~Passes(a.tag)
<1>a. This.check # "none" /\ ~This.skipsBad
  BY DEF KeepsVerdict
<1>1. /\ address.read[a.tag] = a.page /\ readBuf[a.tag] = flash[a.page]
      /\ ReadsBlank(a.page) \/ ReadsWritten(a.page)
      /\ Wrote(Steps, i, a.page) => Wrote(Steps, Here, a.page)
  BY <1>a, AnswerKnown
<1>2. /\ BlockOf(a.page) = b /\ This.golden[a.page] # Zeros
      /\ Wrote(Steps, i, a.page) \/ ~This.zeroOK
  BY DEF Reveals, MadeAt, Steps
<1>3. readBuf[a.tag] = Zeros
  BY <1>1, <1>2 DEF ReadsBlank, ReadsWritten, Read
<1>4. status[Unit(a.page)] = "WRITTEN" => ~Passes(a.tag)
  BY <1>1, <1>2, <1>3 DEF Passes
<1>5. status[Unit(a.page)] = "ERASED" => ~Passes(a.tag)
  <2> SUFFICES ASSUME status[Unit(a.page)] = "ERASED" PROVE ~Passes(a.tag)
    OBVIOUS
  <2>1. Zeros # Ones
    BY DEF Zeros, Ones
  <2>2. ~This.zeroOK
    <3> SUFFICES ASSUME Wrote(Steps, i, a.page) PROVE FALSE
      BY <1>2
    <3>1. Is(a.page, "WRITTEN")
      <4>1. "write" \in This.tracks /\ a.page \in Page
        BY <1>a, Disciplined DEF Knowing, IInv, KnowsWhatItReads, TypeOK, Request
      <4> QED
        BY <1>1, <4>1 DEF Knowing, StatusKnown, StatusOf, SaysWritten
    <3> QED
      BY <3>1 DEF Is
  <2> QED
    BY <1>1, <1>3, <2>1, <2>2 DEF Passes
<1>6. status[Unit(a.page)] # "WRITTEN" /\ status[Unit(a.page)] # "ERASED" => ~Passes(a.tag)
  BY <1>1, <1>a DEF Passes
<1> QED
  BY <1>4, <1>5, <1>6

(***************************************************************************)
(* The verdicts.                                                           *)
(***************************************************************************)
NoFalseAlarm ==
  bad \intersect Touched = {} \/ This.skipsBad
    => testPassed /\ checked.pass /\ report.passed # "FAILED"

LEMMA NoFalseAlarmStep ==
  ASSUME Knowing, NoFalseAlarm, Happens
  PROVE  NoFalseAlarm'
<1>a. TypeOK /\ TagsOwned
  BY DEF Knowing, IInv
<1>b. NoAnswer.pass = TRUE
  BY DEF NoAnswer
<1>1. ASSUME bad' = bad, This' = This, testPassed' = testPassed, checked' = checked, report' = report
      PROVE  NoFalseAlarm'
  BY <1>1 DEF NoFalseAlarm, Touched
<1>2. CASE TakeTag \/ FillBuffer \/ SendRequest \/ UNCHANGED vars
  BY <1>1, <1>2, <1>a, QuietKeepsPlace DEF Unmoved
<1>3. CASE CountRequest
  BY <1>1, <1>3, <1>a, CountMakes DEF Makes
<1>4. CASE Drained \/ ClearBuffers
  BY <1>1, <1>4, <1>a, GoesOn DEF Passed, Drained, ClearBuffers
<1>5. CASE BeginTest
  <2>1. testPassed' = TRUE /\ checked' = checked /\ report' = report /\ bad' = bad /\ This' = This
    BY <1>5 DEF BeginTest, fixed, This
  <2> QED
    BY <2>1 DEF NoFalseAlarm, Touched
<1>6. CASE Report
  <2>1. testPassed' = testPassed /\ checked' = checked /\ bad' = bad /\ This' = This
        /\ report'.passed = IF testPassed THEN "PASSED" ELSE "FAILED"
    BY <1>6 DEF Report, fixed, This
  <2> QED
    BY <2>1 DEF NoFalseAlarm, Touched
<1>7. CASE \E s \in sent : Execute(s)
  BY <1>1, <1>7, <1>a, ExecuteDone
<1>8. ASSUME NEW a \in answers, CheckRead(a)
      PROVE  NoFalseAlarm'
  <2>1. /\ bad' = bad /\ This' = This /\ report' = report /\ checked'.pass = Passes(a.tag)
        /\ a.kind = "read" /\ This.check # "none"
    BY <1>8, <1>a, CheckReadDone DEF Unmoved
  <2>2. bad \intersect Touched = {} \/ This.skipsBad => Passes(a.tag)
    BY <2>1, PassesGood
  <2>3. testPassed /\ Passes(a.tag) => testPassed'
    BY <1>8 DEF CheckRead
  <2> QED
    BY <2>1, <2>2, <2>3 DEF NoFalseAlarm, Touched
<1>9. ASSUME NEW a \in answers, Answered(a)
      PROVE  NoFalseAlarm'
  <2>1. bad' = bad /\ This' = This /\ report' = report /\ checked' = NoAnswer
    BY <1>9, <1>a, AnsweredDone
  <2>2. a.tag \in busy[a.kind]
    BY <1>a DEF TagsOwned, InDevice
  <2>3. testPassed /\ checked.pass => testPassed'
    BY <1>9, <2>2 DEF Answered
  <2>4. checked'.pass
    BY <1>b, <2>1
  <2> QED
    BY <2>1, <2>3, <2>4 DEF NoFalseAlarm, Touched
<1> QED
  BY <1>2, <1>3, <1>4, <1>5, <1>6, <1>7, <1>8, <1>9 DEF Happens

(* A read at position i that tells of a bad block, made since the verdict  *)
(* was set, has cleared it or is owed an answer that will.                 *)
SinceBegin(i) == \A d \in (i + 1)..(Here - 1) : Steps[d].do # "begin"
WillFail(r, i) == r.kind = "read" /\ MadeAt(r, i) /\ (checked.tag = r.tag => ~checked.pass)
Caught(i) == ~testPassed \/ \E r \in Owed : WillFail(r, i)
BadCaught == \A i \in 1..(Here - 1), b \in bad : Reveals(This, i, b) /\ SinceBegin(i) => Caught(i)
CheckedAtOnce == This.check = "direct" => checked.pass \/ ~testPassed
PassedIsGood == report.passed = "PASSED" => bad \intersect Touched = {}
BadIsCaught == KeepsVerdict(This) => BadCaught /\ CheckedAtOnce /\ PassedIsGood

(* Only the answer of a request bears its tag. *)
LEMMA CheckedTag ==
  ASSUME TypeOK, TagsOwned, NEW a \in answers, a.kind = "read", NEW r \in Owed, r.kind = "read", a.tag = r.tag
  PROVE  r = a
<1>1. CASE r \in InDevice
  BY <1>1 DEF TagsOwned, InDevice
<1>2. CASE r \in Making
  <2>1. stage = "send" /\ r.kind = Step.do /\ r.tag = held.tag
    BY <1>2 DEF Making
  <2> QED
    BY <2>1 DEF TagsOwned, InDevice
<1> QED
  BY <1>1, <1>2 DEF Owed, ToDo, InDevice

LEMMA NoTag == NoAnswer.tag \notin Tag /\ NoAnswer.pass = TRUE
BY NumTagsAssumption DEF NoAnswer, Tag

(* Where main goes on, nothing that was caught gets away. *)
LEMMA SinceBeginNext ==
  ASSUME TypeOK, Here = at, Here' = at + 1, Steps' = Steps, NEW i \in 1..(Here' - 1), SinceBegin(i)'
  PROVE  i # at => i \in 1..(Here - 1) /\ SinceBegin(i) /\ Steps[at].do # "begin"
<1>a. at \in Nat \ {0}
  BY DEF TypeOK
<1> SUFFICES ASSUME i # at PROVE i \in 1..(Here - 1) /\ SinceBegin(i) /\ Steps[at].do # "begin"
  OBVIOUS
<1>1. i \in 1..(at - 1) /\ at \in (i + 1)..((at + 1) - 1)
      /\ (i + 1)..(at - 1) \subseteq (i + 1)..((at + 1) - 1)
  BY <1>a
<1> QED
  BY <1>1 DEF SinceBegin

LEMMA BadCaughtStep ==
  ASSUME Knowing, Checking, KeepsVerdict(This), BadCaught, CheckedAtOnce, Happens
  PROVE  BadCaught'
<1>a. TypeOK /\ TagsOwned /\ VerdictTyped /\ IInv /\ Sound /\ at \in Nat \ {0} /\ Here \in Nat \ {0}
  BY HereTyped DEF Knowing, IInv
<1>b. \A r \in Owed : r.tag \in Tag
  BY <1>a, OwedTyped DEF Request
<1>1. ASSUME Here' = Here, Steps' = Steps, This' = This, bad' = bad, NEW i \in 1..(Here' - 1), NEW b \in bad',
             Reveals(This, i, b)', SinceBegin(i)'
      PROVE  Caught(i) /\ i \in Nat /\ Reveals(This, i, b) /\ b \in bad
  <2>1. Reveals(This, i, b) /\ SinceBegin(i) /\ i \in 1..(Here - 1) /\ b \in bad
    BY <1>1 DEF Reveals, Wrote, SinceBegin
  <2> QED
    BY <1>a, <2>1 DEF BadCaught
<1>2. ASSUME NEW i \in Nat, NEW r \in Owed, r \in Owed', WillFail(r, i), checked' = checked \/ checked' = NoAnswer
      PROVE  WillFail(r, i)'
  <2>1. MadeAt(r, i)'
    BY <1>a, <1>2, StillMade DEF Knowing, WillFail
  <2> QED
    BY <1>2, <1>b, <2>1, NoTag DEF WillFail
<1>3. ASSUME NEW i \in Nat, Caught(i), testPassed' = testPassed, Owed \subseteq Owed', checked' = checked
      PROVE  Caught(i)'
  BY <1>2, <1>3 DEF Caught
<1>4. CASE TakeTag \/ FillBuffer \/ SendRequest \/ UNCHANGED vars
  BY <1>1, <1>3, <1>4, <1>a, QuietKeepsPlace DEF Unmoved, BadCaught
<1>5. CASE CountRequest
  <2>1. PICK r \in Request : Makes(r)
    BY <1>5, <1>a, CountMakes
  <2>2. /\ Here = at /\ Here' = at + 1 /\ Steps' = Steps /\ This' = This /\ Owed' = Owed \union {r}
        /\ bad' = bad /\ testPassed' = testPassed /\ checked' = checked /\ answers' = answers
        /\ r.kind = Step.do /\ Steps[at] = Step /\ r.tag = held.tag /\ stage = "count" /\ r.tag \in Tag
    BY <1>5, <1>a, <2>1, CountMakes DEF Makes, Request
  <2> SUFFICES ASSUME NEW i \in 1..(Here' - 1), NEW b \in bad', Reveals(This, i, b)', SinceBegin(i)'
               PROVE  Caught(i)'
    BY DEF BadCaught
  <2>3. Reveals(This, i, b) /\ b \in bad /\ i \in Nat
    BY <1>a, <2>2 DEF Reveals, Wrote
  <2>4. CASE i = at
    <3>1. r.kind = "read"
      BY <2>2, <2>3, <2>4 DEF Reveals, Steps
    <3>2. MadeAt(r, i)'
      <4>1. held.page \in Step.pages
        BY <1>a, <2>2 DEF VerdictTyped
      <4> QED
        BY <1>a, <2>1, <2>3, <2>4, <4>1, MadeHere
    <3>3. checked.tag # r.tag
      <4>1. CASE checked = NoAnswer
        BY <2>2, <4>1, NoTag
      <4>2. CASE \E a \in answers : a.kind = "read" /\ a.tag = checked.tag
        BY <1>a, <2>2, <3>1, <4>2 DEF TagsOwned, InDevice
      <4> QED
        BY <4>1, <4>2 DEF Checking
    <3> QED
      BY <2>2, <3>1, <3>2, <3>3 DEF Caught, WillFail
  <2>5. CASE i # at
    <3>1. i \in 1..(Here - 1) /\ SinceBegin(i)
      BY <1>a, <2>2, <2>5, SinceBeginNext
    <3>2. Caught(i)
      BY <2>3, <3>1 DEF BadCaught
    <3> QED
      BY <1>3, <2>2, <2>3, <3>2
  <2> QED
    BY <2>4, <2>5
<1>6. CASE Drained \/ ClearBuffers \/ BeginTest \/ Report
  <2>1. /\ Here = at /\ Here' = at + 1 /\ Steps' = Steps /\ This' = This /\ Owed' = Owed
        /\ bad' = bad /\ checked' = checked /\ Step.do \notin Kind /\ Steps[at] = Step
        /\ ~BeginTest => testPassed' = testPassed
    BY <1>6, <1>a, GoesOn DEF Passed
  <2> SUFFICES ASSUME NEW i \in 1..(Here' - 1), NEW b \in bad', Reveals(This, i, b)', SinceBegin(i)'
               PROVE  Caught(i)'
    BY DEF BadCaught
  <2>2. Reveals(This, i, b) /\ b \in bad /\ i \in Nat
    BY <1>a, <2>1 DEF Reveals, Wrote
  <2>3. i # at
    BY <2>1, <2>2 DEF Reveals, Steps, Kind
  <2>4. i \in 1..(Here - 1) /\ SinceBegin(i) /\ Step.do # "begin"
    BY <1>a, <2>1, <2>3, SinceBeginNext
  <2>5. Caught(i) /\ ~BeginTest
    BY <2>2, <2>4 DEF BadCaught, BeginTest
  <2> QED
    BY <1>3, <2>1, <2>2, <2>5
<1>7. CASE \E s \in sent : Execute(s)
  BY <1>1, <1>3, <1>7, <1>a, ExecuteDone DEF BadCaught
<1>8. ASSUME NEW a \in answers, CheckRead(a)
      PROVE  BadCaught'
  <2>1. /\ Here' = Here /\ Steps' = Steps /\ This' = This /\ bad' = bad /\ Owed' = Owed
        /\ a.kind = "read" /\ checked'.tag = a.tag /\ checked'.pass = Passes(a.tag)
    BY <1>8, <1>a, CheckReadDone DEF Unmoved
  <2>2. ~testPassed => ~testPassed'
    BY <1>8 DEF CheckRead, KeepsVerdict
  <2> SUFFICES ASSUME NEW i \in 1..(Here' - 1), NEW b \in bad', Reveals(This, i, b)', SinceBegin(i)'
               PROVE  Caught(i)'
    BY DEF BadCaught
  <2>3. Caught(i) /\ i \in Nat /\ Reveals(This, i, b) /\ b \in bad
    BY <1>1, <2>1
  <2>4. ASSUME NEW r \in Owed, WillFail(r, i)
        PROVE  Caught(i)'
    <3>1. MadeAt(r, i)' /\ r \in Owed' /\ r.kind = "read" /\ MadeAt(r, i)
      BY <1>a, <2>1, <2>3, <2>4, StillMade DEF Knowing, WillFail
    <3>2. a.tag = r.tag => ~Passes(a.tag)
      <4> SUFFICES ASSUME a.tag = r.tag PROVE ~Passes(a.tag)
        OBVIOUS
      <4>1. r = a
        BY <1>a, <2>1, <3>1, CheckedTag
      <4> QED
        BY <2>1, <2>3, <3>1, <4>1, FailsBad
    <3> QED
      BY <2>1, <3>1, <3>2 DEF Caught, WillFail
  <2> QED
    BY <2>2, <2>3, <2>4 DEF Caught
<1>9. ASSUME NEW a \in answers, Answered(a)
      PROVE  BadCaught'
  <2>1. /\ Here' = Here /\ Steps' = Steps /\ This' = This /\ bad' = bad /\ Owed \ {a} \subseteq Owed'
        /\ checked' = NoAnswer
    BY <1>9, <1>a, AnsweredDone
  <2>2. ~testPassed => ~testPassed'
    BY <1>9 DEF Answered
  <2> SUFFICES ASSUME NEW i \in 1..(Here' - 1), NEW b \in bad', Reveals(This, i, b)', SinceBegin(i)'
               PROVE  Caught(i)'
    BY DEF BadCaught
  <2>3. Caught(i) /\ i \in Nat /\ Reveals(This, i, b) /\ b \in bad
    BY <1>1, <2>1
  <2>4. ASSUME NEW r \in Owed, WillFail(r, i), r # a
        PROVE  Caught(i)'
    BY <1>2, <2>1, <2>3, <2>4 DEF Caught
  <2>5. ASSUME WillFail(a, i)
        PROVE  ~testPassed'
    <3>1. checked.tag = a.tag
      BY <1>9, <2>5 DEF Answered, KeepsVerdict, WillFail
    <3>2. ~checked.pass
      BY <2>5, <3>1 DEF WillFail
    <3>3. CASE This.check = "locked"
      BY <1>9, <3>2, <3>3 DEF Answered
    <3>4. CASE This.check = "direct"
      BY <2>2, <3>2, <3>4 DEF CheckedAtOnce
    <3> QED
      BY <3>3, <3>4 DEF KeepsVerdict
  <2> QED
    BY <2>2, <2>3, <2>4, <2>5 DEF Caught
<1> QED
  BY <1>4, <1>5, <1>6, <1>7, <1>8, <1>9 DEF Happens

(* Where no request of a kind may be owed, none is. *)
LEMMA NotOwed ==
  ASSUME IInv, Sound, Passed, NEW k \in Kind, ~MayOwe(Steps, k, at), NEW r \in Owed
  PROVE  r.kind # k
<1>1. Outstanding(k) = {}
  BY DEF IInv, PhasesKept, Steps
<1> QED
  BY <1>1 DEF Outstanding, Passed, InDevice

LEMMA BadIsCaughtStep ==
  ASSUME Knowing, Checking, BadIsCaught, Happens
  PROVE  BadIsCaught'
<1>a. TypeOK /\ IInv /\ Sound /\ VerdictTyped
  BY DEF Knowing, IInv
<1>b. This' = This /\ bad' = bad
  BY <1>a, QuietKeepsPlace, CountMakes, GoesOn, ExecuteDone, CheckReadDone, AnsweredDone
     DEF Happens, Unmoved, Makes, Passed
<1>c. SUFFICES ASSUME KeepsVerdict(This)
               PROVE  BadCaught' /\ CheckedAtOnce' /\ PassedIsGood'
  BY <1>b DEF BadIsCaught, KeepsVerdict
<1>d. BadCaught /\ CheckedAtOnce /\ PassedIsGood
  BY <1>c DEF BadIsCaught
<1>1. BadCaught'
  BY <1>c, <1>d, BadCaughtStep
<1>2. ASSUME testPassed' = testPassed \/ ~testPassed', checked' = checked
      PROVE  CheckedAtOnce'
  BY <1>2, <1>b, <1>d DEF CheckedAtOnce
<1>3. ASSUME report' = report
      PROVE  PassedIsGood'
  BY <1>3, <1>b, <1>d DEF PassedIsGood, Touched
<1>4. CASE TakeTag \/ FillBuffer \/ SendRequest \/ UNCHANGED vars
  BY <1>1, <1>2, <1>3, <1>4, <1>a, QuietKeepsPlace
<1>5. CASE CountRequest
  BY <1>1, <1>2, <1>3, <1>5, <1>a, CountMakes
<1>6. CASE Drained \/ ClearBuffers
  BY <1>1, <1>2, <1>3, <1>6, <1>a, GoesOn DEF Drained, ClearBuffers
<1>7. CASE BeginTest
  <2>1. report' = report /\ checked' = checked
    BY <1>7 DEF BeginTest
  <2>2. checked = NoAnswer
    <3>1. at \in 1..Len(Steps) /\ Steps[at].do = "begin" /\ Passed
      BY <1>7, <1>a, GoesOn DEF Passed, BeginTest
    <3>2. ~MayOwe(Steps, "read", at)
      BY <1>a, <1>c, <3>1, Disciplined DEF KnowsWhatItReads, Steps, KeepsVerdict
    <3>3. \A r \in Owed : r.kind # "read"
      BY <1>a, <3>1, <3>2, NotOwed DEF Kind
    <3> QED
      BY <3>3 DEF Checking, Owed
  <2>3. CheckedAtOnce'
    BY <2>1, <2>2, NoTag DEF CheckedAtOnce
  <2> QED
    BY <1>1, <1>3, <2>1, <2>3
<1>8. CASE Report
  <2>1. testPassed' = testPassed /\ checked' = checked
        /\ report'.passed = IF testPassed THEN "PASSED" ELSE "FAILED"
    BY <1>8 DEF Report
  <2>2. ASSUME testPassed, NEW b \in bad \intersect Touched
        PROVE  FALSE
    <3>1. at \in 1..Len(Steps) /\ Steps[at].do = "report" /\ Passed /\ Here = at
      BY <1>8, <1>a, GoesOn DEF Passed, Report
    <3>2. b \in Block /\ ErasedBefore(Steps, Len(Steps) + 1, b)
      BY <2>2 DEF Touched, Steps
    <3>3. /\ ~MayOwe(Steps, "read", at)
          /\ \E i \in 1..(at - 1) : /\ Reveals(This, i, b)
                                    /\ \A d \in (i + 1)..(at - 1) : Steps[d].do # "begin"
      BY <1>a, <1>c, <3>1, <3>2, Disciplined DEF JudgesWhatItErased, Steps
    <3>4. PICK i \in 1..(Here - 1) : Reveals(This, i, b) /\ SinceBegin(i)
      BY <3>1, <3>3 DEF SinceBegin
    <3>5. Caught(i)
      BY <1>d, <2>2, <3>4 DEF BadCaught
    <3>6. PICK r \in Owed : r.kind = "read"
      BY <2>2, <3>5 DEF Caught, WillFail
    <3> QED
      BY <1>a, <3>1, <3>3, <3>6, NotOwed DEF Kind
  <2>3. PassedIsGood'
    BY <1>b, <2>1, <2>2 DEF PassedIsGood, Touched
  <2> QED
    BY <1>1, <1>2, <2>1, <2>3
<1>9. CASE \E s \in sent : Execute(s)
  BY <1>1, <1>2, <1>3, <1>9, <1>a, ExecuteDone
<1>10. ASSUME NEW a \in answers, CheckRead(a)
       PROVE  CheckedAtOnce' /\ PassedIsGood'
  <2>1. report' = report /\ checked'.pass = Passes(a.tag)
    BY <1>10, <1>a, CheckReadDone
  <2>2. This.check = "direct" => (testPassed' <=> testPassed /\ Passes(a.tag))
    BY <1>10 DEF CheckRead
  <2> QED
    BY <1>b, <1>3, <2>1, <2>2 DEF CheckedAtOnce
<1>11. ASSUME NEW a \in answers, Answered(a)
       PROVE  CheckedAtOnce' /\ PassedIsGood'
  <2>1. report' = report /\ checked' = NoAnswer
    BY <1>11, <1>a, AnsweredDone
  <2> QED
    BY <1>3, <2>1, NoTag DEF CheckedAtOnce
<1> QED
  BY <1>1, <1>4, <1>5, <1>6, <1>7, <1>8, <1>9, <1>10, <1>11 DEF Happens

(* badBlockTable is right about the blocks it says something of: those     *)
(* whose erase was answered.                                               *)
EntryOf(b) == IF b \in bad THEN "bad" ELSE "good"
EntryRight(b) == badTable[b] # "unissued" => b \in Touched /\ badTable[b] = EntryOf(b)
EntryMade(b) == ErasedBefore(Steps, Here, b) => badTable[b] # "unissued" \/ Erasing(Owed, b)
SavedRight == report # NoReport => report.bad = bad \intersect Touched
TableRight ==
  This.eraseStatus = "table" => SavedRight /\ \A b \in Block : EntryRight(b) /\ EntryMade(b)

LEMMA TableStep ==
  ASSUME Knowing, TableRight, Happens
  PROVE  TableRight'
<1>a. TypeOK /\ IInv /\ Sound /\ VerdictTyped /\ ErasesRecorded
  BY DEF Knowing, IInv
<1>b. This' = This /\ bad' = bad
  BY <1>a, QuietKeepsPlace, CountMakes, GoesOn, ExecuteDone, CheckReadDone, AnsweredDone
     DEF Happens, Unmoved, Makes, Passed
<1>c. SUFFICES ASSUME This.eraseStatus = "table"
               PROVE  SavedRight' /\ \A b \in Block : EntryRight(b)' /\ EntryMade(b)'
  BY <1>b DEF TableRight
<1>d. SavedRight /\ \A b \in Block : EntryRight(b) /\ EntryMade(b)
  BY <1>c DEF TableRight
<1>1. ASSUME report' = report
      PROVE  SavedRight'
  BY <1>1, <1>b, <1>d DEF SavedRight, Touched, NoReport
<1>2. ASSUME NEW b \in Block, badTable'[b] = badTable[b]
      PROVE  /\ EntryRight(b)'
             /\ (ErasedBefore(Steps, Here, b)' => ErasedBefore(Steps, Here, b) \/ Erasing(Owed, b)')
                /\ (Erasing(Owed, b) => Erasing(Owed, b)') => EntryMade(b)'
  BY <1>2, <1>b, <1>d DEF EntryRight, EntryMade, EntryOf, Touched
<1>3. \A b \in Block : \E p \in Page : b = BlockOf(p)
  BY DEF Block
<1>4. ASSUME Here' = Here, Steps' = Steps, badTable' = badTable, Owed' = Owed
      PROVE  \A b \in Block : EntryRight(b)' /\ EntryMade(b)'
  BY <1>2, <1>4 DEF ErasedBefore, Erasing
<1>5. CASE TakeTag \/ FillBuffer \/ SendRequest \/ UNCHANGED vars
  BY <1>1, <1>4, <1>5, <1>a, QuietKeepsPlace DEF Unmoved
<1>6. CASE CountRequest
  <2>1. PICK r \in Request : Makes(r)
    BY <1>6, <1>a, CountMakes
  <2>2. badTable' = badTable /\ report' = report /\ Owed' = Owed \union {r}
    BY <1>6, <1>a, <2>1, CountMakes DEF Makes
  <2>3. ASSUME NEW p \in Page
        PROVE  ErasedBefore(Steps, Here, BlockOf(p))'
                 => ErasedBefore(Steps, Here, BlockOf(p)) \/ Erasing(Owed, BlockOf(p))'
    BY <1>a, <2>1, <2>2, AddsRequest DEF Erasing
  <2>4. \A b \in Block : Erasing(Owed, b) => Erasing(Owed, b)'
    BY <2>2 DEF Erasing
  <2> QED
    BY <1>1, <1>2, <1>3, <2>2, <2>3, <2>4
<1>7. CASE Drained \/ ClearBuffers \/ BeginTest \/ Report
  <2>1. Passed /\ badTable' = badTable /\ Owed' = Owed
    BY <1>7, <1>a, GoesOn DEF Passed
  <2>2. ASSUME NEW p \in Page
        PROVE  ErasedBefore(Steps, Here, BlockOf(p))' => ErasedBefore(Steps, Here, BlockOf(p))
    BY <1>a, <2>1, AddsNothing
  <2>3. \A b \in Block : Erasing(Owed, b) => Erasing(Owed, b)'
    BY <2>1 DEF Erasing
  <2>4. \A b \in Block : EntryRight(b)' /\ EntryMade(b)'
    BY <1>2, <1>3, <2>1, <2>2, <2>3
  <2>5. CASE Report
    <3>1. report'.bad = {b \in Block : badTable[b] = "bad"}
      BY <2>5 DEF Report
    <3>2. ASSUME NEW b \in Block, badTable[b] = "bad"
          PROVE  b \in bad \intersect Touched
      BY <1>d, <3>2 DEF EntryRight, EntryOf
    <3>3. ASSUME NEW b \in bad \intersect Touched
          PROVE  b \in Block /\ badTable[b] = "bad"
      <4>1. at \in 1..Len(Steps) /\ Steps[at].do = "report" /\ Here = at
        BY <2>1, <2>5 DEF Passed, Report
      <4>2. b \in Block /\ ErasedBefore(Steps, Len(Steps) + 1, b)
        BY <3>3 DEF Touched, Steps
      <4>3. ~MayOwe(Steps, "erase", at) /\ ErasedBefore(Steps, Here, b)
        BY <1>a, <1>c, <4>1, <4>2, Disciplined DEF JudgesWhatItErased, Steps
      <4>4. ~Erasing(Owed, b)
        BY <1>a, <2>1, <4>3, NotOwed DEF Erasing, Kind
      <4> QED
        BY <1>d, <3>3, <4>2, <4>3, <4>4 DEF EntryMade, EntryRight, EntryOf
    <3>4. report'.bad = bad \intersect Touched
      BY <3>1, <3>2, <3>3
    <3> QED
      BY <1>b, <2>4, <3>4 DEF SavedRight, Touched
  <2>6. CASE ~Report
    BY <1>1, <1>7, <1>a, <2>4, <2>6, GoesOn
  <2> QED
    BY <2>5, <2>6
<1>8. CASE \E s \in sent : Execute(s)
  BY <1>1, <1>4, <1>8, <1>a, ExecuteDone
<1>9. CASE \E a \in answers : CheckRead(a)
  BY <1>1, <1>4, <1>9, <1>a, CheckReadDone DEF Unmoved
<1>10. ASSUME NEW a \in answers, Answered(a)
       PROVE  SavedRight' /\ \A b \in Block : EntryRight(b)' /\ EntryMade(b)'
  <2>1. /\ Here' = Here /\ Steps' = Steps /\ report' = report
        /\ Owed \ {a} \subseteq Owed' /\ a \in Owed /\ a.page \in Page
    BY <1>10, <1>a, AnsweredDone DEF TypeOK, Request
  <2>2. badTable' = IF a.kind = "erase"
                    THEN [badTable EXCEPT ![BlockOf(address.erase[a.tag])] = IF Failed(a.tag) THEN "bad" ELSE "good"]
                    ELSE badTable
    BY <1>10, <1>c DEF Answered, RecordErase
  <2>3. \A b \in Block : ErasedBefore(Steps, Here, b)' => ErasedBefore(Steps, Here, b)
    BY <2>1 DEF ErasedBefore
  <2>4. ASSUME NEW b \in Block, ~(a.kind = "erase" /\ BlockOf(a.page) = b)
        PROVE  EntryRight(b)' /\ EntryMade(b)'
    <3>1. badTable'[b] = badTable[b]
      <4>1. CASE a.kind = "erase"
        <5>1. address.erase[a.tag] = a.page
          BY <1>a, <1>c, <4>1, FailedRight
        <5> QED
          BY <2>2, <2>4, <4>1, <5>1 DEF VerdictTyped
      <4>2. CASE a.kind # "erase"
        BY <2>2, <4>2
      <4> QED
        BY <4>1, <4>2
    <3>2. Erasing(Owed, b) => Erasing(Owed, b)'
      BY <2>1, <2>4 DEF Erasing
    <3> QED
      BY <1>2, <2>3, <3>1, <3>2
  <2>5. ASSUME NEW b \in Block, a.kind = "erase", BlockOf(a.page) = b
        PROVE  EntryRight(b)' /\ EntryMade(b)'
    <3>1. address.erase[a.tag] = a.page /\ (Failed(a.tag) <=> b \in bad)
      BY <1>a, <1>c, <2>5, FailedRight
    <3>2. badTable'[b] = EntryOf(b)
      BY <1>a, <2>2, <2>5, <3>1 DEF VerdictTyped, EntryOf
    <3>3. b \in Touched
      <4>1. PICK i \in 1..(Here - 1) : MadeAt(a, i)
        BY <2>1 DEF Knowing, Sourced
      <4>2. For(Steps[i], "erase", b)
        BY <2>5, <4>1 DEF MadeAt, For
      <4>3. ErasedBefore(Steps, Here, BlockOf(a.page))
        BY <2>5, <4>2 DEF ErasedBefore
      <4> QED
        BY <1>a, <2>1, <2>5, <4>3, ErasedTouched
    <3>4. EntryOf(b)' = EntryOf(b) /\ Touched' = Touched /\ EntryOf(b) # "unissued"
      BY <1>b DEF EntryOf, Touched
    <3> QED
      BY <3>2, <3>3, <3>4 DEF EntryRight, EntryMade
  <2> QED
    BY <1>1, <2>1, <2>4, <2>5
<1> QED
  BY <1>5, <1>6, <1>7, <1>8, <1>9, <1>10 DEF Happens

(* The invariant of the verdicts, while no answer has come twice. *)
VInv ==
  repeats = 0 =>
    /\ VerdictTyped /\ Sourced
    /\ FlashKnown /\ StatusKnown /\ ErasesRecorded
    /\ Checking /\ NoFalseAlarm /\ BadIsCaught /\ TableRight

LEMMA VInvInit == Init => VInv
<1> SUFFICES ASSUME Init PROVE VInv
  OBVIOUS
<1>1. ErasesRecorded
  BY DEF Init, ErasesRecorded, Owed, ToDo, Making
<1>2. Checking /\ NoFalseAlarm
  BY NoTag DEF Init, Checking, NoFalseAlarm, NoReport
<1>3. BadIsCaught
  BY NoTag DEF Init, BadIsCaught, BadCaught, CheckedAtOnce, PassedIsGood, NoReport, Here
<1>4. TableRight
  BY NothingBefore DEF Init, TableRight, EntryRight, EntryMade, SavedRight
<1> QED
  BY <1>1, <1>2, <1>3, <1>4, VerdictTypedInit, SourcedInit, FlashInit, StatusInit DEF VInv

LEMMA VInvStep == IInv /\ VInv /\ [Next]_vars => VInv'
<1> SUFFICES ASSUME IInv, VInv, [Next]_vars, repeats' = 0 PROVE VInv'
  BY DEF VInv
<1>1. TypeOK /\ repeats = 0 /\ Sound /\ Happens
  BY NothingRepeated DEF IInv
<1>2. /\ VerdictTyped /\ Sourced /\ FlashKnown /\ StatusKnown /\ ErasesRecorded
      /\ Checking /\ NoFalseAlarm /\ BadIsCaught /\ TableRight
  BY <1>1 DEF VInv
<1>3. Knowing
  BY <1>1, <1>2 DEF Knowing
<1>4. VerdictTyped' /\ Sourced' /\ FlashKnown'
  BY <1>1, <1>2, VerdictTypedStep, SourcedStep, FlashStep
<1>5. StatusKnown' /\ ErasesRecorded' /\ Checking'
  BY <1>1, <1>2, StatusStep, ErasesRecordedStep, CheckingStep
<1>6. NoFalseAlarm' /\ BadIsCaught' /\ TableRight'
  BY <1>1, <1>2, <1>3, NoFalseAlarmStep, BadIsCaughtStep, TableStep
<1> QED
  BY <1>4, <1>5, <1>6 DEF VInv

(* What main reports is true of the card: a program that keeps a verdict   *)
(* fails exactly when a block it erased is bad, and a table of bad blocks  *)
(* that is saved names those blocks (main.cpp:553, main_eraseall.cpp:340). *)
THEOREM VerdictsAreTrue == Spec => []ReportsTrue
<1>1. Init => VInv
  BY VInvInit
<1>2. IInv /\ VInv /\ [Next]_vars => VInv'
  BY VInvStep
<1>3. VInv => ReportsTrue
  BY DEF VInv, NoFalseAlarm, BadIsCaught, PassedIsGood, TableRight, SavedRight, ReportsTrue, Says,
         KeepsVerdict
<1> QED
  BY <1>1, <1>2, <1>3, IInvHolds, PTL DEF Spec
=============================================================================
