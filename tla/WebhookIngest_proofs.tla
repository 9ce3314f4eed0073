------------------------ MODULE WebhookIngest_proofs ------------------------
(***************************************************************************)
(* Proofs about WebhookIngest, for every number of deliveries, requests,   *)
(* repetitions and faults.                                                 *)
(***************************************************************************)
EXTENDS WebhookIngest, TLAPS

\* Handlers that recorded their delivery and have not answered.
Past == {"dispatch", "enqueue", "upsert", "addRepo"}

Request == [pc : {"record"} \cup Past, d : Deliveries, next : {1, 2}]

Types ==
  /\ event \in [Deliveries -> Event \cup {None}]
  /\ answers \in [Deliveries -> SUBSET {200, 202, 500}]
  /\ req \in [Requests -> Request \cup {Free}]
  /\ recorded \subseteq Deliveries
  /\ jobs \in [Deliveries -> [JobKinds -> Nat]]

\* A recorded delivery has an event, and one handler at most.
Order ==
  /\ \A r \in Requests : ~ At(r, "free") => event[req[r].d] # None
  /\ \A r \in Requests : req[r].pc \in Past => req[r].d \in recorded
  /\ \A q, r \in Requests : q # r /\ req[q].pc \in Past /\ req[r].pc \in Past => req[q].d # req[r].d
  /\ \A d \in Deliveries : event[d] = None => d \notin recorded /\ answers[d] = {}

\* The job of kind k is among the first n of an event.
Among(kind, n, k) == \E m \in {1, 2} : m <= n /\ m <= Len(JobsOf(kind)) /\ JobsOf(kind)[m] = k

Count(b) == IF b THEN 1 ELSE 0

\* What is enqueued for an event, by kind of job, follows from where its
\* handler m is.
Stage(m, kind, counts) ==
  /\ m.pc \in {"record", "dispatch"} => m.next = 1
  /\ m.pc \in {"dispatch", "upsert", "addRepo"} => \A k \in JobKinds : counts[k] = 0
  /\ m.pc \in {"upsert", "addRepo"} => JobsOf(kind) = <<>>
  /\ m.pc = "enqueue" =>
       /\ m.next <= Len(JobsOf(kind))
       /\ \A k \in JobKinds : counts[k] = Count(Among(kind, m.next - 1, k))

AtStage(r) == Stage(req[r], event[req[r].d].kind, jobs[req[r].d])

Progress ==
  /\ \A d \in Deliveries : d \notin recorded => \A k \in JobKinds : jobs[d][k] = 0
  /\ \A r \in Requests : AtStage(r)
  /\ \A d \in Deliveries : event[d] # None =>
       \A k \in JobKinds : jobs[d][k] <= Count(Among(event[d].kind, 2, k))

\* A process that was never started without the login drops the bot's events.
Known ==
  /\ blind => ~ botLogin
  /\ ~ blind =>
       /\ up => selfLogin
       /\ \A r \in Requests : ~ At(r, "free") => up
       /\ \A r \in Requests : At(r, "enqueue") => ~ event[req[r].d].own
       /\ \A d \in Deliveries : event[d].own => \A k \in JobKinds : jobs[d][k] = 0

IInv == Types /\ Order /\ Progress /\ AcceptedIsEnqueued

-----------------------------------------------------------------------------
(* The jobs of an event *)

\* At most two, of different kinds.
LEMMA JobsOfFacts ==
  ASSUME NEW kind \in Kinds
  PROVE  /\ Len(JobsOf(kind)) \in {0, 1, 2}
         /\ JobsOf(kind) # <<>> <=> Len(JobsOf(kind)) # 0
         /\ DOMAIN JobsOf(kind) = 1 .. Len(JobsOf(kind))
         /\ Len(JobsOf(kind)) >= 1 => JobsOf(kind)[1] \in JobKinds
         /\ Len(JobsOf(kind)) = 2 => JobsOf(kind)[2] \in JobKinds /\ JobsOf(kind)[1] # JobsOf(kind)[2]
<1>1. \/ JobsOf(kind) = <<>>
      \/ \E k \in JobKinds : JobsOf(kind) = <<k>>
      \/ JobsOf(kind) = <<"analyze_pr", "feedback_sweep">>
  BY DEF JobsOf, JobKinds, Kinds
<1>2. CASE JobsOf(kind) = <<>>
  BY <1>2
<1>3. ASSUME NEW k \in JobKinds, JobsOf(kind) = <<k>>
      PROVE  Len(JobsOf(kind)) = 1 /\ JobsOf(kind)[1] = k /\ DOMAIN JobsOf(kind) = 1 .. 1
  BY <1>3
<1>4. CASE JobsOf(kind) = <<"analyze_pr", "feedback_sweep">>
  BY <1>4 DEF JobKinds
<1>5. ASSUME NEW k \in JobKinds, JobsOf(kind) = <<k>> PROVE JobsOf(kind) # <<>>
  BY <1>5
<1> QED
  BY <1>1, <1>2, <1>3, <1>4, <1>5

\* The next job comes to the earlier ones.
LEMMA AmongNext ==
  ASSUME NEW kind \in Kinds, NEW n \in {1, 2}, n <= Len(JobsOf(kind))
  PROVE  /\ JobsOf(kind)[n] \in JobKinds
         /\ ~ Among(kind, n - 1, JobsOf(kind)[n])
         /\ \A k \in JobKinds : Among(kind, n, k) <=> Among(kind, n - 1, k) \/ k = JobsOf(kind)[n]
         /\ \A k \in JobKinds : Among(kind, n, k) => Among(kind, 2, k)
         /\ n = Len(JobsOf(kind)) => \A k \in JobKinds : Among(kind, n, k) <=> Among(kind, 2, k)
<1>1. CASE n = 1
  BY <1>1, JobsOfFacts DEF Among
<1>2. CASE n = 2
  BY <1>2, JobsOfFacts DEF Among
<1> QED
  BY <1>1, <1>2

\* The jobs that an event asks for.
LEMMA AskedFacts ==
  ASSUME NEW d \in Deliveries, event[d].kind \in Kinds
  PROVE  Asked(d) = {k \in JobKinds : Among(event[d].kind, 2, k)}
<1> DEFINE kind == event[d].kind
<1>1. ASSUME NEW k \in JobKinds, Among(kind, 2, k) PROVE \E n \in DOMAIN JobsOf(kind) : JobsOf(kind)[n] = k
  BY <1>1, JobsOfFacts DEF Among
<1>2. ASSUME NEW n \in DOMAIN JobsOf(kind)
      PROVE  JobsOf(kind)[n] \in JobKinds /\ Among(kind, 2, JobsOf(kind)[n])
  <2>1. n \in {1, 2} /\ n <= Len(JobsOf(kind))
    BY JobsOfFacts
  <2> QED
    BY <2>1, AmongNext
<1> QED
  BY <1>1, <1>2 DEF Asked

\* The jobs that it is to get.
LEMMA WantedFacts ==
  ASSUME NEW d \in Deliveries, event[d].kind \in Kinds
  PROVE  Wanted(d) = IF event[d].own THEN {} ELSE {k \in JobKinds : Among(event[d].kind, 2, k)}
BY AskedFacts DEF Wanted

\* They do not change with the tables.
LEMMA WantedSame ==
  ASSUME event' = event, NEW d \in Deliveries
  PROVE  Wanted(d)' = Wanted(d)
<1>1. event'[d].own = event[d].own /\ JobsOf(event'[d].kind) = JobsOf(event[d].kind)
  OBVIOUS
<1> QED
  BY <1>1, Zenon DEF Wanted, Asked

\* A delivery whose jobs are enqueued keeps them.
LEMMA EnqueuedSame ==
  ASSUME event' = event, NEW d \in Deliveries, jobs'[d] = jobs[d], AllEnqueued(d)
  PROVE  AllEnqueued(d)'
BY WantedSame DEF AllEnqueued

-----------------------------------------------------------------------------
(* A handler's step *)

JobCounts == [JobKinds -> Nat]

\* What a step of r must show of its own delivery.
LEMMA StepOf ==
  ASSUME IInv, NEW r \in Requests, ~ At(r, "free"),
         req' \in [Requests -> Request \cup {Free}], event' = event,
         \A q \in Requests : q # r => req'[q] = req[q],
         NEW d \in Deliveries, d = req[r].d,
         answers' \in [Deliveries -> SUBSET {200, 202, 500}],
         recorded' \in {recorded, recorded \cup {d}},
         jobs' \in [Deliveries -> JobCounts],
         \A e \in Deliveries : e # d => jobs'[e] = jobs[e] /\ answers'[e] = answers[e],
         req'[r] # Free => req'[r].d = d /\ Stage(req'[r], event[d].kind, jobs'[d]),
         req'[r].pc \in Past => d \in recorded' /\ (req[r].pc \in Past \/ d \notin recorded),
         jobs' # jobs => req[r].pc \in Past,
         \A k \in JobKinds : jobs'[d][k] <= Count(Among(event[d].kind, 2, k)),
         202 \in answers'[d] => AllEnqueued(d)'
  PROVE  IInv'
<1>0. Types /\ Order /\ Progress /\ AcceptedIsEnqueued
  BY DEF IInv
<1>1. req'[r] # Free => req'[r].d = d /\ req'[r].pc # "free"
  <2>1. req'[r] \in Request \cup {Free}
    OBVIOUS
  <2> QED
    BY <2>1 DEF Request, Past
<1>2. Types'
  BY <1>0, <1>1 DEF Types, JobCounts
<1>3. req[r].pc # "free" /\ event[d] # None
  BY <1>0 DEF Order, At
<1>4. Order'
  <2>1. ASSUME NEW q \in Requests, ~ At(q, "free")' PROVE event'[req'[q].d] # None
    <3>1. CASE q = r
      BY <1>1, <1>3, <2>1, <3>1 DEF At, Free
    <3>2. CASE q # r
      BY <1>0, <1>1, <2>1, <3>2 DEF Order, At
    <3> QED
      BY <3>1, <3>2
  <2>2. ASSUME NEW q \in Requests, req'[q].pc \in Past PROVE req'[q].d \in recorded'
    <3>1. CASE q = r
      BY <1>1, <2>2, <3>1 DEF Past, Free
    <3>2. CASE q # r
      BY <1>0, <1>1, <2>2, <3>2 DEF Order
    <3> QED
      BY <3>1, <3>2
  <2>3. ASSUME NEW q \in Requests, q # r, req'[q].pc \in Past, req'[r].pc \in Past PROVE req'[q].d # d
    BY <1>0, <1>1, <2>3 DEF Order
  <2>4. ASSUME NEW p \in Requests, NEW q \in Requests, p # q, req'[p].pc \in Past, req'[q].pc \in Past
        PROVE  req'[p].d # req'[q].d
    <3>1. CASE p = r
      BY <1>1, <2>3, <2>4, <3>1 DEF Past, Free
    <3>2. CASE q = r
      BY <1>1, <2>3, <2>4, <3>2 DEF Past, Free
    <3>3. CASE p # r /\ q # r
      BY <1>0, <1>1, <2>4, <3>3 DEF Order
    <3> QED
      BY <3>1, <3>2, <3>3
  <2>5. \A e \in Deliveries : event'[e] = None => e \notin recorded' /\ answers'[e] = {}
    BY <1>0, <1>3 DEF Order
  <2> QED
    BY <2>1, <2>2, <2>4, <2>5 DEF Order
<1>5. Progress'
  <2>1. ASSUME NEW e \in Deliveries, e \notin recorded', NEW k \in JobKinds PROVE jobs'[e][k] = 0
    <3>1. jobs[e][k] = 0 /\ e \notin recorded
      BY <1>0, <2>1 DEF Progress
    <3>2. CASE e = d
      BY <1>0, <2>1, <3>1, <3>2 DEF Order
    <3> QED
      BY <3>1, <3>2
  <2>2. ASSUME NEW q \in Requests PROVE AtStage(q)'
    <3>1. CASE q # r
      <4>1. AtStage(q) /\ req'[q] = req[q]
        BY <1>0, <1>1, <3>1 DEF Progress
      <4>2. CASE req[q].pc \notin Past
        BY <4>1, <4>2 DEF AtStage, Stage, Past
      <4>3. CASE req[q].pc \in Past
        <5>1. jobs'[req[q].d] = jobs[req[q].d]
          <6>1. CASE req[r].pc \in Past
            <7>1. req[q].d # d /\ req[q].d \in Deliveries
              BY <1>0, <3>1, <4>3, <6>1 DEF Order, Types
            <7> QED
              BY <7>1
          <6>2. CASE req[r].pc \notin Past
            BY <6>2
          <6> QED
            BY <6>1, <6>2
        <5> QED
          BY <4>1, <5>1 DEF AtStage
      <4> QED
        BY <4>2, <4>3
    <3>2. CASE q = r
      <4>1. CASE req'[r] = Free
        BY <3>2, <4>1 DEF AtStage, Stage, Free
      <4>2. CASE req'[r] # Free
        BY <1>1, <3>2, <4>2 DEF AtStage
      <4> QED
        BY <4>1, <4>2
    <3> QED
      BY <3>1, <3>2
  <2>3. ASSUME NEW e \in Deliveries, event'[e] # None, NEW k \in JobKinds
        PROVE  jobs'[e][k] <= Count(Among(event'[e].kind, 2, k))
    BY <1>0, <2>3 DEF Progress
  <2> QED
    BY <2>1, <2>2, <2>3 DEF Progress
<1>6. AcceptedIsEnqueued'
  BY <1>0, EnqueuedSame DEF AcceptedIsEnqueued
<1> QED
  BY <1>2, <1>4, <1>5, <1>6 DEF IInv

\* The types of what a busy handler works on.
LEMMA Handling ==
  ASSUME IInv, NEW r \in Requests, ~ At(r, "free")
  PROVE  /\ req \in [Requests -> Request \cup {Free}] /\ req[r] \in Request /\ req[r].d \in Deliveries
         /\ event[req[r].d] \in Event /\ event[req[r].d].kind \in Kinds
         /\ jobs \in [Deliveries -> JobCounts] /\ jobs[req[r].d] \in JobCounts
         /\ answers \in [Deliveries -> SUBSET {200, 202, 500}]
         /\ AtStage(r)
         /\ \A k \in JobKinds : jobs[req[r].d][k] <= Count(Among(event[req[r].d].kind, 2, k))
         /\ 202 \in answers[req[r].d] => AllEnqueued(req[r].d)
<1>1. Types /\ Order /\ Progress /\ AcceptedIsEnqueued
  BY DEF IInv
<1>2. req[r] \in Request
  BY <1>1 DEF Types, At, Free
<1>3. req[r].d \in Deliveries
  BY <1>2 DEF Request
<1>4. event[req[r].d] # None
  BY <1>1 DEF Order
<1>5. event[req[r].d] \in Event
  BY <1>1, <1>3, <1>4 DEF Types
<1> QED
  BY <1>1, <1>2, <1>3, <1>4, <1>5 DEF Types, Progress, AcceptedIsEnqueued, JobCounts, Event

\* An answer frees the handler, whatever else it did to its delivery.
LEMMA AnswerStep ==
  ASSUME IInv, NEW r \in Requests, ~ At(r, "free"),
         NEW code \in {200, 202, 500}, Answer(r, code), event' = event,
         NEW d \in Deliveries, d = req[r].d,
         recorded' \in {recorded, recorded \cup {d}},
         jobs' \in [Deliveries -> JobCounts],
         \A e \in Deliveries : e # d => jobs'[e] = jobs[e],
         jobs' # jobs => req[r].pc \in Past,
         \A k \in JobKinds : jobs'[d][k] >= jobs[d][k],
         \A k \in JobKinds : jobs'[d][k] <= Count(Among(event[d].kind, 2, k)),
         code = 202 => AllEnqueued(d)'
  PROVE  IInv'
<1>0. /\ req \in [Requests -> Request \cup {Free}]
      /\ answers \in [Deliveries -> SUBSET {200, 202, 500}]
      /\ jobs[d] \in JobCounts /\ jobs'[d] \in JobCounts /\ event[d].kind \in Kinds
      /\ 202 \in answers[d] => AllEnqueued(d)
  BY Handling
<1>1. /\ req' = [req EXCEPT ![r] = Free]
      /\ answers' = [answers EXCEPT ![d] = @ \cup {code}]
  BY DEF Answer
<1>2. answers' \in [Deliveries -> SUBSET {200, 202, 500}]
  BY <1>0, <1>1
<1>3. 202 \in answers'[d] => AllEnqueued(d)'
  <2>1. SUFFICES ASSUME 202 \in answers[d] PROVE AllEnqueued(d)'
    BY <1>0, <1>1
  <2>2. Wanted(d) \subseteq JobKinds /\ Wanted(d)' = Wanted(d)
    BY <1>0, WantedFacts, WantedSame
  <2>3. \A k \in JobKinds : jobs[d][k] > 0 => jobs'[d][k] > 0
    BY <1>0 DEF JobCounts
  <2> QED
    BY <1>0, <2>1, <2>2, <2>3 DEF AllEnqueued
<1>4. /\ req' \in [Requests -> Request \cup {Free}] /\ req'[r] = Free /\ req'[r].pc \notin Past
      /\ \A q \in Requests : q # r => req'[q] = req[q]
  BY <1>0, <1>1 DEF Free, Past
<1>5. \A e \in Deliveries : e # d => answers'[e] = answers[e]
  BY <1>0, <1>1
<1> QED
  BY <1>2, <1>3, <1>4, <1>5, StepOf

\* handleWebhook up to the dispatch.
LEMMA RecordSteps ==
  ASSUME IInv, NEW r \in Requests, Duplicate(r) \/ Record(r) \/ RecordFails(r),
         NEW d \in Deliveries, d = req[r].d
  PROVE  IInv'
<1>0. ~ At(r, "free") /\ At(r, "record")
  BY DEF Duplicate, Record, RecordFails, At
<1>1. /\ req \in [Requests -> Request \cup {Free}] /\ req[r] \in Request
      /\ jobs \in [Deliveries -> JobCounts] /\ jobs[d] \in JobCounts
      /\ answers \in [Deliveries -> SUBSET {200, 202, 500}]
      /\ Stage(req[r], event[d].kind, jobs[d])
      /\ \A k \in JobKinds : jobs[d][k] <= Count(Among(event[d].kind, 2, k))
      /\ 202 \in answers[d] => AllEnqueued(d)
  BY <1>0, Handling DEF AtStage
<1>2. event' = event /\ jobs' = jobs /\ recorded' \in {recorded, recorded \cup {d}}
  BY DEF Duplicate, Record, RecordFails, github
<1>3. \A k \in JobKinds : jobs'[d][k] >= jobs[d][k] /\ jobs'[d][k] <= Count(Among(event[d].kind, 2, k))
  BY <1>1, <1>2 DEF JobCounts
<1>4. CASE Duplicate(r) \/ RecordFails(r)
  <2>1. PICK code \in {200, 500} : Answer(r, code)
    BY <1>4 DEF Duplicate, RecordFails
  <2> QED
    BY <1>0, <1>1, <1>2, <1>3, <2>1, AnswerStep
<1>5. CASE Record(r)
  <2> DEFINE m == [req[r] EXCEPT !.pc = "dispatch"]
  <2>1. m \in Request /\ m.pc = "dispatch" /\ m.d = d
    BY <1>1 DEF Request, Past
  <2>2. /\ req' = [req EXCEPT ![r] = m] /\ answers' = answers
        /\ d \notin recorded /\ recorded' = recorded \cup {d}
    BY <1>1, <1>5 DEF Record, GoTo, Fresh
  <2>3. \A k \in JobKinds : jobs[d][k] = 0
    BY <1>1, <2>2 DEF IInv, Progress
  <2>4. Stage(m, event[d].kind, jobs'[d])
    <3>1. m.next = 1
      BY <1>1, <1>0 DEF Stage, At
    <3> QED
      BY <1>2, <2>1, <2>3, <3>1 DEF Stage
  <2>5. 202 \in answers'[d] => AllEnqueued(d)'
    BY <1>1, <1>2, <2>2, EnqueuedSame
  <2> HIDE DEF m
  <2>6. /\ req' \in [Requests -> Request \cup {Free}] /\ req'[r] = m
        /\ \A q \in Requests : q # r => req'[q] = req[q]
        /\ answers' \in [Deliveries -> SUBSET {200, 202, 500}]
        /\ \A q \in Deliveries : jobs'[q] = jobs[q] /\ answers'[q] = answers[q]
        /\ d \in recorded' /\ d \notin recorded
    BY <1>1, <1>2, <2>1, <2>2
  <2> QED
    BY <1>0, <1>1, <1>2, <1>3, <2>1, <2>3, <2>4, <2>5, <2>6, StepOf
<1> QED
  BY <1>4, <1>5

\* Dispatch: events without jobs are answered, the others go on.
LEMMA DispatchStep ==
  ASSUME IInv, NEW r \in Requests, Dispatch(r),
         NEW d \in Deliveries, d = req[r].d
  PROVE  IInv'
<1>0. ~ At(r, "free") /\ At(r, "dispatch")
  BY DEF Dispatch, At
<1> DEFINE e == event[d]
<1>1. /\ req \in [Requests -> Request \cup {Free}] /\ req[r] \in Request
      /\ e \in Event /\ e.kind \in Kinds
      /\ jobs \in [Deliveries -> JobCounts] /\ jobs[d] \in JobCounts
      /\ answers \in [Deliveries -> SUBSET {200, 202, 500}]
      /\ Stage(req[r], e.kind, jobs[d])
      /\ \A k \in JobKinds : jobs[d][k] <= Count(Among(e.kind, 2, k))
      /\ 202 \in answers[d] => AllEnqueued(d)
  BY <1>0, Handling DEF AtStage
<1>2. event' = event /\ jobs' = jobs /\ recorded' = recorded
  BY DEF Dispatch, github
<1>3. \A k \in JobKinds : jobs'[d][k] >= jobs[d][k] /\ jobs'[d][k] <= Count(Among(e.kind, 2, k))
  BY <1>1, <1>2 DEF JobCounts
<1>4. d \in recorded /\ req[r].pc \in Past
  BY <1>0 DEF IInv, Order, At, Past
<1>5. \A k \in JobKinds : jobs[d][k] = 0
  BY <1>0, <1>1 DEF Stage, At
<1>8. req[r].next = 1
  BY <1>0, <1>1 DEF Stage, At
<1>6. CASE Answer(r, 202) /\ (JobsOf(e.kind) = <<>> \/ Filtered(e))
  <2>1. Wanted(d) = {}
    <3>1. CASE JobsOf(e.kind) = <<>>
      <4>1. Len(JobsOf(e.kind)) = 0
        BY <1>1, <3>1, JobsOfFacts
      <4> QED
        BY <1>1, <4>1, WantedFacts DEF Among
    <3>2. CASE Filtered(e)
      BY <1>1, <3>2, WantedFacts DEF Filtered
    <3> QED
      BY <1>6, <3>1, <3>2
  <2>2. AllEnqueued(d)'
    BY <1>2, <2>1, WantedSame DEF AllEnqueued
  <2> QED
    BY <1>0, <1>1, <1>2, <1>3, <1>6, <2>2, AnswerStep
<1>7. ASSUME NEW pc \in Past, GoTo(r, pc), UNCHANGED answers,
             pc = "upsert" \/ pc = "addRepo" => JobsOf(e.kind) = <<>>,
             pc = "enqueue" => req[r].next <= Len(JobsOf(e.kind))
      PROVE  IInv'
  <2> DEFINE m == [req[r] EXCEPT !.pc = pc]
  <2>1. m \in Request /\ m.pc = pc /\ m.d = d /\ m.next = req[r].next
    BY <1>1 DEF Request
  <2>2. req' = [req EXCEPT ![r] = m]
    BY <1>1, <1>7 DEF GoTo
  <2> HIDE DEF m
  <2>3. /\ req' \in [Requests -> Request \cup {Free}] /\ req'[r] = m
        /\ \A q \in Requests : q # r => req'[q] = req[q]
    BY <1>1, <2>1, <2>2
  <2>4. ASSUME pc = "enqueue", NEW k \in JobKinds
        PROVE  jobs[d][k] = Count(Among(e.kind, req[r].next - 1, k))
    <3>1. ~ Among(e.kind, 0, k)
      BY DEF Among
    <3> QED
      BY <1>5, <1>8, <3>1 DEF Count
  <2>5. Stage(m, e.kind, jobs'[d])
    BY <1>2, <1>5, <1>7, <1>8, <2>1, <2>4 DEF Stage
  <2>6. 202 \in answers'[d] => AllEnqueued(d)'
    BY <1>1, <1>2, <1>7, EnqueuedSame
  <2> QED
    BY <1>0, <1>1, <1>2, <1>3, <1>4, <1>7, <2>1, <2>3, <2>5, <2>6, StepOf
<1>9. e.kind \in {"installation", "reposAdded"} => JobsOf(e.kind) = <<>>
  BY DEF JobsOf
<1>10. JobsOf(e.kind) # <<>> => 1 <= Len(JobsOf(e.kind))
  BY <1>1, JobsOfFacts
<1> QED
  BY <1>6, <1>7, <1>8, <1>9, <1>10 DEF Dispatch, Past

\* A handler with a row that it inserts, or that failed to report it.
LEMMA InsertStep ==
  ASSUME IInv, NEW r \in Requests, Enqueue(r) \/ EnqueueFails(r),
         NEW d \in Deliveries, d = req[r].d
  PROVE  IInv'
<1> DEFINE kind == event[d].kind
           n == req[r].next
           k == JobsOf(kind)[n]
           more == [jobs EXCEPT ![d][k] = @ + 1]
<1>0. ~ At(r, "free") /\ At(r, "enqueue")
  BY DEF Enqueue, EnqueueFails, At
<1>1. /\ req \in [Requests -> Request \cup {Free}] /\ req[r] \in Request
      /\ event[d] \in Event /\ kind \in Kinds
      /\ jobs \in [Deliveries -> JobCounts] /\ jobs[d] \in JobCounts
      /\ answers \in [Deliveries -> SUBSET {200, 202, 500}]
      /\ Stage(req[r], kind, jobs[d])
      /\ \A l \in JobKinds : jobs[d][l] <= Count(Among(kind, 2, l))
      /\ 202 \in answers[d] => AllEnqueued(d)
  BY <1>0, Handling DEF AtStage
<1>2. event' = event /\ recorded' = recorded
  BY DEF Enqueue, EnqueueFails, github
<1>3. d \in recorded /\ req[r].pc \in Past
  BY <1>0 DEF IInv, Order, At, Past
<1>4. /\ n \in {1, 2} /\ n <= Len(JobsOf(kind))
      /\ \A l \in JobKinds : jobs[d][l] = Count(Among(kind, n - 1, l))
  BY <1>0, <1>1 DEF Stage, At, Request
<1> HIDE DEF kind, n
<1>5. /\ k \in JobKinds /\ ~ Among(kind, n - 1, k)
      /\ \A l \in JobKinds : Among(kind, n, l) <=> Among(kind, n - 1, l) \/ l = k
      /\ \A l \in JobKinds : Among(kind, n, l) => Among(kind, 2, l)
      /\ n = Len(JobsOf(kind)) => \A l \in JobKinds : Among(kind, n, l) <=> Among(kind, 2, l)
  <2>1. kind \in Kinds
    BY <1>1
  <2> QED
    BY <1>4, <2>1, AmongNext
<1> HIDE DEF k
<1>6. /\ more \in [Deliveries -> JobCounts] /\ more[d] \in JobCounts
      /\ \A e \in Deliveries : e # d => more[e] = jobs[e]
      /\ more[d][k] = jobs[d][k] + 1
      /\ \A l \in JobKinds : l # k => more[d][l] = jobs[d][l]
  BY <1>1, <1>5 DEF JobCounts
<1> HIDE DEF more
<1>7. \A l \in JobKinds : more[d][l] = Count(Among(kind, n, l))
  BY <1>4, <1>5, <1>6 DEF Count
<1>8. \A l \in JobKinds : more[d][l] >= jobs[d][l] /\ more[d][l] <= Count(Among(kind, 2, l))
  <2>1. \A l \in JobKinds : more[d][l] <= Count(Among(kind, 2, l))
    BY <1>5, <1>7 DEF Count
  <2>2. \A l \in JobKinds : more[d][l] >= jobs[d][l]
    BY <1>1, <1>6 DEF JobCounts
  <2> QED
    BY <2>1, <2>2
<1>9. jobs' \in {jobs, more} /\ (Enqueue(r) => jobs' = more)
  BY DEF Enqueue, EnqueueFails, kind, n, k, more
<1>10. /\ jobs' \in [Deliveries -> JobCounts]
       /\ \A e \in Deliveries : e # d => jobs'[e] = jobs[e]
       /\ \A l \in JobKinds : jobs'[d][l] >= jobs[d][l]
       /\ \A l \in JobKinds : jobs'[d][l] <= Count(Among(kind, 2, l))
  <2>1. \A l \in JobKinds : jobs[d][l] >= jobs[d][l]
    BY <1>1 DEF JobCounts
  <2> QED
    BY <1>1, <1>6, <1>8, <1>9, <2>1
<1>11. CASE EnqueueFails(r)
  <2>1. Answer(r, 500)
    BY <1>11 DEF EnqueueFails
  <2> QED
    BY <1>0, <1>2, <1>3, <1>10, <2>1, AnswerStep DEF kind
<1>12. CASE Enqueue(r) /\ n = Len(JobsOf(kind))
  <2>1. Answer(r, 202)
    BY <1>12 DEF Enqueue, LastJob, kind, n
  <2>2. \A l \in Wanted(d) : l \in JobKinds /\ Among(kind, n, l)
    BY <1>1, <1>5, <1>12, WantedFacts DEF kind
  <2>3. \A l \in Wanted(d) : jobs'[d][l] > 0
    BY <1>7, <1>9, <1>12, <2>2 DEF Count
  <2>4. AllEnqueued(d)'
    BY <1>2, <2>3, WantedSame DEF AllEnqueued
  <2> QED
    BY <1>0, <1>2, <1>3, <1>10, <2>1, <2>4, AnswerStep DEF kind
<1>13. CASE Enqueue(r) /\ n # Len(JobsOf(kind))
  <2> DEFINE m == [req[r] EXCEPT !.next = n + 1]
  <2>1. req' = [req EXCEPT ![r] = m] /\ answers' = answers
    BY <1>1, <1>13 DEF Enqueue, LastJob, kind, n
  <2>2. n = 1 /\ Len(JobsOf(kind)) = 2
    <3>1. Len(JobsOf(kind)) \in {0, 1, 2}
      BY <1>1, JobsOfFacts DEF kind
    <3>2. n \in {1, 2} /\ n <= Len(JobsOf(kind)) /\ n # Len(JobsOf(kind))
      BY <1>4, <1>13
    <3>3. ASSUME NEW len \in {0, 1, 2}, n <= len, n # len PROVE n = 1 /\ len = 2
      BY <3>2, <3>3
    <3> QED
      BY <3>1, <3>2, <3>3
  <2>3. m \in Request /\ m.pc = "enqueue" /\ m.d = d /\ m.next = 2
    BY <1>0, <1>1, <2>2 DEF Request, At
  <2> HIDE DEF m
  <2>4. Stage(m, kind, jobs'[d])
    BY <1>7, <1>9, <1>13, <2>2, <2>3 DEF Stage
  <2>5. /\ req' \in [Requests -> Request \cup {Free}] /\ req'[r] = m
        /\ \A q \in Requests : q # r => req'[q] = req[q]
    BY <1>1, <2>1, <2>3
  <2>6. 202 \in answers'[d] => AllEnqueued(d)'
    <3>1. SUFFICES ASSUME AllEnqueued(d) PROVE AllEnqueued(d)'
      BY <1>1, <2>1
    <3>2. Wanted(d)' = Wanted(d) /\ Wanted(d) \subseteq JobKinds
      BY <1>1, <1>2, WantedSame, WantedFacts DEF kind
    <3>3. \A l \in JobKinds : jobs[d][l] > 0 => jobs'[d][l] > 0
      BY <1>1, <1>6, <1>8, <1>9, <1>13 DEF JobCounts
    <3> QED
      BY <3>1, <3>2, <3>3 DEF AllEnqueued
  <2> QED
    BY <1>0, <1>1, <1>2, <1>3, <1>10, <2>1, <2>3, <2>4, <2>5, <2>6, StepOf DEF kind
<1> QED
  BY <1>11, <1>12, <1>13

\* The installation and repository handlers answer without a job.
LEMMA RegisterSteps ==
  ASSUME IInv, NEW r \in Requests, UpsertInstallation(r) \/ AddRepo(r),
         NEW d \in Deliveries, d = req[r].d
  PROVE  IInv'
<1>0. ~ At(r, "free") /\ req[r].pc \in {"upsert", "addRepo"}
  BY DEF UpsertInstallation, AddRepo, At
<1>1. /\ event[d].kind \in Kinds
      /\ jobs \in [Deliveries -> JobCounts] /\ jobs[d] \in JobCounts
      /\ JobsOf(event[d].kind) = <<>>
      /\ \A l \in JobKinds : jobs[d][l] <= Count(Among(event[d].kind, 2, l))
  BY <1>0, Handling DEF AtStage, Stage
<1>2. event' = event /\ recorded' = recorded /\ jobs' = jobs
  BY DEF UpsertInstallation, AddRepo, github
<1>3. PICK code \in {202, 500} : Answer(r, code)
  BY DEF UpsertInstallation, AddRepo
<1>4. \A l \in JobKinds : jobs'[d][l] >= jobs[d][l] /\ jobs'[d][l] <= Count(Among(event[d].kind, 2, l))
  BY <1>1, <1>2 DEF JobCounts
<1>5. AllEnqueued(d)'
  <2>1. Len(JobsOf(event[d].kind)) = 0
    BY <1>1, JobsOfFacts
  <2>2. Wanted(d) = {}
    BY <1>1, <2>1, WantedFacts DEF Among
  <2> QED
    BY <1>2, <2>2, WantedSame DEF AllEnqueued
<1> QED
  BY <1>0, <1>1, <1>2, <1>3, <1>4, <1>5, AnswerStep

\* A new event: nobody has handled it.
LEMMA EventStep ==
  ASSUME IInv, NEW d \in Deliveries, event[d] = None,
         NEW e \in Event, event' = [event EXCEPT ![d] = e],
         UNCHANGED <<answers, req, recorded, jobs>>
  PROVE  IInv'
<1>0. Types /\ Order /\ Progress /\ AcceptedIsEnqueued
  BY DEF IInv
<1>1. /\ \A c \in Deliveries : c # d => event'[c] = event[c]
      /\ event'[d] = e /\ e # None /\ e.kind \in Kinds
  BY <1>0 DEF Types, Event, None, Kinds
<1>2. d \notin recorded /\ answers[d] = {} /\ \A k \in JobKinds : jobs[d][k] = 0
  BY <1>0 DEF Order, Progress
<1>3. ASSUME NEW r \in Requests, ~ At(r, "free")
      PROVE  req[r].d \in Deliveries /\ req[r].d # d
  BY <1>0, <1>3 DEF Types, Order, Request, Free, At
<1>4. Types'
  BY <1>0 DEF Types
<1>5. Order'
  <2>1. ASSUME NEW r \in Requests, ~ At(r, "free")' PROVE event'[req'[r].d] # None
    BY <1>0, <1>1, <1>3, <2>1 DEF Order, At
  <2>2. \A c \in Deliveries : event'[c] = None => c \notin recorded' /\ answers'[c] = {}
    BY <1>0, <1>1 DEF Order
  <2> QED
    BY <1>0, <2>1, <2>2 DEF Order
<1>6. Progress'
  <2>1. ASSUME NEW r \in Requests PROVE AtStage(r)'
    <3>1. CASE At(r, "free")
      BY <3>1 DEF AtStage, Stage, At
    <3>2. CASE ~ At(r, "free")
      BY <1>0, <1>1, <1>3, <3>2 DEF AtStage, Progress
    <3> QED
      BY <3>1, <3>2
  <2>2. ASSUME NEW c \in Deliveries, event'[c] # None, NEW k \in JobKinds
        PROVE  jobs'[c][k] <= Count(Among(event'[c].kind, 2, k))
    <3>1. CASE c = d
      BY <1>2, <3>1 DEF Count
    <3>2. CASE c # d
      BY <1>0, <1>1, <2>2, <3>2 DEF Progress
    <3> QED
      BY <3>1, <3>2
  <2> QED
    BY <1>0, <2>1, <2>2 DEF Progress
<1>7. AcceptedIsEnqueued'
  <2>1. ASSUME NEW c \in Deliveries, 202 \in answers'[c] PROVE AllEnqueued(c)'
    <3>1. c # d /\ AllEnqueued(c)
      BY <1>0, <1>2, <2>1 DEF AcceptedIsEnqueued
    <3>2. event'[c].own = event[c].own /\ JobsOf(event'[c].kind) = JobsOf(event[c].kind)
      BY <1>1, <3>1
    <3>3. Wanted(c)' = Wanted(c)
      BY <3>2, Zenon DEF Wanted, Asked
    <3> QED
      BY <3>1, <3>3 DEF AllEnqueued
  <2> QED
    BY <2>1 DEF AcceptedIsEnqueued
<1> QED
  BY <1>4, <1>5, <1>6, <1>7 DEF IInv

\* A delivery arrives at a free handler.
LEMMA DeliverStep ==
  ASSUME IInv, NEW d \in Deliveries, NEW r \in Requests, Deliver(d, r)
  PROVE  IInv'
<1> DEFINE m == [pc |-> "record", d |-> d, next |-> 1]
<1>0. Types /\ Order /\ Progress /\ AcceptedIsEnqueued
  BY DEF IInv
<1>1. /\ req' = [req EXCEPT ![r] = m] /\ event[d] # None
      /\ UNCHANGED <<event, answers, recorded, jobs>>
  BY DEF Deliver
<1>2. /\ req' \in [Requests -> Request \cup {Free}] /\ req'[r] = m
      /\ \A q \in Requests : q # r => req'[q] = req[q]
  <2>1. m \in Request
    BY DEF Request
  <2> QED
    BY <1>0, <1>1, <2>1 DEF Types
<1>3. m.pc = "record" /\ m.d = d /\ m.next = 1
  OBVIOUS
<1> HIDE DEF m
<1>4. Types'
  BY <1>0, <1>1, <1>2 DEF Types
<1>5. Order'
  BY <1>0, <1>1, <1>2, <1>3 DEF Order, At, Past
<1>6. Progress'
  <2>1. ASSUME NEW q \in Requests PROVE AtStage(q)'
    <3>1. CASE q = r
      BY <1>2, <1>3, <3>1 DEF AtStage, Stage
    <3>2. CASE q # r
      BY <1>0, <1>1, <1>2, <3>2 DEF AtStage, Progress
    <3> QED
      BY <3>1, <3>2
  <2> QED
    BY <1>0, <1>1, <2>1 DEF Progress
<1>7. AcceptedIsEnqueued'
  BY <1>0, <1>1, EnqueuedSame DEF AcceptedIsEnqueued
<1> QED
  BY <1>4, <1>5, <1>6, <1>7 DEF IInv

\* Steps that leave the deliveries alone: no request changes, or all are freed.
LEMMA ProcessStep ==
  ASSUME IInv, UNCHANGED <<event, answers, recorded, jobs>>,
         req' = req \/ req' = [r \in Requests |-> Free]
  PROVE  IInv'
<1>0. Types /\ Order /\ Progress /\ AcceptedIsEnqueued
  BY DEF IInv
<1>1. \A r \in Requests : req'[r] = req[r] \/ req'[r] = Free
  OBVIOUS
<1>2. Types'
  BY <1>0 DEF Types
<1>3. Free.pc = "free"
  BY DEF Free
<1>4. Order'
  BY <1>0, <1>1, <1>3 DEF Order, At, Past
<1>5. Progress'
  <2>1. ASSUME NEW r \in Requests PROVE AtStage(r)'
    BY <1>0, <1>1, <1>3 DEF AtStage, Stage, Progress
  <2> QED
    BY <1>0, <2>1 DEF Progress
<1>6. AcceptedIsEnqueued'
  BY <1>0, EnqueuedSame DEF AcceptedIsEnqueued
<1> QED
  BY <1>2, <1>4, <1>5, <1>6 DEF IInv

-----------------------------------------------------------------------------
(* The inductive invariant *)

\* Nothing has happened yet.
LEMMA Initially == Init => IInv
<1> SUFFICES ASSUME Init PROVE IInv
  OBVIOUS
<1>1. Free.pc = "free"
  BY DEF Free
<1>2. Types
  BY DEF Init, Types
<1>3. Order
  BY <1>1 DEF Init, Order, At, Past
<1>4. Progress
  BY <1>1 DEF Init, Progress, AtStage, Stage
<1>5. AcceptedIsEnqueued
  BY DEF Init, AcceptedIsEnqueued
<1> QED
  BY <1>2, <1>3, <1>4, <1>5 DEF IInv

\* Every step keeps the invariant.
LEMMA Inductive == IInv /\ [Next]_vars => IInv'
<1> SUFFICES ASSUME IInv, [Next]_vars PROVE IInv'
  OBVIOUS
<1>1. ASSUME NEW d \in Deliveries, Install(d) PROVE IInv'
  <2>1. [kind |-> "installation", own |-> FALSE] \in Event
    BY DEF Event, Kinds
  <2> QED
    BY <1>1, <2>1, EventStep DEF Install
<1>2. ASSUME NEW d \in Deliveries, NEW e \in Event, Emit(d, e) PROVE IInv'
  BY <1>2, EventStep DEF Emit
<1>3. ASSUME NEW d \in Deliveries, NEW r \in Requests, Deliver(d, r) PROVE IInv'
  BY <1>3, DeliverStep
<1>4. ASSUME NEW r \in Requests, Handle(r) PROVE IInv'
  <2>1. ~ At(r, "free")
    BY <1>4 DEF Handle, Duplicate, Record, RecordFails, Dispatch, Enqueue, EnqueueFails,
                UpsertInstallation, AddRepo, At
  <2>2. req[r].d \in Deliveries
    BY <2>1, Handling
  <2> QED
    BY <1>4, <2>2, RecordSteps, DispatchStep, InsertStep, RegisterSteps DEF Handle
<1>5. CASE SyncRepos \/ Start \/ Crash
  BY <1>5, ProcessStep DEF SyncRepos, Start, Crash, github
<1>6. CASE UNCHANGED vars
  BY <1>6, ProcessStep DEF vars, github
<1> QED
  BY <1>1, <1>2, <1>3, <1>4, <1>5, <1>6 DEF Next

\* 202 Accepted means that every job of the event is in the queue, whatever
\* the number of requests, repetitions, crashes and failures
\* (handler.go:73-193).
THEOREM Accepted == Spec => []AcceptedIsEnqueued
<1>1. IInv => AcceptedIsEnqueued
  BY DEF IInv
<1> QED
  BY <1>1, Initially, Inductive, PTL DEF Spec

-----------------------------------------------------------------------------
(* While the process knows the bot, its events become no jobs *)

KnownIInv == IInv /\ Known

\* No handler runs, and no event has happened.
LEMMA KnownInitially == Init => KnownIInv
<1> SUFFICES ASSUME Init PROVE Known
  BY Initially DEF KnownIInv
<1>1. Free.pc = "free" /\ ~ None.own
  BY DEF Free, None
<1> QED
  BY <1>1 DEF Init, Known, At

\* A process knows the bot from its start on, unless it is blind.
LEMMA KnownInductive == KnownIInv /\ [Next]_vars => KnownIInv'
<1> SUFFICES ASSUME KnownIInv, [Next]_vars PROVE Known'
  BY Inductive DEF KnownIInv
<1>0. IInv /\ Known /\ Types /\ Order /\ Progress
  BY DEF KnownIInv, IInv
<1>1. ASSUME NEW d \in Deliveries, NEW e \in Event, event[d] = None,
             event' = [event EXCEPT ![d] = e],
             UNCHANGED <<botLogin, blind, up, selfLogin, req, recorded, jobs>>
      PROVE  Known'
  <2>1. d \notin recorded /\ \A k \in JobKinds : jobs[d][k] = 0
    BY <1>0, <1>1 DEF Order, Progress
  <2>2. \A c \in Deliveries : c # d => event'[c] = event[c]
    BY <1>0, <1>1 DEF Types
  <2>3. ASSUME NEW r \in Requests, ~ At(r, "free") PROVE req[r].d # d /\ req[r].d \in Deliveries
    BY <1>0, <1>1, <2>3 DEF Types, Order, Request, Free, At
  <2>4. ASSUME ~ blind, NEW r \in Requests, At(r, "enqueue")' PROVE ~ event'[req'[r].d].own
    <3>1. At(r, "enqueue") /\ ~ At(r, "free")
      BY <1>1, <2>4 DEF At
    <3> QED
      BY <1>0, <1>1, <2>2, <2>3, <2>4, <3>1 DEF Known
  <2>5. ASSUME ~ blind, NEW c \in Deliveries, event'[c].own, NEW k \in JobKinds PROVE jobs'[c][k] = 0
    BY <1>0, <1>1, <2>1, <2>2, <2>5 DEF Known
  <2>6. ~ blind => (up => selfLogin)' /\ \A r \in Requests : ~ At(r, "free")' => up'
    BY <1>0, <1>1 DEF Known, At
  <2>7. (blind => ~ botLogin)' /\ blind' = blind
    BY <1>0, <1>1 DEF Known
  <2> QED
    BY <2>4, <2>5, <2>6, <2>7 DEF Known
<1>2. ASSUME NEW d \in Deliveries, Install(d) PROVE Known'
  <2>1. [kind |-> "installation", own |-> FALSE] \in Event
    BY DEF Event, Kinds
  <2> QED
    BY <1>1, <1>2, <2>1 DEF Install, process
<1>3. ASSUME NEW d \in Deliveries, NEW e \in Event, Emit(d, e) PROVE Known'
  BY <1>1, <1>3 DEF Emit, process
<1>4. ASSUME NEW d \in Deliveries, NEW r \in Requests, Deliver(d, r) PROVE Known'
  <2>1. req' = [req EXCEPT ![r] = [pc |-> "record", d |-> d, next |-> 1]] /\ up
    BY <1>4 DEF Deliver
  <2>2. req'[r].pc = "record" /\ \A q \in Requests : q # r => req'[q] = req[q]
    BY <1>0, <2>1 DEF Types
  <2>3. UNCHANGED <<event, botLogin, blind, up, selfLogin, jobs>>
    BY <1>4 DEF Deliver, process
  <2> QED
    BY <1>0, <2>1, <2>2, <2>3 DEF Known, At
<1>5. ASSUME NEW r \in Requests, Handle(r) PROVE Known'
  <2>1. ~ At(r, "free")
    BY <1>5 DEF Handle, Duplicate, Record, RecordFails, Dispatch, Enqueue, EnqueueFails,
                UpsertInstallation, AddRepo, At
  <2>0. UNCHANGED <<event, botLogin, blind, up, selfLogin>>
    BY <1>5 DEF Handle, Duplicate, Record, RecordFails, Dispatch, Enqueue, EnqueueFails,
                UpsertInstallation, AddRepo, github, process
  <2>2. ~ blind => up /\ selfLogin
    BY <1>0, <2>1 DEF Known
  <2>3. req \in [Requests -> Request \cup {Free}] /\ event[req[r].d] \in Event
        /\ jobs \in [Deliveries -> JobCounts] /\ req[r].d \in Deliveries /\ AtStage(r)
    BY <1>0, <2>1, Handling
  <2>4. \A q \in Requests : q # r => req'[q] = req[q]
    BY <1>5, <2>3 DEF Handle, Duplicate, Record, RecordFails, Dispatch, Enqueue, EnqueueFails,
                UpsertInstallation, AddRepo, GoTo, Answer
  <2>5. Free.pc = "free"
    BY DEF Free
  <2>6. ~ blind /\ At(r, "enqueue")' => req'[r].d = req[r].d /\ ~ event[req[r].d].own
    <3> HAVE ~ blind /\ At(r, "enqueue")'
    <3>1. CASE Dispatch(r)
      <4>1. CASE Answer(r, 202)
        BY <2>3, <2>5, <4>1 DEF Answer, At
      <4>2. ASSUME NEW pc \in Past, GoTo(r, pc) PROVE req'[r].pc = pc /\ req'[r].d = req[r].d
        BY <2>3, <4>2 DEF GoTo, Request, Free
      <4>3. ASSUME GoTo(r, "upsert") \/ GoTo(r, "addRepo") PROVE ~ At(r, "enqueue")'
        BY <4>2, <4>3 DEF At, Past
      <4>4. ASSUME GoTo(r, "enqueue"), ~ Filtered(event[req[r].d])
            PROVE  req'[r].d = req[r].d /\ ~ event[req[r].d].own
        BY <2>2, <4>2, <4>4 DEF Filtered, Past
      <4> QED
        BY <3>1, <4>1, <4>3, <4>4 DEF Dispatch
    <3>2. CASE Record(r)
      BY <2>3, <3>2 DEF Record, GoTo, At, Request, Free
    <3>3. CASE Enqueue(r) /\ ~ \E code \in {202} : Answer(r, code)
      <4>1. At(r, "enqueue") /\ req' = [req EXCEPT ![r].next = @ + 1]
        BY <3>3 DEF Enqueue
      <4>2. req'[r].d = req[r].d
        BY <2>3, <4>1 DEF Request, Free
      <4> QED
        BY <1>0, <4>1, <4>2 DEF Known
    <3>4. ASSUME NEW code \in {200, 202, 500}, Answer(r, code) PROVE ~ At(r, "enqueue")'
      BY <2>3, <2>5, <3>4 DEF Answer, At
    <3> QED
      BY <1>5, <3>1, <3>2, <3>3, <3>4 DEF Handle, Duplicate, RecordFails, EnqueueFails,
                                          UpsertInstallation, AddRepo
  <2>7. ~ blind => \A c \in Deliveries : event[c].own => \A k \in JobKinds : jobs'[c][k] = 0
    <3> HAVE ~ blind
    <3>1. CASE Enqueue(r) \/ EnqueueFails(r)
      <4>1. ~ event[req[r].d].own
        BY <1>0, <3>1 DEF Enqueue, EnqueueFails, Known
      <4>2. \A c \in Deliveries : c # req[r].d => jobs'[c] = jobs[c]
        BY <2>3, <3>1 DEF Enqueue, EnqueueFails
      <4> QED
        BY <1>0, <4>1, <4>2 DEF Known
    <3>2. CASE jobs' = jobs
      BY <1>0, <3>2 DEF Known
    <3> QED
      BY <1>5, <3>1, <3>2 DEF Handle, Duplicate, Record, RecordFails, Dispatch,
                              UpsertInstallation, AddRepo
  <2> QED
    BY <1>0, <2>0, <2>2, <2>4, <2>6, <2>7 DEF Known, At
<1>6. CASE Start
  <2>1. UNCHANGED <<event, botLogin, req, jobs>> /\ up'
    BY <1>6 DEF Start, github
  <2>2. blind' = (blind \/ ~ selfLogin') /\ (~ selfLogin' => ~ botLogin)
    BY <1>6 DEF Start
  <2>3. (blind => ~ botLogin)'
    BY <1>0, <2>1, <2>2 DEF Known
  <2>4. ~ blind' => ~ blind /\ selfLogin'
    BY <2>2
  <2> QED
    BY <1>0, <2>1, <2>3, <2>4 DEF Known, At
<1>7. CASE Crash
  <2>1. Free.pc = "free"
    BY DEF Free
  <2>2. \A r \in Requests : req'[r] = Free
    BY <1>7 DEF Crash
  <2>3. ~ up' /\ UNCHANGED <<event, botLogin, blind, jobs>>
    BY <1>7 DEF Crash, github
  <2> QED
    BY <1>0, <2>1, <2>2, <2>3 DEF Known, At
<1>8. CASE SyncRepos \/ UNCHANGED vars
  BY <1>0, <1>8 DEF SyncRepos, vars, github, process, Known, At
<1> QED
  BY <1>2, <1>3, <1>4, <1>5, <1>6, <1>7, <1>8 DEF Next

\* Each job of a delivery is enqueued at most once, no other job is, and the
\* bot's own events become none unless BOT_LOGIN is empty and a start found no
\* login: whatever the number of requests, repetitions, crashes and failures
\* (handler.go:73, 153, main.go:123).
THEOREM Once == Spec => []EnqueuedOnce
<1>1. ASSUME KnownIInv PROVE EnqueuedOnce
  <2> SUFFICES ASSUME NEW d \in Deliveries, event[d] # None, NEW k \in JobKinds
               PROVE  jobs[d][k] <=
                        IF k \in Asked(d) /\ (event[d].own => blind /\ ~ botLogin) THEN 1 ELSE 0
    BY DEF EnqueuedOnce
  <2>1. event[d] \in Event /\ event[d].kind \in Kinds
    BY <1>1 DEF KnownIInv, IInv, Types, Event
  <2>2. jobs[d][k] <= Count(Among(event[d].kind, 2, k))
    BY <1>1 DEF KnownIInv, IInv, Progress
  <2>3. k \in Asked(d) <=> Among(event[d].kind, 2, k)
    BY <2>1, AskedFacts
  <2>4. CASE event[d].own /\ ~ blind
    BY <1>1, <2>4 DEF KnownIInv, Known
  <2>5. CASE event[d].own => blind
    <3>1. event[d].own => blind /\ ~ botLogin
      BY <1>1, <2>5 DEF KnownIInv, Known
    <3> QED
      BY <2>2, <2>3, <3>1 DEF Count
  <2> QED
    BY <2>4, <2>5
<1>2. Init => KnownIInv
  BY KnownInitially
<1>3. KnownIInv /\ [Next]_vars => KnownIInv'
  BY KnownInductive
<1> QED
  BY <1>1, <1>2, <1>3, PTL DEF Spec

=============================================================================
