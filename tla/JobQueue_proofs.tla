--------------------------- MODULE JobQueue_proofs ---------------------------
(***************************************************************************)
(* Proofs about JobQueue, for every number of jobs and workers and every   *)
(* timing in which a lease outlives the job it was taken for.              *)
(***************************************************************************)
EXTENDS JobQueue, TLAPS

\* The timing that main.go's defaults satisfy: 10 minutes plus a grace
\* against a lease of 15 minutes.
LeaseOutlivesJob == JobTTL + Grace <= LeaseTTL

-----------------------------------------------------------------------------
(* Type correctness *)

\* A jittered delay is a number of clock ticks.
LEMMA JitteredType ==
  ASSUME NEW x, NEW d \in Jittered(x)
  PROVE  d \in Nat
BY JobQueueAssumption DEF Jittered

\* The empty table and the idle goroutines are well typed.
LEMMA InitTypeOK == Init => TypeOK
BY JobQueueAssumption
   DEF Init, TypeOK, JobRow, WorkerState, IdleWorker, Statuses, PCs, NULL, NoJob

\* Claiming a row keeps the table well typed.
LEMMA ClaimedType ==
  ASSUME TypeOK, NEW j \in Jobs
  PROVE  Claimed(j) \in [Jobs -> JobRow]
<1> DEFINE row == [jobs[j] EXCEPT !.status = "running", !.attempts = @ + 1,
                                  !.lease = now + LeaseTTL]
<1>1. jobs[j] \in JobRow
  BY DEF TypeOK
<1>2. row \in JobRow
  <2>1. now + LeaseTTL \in Nat
    BY JobQueueAssumption DEF TypeOK
  <2>2. jobs[j].attempts + 1 \in Nat
    BY <1>1 DEF JobRow
  <2> QED
    BY <1>1, <2>1, <2>2 DEF JobRow, Statuses
<1>3. ASSUME NEW k \in Jobs PROVE Claimed(j)[k] = IF k = j THEN row ELSE jobs[k]
  BY <1>1 DEF Claimed, TypeOK, JobRow
<1>4. Claimed(j) = [k \in Jobs |-> Claimed(j)[k]]
  BY DEF Claimed, TypeOK
<1> HIDE DEF row
<1> QED
  BY <1>2, <1>3, <1>4 DEF TypeOK

\* So does moving a goroutine to its next statement, or back to its loop.
LEMMA GoTypes ==
  ASSUME TypeOK, NEW w \in Workers
  PROVE  /\ GoIdle(w) => worker' \in [Workers -> WorkerState]
         /\ \A pc \in PCs : GoTo(w, pc) => worker' \in [Workers -> WorkerState]
BY DEF TypeOK, GoIdle, GoTo, WorkerState, IdleWorker, PCs, NoJob

\* Every step of a goroutine that works on a job, and every other step, keeps
\* the types.
LEMMA NextTypeOK ==
  ASSUME TypeOK, OwnsItsJob, [Next]_vars
  PROVE  TypeOK'
<1> USE DEF TypeOK
<1>1. ASSUME NEW j \in Jobs, Enqueue(j) PROVE TypeOK'
  BY <1>1 DEF Enqueue, JobRow, Statuses
<1>2. ASSUME NEW w \in Workers, WorkerStep(w) PROVE TypeOK'
  <2>1. ASSUME NEW j \in Jobs, Dequeue(w, j) PROVE TypeOK'
    <3>1. Claimed(j) \in [Jobs -> JobRow]
      BY ClaimedType
    <3>2. [pc |-> "dispatch", job |-> j, attempt |-> jobs[j].attempts + 1,
           deadline |-> now + JobTTL] \in WorkerState
      BY JobQueueAssumption DEF WorkerState, PCs, JobRow
    <3>3. worker' \in [Workers -> WorkerState]
      BY <2>1, <3>2 DEF Dequeue
    <3> QED
      BY <2>1, <3>1, <3>3 DEF Dequeue
  <2>2. CASE DispatchReturns(w)
    <3>1. "complete" \in PCs /\ "fail" \in PCs
      BY DEF PCs
    <3> QED
      BY <2>2, <3>1, GoTypes DEF DispatchReturns
  <2>3. CASE Complete(w)
    <3>1. worker[w].job \in Jobs /\ jobs[worker[w].job] \in JobRow
      BY <2>3 DEF Complete, OwnsItsJob, Working
    <3>2. jobs' \in [Jobs -> JobRow]
      BY <2>3, <3>1 DEF Complete, JobRow, Statuses
    <3> QED
      BY <2>3, <3>2, GoTypes DEF Complete
  <2>4. CASE FailRead(w)
    <3>1. CASE GoIdle(w)
      BY <2>4, <3>1, GoTypes DEF FailRead
    <3>2. CASE worker' = [worker EXCEPT ![w].pc = "reschedule",
                                        ![w].attempt = jobs[worker[w].job].attempts]
      <4>1. worker[w].job \in Jobs
        BY <2>4 DEF FailRead, OwnsItsJob, Working
      <4> QED
        BY <2>4, <3>2, <4>1 DEF FailRead, WorkerState, JobRow, PCs
    <3> QED
      BY <2>4, <3>1, <3>2 DEF FailRead
  <2>5. CASE FailReschedule(w)
    <3> DEFINE job == worker[w].job
    <3>1. CASE \E d \in Jittered(BackoffDelay(worker[w].attempt)) :
                 /\ jobs' = [jobs EXCEPT ![job].status = "pending",
                                         ![job].runAt = RetryAt(d)]
                 /\ GoIdle(w)
      <4>1. PICK d \in Jittered(BackoffDelay(worker[w].attempt)) :
              /\ jobs' = [jobs EXCEPT ![job].status = "pending",
                                      ![job].runAt = RetryAt(d)]
              /\ GoIdle(w)
        BY <3>1
      <4>2. RetryAt(d) \in Nat
        BY JitteredType DEF RetryAt
      <4>3. jobs' \in [Jobs -> JobRow]
        BY <4>1, <4>2 DEF JobRow, Statuses
      <4> QED
        BY <2>5, <4>1, <4>3, GoTypes DEF FailReschedule
    <3>2. CASE GoTo(w, "bury") /\ UNCHANGED jobs
      <4>1. "bury" \in PCs
        BY DEF PCs
      <4> QED
        BY <2>5, <3>2, <4>1, GoTypes DEF FailReschedule
    <3> QED
      BY <2>5, <3>1, <3>2 DEF FailReschedule
  <2>6. CASE FailBury(w)
    BY <2>6, GoTypes DEF FailBury, JobRow, Statuses
  <2> QED
    BY <1>2, <2>1, <2>2, <2>3, <2>4, <2>5, <2>6 DEF WorkerStep
<1>3. CASE ReapExpired
  BY <1>3 DEF ReapExpired, JobRow, Statuses, NULL
<1>4. CASE Fault
  <2>1. ASSUME NEW w \in Workers, OutcomeLost(w) PROVE TypeOK'
    BY <2>1, GoTypes DEF OutcomeLost
  <2>2. ASSUME NEW w \in Workers, NEW j \in Jobs, DequeueLost(w, j) PROVE TypeOK'
    BY <2>2, ClaimedType DEF DequeueLost
  <2>3. CASE Stop
    <3>1. IdleWorker \in WorkerState
      BY DEF WorkerState, IdleWorker, PCs
    <3>2. worker' \in [Workers -> WorkerState]
      BY <2>3, <3>1 DEF Stop
    <3>3. up' \in BOOLEAN
      BY <2>3, Zenon DEF Stop
    <3>4. faults' \in Nat /\ now' = now /\ jobs' = jobs
      BY <2>3 DEF Stop
    <3> QED
      BY <3>2, <3>3, <3>4
  <2> QED
    BY <1>4, <2>1, <2>2, <2>3 DEF Fault
<1>5. CASE Restart
  BY <1>5 DEF Restart
<1>6. CASE Tick
  BY <1>6 DEF Tick
<1>7. CASE UNCHANGED vars
  BY <1>7 DEF vars
<1> QED
  BY <1>1, <1>2, <1>3, <1>4, <1>5, <1>6, <1>7 DEF Next

-----------------------------------------------------------------------------
(* A busy worker owns its job, alone *)

\* No other goroutine, busy or idle, holds the job of a busy one.
LEMMA SoleHolder ==
  ASSUME OneRunner, OwnsItsJob,
         NEW w \in Workers, Working(w),
         NEW v \in Workers, v # w
  PROVE  worker[v].job # worker[w].job
<1>1. worker[w].job \in Jobs /\ worker[w].job # NoJob
  BY JobQueueAssumption DEF OwnsItsJob, NoJob
<1>2. CASE Working(v)
  BY <1>2 DEF OneRunner
<1>3. CASE ~ Working(v)
  BY <1>1, <1>3 DEF OwnsItsJob
<1> QED
  BY <1>2, <1>3

\* What OwnsItsJob says of one goroutine.
Owns(w) ==
  IF Working(w)
    THEN LET row == jobs[worker[w].job] IN
         /\ worker[w].job \in Jobs
         /\ row.status = "running"
         /\ row.lease \in Nat
         /\ now <= worker[w].deadline + Grace
         /\ worker[w].deadline + Grace <= row.lease
    ELSE worker[w].job = NoJob

\* Ownership is stated per goroutine, so that it can be proved per goroutine.
LEMMA OwnsItsJobIsOwns == OwnsItsJob <=> \A w \in Workers : Owns(w)
BY DEF OwnsItsJob, Owns

\* A goroutine keeps owning its job when neither it, the clock nor the row moves.
LEMMA OwnsFrame ==
  ASSUME NEW w \in Workers, Owns(w), worker'[w] = worker[w], now' = now,
         Working(w) => jobs'[worker[w].job] = jobs[worker[w].job]
  PROVE  Owns(w)'
BY DEF Owns, Working

\* A goroutine back in its loop owns nothing.
LEMMA OwnsIdle ==
  ASSUME NEW w \in Workers, worker'[w] = IdleWorker
  PROVE  Owns(w)'
BY DEF Owns, Working, IdleWorker

\* Whoever works on a job keeps owning its row, whatever step is taken: leases
\* outlive the work, and only the owner changes a row that is leased.
LEMMA NextOwnsItsJob ==
  ASSUME LeaseOutlivesJob, TypeOK, OneRunner, OwnsItsJob, [Next]_vars
  PROVE  OwnsItsJob'
<1> SUFFICES ASSUME NEW v \in Workers
             PROVE  Owns(v)'
  BY DEF OwnsItsJob, Owns, Working
<1>0. \A w \in Workers : Owns(w)
  BY OwnsItsJobIsOwns
<1>a. jobs \in [Jobs -> JobRow] /\ worker \in [Workers -> WorkerState] /\ now \in Nat
  BY DEF TypeOK
<1>b. Working(v) => worker[v].job \in Jobs
  BY <1>0 DEF Owns
<1>1. ASSUME NEW j \in Jobs, Enqueue(j) PROVE Owns(v)'
  <2>1. Working(v) => worker[v].job # j
    BY <1>0, <1>1 DEF Enqueue, Owns
  <2>2. Working(v) => jobs'[worker[v].job] = jobs[worker[v].job]
    BY <1>a, <1>b, <1>1, <2>1 DEF Enqueue
  <2> QED
    BY <1>0, <1>1, <2>2, OwnsFrame DEF Enqueue
<1>2. ASSUME NEW w \in Workers, WorkerStep(w) PROVE Owns(v)'
  <2>1. ASSUME NEW j \in Jobs, Dequeue(w, j) PROVE Owns(v)'
    <3>1. CASE v = w
      <4>1. worker'[v].pc = "dispatch" /\ worker'[v].job = j
            /\ worker'[v].deadline = now + JobTTL /\ now' = now
        BY <2>1, <3>1, <1>a DEF Dequeue
      <4>2. jobs'[j].status = "running" /\ jobs'[j].lease = now + LeaseTTL
        BY <2>1, <1>a DEF Dequeue, Claimed, JobRow
      <4>3. now + JobTTL + Grace <= now + LeaseTTL /\ now <= now + JobTTL + Grace
            /\ now + LeaseTTL \in Nat
        BY <1>a, JobQueueAssumption DEF LeaseOutlivesJob
      <4> QED
        BY <4>1, <4>2, <4>3 DEF Owns, Working
    <3>2. CASE v # w
      <4>1. Working(v) => worker[v].job # j
        BY <1>0, <2>1 DEF Dequeue, NextDue, Due, Owns
      <4>2. Working(v) => jobs'[worker[v].job] = jobs[worker[v].job]
        BY <1>a, <1>b, <2>1, <4>1 DEF Dequeue, Claimed
      <4>3. worker'[v] = worker[v] /\ now' = now
        BY <1>a, <2>1, <3>2 DEF Dequeue
      <4> QED
        BY <1>0, <4>2, <4>3, OwnsFrame
    <3> QED
      BY <3>1, <3>2
  <2>2. CASE DispatchReturns(w)
    BY <1>0, <1>a, <2>2 DEF DispatchReturns, GoTo, Owns, Working, WorkerState
  <2>3. CASE Complete(w)
    <3>1. CASE v = w
      BY <1>a, <2>3, <3>1, OwnsIdle DEF Complete, GoIdle
    <3>2. CASE v # w
      <4>1. worker[v].job # worker[w].job
        BY <2>3, <3>2, SoleHolder DEF Complete, Working
      <4> QED
        BY <1>0, <1>a, <2>3, <3>2, <4>1, OwnsFrame DEF Complete, GoIdle
    <3> QED
      BY <3>1, <3>2
  <2>4. CASE FailRead(w)
    BY <1>0, <1>a, <2>4, OwnsIdle, OwnsFrame
       DEF FailRead, GoIdle, Owns, Working, WorkerState
  <2>5. CASE FailReschedule(w)
    <3>1. CASE GoIdle(w) /\ \E d \in Jittered(BackoffDelay(worker[w].attempt)) :
                 jobs' = [jobs EXCEPT ![worker[w].job].status = "pending",
                                      ![worker[w].job].runAt = RetryAt(d)]
      <4>1. CASE v = w
        BY <1>a, <3>1, <4>1, OwnsIdle DEF GoIdle
      <4>2. CASE v # w
        <5>1. worker[v].job # worker[w].job
          BY <2>5, <4>2, SoleHolder DEF FailReschedule, Working
        <5>2. Working(v) => jobs'[worker[v].job] = jobs[worker[v].job]
          BY <1>a, <1>b, <3>1, <5>1
        <5>3. worker'[v] = worker[v] /\ now' = now
          BY <1>a, <2>5, <3>1, <4>2 DEF FailReschedule, GoIdle
        <5> QED
          BY <1>0, <5>2, <5>3, OwnsFrame
      <4> QED
        BY <4>1, <4>2
    <3>2. CASE GoTo(w, "bury") /\ UNCHANGED jobs
      BY <1>0, <1>a, <2>5, <3>2 DEF FailReschedule, GoTo, Owns, Working, WorkerState
    <3> QED
      BY <2>5, <3>1, <3>2 DEF FailReschedule
  <2>6. CASE FailBury(w)
    <3>1. CASE v = w
      BY <1>a, <2>6, <3>1, OwnsIdle DEF FailBury, GoIdle
    <3>2. CASE v # w
      <4>1. worker[v].job # worker[w].job
        BY <2>6, <3>2, SoleHolder DEF FailBury, Working
      <4> QED
        BY <1>0, <1>a, <2>6, <3>2, <4>1, OwnsFrame DEF FailBury, GoIdle
    <3> QED
      BY <3>1, <3>2
  <2> QED
    BY <1>2, <2>1, <2>2, <2>3, <2>4, <2>5, <2>6 DEF WorkerStep
<1>3. CASE ReapExpired
  <2>1. Working(v) => worker[v].job \in Jobs /\ ~ Expired(worker[v].job)
    BY <1>0, <1>a, JobQueueAssumption DEF Owns, Expired, WorkerState
  <2> QED
    BY <1>0, <1>3, <2>1, OwnsFrame DEF ReapExpired
<1>4. CASE Fault
  <2>1. ASSUME NEW w \in Workers, OutcomeLost(w) PROVE Owns(v)'
    BY <1>0, <1>a, <2>1, OwnsIdle, OwnsFrame DEF OutcomeLost, GoIdle
  <2>2. ASSUME NEW w \in Workers, NEW j \in Jobs, DequeueLost(w, j) PROVE Owns(v)'
    <3>1. Working(v) => worker[v].job # j
      BY <1>0, <2>2 DEF DequeueLost, NextDue, Due, Owns
    <3> QED
      <4>1. Working(v) => jobs'[worker[v].job] = jobs[worker[v].job]
        BY <1>a, <1>b, <2>2, <3>1 DEF DequeueLost, Claimed
      <4> QED
        BY <1>0, <2>2, <4>1, OwnsFrame DEF DequeueLost
  <2>3. CASE Stop
    BY <2>3, OwnsIdle DEF Stop
  <2> QED
    BY <1>4, <2>1, <2>2, <2>3 DEF Fault
<1>5. CASE Restart
  BY <1>0, <1>5, OwnsFrame DEF Restart
<1>6. CASE Tick
  BY <1>0, <1>a, <1>6, JobQueueAssumption
     DEF Tick, Punctual, Owns, Working, WorkerState
<1>7. CASE UNCHANGED vars
  BY <1>0, <1>7, OwnsFrame DEF vars
<1> QED
  BY <1>1, <1>2, <1>3, <1>4, <1>5, <1>6, <1>7 DEF Next

\* Only a claim gives a goroutine a job; every other step leaves it alone or
\* sends it back to its loop.
LEMMA JobOnlyByDequeue ==
  ASSUME TypeOK, OwnsItsJob, [Next]_vars,
         ~ \E w \in Workers, j \in Jobs : Dequeue(w, j),
         NEW v \in Workers
  PROVE  \/ worker'[v] = IdleWorker
         \/ worker'[v].job = worker[v].job /\ (Working(v)' <=> Working(v))
<1>1. worker \in [Workers -> WorkerState]
  BY DEF TypeOK
<1>2. ASSUME NEW w \in Workers, WorkerStep(w)
      PROVE  \/ worker'[v] = IdleWorker
             \/ worker'[v].job = worker[v].job /\ (Working(v)' <=> Working(v))
  BY <1>1, <1>2
     DEF WorkerStep, DispatchReturns, Complete, FailRead, FailReschedule,
         FailBury, GoTo, GoIdle, Working, WorkerState
<1>3. CASE Fault
  BY <1>1, <1>3 DEF Fault, OutcomeLost, DequeueLost, Stop, GoIdle, Working
<1>4. CASE \/ \E j \in Jobs : Enqueue(j)
           \/ ReapExpired \/ Restart \/ Tick \/ UNCHANGED vars
  BY <1>4 DEF Enqueue, ReapExpired, Restart, Tick, vars, Working
<1> QED
  BY <1>2, <1>3, <1>4 DEF Next

\* A claim takes a row that is pending, hence held by nobody.
LEMMA NextOneRunner ==
  ASSUME TypeOK, OneRunner, OwnsItsJob, [Next]_vars
  PROVE  OneRunner'
<1>1. CASE \E w \in Workers, j \in Jobs : Dequeue(w, j)
  <2>1. PICK w \in Workers, j \in Jobs : Dequeue(w, j)
    BY <1>1
  <2>2. \A v \in Workers : Working(v) => worker[v].job # j
    BY <2>1 DEF Dequeue, NextDue, Due, OwnsItsJob
  <2>3. worker'[w].job = j /\ \A v \in Workers \ {w} : worker'[v] = worker[v]
    BY <2>1 DEF Dequeue, TypeOK
  <2> QED
    BY <2>2, <2>3 DEF OneRunner, Working
<1>2. CASE ~ \E w \in Workers, j \in Jobs : Dequeue(w, j)
  <2>1. ASSUME NEW v \in Workers, Working(v)'
        PROVE  Working(v) /\ worker'[v].job = worker[v].job
    BY <1>2, <2>1, JobOnlyByDequeue DEF Working, IdleWorker
  <2> QED
    BY <2>1 DEF OneRunner
<1> QED
  BY <1>1, <1>2

-----------------------------------------------------------------------------
(* Attempts *)

\* How one step changes a row: it is enqueued, claimed, reaped, deleted,
\* rescheduled, buried, or left alone.
LEMMA RowSteps ==
  ASSUME TypeOK, OwnsItsJob, [Next]_vars, NEW j \in Jobs
  PROVE  \/ jobs'[j].status = jobs[j].status /\ jobs'[j].attempts = jobs[j].attempts
         \/ /\ jobs[j].status = "new" /\ jobs'[j].status = "pending"
            /\ jobs'[j].attempts = jobs[j].attempts
         \/ /\ jobs[j].status = "pending" /\ jobs'[j].status = "running"
            /\ jobs'[j].attempts = jobs[j].attempts + 1
            /\ \/ faults' = faults /\ \E w \in Workers : Dequeue(w, j)
               \/ faults' = faults + 1
         \/ /\ Expired(j) /\ jobs'[j].status = "pending"
            /\ jobs'[j].attempts = jobs[j].attempts
         \/ /\ jobs'[j].status = "deleted"
            /\ jobs'[j].attempts = jobs[j].attempts
         \/ /\ Retryable(j) /\ jobs'[j].status = "pending"
            /\ jobs'[j].attempts = jobs[j].attempts
         \/ /\ \E w \in Workers : worker[w].pc = "bury" /\ worker[w].job = j
            /\ jobs[j].status = "running" /\ jobs'[j].status = "failed"
            /\ jobs'[j].attempts = jobs[j].attempts
<1> DEFINE Same == jobs'[j].status = jobs[j].status /\ jobs'[j].attempts = jobs[j].attempts
           Kept == jobs'[j].attempts = jobs[j].attempts
<1>1. jobs \in [Jobs -> JobRow] /\ jobs[j] \in JobRow
  BY DEF TypeOK
<1>2. ASSUME NEW k \in Jobs, Enqueue(k)
      PROVE  Same \/ (jobs[j].status = "new" /\ jobs'[j].status = "pending" /\ Kept)
  BY <1>1, <1>2 DEF Enqueue, JobRow
<1>3. ASSUME NEW w \in Workers, NEW k \in Jobs, Dequeue(w, k)
      PROVE  \/ Same
             \/ /\ jobs[j].status = "pending" /\ jobs'[j].status = "running"
                /\ jobs'[j].attempts = jobs[j].attempts + 1
                /\ faults' = faults /\ Dequeue(w, j)
  BY <1>1, <1>3 DEF Dequeue, NextDue, Due, Claimed, JobRow
<1>4. ASSUME NEW w \in Workers, NEW k \in Jobs, DequeueLost(w, k)
      PROVE  \/ Same
             \/ /\ jobs[j].status = "pending" /\ jobs'[j].status = "running"
                /\ jobs'[j].attempts = jobs[j].attempts + 1
                /\ faults' = faults + 1
  BY <1>1, <1>4 DEF DequeueLost, NextDue, Due, Claimed, JobRow
<1>5. ASSUME NEW w \in Workers, Complete(w)
      PROVE  Same \/ (jobs'[j].status = "deleted" /\ Kept)
  BY <1>1, <1>5 DEF Complete, JobRow
<1>6. ASSUME NEW w \in Workers, FailReschedule(w)
      PROVE  Same \/ (Retryable(j) /\ jobs'[j].status = "pending" /\ Kept)
  <2>1. CASE UNCHANGED jobs
    BY <2>1
  <2>2. ASSUME Retryable(worker[w].job), NEW d,
               jobs' = [jobs EXCEPT ![worker[w].job].status = "pending",
                                    ![worker[w].job].runAt = d]
        PROVE  Same \/ (Retryable(j) /\ jobs'[j].status = "pending" /\ Kept)
    <3>1. CASE worker[w].job = j
      <4>1. jobs'[j].status = "pending" /\ Kept
        BY <1>1, <2>2, <3>1 DEF JobRow
      <4>2. Retryable(j)
        BY <2>2, <3>1, Zenon
      <4> QED
        BY <4>1, <4>2
    <3>2. CASE worker[w].job # j
      BY <1>1, <2>2, <3>2
    <3> QED
      BY <3>1, <3>2
  <2> QED
    BY <1>6, <2>1, <2>2 DEF FailReschedule
<1>7. ASSUME NEW w \in Workers, FailBury(w)
      PROVE  \/ Same
             \/ /\ worker[w].pc = "bury" /\ worker[w].job = j
                /\ jobs[j].status = "running" /\ jobs'[j].status = "failed" /\ Kept
  BY <1>1, <1>7 DEF FailBury, JobRow
<1>8. CASE ReapExpired
  BY <1>1, <1>8 DEF ReapExpired, JobRow
<1>9. ASSUME UNCHANGED jobs PROVE Same
  BY <1>9
<1>10. CASE UNCHANGED vars
  BY <1>10, <1>9 DEF vars
<1>11. ASSUME NEW w \in Workers, WorkerStep(w), ~ UNCHANGED jobs
       PROVE  \/ \E k \in Jobs : Dequeue(w, k)
              \/ Complete(w) \/ FailReschedule(w) \/ FailBury(w)
  BY <1>11 DEF WorkerStep, DispatchReturns, FailRead
<1>12. ASSUME Fault, ~ UNCHANGED jobs
       PROVE  \E w \in Workers, k \in Jobs : DequeueLost(w, k)
  BY <1>12 DEF Fault, OutcomeLost, Stop
<1>13. CASE Restart \/ Tick
  BY <1>13, <1>9 DEF Restart, Tick
<1> QED
  BY <1>2, <1>3, <1>4, <1>5, <1>6, <1>7, <1>8, <1>9, <1>10, <1>11, <1>12, <1>13 DEF Next

\* Only a burial marks a row failed, and a burial follows the last attempt.
LEMMA NextFailedOnlyWhenExhausted ==
  ASSUME TypeOK, OwnsItsJob, BuriesExhausted, FailedOnlyWhenExhausted, [Next]_vars
  PROVE  FailedOnlyWhenExhausted'
<1> SUFFICES ASSUME NEW j \in Jobs, jobs'[j].status = "failed"
             PROVE  jobs'[j].attempts >= MaxAttempts
  BY DEF FailedOnlyWhenExhausted
<1> QED
  BY RowSteps DEF BuriesExhausted, FailedOnlyWhenExhausted

\* The row of a goroutine about to bury it cannot lose attempts meanwhile.
LEMMA NextBuriesExhausted ==
  ASSUME TypeOK, OneRunner, OwnsItsJob, BuriesExhausted, [Next]_vars
  PROVE  BuriesExhausted'
<1> SUFFICES ASSUME NEW v \in Workers, worker'[v].pc = "bury"
             PROVE  jobs'[worker'[v].job].attempts >= MaxAttempts
  BY DEF BuriesExhausted
<1>1. worker \in [Workers -> WorkerState] /\ jobs \in [Jobs -> JobRow]
  BY DEF TypeOK
<1>2. CASE worker[v].pc = "bury" /\ worker'[v] = worker[v]
  <2>1. worker[v].job \in Jobs /\ jobs[worker[v].job].attempts >= MaxAttempts
    BY <1>2 DEF BuriesExhausted, OwnsItsJob, Working
  <2>2. jobs'[worker[v].job].attempts >= jobs[worker[v].job].attempts
    BY <1>1, <2>1, RowSteps DEF JobRow
  <2>3. jobs'[worker[v].job].attempts \in Nat /\ jobs[worker[v].job].attempts \in Nat
    BY <1>1, <2>1, NextTypeOK DEF TypeOK, JobRow
  <2> QED
    BY <1>2, <2>1, <2>2, <2>3, JobQueueAssumption
<1>3. CASE FailReschedule(v)
  <2>1. GoTo(v, "bury") /\ UNCHANGED jobs /\ ~ Retryable(worker[v].job)
    BY <1>1, <1>3 DEF FailReschedule, GoIdle, IdleWorker
  <2>2. /\ worker[v].job \in Jobs
        /\ jobs[worker[v].job].status = "running"
        /\ jobs[worker[v].job].attempts \in Nat
    BY <1>1, <1>3 DEF FailReschedule, OwnsItsJob, Working, JobRow
  <2>3. worker'[v].job = worker[v].job
    BY <1>1, <2>1 DEF GoTo
  <2> QED
    BY <2>1, <2>2, <2>3, JobQueueAssumption DEF Retryable
<1>4. CASE ~ FailReschedule(v)
  <2>1. ASSUME NEW w \in Workers, WorkerStep(w)
        PROVE  worker'[v] = worker[v]
    <3>1. CASE w = v
      <4>1. ~ FailReschedule(w)
        BY <1>4, <3>1, Zenon
      <4>2. ASSUME NEW j \in Jobs PROVE ~ Dequeue(v, j)
        BY <1>1 DEF Dequeue
      <4>3. ~ DispatchReturns(v) /\ ~ FailRead(v)
        <5>1. ~ GoTo(v, "complete") /\ ~ GoTo(v, "fail")
          BY <1>1 DEF GoTo, WorkerState
        <5>2. ~ GoIdle(v)
          BY <1>1 DEF GoIdle, IdleWorker
        <5>3. worker' # [worker EXCEPT ![v].pc = "reschedule",
                                       ![v].attempt = jobs[worker[v].job].attempts]
          BY <1>1 DEF WorkerState
        <5> QED
          BY <5>1, <5>2, <5>3 DEF DispatchReturns, FailRead
      <4>4. ~ Complete(v) /\ ~ FailBury(v)
        BY <1>1 DEF Complete, FailBury, GoIdle, IdleWorker
      <4> QED
        BY <2>1, <3>1, <4>1, <4>2, <4>3, <4>4 DEF WorkerStep
    <3>2. CASE w # v
      BY <1>1, <2>1, <3>2
         DEF WorkerStep, Dequeue, DispatchReturns, Complete, FailRead, FailReschedule,
             FailBury, GoTo, GoIdle
    <3> QED
      BY <3>1, <3>2
  <2>2. ASSUME Fault PROVE worker'[v] = worker[v]
    BY <1>1, <2>2 DEF Fault, OutcomeLost, DequeueLost, Stop, GoIdle, IdleWorker
  <2>3. ASSUME \/ \E j \in Jobs : Enqueue(j)
               \/ ReapExpired \/ Restart \/ Tick \/ UNCHANGED vars
        PROVE  worker'[v] = worker[v]
    BY <2>3 DEF Enqueue, ReapExpired, Restart, Tick, vars
  <2>4. worker'[v] = worker[v]
    BY <2>1, <2>2, <2>3 DEF Next
  <2> QED
    BY <1>2, <2>4
<1> QED
  BY <1>3, <1>4

\* The reaper only takes rows that no goroutine works on.
LEMMA ExpiredNotHeld ==
  ASSUME TypeOK, OwnsItsJob, NEW j \in Jobs, Expired(j)
  PROVE  ~ HeldBySome(j)
<1> SUFFICES ASSUME NEW w \in Workers, worker[w].job = j
             PROVE  FALSE
  BY DEF HeldBySome
<1>1. Working(w)
  BY JobQueueAssumption DEF OwnsItsJob, NoJob
<1>2. worker[w].deadline \in Nat /\ now \in Nat /\ jobs[j].lease \in Nat
  BY <1>1 DEF TypeOK, WorkerState, OwnsItsJob
<1> QED
  BY <1>1, <1>2, JobQueueAssumption DEF OwnsItsJob, Expired

\* A goroutine lets go of a row that stays "running" only through a fault.
LEMMA LosingRunningJob ==
  ASSUME TypeOK, OwnsItsJob, [Next]_vars,
         NEW w \in Workers, NEW j \in Jobs,
         worker[w].job = j, worker'[w].job # j,
         jobs[j].status = "running", jobs'[j].status = "running"
  PROVE  faults' = faults + 1
<1>1. worker \in [Workers -> WorkerState] /\ jobs \in [Jobs -> JobRow]
  BY DEF TypeOK
<1>2. Working(w)
  BY JobQueueAssumption DEF OwnsItsJob, NoJob
<1>3. ASSUME NEW v \in Workers, WorkerStep(v)
      PROVE  FALSE
  <2>1. v = w
    BY <1>1, <1>3
       DEF WorkerStep, Dequeue, DispatchReturns, Complete, FailRead, FailReschedule,
           FailBury, GoTo, GoIdle
  <2>2. ASSUME NEW k \in Jobs PROVE ~ Dequeue(w, k)
    BY <1>2 DEF Dequeue
  <2>3. ~ DispatchReturns(w)
    BY <1>1 DEF DispatchReturns, GoTo, WorkerState
  <2>4. ~ Complete(w) /\ ~ FailBury(w)
    BY <1>1 DEF Complete, FailBury, JobRow
  <2>5. ~ FailRead(w)
    BY <1>1 DEF FailRead, GoTo, WorkerState
  <2>6. ~ FailReschedule(w)
    <3>1. ~ GoTo(w, "bury")
      BY <1>1 DEF GoTo, WorkerState
    <3>2. ASSUME NEW d,
                 jobs' = [jobs EXCEPT ![j].status = "pending", ![j].runAt = d]
          PROVE  FALSE
      BY <1>1, <3>2 DEF JobRow
    <3> QED
      BY <3>1, <3>2 DEF FailReschedule
  <2> QED
    BY <1>3, <2>1, <2>2, <2>3, <2>4, <2>5, <2>6 DEF WorkerStep
<1>4. ASSUME Fault PROVE faults' = faults + 1
  BY <1>4 DEF Fault, OutcomeLost, DequeueLost, Stop
<1>5. ASSUME \/ \E k \in Jobs : Enqueue(k)
             \/ ReapExpired \/ Restart \/ Tick \/ UNCHANGED vars
      PROVE  FALSE
  BY <1>5 DEF Enqueue, ReapExpired, Restart, Tick, vars
<1> QED
  BY <1>3, <1>4, <1>5 DEF Next

\* Attempts stay within the bound, and what is claimable has one to spare.
LEMMA NextAttempts ==
  ASSUME TypeOK, OneRunner, OwnsItsJob, AttemptToSpare, AttemptsBounded, [Next]_vars
  PROVE  AttemptToSpare' /\ AttemptsBounded'
<1> SUFFICES ASSUME NEW j \in Jobs
             PROVE  /\ \/ jobs'[j].status \in {"new", "pending"}
                       \/ jobs'[j].status = "running" /\ ~ HeldBySome(j)'
                       => jobs'[j].attempts + 1 <= MaxAttempts + faults'
                    /\ jobs'[j].attempts <= MaxAttempts + faults'
  BY DEF AttemptToSpare, AttemptsBounded
<1>1. /\ worker \in [Workers -> WorkerState] /\ jobs[j].attempts \in Nat
      /\ faults \in Nat /\ MaxAttempts \in Nat
  BY JobQueueAssumption DEF TypeOK, JobRow
<1>2. faults' \in Nat /\ faults' >= faults
  <2>1. faults' = faults \/ faults' = faults + 1
    BY DEF Next, vars, Enqueue, WorkerStep, Dequeue, DispatchReturns, Complete,
           FailRead, FailReschedule, FailBury, ReapExpired, Fault, OutcomeLost,
           DequeueLost, Stop, Restart, Tick
  <2> QED
    BY <1>1, <2>1
<1>3. jobs[j].attempts <= MaxAttempts + faults
  BY DEF AttemptsBounded
<1>4. CASE /\ jobs'[j].status = jobs[j].status
           /\ jobs'[j].attempts = jobs[j].attempts
  <2>1. CASE \/ jobs[j].status \notin {"new", "pending", "running"}
             \/ jobs[j].status = "running" /\ HeldBySome(j)'
    BY <1>1, <1>2, <1>3, <1>4, <2>1
  <2>2. CASE \/ jobs[j].status \in {"new", "pending"}
             \/ jobs[j].status = "running" /\ ~ HeldBySome(j)
    BY <1>1, <1>2, <1>3, <1>4, <2>2 DEF AttemptToSpare
  <2>3. CASE jobs[j].status = "running" /\ HeldBySome(j) /\ ~ HeldBySome(j)'
    <3>1. PICK w \in Workers : worker[w].job = j /\ worker'[w].job # j
      BY <2>3 DEF HeldBySome
    <3>2. faults' = faults + 1
      BY <1>1, <1>4, <2>3, <3>1, LosingRunningJob
    <3> QED
      BY <1>1, <1>3, <1>4, <3>2
  <2> QED
    BY <2>1, <2>2, <2>3
<1>5. CASE /\ jobs[j].status = "pending" /\ jobs'[j].status = "running"
           /\ jobs'[j].attempts = jobs[j].attempts + 1
           /\ \/ faults' = faults /\ \E w \in Workers : Dequeue(w, j)
              \/ faults' = faults + 1
  <2>1. jobs[j].attempts + 1 <= MaxAttempts + faults
    BY <1>5 DEF AttemptToSpare
  <2>2. CASE faults' = faults + 1
    BY <1>1, <1>5, <2>1, <2>2
  <2>3. CASE faults' = faults /\ \E w \in Workers : Dequeue(w, j)
    <3>1. HeldBySome(j)'
      BY <1>1, <2>3 DEF Dequeue, HeldBySome
    <3> QED
      BY <1>1, <1>5, <2>1, <2>3, <3>1
  <2> QED
    BY <1>5, <2>2, <2>3
<1>6. CASE /\ jobs[j].status = "new" /\ jobs'[j].status = "pending"
           /\ jobs'[j].attempts = jobs[j].attempts
  BY <1>1, <1>2, <1>6 DEF AttemptToSpare
<1>7. CASE /\ Expired(j) /\ jobs'[j].status = "pending"
           /\ jobs'[j].attempts = jobs[j].attempts
  <2>1. jobs[j].status = "running" /\ ~ HeldBySome(j)
    BY <1>7, ExpiredNotHeld, Zenon DEF Expired
  <2> QED
    BY <1>1, <1>2, <1>7, <2>1 DEF AttemptToSpare
<1>8. CASE /\ Retryable(j) /\ jobs'[j].status = "pending"
           /\ jobs'[j].attempts = jobs[j].attempts
  BY <1>1, <1>2, <1>8 DEF Retryable
<1>9. CASE /\ jobs'[j].status \in {"deleted", "failed"}
           /\ jobs'[j].attempts = jobs[j].attempts
  BY <1>1, <1>2, <1>3, <1>9
<1> QED
  BY <1>4, <1>5, <1>6, <1>7, <1>8, <1>9, RowSteps

-----------------------------------------------------------------------------
(* The theorems *)

\* The inductive invariant holds at the start.
LEMMA InitIInv == Init => IInv
BY InitTypeOK, JobQueueAssumption
   DEF Init, IInv, TypeOK, OneRunner, FailedOnlyWhenExhausted, AttemptsBounded,
       OwnsItsJob, BuriesExhausted, AttemptToSpare, HeldBySome, Working, IdleWorker

\* Every step, and every stutter, preserves the inductive invariant.
LEMMA NextIInv ==
  ASSUME LeaseOutlivesJob, IInv, [Next]_vars
  PROVE  IInv'
BY NextTypeOK, NextOneRunner, NextFailedOnlyWhenExhausted, NextOwnsItsJob,
   NextBuriesExhausted, NextAttempts
   DEF IInv

\* All four invariants, in every reachable state.
THEOREM Invariance ==
  ASSUME LeaseOutlivesJob
  PROVE  Spec => []IInv
<1>1. Init => IInv
  BY InitIInv
<1>2. IInv /\ [Next]_vars => IInv'
  BY NextIInv
<1> QED
  BY <1>1, <1>2, PTL DEF Spec

\* Every variable keeps its type.
THEOREM TypeCorrectness ==
  ASSUME LeaseOutlivesJob
  PROVE  Spec => []TypeOK
<1>1. IInv => TypeOK
  BY DEF IInv
<1> QED
  BY <1>1, Invariance, PTL

\* While leases outlive jobs, no job ever runs on two workers at once.
THEOREM NoOverlap ==
  ASSUME LeaseOutlivesJob
  PROVE  Spec => []OneRunner
<1>1. IInv => OneRunner
  BY DEF IInv
<1> QED
  BY <1>1, Invariance, PTL

\* A job is marked failed only when its attempts are used up.
THEOREM FailsOnlyExhausted ==
  ASSUME LeaseOutlivesJob
  PROVE  Spec => []FailedOnlyWhenExhausted
<1>1. IInv => FailedOnlyWhenExhausted
  BY DEF IInv
<1> QED
  BY <1>1, Invariance, PTL

\* Attempts beyond max_attempts are paid for by faults, one each.
THEOREM FaultsPayForAttempts ==
  ASSUME LeaseOutlivesJob
  PROVE  Spec => []AttemptsBounded
<1>1. IInv => AttemptsBounded
  BY DEF IInv
<1> QED
  BY <1>1, Invariance, PTL

-----------------------------------------------------------------------------
(* The table implements the exclusive queue *)

Phase == [j \in Jobs |-> PhaseOf(jobs[j].status)]
Tries == [j \in Jobs |-> jobs[j].attempts]
Holds == [w \in Workers |-> worker[w].job]

\* The phases of the abstract queue, status by status.
LEMMA PhaseOfValues ==
  /\ PhaseOf("new") = "new"
  /\ PhaseOf("pending") = "waiting"
  /\ PhaseOf("running") = "taken"
  /\ PhaseOf("failed") = "failed"
  /\ PhaseOf("deleted") = "done"
BY DEF PhaseOf

\* How changing one row and nothing else of the table looks from above.
LEMMA PhaseOfOneRow ==
  ASSUME TypeOK, TypeOK', NEW j \in Jobs,
         \A k \in Jobs : k # j => jobs'[k] = jobs[k]
  PROVE  /\ Phase' = [Phase EXCEPT ![j] = PhaseOf(jobs'[j].status)]
         /\ Tries' = [Tries EXCEPT ![j] = jobs'[j].attempts]
BY DEF Phase, Tries

\* How changing one goroutine looks from above.
LEMMA HoldsOfOneWorker ==
  ASSUME NEW w \in Workers,
         \A v \in Workers : v # w => worker'[v].job = worker[v].job
  PROVE  Holds' = [Holds EXCEPT ![w] = worker'[w].job]
BY DEF Holds

\* The empty table is the empty queue.
LEMMA InitImplements == Init => Exclusive!Init
BY PhaseOfValues DEF Init, Exclusive!Init, IdleWorker

\* A goroutine's step is a take, a settling or a stutter of the abstract queue.
LEMMA WorkerStepImplements ==
  ASSUME IInv, TypeOK', NEW w \in Workers, WorkerStep(w)
  PROVE  [Exclusive!Next]_(Exclusive!vars)
<1>1. /\ worker \in [Workers -> WorkerState] /\ jobs \in [Jobs -> JobRow]
      /\ TypeOK /\ OwnsItsJob
  BY DEF IInv, TypeOK
<1>2. ASSUME NEW j \in Jobs, Dequeue(w, j) PROVE Exclusive!Take(w, j)
  <2>1. Holds[w] = NoJob /\ Phase[j] = "waiting" /\ ~ \E v \in Workers : Holds[v] = j
    BY <1>1, <1>2, PhaseOfValues, JobQueueAssumption
       DEF Dequeue, NextDue, Due, OwnsItsJob, Holds, Phase, NoJob
  <2>2. /\ \A k \in Jobs : k # j => jobs'[k] = jobs[k]
        /\ jobs'[j].status = "running" /\ jobs'[j].attempts = jobs[j].attempts + 1
    BY <1>1, <1>2 DEF Dequeue, Claimed, JobRow
  <2>3. /\ \A v \in Workers : v # w => worker'[v].job = worker[v].job
        /\ worker'[w].job = j
    BY <1>1, <1>2 DEF Dequeue
  <2>4. /\ Phase' = [Phase EXCEPT ![j] = "taken"]
        /\ Tries' = [Tries EXCEPT ![j] = jobs[j].attempts + 1]
    BY <1>1, <2>2, PhaseOfOneRow, PhaseOfValues
  <2>5. Holds' = [Holds EXCEPT ![w] = j]
    BY <2>3, HoldsOfOneWorker
  <2> QED
    BY <2>1, <2>4, <2>5 DEF Exclusive!Take, Exclusive!Held, Phase, Tries, Holds
<1> DEFINE job == worker[w].job
<1>3. ASSUME UNCHANGED jobs, \A v \in Workers : worker'[v].job = worker[v].job
      PROVE  UNCHANGED Exclusive!vars
  BY <1>3 DEF Exclusive!vars
<1>4. ASSUME Working(w), GoIdle(w), NEW outcome, PhaseOf(jobs'[job].status) = outcome,
             jobs'[job].attempts = jobs[job].attempts,
             \A k \in Jobs : k # job => jobs'[k] = jobs[k]
      PROVE  job \in Jobs /\ Exclusive!Settle(w, job, outcome)
  <2>1. job \in Jobs /\ jobs[job].status = "running"
    BY <1>1, <1>4 DEF OwnsItsJob
  <2>2. Holds[w] = job /\ Phase[job] = "taken"
    BY <2>1, PhaseOfValues DEF Holds, Phase
  <2>3. Phase' = [Phase EXCEPT ![job] = outcome] /\ Tries' = [Tries EXCEPT ![job] = jobs[job].attempts]
    BY <1>1, <1>4, <2>1, PhaseOfOneRow
  <2>4. Tries' = Tries
    BY <2>1, <2>3 DEF Tries
  <2>5. Holds' = [Holds EXCEPT ![w] = NoJob]
    <3>1. \A v \in Workers : v # w => worker'[v].job = worker[v].job
      BY <1>1, <1>4 DEF GoIdle
    <3>2. worker'[w].job = NoJob
      BY <1>1, <1>4 DEF GoIdle, IdleWorker
    <3> QED
      BY <3>1, <3>2, HoldsOfOneWorker
  <2> QED
    BY <2>1, <2>2, <2>3, <2>4, <2>5 DEF Exclusive!Settle, Phase, Tries, Holds
<1>5. CASE DispatchReturns(w)
  <2>1. \A v \in Workers : worker'[v].job = worker[v].job
    BY <1>1, <1>5 DEF DispatchReturns, GoTo, WorkerState
  <2> QED
    BY <1>3, <1>5, <2>1 DEF DispatchReturns
<1>6. CASE Complete(w)
  <2>1. Working(w) /\ GoIdle(w)
    BY <1>6 DEF Complete, Working
  <2>2. job \in Jobs
    BY <1>1, <2>1 DEF OwnsItsJob
  <2>3. /\ jobs'[job].status = "deleted" /\ jobs'[job].attempts = jobs[job].attempts
        /\ \A k \in Jobs : k # job => jobs'[k] = jobs[k]
    BY <1>1, <1>6, <2>2 DEF Complete, JobRow
  <2>4. Exclusive!Settle(w, job, "done")
    BY <1>4, <2>1, <2>3, PhaseOfValues
  <2> QED
    BY <2>2, <2>4 DEF Exclusive!Next, Exclusive!Finish
<1>7. CASE FailRead(w)
  <2>1. jobs[job].status = "running"
    BY <1>1, <1>7 DEF FailRead, Working, OwnsItsJob
  <2>2. worker' = [worker EXCEPT ![w].pc = "reschedule",
                                 ![w].attempt = jobs[worker[w].job].attempts]
    BY <1>7, <2>1 DEF FailRead
  <2>3. \A v \in Workers : worker'[v].job = worker[v].job
    BY <1>1, <2>2 DEF WorkerState
  <2> QED
    BY <1>3, <1>7, <2>3 DEF FailRead
<1>8. CASE FailReschedule(w)
  <2>1. CASE GoTo(w, "bury") /\ UNCHANGED jobs
    <3>1. \A v \in Workers : worker'[v].job = worker[v].job
      BY <1>1, <2>1 DEF GoTo, WorkerState
    <3> QED
      BY <1>3, <2>1, <3>1
  <2>2. CASE /\ Retryable(job) /\ GoIdle(w)
             /\ \E d \in Jittered(BackoffDelay(worker[w].attempt)) :
                  jobs' = [jobs EXCEPT ![job].status = "pending", ![job].runAt = RetryAt(d)]
    <3>1. Working(w)
      BY <1>8 DEF FailReschedule, Working
    <3>2. job \in Jobs
      BY <1>1, <3>1 DEF OwnsItsJob
    <3>3. /\ jobs'[job].status = "pending" /\ jobs'[job].attempts = jobs[job].attempts
          /\ \A k \in Jobs : k # job => jobs'[k] = jobs[k]
      BY <1>1, <2>2, <3>2 DEF JobRow
    <3>4. Exclusive!Settle(w, job, "waiting")
      BY <1>4, <2>2, <3>1, <3>3, PhaseOfValues
    <3>5. Tries[job] < MaxAttempts
      BY <2>2, <3>2 DEF Retryable, Tries
    <3> QED
      BY <3>2, <3>4, <3>5 DEF Exclusive!Next, Exclusive!Retry, Tries
  <2> QED
    BY <1>8, <2>1, <2>2 DEF FailReschedule
<1>9. CASE FailBury(w)
  <2>1. Working(w) /\ GoIdle(w)
    BY <1>9 DEF FailBury, Working
  <2>2. job \in Jobs /\ jobs[job].status = "running"
    BY <1>1, <2>1 DEF OwnsItsJob
  <2>3. /\ jobs'[job].status = "failed" /\ jobs'[job].attempts = jobs[job].attempts
        /\ \A k \in Jobs : k # job => jobs'[k] = jobs[k]
    BY <1>1, <1>9, <2>2 DEF FailBury, JobRow
  <2>4. Exclusive!Settle(w, job, "failed")
    BY <1>4, <2>1, <2>3, PhaseOfValues
  <2>5. Tries[job] >= MaxAttempts
    BY <1>9, <2>2 DEF FailBury, IInv, BuriesExhausted, Tries
  <2> QED
    BY <2>2, <2>4, <2>5 DEF Exclusive!Next, Exclusive!GiveUp, Tries
<1> QED
  BY <1>2, <1>5, <1>6, <1>7, <1>8, <1>9 DEF WorkerStep, Exclusive!Next

\* Every step of the table is a step or a stutter of the abstract queue.
LEMMA NextImplements ==
  ASSUME LeaseOutlivesJob, IInv, [Next]_vars
  PROVE  [Exclusive!Next]_(Exclusive!vars)
<1>1. /\ worker \in [Workers -> WorkerState] /\ jobs \in [Jobs -> JobRow]
      /\ TypeOK /\ OwnsItsJob /\ TypeOK'
  BY NextIInv DEF IInv, TypeOK
<1>2. ASSUME NEW j \in Jobs, Enqueue(j) PROVE Exclusive!Submit(j)
  <2>1. Phase[j] = "new"
    BY <1>2, PhaseOfValues DEF Enqueue, Phase
  <2>2. /\ \A k \in Jobs : k # j => jobs'[k] = jobs[k]
        /\ jobs'[j].status = "pending" /\ jobs'[j].attempts = jobs[j].attempts
    BY <1>1, <1>2 DEF Enqueue, JobRow
  <2>3. /\ Phase' = [Phase EXCEPT ![j] = "waiting"]
        /\ Tries' = [Tries EXCEPT ![j] = jobs[j].attempts]
    BY <1>1, <2>2, PhaseOfOneRow, PhaseOfValues
  <2>4. Tries' = Tries
    BY <2>3 DEF Tries
  <2>5. Holds' = Holds
    BY <1>2 DEF Enqueue, Holds
  <2> QED
    BY <2>1, <2>3, <2>4, <2>5 DEF Exclusive!Submit, Phase, Tries, Holds
<1>3. ASSUME NEW w \in Workers, WorkerStep(w)
      PROVE  [Exclusive!Next]_(Exclusive!vars)
  BY <1>1, <1>3, WorkerStepImplements
<1>4. CASE ReapExpired
  <2> DEFINE S == {j \in Jobs : Expired(j)}
  <2>1. \A j \in S : Phase[j] = "taken" /\ ~ \E w \in Workers : Holds[w] = j
    BY <1>1, ExpiredNotHeld, PhaseOfValues DEF Expired, Phase, Holds, HeldBySome
  <2>2. ASSUME NEW j \in Jobs
        PROVE  /\ jobs'[j].attempts = jobs[j].attempts
               /\ jobs'[j].status = IF j \in S THEN "pending" ELSE jobs[j].status
    BY <1>1, <1>4 DEF ReapExpired, JobRow
  <2>3. Phase' = [j \in Jobs |-> IF j \in S THEN "waiting" ELSE Phase[j]]
    BY <2>2, PhaseOfValues DEF Phase
  <2>4. Tries' = Tries /\ Holds' = Holds
    BY <1>4, <2>2 DEF ReapExpired, Tries, Holds
  <2>5. Exclusive!Recover(S)
    BY <2>1, <2>3, <2>4 DEF Exclusive!Recover, Exclusive!Held, Phase, Tries, Holds
  <2>6. S \in SUBSET Jobs
    OBVIOUS
  <2> QED
    BY <2>5, <2>6 DEF Exclusive!Next
<1>5. ASSUME NEW w \in Workers, OutcomeLost(w) PROVE Exclusive!Vanish({w})
  <2>1. Holds' = [v \in Workers |-> IF v \in {w} THEN NoJob ELSE Holds[v]]
    BY <1>1, <1>5 DEF OutcomeLost, GoIdle, IdleWorker, Holds
  <2> QED
    BY <1>5, <2>1 DEF OutcomeLost, Exclusive!Vanish, Holds
<1>6. ASSUME NEW w \in Workers, NEW j \in Jobs, DequeueLost(w, j)
      PROVE  Exclusive!TakeLost(j)
  <2>1. Phase[j] = "waiting" /\ ~ \E v \in Workers : Holds[v] = j
    BY <1>1, <1>6, PhaseOfValues, JobQueueAssumption
       DEF DequeueLost, NextDue, Due, OwnsItsJob, Holds, Phase, NoJob
  <2>2. /\ \A k \in Jobs : k # j => jobs'[k] = jobs[k]
        /\ jobs'[j].status = "running" /\ jobs'[j].attempts = jobs[j].attempts + 1
    BY <1>1, <1>6 DEF DequeueLost, Claimed, JobRow
  <2>3. /\ Phase' = [Phase EXCEPT ![j] = "taken"]
        /\ Tries' = [Tries EXCEPT ![j] = jobs[j].attempts + 1]
    BY <1>1, <2>2, PhaseOfOneRow, PhaseOfValues
  <2> QED
    BY <1>6, <2>1, <2>3
       DEF DequeueLost, Exclusive!TakeLost, Exclusive!Held, Phase, Tries, Holds
<1>7. ASSUME Stop PROVE Exclusive!Vanish(Workers)
  BY <1>7 DEF Stop, IdleWorker, Exclusive!Vanish
<1>8. ASSUME Restart \/ Tick \/ UNCHANGED vars PROVE UNCHANGED Exclusive!vars
  BY <1>8 DEF Restart, Tick, vars, Exclusive!vars
<1> QED
  BY <1>2, <1>3, <1>4, <1>5, <1>6, <1>7, <1>8 DEF Next, Fault, Exclusive!Next

\* While leases outlive jobs, the table with its leases, crashes and lost
\* answers is a queue in which only a job's holder settles it.
THEOREM Refinement ==
  ASSUME LeaseOutlivesJob
  PROVE  Spec => ImplementsExclusiveQueue
<1>1. Init => Exclusive!Init
  BY InitImplements
<1>2. IInv /\ [Next]_vars => [Exclusive!Next]_(Exclusive!vars)
  BY NextImplements
<1> QED
  BY <1>1, <1>2, Invariance, PTL DEF Spec, Exclusive!Spec, ImplementsExclusiveQueue

=============================================================================
