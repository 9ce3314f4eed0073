------------------------------ MODULE JobQueue ------------------------------
(***************************************************************************)
(* The jobs table (internal/queue/queue.go), the worker pool that drains   *)
(* it and the lease reaper (cmd/codepeer/main.go), with process crashes,   *)
(* shutdowns and restarts, lost database answers and a clock.              *)
(*                                                                         *)
(* One action is one SQL statement or one decision between two of them:    *)
(* Fail is three statements, so it is three actions.  A job row is only    *)
(* ever deleted by Complete; a worker between two statements remembers     *)
(* the job it claimed, never whether it still owns it.                     *)
(***************************************************************************)
EXTENDS Integers

CONSTANTS
  Jobs,         \* ids of the job rows, in the order the ids are given out
  Workers,      \* worker goroutines of the process (QUEUE_WORKERS)
  MaxAttempts,  \* jobs.max_attempts
  LeaseTTL,     \* lease a claim takes (QUEUE_LEASE_TTL)
  JobTTL,       \* timeout of a job's context (LLM_TIMEOUT + 5 minutes)
  Grace,        \* time a cancelled job needs to return and be recorded
  BackoffCap,   \* longest backoff (600 seconds)
  MaxTime,      \* bound: the clock stops here
  MaxFaults     \* bound: crashes, shutdowns and lost database answers

ASSUME JobQueueAssumption ==
  /\ Jobs \subseteq Nat \ {0}
  /\ MaxAttempts \in Nat \ {0}
  /\ LeaseTTL \in Nat /\ JobTTL \in Nat /\ Grace \in Nat
  /\ BackoffCap \in Nat
  /\ MaxTime \in Nat
  /\ MaxFaults \in Nat

NoJob == 0      \* no row has this id
NULL  == -1     \* SQL NULL in lease_expires

VARIABLES
  now,      \* the database clock
  up,       \* whether the process runs
  jobs,     \* the jobs table
  worker,   \* the worker goroutines
  faults    \* faults so far

vars == <<now, up, jobs, worker, faults>>

Statuses == {"new", "pending", "running", "failed", "deleted"}
PCs == {"idle", "dispatch", "complete", "fail", "reschedule", "bury"}

JobRow == [status : Statuses, attempts : Nat, runAt : Nat, lease : Nat \cup {NULL}]
WorkerState == [pc : PCs, job : Jobs \cup {NoJob}, attempt : Nat, deadline : Nat]

IdleWorker == [pc |-> "idle", job |-> NoJob, attempt |-> 0, deadline |-> 0]

Init ==
  /\ now = 0
  /\ up = TRUE
  /\ jobs = [j \in Jobs |->
               [status |-> "new", attempts |-> 0, runAt |-> 0, lease |-> NULL]]
  /\ worker = [w \in Workers |-> IdleWorker]
  /\ faults = 0

Working(w) == worker[w].pc # "idle"
MayFault == faults < MaxFaults

-----------------------------------------------------------------------------
(* Enqueue and Dequeue *)

\* The webhook handler, which lives in the same process, inserts a row.
Enqueue(j) ==
  /\ up
  /\ jobs[j].status = "new"
  /\ jobs' = [jobs EXCEPT ![j].status = "pending", ![j].runAt = now]
  /\ UNCHANGED <<now, up, worker, faults>>

\* Mutant: the claim forgets status='pending'.
MutDueAnyStatus(j) == jobs[j].status \in {"pending", "running"} /\ jobs[j].runAt <= now

Due(j) == jobs[j].status = "pending" /\ jobs[j].runAt <= now

\* ORDER BY run_at, id LIMIT 1
NextDue(j) ==
  /\ Due(j)
  /\ \A k \in Jobs : Due(k) =>
       jobs[j].runAt < jobs[k].runAt \/ (jobs[j].runAt = jobs[k].runAt /\ j <= k)

Claimed(j) == [jobs EXCEPT ![j].status = "running",
                           ![j].attempts = @ + 1,
                           ![j].lease = now + LeaseTTL]

Dequeue(w, j) ==
  /\ up
  /\ ~ Working(w)
  /\ NextDue(j)
  /\ jobs' = Claimed(j)
  /\ worker' = [worker EXCEPT ![w] =
       [pc |-> "dispatch", job |-> j, attempt |-> jobs[j].attempts + 1,
        deadline |-> now + JobTTL]]
  /\ UNCHANGED <<now, up, faults>>

\* The claim commits, but its answer is lost: Dequeue returns an error.
DequeueLost(w, j) ==
  /\ up /\ MayFault
  /\ ~ Working(w)
  /\ NextDue(j)
  /\ jobs' = Claimed(j)
  /\ faults' = faults + 1
  /\ UNCHANGED <<now, up, worker>>

-----------------------------------------------------------------------------
(* process: dispatch, then Complete or Fail *)

GoTo(w, pc) == worker' = [worker EXCEPT ![w].pc = pc]
GoIdle(w)   == worker' = [worker EXCEPT ![w] = IdleWorker]

\* dispatch returns: nil, or an error (its own, or its context's).
DispatchReturns(w) ==
  /\ worker[w].pc = "dispatch"
  /\ GoTo(w, "complete") \/ GoTo(w, "fail")
  /\ UNCHANGED <<now, up, jobs, faults>>

\* DELETE FROM jobs WHERE id = $1: whoever holds the row now.
Complete(w) ==
  /\ worker[w].pc = "complete"
  /\ jobs' = [jobs EXCEPT ![worker[w].job].status = "deleted"]
  /\ GoIdle(w)
  /\ UNCHANGED <<now, up, faults>>

\* Fail, first statement: read attempts; a missing row ends it.
FailRead(w) ==
  /\ worker[w].pc = "fail"
  /\ IF jobs[worker[w].job].status = "deleted"
       THEN GoIdle(w)
       ELSE worker' = [worker EXCEPT ![w].pc = "reschedule",
                                     ![w].attempt = jobs[worker[w].job].attempts]
  /\ UNCHANGED <<now, up, jobs, faults>>

\* min(2^attempts, 600) seconds, and one second when there was no attempt.
BackoffDelay(attempts) ==
  IF attempts <= 0 THEN 1
  ELSE IF 2^attempts > BackoffCap THEN BackoffCap ELSE 2^attempts

\* The delays that 80 % to 120 % jitter can give, rounded to clock ticks.
Jittered(delay) == {d \in 0 .. 2 * BackoffCap + 2 : 5 * d > 4 * delay - 5 /\ 5 * d < 6 * delay + 5}

\* Mutants: off by one on either side of max_attempts.
MutRetryableTooLong(j)  == jobs[j].status = "running" /\ jobs[j].attempts <= MaxAttempts
MutRetryableTooShort(j) == jobs[j].status = "running" /\ jobs[j].attempts + 1 < MaxAttempts

Retryable(j) == jobs[j].status = "running" /\ jobs[j].attempts < MaxAttempts

\* Mutant: the sign of the interval.
MutRetryAt(d) == now - d

\* run_at of a rescheduled job
RetryAt(d) == now + d

\* Fail, second statement: back to pending if attempts remain.
FailReschedule(w) ==
  LET j == worker[w].job IN
  /\ worker[w].pc = "reschedule"
  /\ \/ /\ Retryable(j)
        /\ \E d \in Jittered(BackoffDelay(worker[w].attempt)) :
             jobs' = [jobs EXCEPT ![j].status = "pending", ![j].runAt = RetryAt(d)]
        /\ GoIdle(w)
     \/ /\ ~ Retryable(j)
        /\ GoTo(w, "bury")
        /\ UNCHANGED jobs
  /\ UNCHANGED <<now, up, faults>>

\* Fail, third statement: the job is dead if it is (still, or again) running.
FailBury(w) ==
  LET j == worker[w].job IN
  /\ worker[w].pc = "bury"
  /\ jobs' = [jobs EXCEPT ![j].status = IF @ = "running" THEN "failed" ELSE @]
  /\ GoIdle(w)
  /\ UNCHANGED <<now, up, faults>>

\* A statement of Complete or Fail fails: it is logged and the job stays running.
OutcomeLost(w) ==
  /\ MayFault
  /\ worker[w].pc \in {"complete", "fail", "reschedule", "bury"}
  /\ GoIdle(w)
  /\ faults' = faults + 1
  /\ UNCHANGED <<now, up, jobs>>

-----------------------------------------------------------------------------
(* The reaper, the process and the clock *)

\* Mutants: the reaper forgets the clock, or waits for a lease that is NULL.
MutExpiredEarly(j) == jobs[j].status = "running" /\ jobs[j].lease # NULL
MutExpiredNever(j) == jobs[j].status = "running" /\ jobs[j].lease = NULL

Expired(j) ==
  jobs[j].status = "running" /\ jobs[j].lease # NULL /\ jobs[j].lease < now

\* One UPDATE for every expired row; attempts and run_at stay as they are.
ReapExpired ==
  /\ up
  /\ \E j \in Jobs : Expired(j)
  /\ jobs' = [j \in Jobs |->
       IF Expired(j) THEN [jobs[j] EXCEPT !.status = "pending", !.lease = NULL]
                     ELSE jobs[j]]
  /\ UNCHANGED <<now, up, worker, faults>>

\* The process crashes, or is told to stop: Start returns without waiting for
\* its loops, dispatch sees a cancelled context, and so do Fail and Complete.
Stop ==
  /\ up /\ MayFault
  /\ up' = FALSE
  /\ worker' = [w \in Workers |-> IdleWorker]
  /\ faults' = faults + 1
  /\ UNCHANGED <<now, jobs>>

Restart ==
  /\ ~ up
  /\ up' = TRUE
  /\ UNCHANGED <<now, jobs, worker, faults>>

\* A job's context ends at its deadline, and its outcome is recorded Grace
\* later at the latest.
Punctual(w) == Working(w) => now < worker[w].deadline + Grace

Tick ==
  /\ now < MaxTime
  /\ \A w \in Workers : Punctual(w)
  /\ now' = now + 1
  /\ UNCHANGED <<up, jobs, worker, faults>>

WorkerStep(w) ==
  \/ \E j \in Jobs : Dequeue(w, j)
  \/ DispatchReturns(w)
  \/ Complete(w)
  \/ FailRead(w)
  \/ FailReschedule(w)
  \/ FailBury(w)

Fault ==
  \/ \E w \in Workers : OutcomeLost(w) \/ \E j \in Jobs : DequeueLost(w, j)
  \/ Stop

Next ==
  \/ \E j \in Jobs : Enqueue(j)
  \/ \E w \in Workers : WorkerStep(w)
  \/ ReapExpired
  \/ Fault
  \/ Restart
  \/ Tick

Spec == Init /\ [][Next]_vars

-----------------------------------------------------------------------------
(* Properties *)

\* Every variable holds a value of its kind (rows, goroutine states, counters).
TypeOK ==
  /\ now \in Nat
  /\ up \in BOOLEAN
  /\ jobs \in [Jobs -> JobRow]
  /\ worker \in [Workers -> WorkerState]
  /\ faults \in Nat

\* A job never runs on two workers at once: no lease expires under a worker
\* that is still busy with the job (queue.go:113, main.go:150).
OneRunner ==
  \A v, w \in Workers :
    Working(v) /\ Working(w) /\ worker[v].job = worker[w].job => v = w

\* A job is given up only after its last attempt: the gap between the second
\* and the third statement of Fail never buries a job with attempts left.
FailedOnlyWhenExhausted ==
  \A j \in Jobs : jobs[j].status = "failed" => jobs[j].attempts >= MaxAttempts

\* Every fault costs a job at most one attempt beyond max_attempts; the
\* reaper itself never grants one to a job that is not stranded.
AttemptsBounded == \A j \in Jobs : jobs[j].attempts <= MaxAttempts + faults

\* The inductive invariant behind the four above, for leases that outlive jobs.

\* A busy worker owns its row, and its lease lasts until it must be finished.
OwnsItsJob ==
  \A w \in Workers :
    IF Working(w)
      THEN LET row == jobs[worker[w].job] IN
           /\ worker[w].job \in Jobs
           /\ row.status = "running"
           /\ row.lease \in Nat
           /\ now <= worker[w].deadline + Grace
           /\ worker[w].deadline + Grace <= row.lease
      ELSE worker[w].job = NoJob

\* Only a job without attempts left is about to be buried.
BuriesExhausted ==
  \A w \in Workers : worker[w].pc = "bury" => jobs[worker[w].job].attempts >= MaxAttempts

HeldBySome(j) == \E w \in Workers : worker[w].job = j

\* A job waiting for an attempt, or stranded after one, has one to spare.
AttemptToSpare ==
  \A j \in Jobs :
    \/ jobs[j].status \in {"new", "pending"}
    \/ jobs[j].status = "running" /\ ~ HeldBySome(j)
    => jobs[j].attempts + 1 <= MaxAttempts + faults

IInv ==
  /\ TypeOK
  /\ OneRunner
  /\ FailedOnlyWhenExhausted
  /\ AttemptsBounded
  /\ OwnsItsJob
  /\ BuriesExhausted
  /\ AttemptToSpare

\* The queue as its users see it: a row's phase, its attempts, and who works on it.
PhaseOf(status) ==
  CASE status = "new"     -> "new"
    [] status = "pending" -> "waiting"
    [] status = "running" -> "taken"
    [] status = "failed"  -> "failed"
    [] status = "deleted" -> "done"

Exclusive == INSTANCE ExclusiveQueue WITH
  phase <- [j \in Jobs |-> PhaseOf(jobs[j].status)],
  tries <- [j \in Jobs |-> jobs[j].attempts],
  holds <- [w \in Workers |-> worker[w].job]

\* The leased table implements the queue in which a job's holder, and nobody
\* else, decides its outcome.
ImplementsExclusiveQueue == Exclusive!Spec

=============================================================================
