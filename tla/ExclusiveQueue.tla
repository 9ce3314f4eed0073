--------------------------- MODULE ExclusiveQueue ---------------------------
(***************************************************************************)
(* What the rest of codepeer expects of its job queue, without leases,     *)
(* clocks or SQL: a submitted job is taken by one worker at a time, its     *)
(* outcome is decided by the worker that holds it, it is given up only      *)
(* after MaxAttempts tries, and a job whose holder vanished becomes         *)
(* available again.  JobQueue implements it when leases outlive jobs.       *)
(***************************************************************************)
EXTENDS Naturals

CONSTANTS Jobs,         \* the jobs that may ever be submitted
          Workers,      \* the worker goroutines
          MaxAttempts,  \* tries after which a failing job is given up
          NoJob         \* what an idle worker holds; not one of the Jobs

VARIABLES phase,  \* phase[j]: "new", "waiting", "taken", "done" or "failed"
          tries,  \* tries[j]: how often j has been taken
          holds   \* holds[w]: the job w works on, or NoJob

vars == <<phase, tries, holds>>

Held(j) == \E w \in Workers : holds[w] = j

Init ==
  /\ phase = [j \in Jobs |-> "new"]
  /\ tries = [j \in Jobs |-> 0]
  /\ holds = [w \in Workers |-> NoJob]

Submit(j) ==
  /\ phase[j] = "new"
  /\ phase' = [phase EXCEPT ![j] = "waiting"]
  /\ UNCHANGED <<tries, holds>>

\* A waiting job that nobody holds is taken by an idle worker.
Take(w, j) ==
  /\ holds[w] = NoJob
  /\ phase[j] = "waiting"
  /\ ~ Held(j)
  /\ phase' = [phase EXCEPT ![j] = "taken"]
  /\ tries' = [tries EXCEPT ![j] = @ + 1]
  /\ holds' = [holds EXCEPT ![w] = j]

\* The job is taken, but the answer never reaches the worker.
TakeLost(j) ==
  /\ phase[j] = "waiting"
  /\ ~ Held(j)
  /\ phase' = [phase EXCEPT ![j] = "taken"]
  /\ tries' = [tries EXCEPT ![j] = @ + 1]
  /\ UNCHANGED holds

\* The holder of j decides its outcome and lets go of it.
Settle(w, j, outcome) ==
  /\ holds[w] = j
  /\ phase[j] = "taken"
  /\ phase' = [phase EXCEPT ![j] = outcome]
  /\ holds' = [holds EXCEPT ![w] = NoJob]
  /\ UNCHANGED tries

Finish(w, j) == Settle(w, j, "done")
Retry(w, j)  == tries[j] < MaxAttempts /\ Settle(w, j, "waiting")
GiveUp(w, j) == tries[j] >= MaxAttempts /\ Settle(w, j, "failed")

\* Workers lose their jobs: a crash, a shutdown, an outcome not recorded.
Vanish(W) ==
  /\ holds' = [w \in Workers |-> IF w \in W THEN NoJob ELSE holds[w]]
  /\ UNCHANGED <<phase, tries>>

\* Taken jobs that nobody holds become available again.
Recover(S) ==
  /\ \A j \in S : phase[j] = "taken" /\ ~ Held(j)
  /\ phase' = [j \in Jobs |-> IF j \in S THEN "waiting" ELSE phase[j]]
  /\ UNCHANGED <<tries, holds>>

Next ==
  \/ \E j \in Jobs : Submit(j) \/ TakeLost(j)
  \/ \E w \in Workers, j \in Jobs :
       Take(w, j) \/ Finish(w, j) \/ Retry(w, j) \/ GiveUp(w, j)
  \/ \E W \in SUBSET Workers : Vanish(W)
  \/ \E S \in SUBSET Jobs : Recover(S)

Spec == Init /\ [][Next]_vars

=============================================================================
