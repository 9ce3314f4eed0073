-------------------------- MODULE JobQueueProgress --------------------------
(***************************************************************************)
(* JobQueue with the schedule that main.go keeps: an idle worker polls     *)
(* every two seconds, the reaper runs every minute, and the platform       *)
(* restarts a stopped process.  One tick of the clock stands for at least  *)
(* that long, so time does not pass while such a step is overdue.          *)
(***************************************************************************)
EXTENDS JobQueue

CONSTANT LastEnqueue   \* bound: no job arrives later

ASSUME LastEnqueueAssumption == LastEnqueue \in 0 .. MaxTime

\* An idle worker has a job it could claim (the ticker of loop).
PollOverdue == \E w \in Workers, j \in Jobs : ~ Working(w) /\ Due(j)

\* A lease has expired (the ticker of the reaper).
ReapOverdue == \E j \in Jobs : Expired(j)

TimelyTick == up /\ ~ PollOverdue /\ ~ ReapOverdue /\ Tick

TimelyEnqueue(j) == now <= LastEnqueue /\ Enqueue(j)

TimelyNext ==
  \/ \E j \in Jobs : TimelyEnqueue(j)
  \/ \E w \in Workers : WorkerStep(w)
  \/ ReapExpired
  \/ Fault
  \/ Restart
  \/ TimelyTick

\* Goroutines that can run do run; nothing forces a job to arrive or a fault.
Fairness ==
  /\ \A w \in Workers : WF_vars(WorkerStep(w))
  /\ WF_vars(ReapExpired)
  /\ WF_vars(Restart)
  /\ WF_vars(TimelyTick)

TimelySpec == Init /\ [][TimelyNext]_vars /\ Fairness

-----------------------------------------------------------------------------

\* Every job that was accepted is eventually completed or given up, whatever
\* crashes, lost answers and failing attempts it meets on the way: a job
\* stranded in "running" is always picked up again (queue.go:113, main.go:159).
Settles ==
  \A j \in Jobs :
    jobs[j].status = "pending" ~> jobs[j].status \in {"deleted", "failed"}

=============================================================================
