----------------------------- MODULE PushReview -----------------------------
(***************************************************************************)
(* Push mode: the analyze_push jobs of a repository's default branch, the  *)
(* run of a pushed commit (AnalyzePush in internal/analysis/pipeline.go)   *)
(* and the rolling issue its findings are announced on (PostPush in        *)
(* internal/posting/poster.go).                                            *)
(*                                                                         *)
(* The jobs come from ExclusiveQueue.  The rolling issue is looked up,     *)
(* opened, stored and read back by four calls, between which other workers *)
(* do the same for other pushes and people deny the issue.                 *)
(***************************************************************************)
EXTENDS Naturals, Sequences, FiniteSets

CONSTANTS
  Jobs, Workers, MaxAttempts, NoJob,   \* the queue's
  MaxHead,          \* bound: the default branch has heads 1 .. MaxHead
  Findings,         \* dedupe hashes of what the agents may report
  Notable,          \* those of severity critical, high or medium
  Reports,          \* sets of findings that a run may end with
  MaxPushFindings,  \* findings announced per push (maxPushFindings)
  Fits,             \* sets of findings that one comment can tell in full
  MaxRetries,       \* times a request is sent again (maxRetries)
  MaxDenials,       \* bound: times a rolling issue is denied
  MaxFaults         \* bound: failing calls and crashes

ASSUME PushReviewAssumption ==
  /\ MaxAttempts \in Nat \ {0} /\ NoJob \notin Jobs
  /\ MaxHead \in Nat \ {0}
  /\ Notable \subseteq Findings /\ Reports \subseteq SUBSET Findings
  /\ MaxPushFindings \in Nat \ {0} /\ MaxRetries \in Nat
  /\ MaxDenials \in Nat /\ MaxFaults \in Nat

VARIABLES
  phase, tries, holds,  \* the queue
  sha,       \* sha[j]: pushed commit of a job, 0 before it is sent
  head,      \* newest commit of the default branch
  run,       \* run[s]: status and findings of the analysis run of commit s
  linked,    \* linked[s][f]: issue_number of a findings row, 0 if none
  opened,    \* rolling issues opened on GitHub, numbered 1 .. opened
  rows,      \* rows of kind "rolling" in the issues table, in the order of ids
  comments,  \* comments on rolling issues: [issue, sha, new, about]
  resent,    \* history: times a comment on commit s was sent again in vain
  mem,       \* mem[w]: local state of the goroutine processing a job
  faults     \* faults so far

queue  == <<phase, tries, holds>>
pushes == <<sha, head>>
table  == <<run, linked, rows>>
github == <<opened, comments, resent>>
vars == <<queue, pushes, table, github, mem, faults>>

Q == INSTANCE ExclusiveQueue

Heads == 1 .. MaxHead
RunStatuses == {"none", "running", "done", "failed"}
PCs == {"idle", "gate", "recover", "restart", "agents", "failRun", "complete",
        "save", "load", "lookup", "open", "store", "readBack", "comment", "link",
        "failJob", "completeJob"}

Unlinked == [f \in Findings |-> 0]
Idle == [pc |-> "idle", found |-> {}, seen |-> Unlinked, rolling |-> 0, todo |-> {}]

Init ==
  /\ Q!Init
  /\ sha = [j \in Jobs |-> 0]
  /\ head = 1
  /\ run = [s \in Heads |-> [status |-> "none", findings |-> {}]]
  /\ linked = [s \in Heads |-> Unlinked]
  /\ opened = 0 /\ rows = << >> /\ comments = << >>
  /\ resent = [s \in Heads |-> 0]
  /\ mem = [w \in Workers |-> Idle]
  /\ faults = 0

At(w, pc)   == mem[w].pc = pc
Sha(w)      == sha[holds[w]]
MayFault    == faults < MaxFaults
Fault       == MayFault /\ faults' = faults + 1
GoTo(w, pc) == mem' = [mem EXCEPT ![w].pc = pc]

\* A call that succeeds leads to pc.  A call whose effect took place but whose
\* answer was an error fails the job.
Proceed(w, pc) ==
  \/ GoTo(w, pc) /\ UNCHANGED faults
  \/ Fault /\ GoTo(w, "failJob")

\* doWithRetry sends a post again after an answer that may hide its effect: a
\* call whose request took effect n times more than it was to ends well, and w
\* is left as m, or with an error.
Sent(w, n, m) ==
  \/ /\ faults + n <= MaxFaults
     /\ faults' = faults + n
     /\ mem' = [mem EXCEPT ![w] = m]
  \/ /\ faults + n < MaxFaults
     /\ faults' = faults + n + 1
     /\ GoTo(w, "failJob")

-----------------------------------------------------------------------------
(* People *)

\* A push of a new commit, or a forced push back to an earlier one.
Push(j, s) ==
  /\ Q!Submit(j)
  /\ s \in 1 .. head + 1 /\ s \in Heads
  /\ sha' = [sha EXCEPT ![j] = s]
  /\ head' = IF s > head THEN s ELSE head
  /\ UNCHANGED <<table, github, mem, faults>>

\* A deny command closes the row of a rolling issue.
Deny(n) ==
  /\ rows[n].open
  /\ Cardinality({k \in DOMAIN rows : ~ rows[k].open}) < MaxDenials
  /\ rows' = [rows EXCEPT ![n].open = FALSE]
  /\ UNCHANGED <<queue, pushes, run, linked, github, mem, faults>>

-----------------------------------------------------------------------------
(* The queue's side of a job *)

Take(w, j) ==
  /\ Q!Take(w, j)
  /\ mem' = [mem EXCEPT ![w] = [Idle EXCEPT !.pc = "gate"]]
  /\ UNCHANGED <<pushes, table, github, faults>>

CompleteJob(w) ==
  /\ At(w, "completeJob")
  /\ Q!Finish(w, holds[w])
  /\ mem' = [mem EXCEPT ![w] = Idle]
  /\ UNCHANGED <<pushes, table, github, faults>>

FailJob(w) ==
  /\ At(w, "failJob")
  /\ Q!Retry(w, holds[w]) \/ Q!GiveUp(w, holds[w])
  /\ mem' = [mem EXCEPT ![w] = Idle]
  /\ UNCHANGED <<pushes, table, github, faults>>

\* The job is dropped: its outcome could not be stored, or the process stopped.
Drop(W) ==
  /\ \E w \in W : ~ At(w, "idle")
  /\ Fault
  /\ Q!Vanish(W)
  /\ mem' = [w \in Workers |-> IF w \in W THEN Idle ELSE mem[w]]
  /\ UNCHANGED <<pushes, table, github>>

OutcomeLost(w) == mem[w].pc \in {"failJob", "completeJob"} /\ Drop({w})
Crash == Drop(Workers)

Reap ==
  /\ \E S \in SUBSET Jobs \ {{}} : Q!Recover(S)
  /\ UNCHANGED <<pushes, table, github, mem, faults>>

\* A call fails without an effect, and its error is returned.
CallFails(w) ==
  /\ mem[w].pc \notin {"idle", "agents", "failRun", "link", "failJob", "completeJob"}
  /\ Fault
  /\ GoTo(w, "failJob")
  /\ UNCHANGED <<queue, pushes, table, github>>

-----------------------------------------------------------------------------
(* AnalyzePush *)

\* The repo, its settings, the branch or the sender decide against a review.
SkipByPolicy(w) ==
  /\ At(w, "gate")
  /\ GoTo(w, "completeJob")
  /\ UNCHANGED <<queue, pushes, table, github, faults>>

\* The (repo, kind, sha) key of the run of a job.
RunKey(w) == Sha(w)

\* GetPushDiff compares the job's own commits: nothing to read that may change.
CreateRun(w) ==
  /\ At(w, "gate")
  /\ \/ /\ run[RunKey(w)].status = "none"
        /\ run' = [run EXCEPT ![RunKey(w)].status = "running"]
        /\ Proceed(w, "agents")
     \/ /\ run[RunKey(w)].status # "none"
        /\ GoTo(w, "recover")
        /\ UNCHANGED <<run, faults>>
  /\ UNCHANGED <<queue, pushes, linked, rows, github>>

\* Mutant: a finished run counts as stalled.
MutTerminalStatuses == {"failed"}

\* Runs that recoverRun leaves alone.
TerminalStatuses == {"done", "failed"}

\* RunByKey: a run that is over ends the job, any other one is restarted.
RecoverRun(w) ==
  /\ At(w, "recover")
  /\ GoTo(w, IF run[RunKey(w)].status \in TerminalStatuses THEN "completeJob" ELSE "restart")
  /\ UNCHANGED <<queue, pushes, table, github, faults>>

RestartRun(w) ==
  /\ At(w, "restart")
  /\ run' = [run EXCEPT ![RunKey(w)].status = "running"]
  /\ Proceed(w, "agents")
  /\ UNCHANGED <<queue, pushes, linked, rows, github>>

\* runAgents and the merging, checking and capping of finish.
AgentsReturn(w) ==
  /\ At(w, "agents")
  /\ \/ \E F \in Reports :
          mem' = [mem EXCEPT ![w].found = F, ![w].pc = "complete"] /\ UNCHANGED faults
     \/ Fault /\ GoTo(w, "failRun")
  /\ UNCHANGED <<queue, pushes, table, github>>

\* The status FailRun writes.
FailedStatus == "failed"

\* FailRun, its own error ignored.
FailRun(w) ==
  /\ At(w, "failRun")
  /\ \/ run' = [run EXCEPT ![RunKey(w)].status = FailedStatus] /\ UNCHANGED faults
     \/ Fault /\ UNCHANGED run
  /\ GoTo(w, "failJob")
  /\ UNCHANGED <<queue, pushes, linked, rows, github>>

CompleteRun(w) ==
  /\ At(w, "complete")
  /\ run' = [run EXCEPT ![RunKey(w)].status = "done"]
  /\ Proceed(w, "save")
  /\ UNCHANGED <<queue, pushes, linked, rows, github>>

SaveFindings(w) ==
  /\ At(w, "save")
  /\ run' = [run EXCEPT ![RunKey(w)].findings = @ \cup mem[w].found]
  /\ Proceed(w, "load")
  /\ UNCHANGED <<queue, pushes, linked, rows, github>>

\* FindingsForRun: all rows of the run, and the issues they are linked to now.
LoadFindings(w) ==
  /\ At(w, "load")
  /\ mem' = [mem EXCEPT ![w].found = run[RunKey(w)].findings,
                        ![w].seen = linked[RunKey(w)], ![w].pc = "lookup"]
  /\ UNCHANGED <<queue, pushes, table, github, faults>>

-----------------------------------------------------------------------------
(* PostPush *)

OpenRows == {n \in DOMAIN rows : rows[n].open}

\* OpenIssueForRepo: ORDER BY id LIMIT 1
Rolling == rows[CHOOSE n \in OpenRows : \A m \in OpenRows : n <= m].number

LookUp(w) ==
  /\ At(w, "lookup")
  /\ \/ /\ OpenRows # {}
        /\ mem' = [mem EXCEPT ![w].rolling = Rolling, ![w].pc = "comment"]
     \/ /\ OpenRows = {}
        /\ GoTo(w, "open")
  /\ UNCHANGED <<queue, pushes, table, github, faults>>

\* The issue of the last request is the one that is known.
OpenRolling(w) ==
  /\ At(w, "open")
  /\ \E n \in 0 .. MaxRetries :
       /\ opened' = opened + n + 1
       /\ Sent(w, n, [mem[w] EXCEPT !.rolling = opened + n + 1, !.pc = "store"])
  /\ UNCHANGED <<queue, pushes, table, comments, resent>>

StoreRolling(w) ==
  /\ At(w, "store")
  /\ rows' = Append(rows, [number |-> mem[w].rolling, open |-> TRUE])
  /\ Proceed(w, "readBack")
  /\ UNCHANGED <<queue, pushes, run, linked, github>>

\* Mutant: the worker goes on with the issue it has opened.
MutReadBack(w) ==
  /\ At(w, "readBack")
  /\ GoTo(w, "comment")
  /\ UNCHANGED <<queue, pushes, table, github, faults>>

\* The lookup again; another worker's issue may have come first.
ReadBack(w) ==
  /\ At(w, "readBack")
  /\ \/ /\ OpenRows # {}
        /\ mem' = [mem EXCEPT ![w].rolling = Rolling, ![w].pc = "comment"]
     \/ /\ OpenRows = {}
        /\ GoTo(w, "failJob")
  /\ UNCHANGED <<queue, pushes, table, github, faults>>

\* Mutant: the comparison is inverted.
MutCandidates(w) == {f \in mem[w].found \cap Notable : mem[w].seen[f] = mem[w].rolling}

\* Findings worth announcing that are not known to be on this issue.
Candidates(w) == {f \in mem[w].found \cap Notable : mem[w].seen[f] # mem[w].rolling}

\* The first of them, in an order that is not modelled.
NewFindings(w) ==
  {N \in SUBSET Candidates(w) :
     \/ Cardinality(N) = MaxPushFindings
     \/ Cardinality(N) < MaxPushFindings /\ N = Candidates(w)}

NothingNew(w) ==
  /\ At(w, "comment")
  /\ Candidates(w) = {}
  /\ GoTo(w, "completeJob")
  /\ UNCHANGED <<queue, pushes, table, github, faults>>

\* The findings that the first 30000 characters of a comment about N tell in
\* full: all of N, or some if the text is longer (capString).
Shown(N) == IF N \in Fits THEN {N} ELSE SUBSET N \ {N}

\* Mutant: the error of the comment is logged, as that of a denial is.
MutComment(w) ==
  /\ At(w, "comment")
  /\ \E N \in NewFindings(w) \ {{}} :
       /\ mem' = [mem EXCEPT ![w].todo = N, ![w].pc = "link"]
       /\ \/ /\ comments' = Append(comments, [issue |-> mem[w].rolling, sha |-> Sha(w),
                                               new |-> N, about |-> N])
             /\ UNCHANGED faults
          \/ Fault /\ UNCHANGED comments
  /\ UNCHANGED <<queue, pushes, table, opened, resent>>

\* One comment for all of them, or as many as were sent.
Comment(w) ==
  /\ At(w, "comment")
  /\ \E N \in NewFindings(w) \ {{}}, n \in 0 .. MaxRetries :
       /\ \E A \in Shown(N) :
            LET c == [issue |-> mem[w].rolling, sha |-> Sha(w), new |-> N, about |-> A] IN
            comments' = comments \o [i \in 1 .. n + 1 |-> c]
       /\ resent' = [resent EXCEPT ![Sha(w)] = @ + n]
       /\ Sent(w, n, [mem[w] EXCEPT !.todo = N, !.pc = "link"])
  /\ UNCHANGED <<queue, pushes, table, opened>>

\* The loop goes on with rest.
Left(w, rest) ==
  mem' = [mem EXCEPT ![w].todo = rest, ![w].pc = IF rest = {} THEN "completeJob" ELSE "link"]

\* SetFindingIssue, one row after the other; errors, of one row or of all that
\* are left when the context ends, are logged.
Link(w) ==
  /\ At(w, "link")
  /\ \E f \in mem[w].todo :
       \/ /\ linked' = [linked EXCEPT ![RunKey(w)][f] = mem[w].rolling]
          /\ Left(w, mem[w].todo \ {f})
          /\ UNCHANGED faults
       \/ /\ Fault
          /\ \E rest \in {mem[w].todo \ {f}, {}} : Left(w, rest)
          /\ UNCHANGED linked
  /\ UNCHANGED <<queue, pushes, run, rows, github>>

-----------------------------------------------------------------------------

Analyze(w) ==
  \/ SkipByPolicy(w) \/ CreateRun(w) \/ RecoverRun(w) \/ RestartRun(w)
  \/ AgentsReturn(w) \/ FailRun(w)
  \/ CompleteRun(w) \/ SaveFindings(w) \/ LoadFindings(w)

Post(w) ==
  \/ LookUp(w) \/ OpenRolling(w) \/ StoreRolling(w) \/ ReadBack(w)
  \/ NothingNew(w) \/ Comment(w) \/ Link(w)

WorkerStep(w) ==
  \/ \E j \in Jobs : Take(w, j)
  \/ Analyze(w) \/ Post(w)
  \/ CallFails(w) \/ CompleteJob(w) \/ FailJob(w)

Next ==
  \/ \E j \in Jobs, s \in Heads : Push(j, s)
  \/ \E n \in DOMAIN rows : Deny(n)
  \/ \E w \in Workers : WorkerStep(w) \/ OutcomeLost(w)
  \/ Crash \/ Reap

Spec == Init /\ [][Next]_vars

\* Workers keep working and the reaper keeps reaping.
FairSpec ==
  /\ Spec
  /\ \A w \in Workers : WF_vars(WorkerStep(w))
  /\ WF_vars(Reap)

-----------------------------------------------------------------------------
(* Properties *)

\* A findings row that names an issue was posted there: whatever call fails and
\* whoever shares the run, no finding is taken for announced that was in no
\* comment, and it can be read there in full unless the comment was cut
\* (poster.go:233-240, markdown.go:158).
LinkedMeansAnnounced ==
  \A s \in Heads, f \in Findings : linked[s][f] > 0 =>
    \E k \in DOMAIN comments :
      /\ comments[k].issue = linked[s][f] /\ comments[k].sha = s
      /\ f \in comments[k].new
      /\ comments[k].new \in Fits => f \in comments[k].about

\* Two workers that found no rolling issue and opened one each agree on the one
\* they comment on, because they read it back: different issues are in use only
\* if one of them was denied meanwhile (poster.go:194-213).
Using(w) == mem[w].pc \in {"comment", "link"}
OneIssueInUse ==
  \A v, w \in Workers :
    Using(v) /\ Using(w) /\ mem[v].rolling # mem[w].rolling =>
      \E n \in DOMAIN rows :
        rows[n].number \in {mem[v].rolling, mem[w].rolling} /\ ~ rows[n].open

\* A commit that was pushed once is announced once: however often its job is
\* retried, a finding of it is in a second comment only where doWithRetry sent
\* the one comment again after an answer that hid its effect, and in no more
\* than that (pipeline.go:315-317, client.go:430-461).
AnnouncedOnce ==
  \A s \in Heads : Cardinality({j \in Jobs : sha[j] = s}) = 1 =>
    \A f \in Findings :
      Cardinality({k \in DOMAIN comments : comments[k].sha = s /\ f \in comments[k].new})
        <= 1 + resent[s]

\* Every accepted push is completed or given up in the end.  Unless something
\* fails, one that gets a run ends with a finished run whose notable findings,
\* up to maxPushFindings, are linked to a rolling issue, also when workers share
\* the run or race for the issue.  A denial may come between the opening and the
\* reading back (poster.go:211): the job fails, and its retry finds the run
\* analyzed.
EventuallyAnnounced ==
  \A j \in Jobs :
    phase[j] = "waiting" ~>
      \/ phase[j] = "done" /\ run[sha[j]].status = "none"
      \/ /\ phase[j] = "done"
         /\ run[sha[j]].status = "done"
         /\ LET notable == run[sha[j]].findings \cap Notable
                told == {f \in notable : linked[sha[j]][f] > 0} IN
            told = notable \/ Cardinality(told) >= MaxPushFindings
      \/ /\ phase[j] \in {"done", "failed"}
         /\ faults > 0 \/ \E n \in DOMAIN rows : ~ rows[n].open

=============================================================================
