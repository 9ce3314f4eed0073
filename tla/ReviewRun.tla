------------------------------ MODULE ReviewRun ------------------------------
(***************************************************************************)
(* One pull request under review: the analyze_pr jobs of its head commits, *)
(* the pipeline that turns a job into an analysis run (AnalyzePR in        *)
(* internal/analysis/pipeline.go) and the poster that turns the run into   *)
(* a check run, a review, comments and issues (PostPRReview in             *)
(* internal/posting/poster.go), over the rows of internal/store/store.go.  *)
(*                                                                         *)
(* The jobs come from ExclusiveQueue, which JobQueue implements.  Between  *)
(* two actions of a worker any other worker may run, the pull request may  *)
(* move on, the job's context may end or the process may crash.            *)
(***************************************************************************)
EXTENDS Naturals, Sequences, FiniteSets

CONSTANTS
  Jobs, Workers, MaxAttempts, NoJob,   \* the queue's
  MaxHead,      \* bound: the commits that may be the head are 1 .. MaxHead
  Findings,     \* dedupe hashes of what the agents may report
  Severe,       \* those of severity critical or high
  MaxFindings,  \* findings kept by applyCaps
  MaxIssues,    \* issues opened per review (maxIssuesPerReview)
  MaxRetries,   \* times a request is sent again (maxRetries)
  MaxFaults     \* bound: errors, expired contexts, crashes

ASSUME ReviewRunAssumption ==
  /\ Jobs \subseteq Nat /\ NoJob \notin Jobs /\ MaxAttempts \in Nat \ {0}
  /\ MaxHead \in Nat \ {0}
  /\ Severe \subseteq Findings
  /\ MaxFindings \in Nat /\ MaxIssues \in Nat
  /\ MaxRetries \in Nat /\ MaxFaults \in Nat

VARIABLES
  phase, tries, holds,  \* the queue
  heads,     \* the commits that were the pull request's head, one after the other
  sent,      \* sent[j]: how many they were when job j was sent, 0 before
  run,       \* run[s]: the analysis_runs row of commit s and its findings rows
  mem,       \* mem[w]: local state of the goroutine processing a job
  skipped,   \* jobs that ended because the repository is not to be reviewed
  overlap,   \* history: {s, t} if jobs of s and t were ever in flight at once
  posts,     \* posts[s][k]: how often GitHub received kind k for commit s
  resent,    \* history: how often a request of these was sent again in vain
  about,     \* about[s]: the jobs and diffs of the reviews posted on commit s
  issues,    \* issues[f]: open GitHub issues about finding f
  issueRows, \* findings the issues table has an open row for
  faults     \* faults so far

queue == <<phase, tries, holds>>
local == <<heads, sent, skipped, overlap>>
received == <<posts, resent, about>>
remote == <<received, issues, issueRows>>
vars == <<queue, local, run, mem, remote, faults>>

Q == INSTANCE ExclusiveQueue

Heads == 1 .. MaxHead

\* What is posted on a commit; the comments of a review are one batch, which
\* counts as often as the one of them that was posted most often.
Kinds == {"checks", "reviews", "comments"}

\* States of a run; "none" is the absent row.
RunStatuses == {"none", "running", "done", "failed"}

PCs == {"idle", "gate", "create", "recover", "restart", "agents", "failRun",
        "complete", "save", "load", "check", "review", "comments",
        "listIssues", "issues", "state", "failJob", "completeJob"}

Mem == [pc : PCs, live : BOOLEAN, diff : Nat,
        found : SUBSET Findings, known : SUBSET Findings, opened : Nat]

Idle == [pc |-> "idle", live |-> TRUE, diff |-> 0,
         found |-> {}, known |-> {}, opened |-> 0]

Init ==
  /\ Q!Init
  /\ heads = <<1>>
  /\ sent = [j \in Jobs |-> 0]
  /\ run = [s \in Heads |-> [status |-> "none", findings |-> {}]]
  /\ mem = [w \in Workers |-> Idle]
  /\ skipped = {}
  /\ overlap = {}
  /\ posts = [s \in Heads |-> [k \in Kinds |-> 0]]
  /\ resent = [s \in Heads |-> [k \in Kinds |-> 0]]
  /\ about = [s \in Heads |-> {}]
  /\ issues = [f \in Findings |-> 0]
  /\ issueRows = {}
  /\ faults = 0

At(w, pc) == mem[w].pc = pc
MayFault  == faults < MaxFaults

\* HeadSHA of a job's payload, and of the job that w holds.
Commit(j) == heads[sent[j]]
Sha(w)    == Commit(holds[w])

\* Mutant: runs are deduped per pull request.
MutRunKey(w) == 1

\* The (repo, kind, sha) key of the run of a job.
RunKey(w) == Sha(w)

\* The next statement of w, and local variables it sets on the way.
GoTo(w, pc) == mem' = [mem EXCEPT ![w].pc = pc]

\* AnalyzePR and PostPRReview return: their variables go out of scope.
Leave(w, pc) == mem' = [mem EXCEPT ![w] = [Idle EXCEPT !.pc = pc]]

\* A call that succeeds leads to pc.  A call whose effect took place but whose
\* answer was an error fails the job.
Proceed(w, pc) ==
  \/ GoTo(w, pc) /\ UNCHANGED faults
  \/ MayFault /\ Leave(w, "failJob") /\ faults' = faults + 1

\* doWithRetry sends a post again after an answer that may hide its effect: a
\* call whose request took effect n times more than it was to ends well, or
\* with an error.
Sent(w, n, pc) ==
  \/ /\ faults + n <= MaxFaults
     /\ faults' = faults + n
     /\ GoTo(w, pc)
  \/ /\ faults + n < MaxFaults
     /\ faults' = faults + n + 1
     /\ Leave(w, "failJob")

-----------------------------------------------------------------------------
(* Events of the pull request *)

\* Job ids come from a sequence.
NextId(j) == \A i \in Jobs : i < j => phase[i] # "new"

\* opened, reopened, ready_for_review: a job for the head as it is.
RequestReview(j) ==
  /\ NextId(j) /\ Q!Submit(j)
  /\ sent' = [sent EXCEPT ![j] = Len(heads)]
  /\ UNCHANGED <<heads, skipped, overlap, run, mem, remote, faults>>

\* synchronize: a push, which may be a forced one back to an earlier commit,
\* moves the head and sends a job for the new one.
Synchronize(j, s) ==
  /\ NextId(j) /\ Q!Submit(j)
  /\ s # heads[Len(heads)]
  /\ heads' = Append(heads, s)
  /\ sent' = [sent EXCEPT ![j] = Len(heads) + 1]
  /\ UNCHANGED <<skipped, overlap, run, mem, remote, faults>>

-----------------------------------------------------------------------------
(* The queue's side of a job *)

Take(w, j) ==
  /\ Q!Take(w, j)
  /\ mem' = [mem EXCEPT ![w] = [Idle EXCEPT !.pc = "gate"]]
  /\ overlap' = overlap \cup {{Commit(j), Sha(v)} : v \in {u \in Workers : ~ At(u, "idle")}}
  /\ UNCHANGED <<heads, sent, skipped, run, remote, faults>>

CompleteJob(w) ==
  /\ At(w, "completeJob")
  /\ Q!Finish(w, holds[w])
  /\ mem' = [mem EXCEPT ![w] = Idle]
  /\ UNCHANGED <<local, run, remote, faults>>

FailJob(w) ==
  /\ At(w, "failJob")
  /\ Q!Retry(w, holds[w]) \/ Q!GiveUp(w, holds[w])
  /\ mem' = [mem EXCEPT ![w] = Idle]
  /\ UNCHANGED <<local, run, remote, faults>>

\* The claim's answer is lost: the job is taken, but by nobody.
TakeLost(j) ==
  /\ MayFault
  /\ Q!TakeLost(j)
  /\ faults' = faults + 1
  /\ UNCHANGED <<local, run, mem, remote>>

\* Completing or failing the job fails: process logs it and moves on.
OutcomeLost(w) ==
  /\ MayFault
  /\ mem[w].pc \in {"failJob", "completeJob"}
  /\ Q!Vanish({w})
  /\ mem' = [mem EXCEPT ![w] = Idle]
  /\ faults' = faults + 1
  /\ UNCHANGED <<local, run, remote>>

\* Crash or shutdown of the process: every job in flight is dropped.
Crash ==
  /\ MayFault
  /\ \E w \in Workers : ~ At(w, "idle")
  /\ Q!Vanish(Workers)
  /\ mem' = [w \in Workers |-> Idle]
  /\ faults' = faults + 1
  /\ UNCHANGED <<local, run, remote>>

\* The reaper makes dropped jobs available again.
Reap ==
  /\ \E S \in SUBSET Jobs \ {{}} : Q!Recover(S)
  /\ UNCHANGED <<local, run, mem, remote, faults>>

-----------------------------------------------------------------------------
(* AnalyzePR *)

\* The job's context ends: JobTTL is over.
Expire(w) ==
  /\ MayFault
  /\ mem[w].live /\ mem[w].pc \notin {"idle", "failJob", "completeJob"}
  /\ mem' = [mem EXCEPT ![w].live = FALSE]
  /\ faults' = faults + 1
  /\ UNCHANGED <<queue, local, run, remote>>

\* The calls whose error AnalyzePR or PostPRReview returns.
FailingCalls == {"gate", "create", "recover", "restart", "complete", "save", "load",
                 "check", "review", "state"}

\* Such a call fails without an effect: by itself, or because the context ended.
CallFails(w) ==
  /\ mem[w].pc \in FailingCalls
  /\ \/ ~ mem[w].live /\ UNCHANGED faults
     \/ mem[w].live /\ MayFault /\ faults' = faults + 1
  /\ Leave(w, "failJob")
  /\ UNCHANGED <<queue, local, run, remote>>

\* The repo, its settings and the pull request decide whether to review.
SkipByPolicy(w) ==
  /\ At(w, "gate") /\ mem[w].live
  /\ skipped' = skipped \cup {holds[w]}
  /\ Leave(w, "completeJob")
  /\ UNCHANGED <<queue, heads, sent, overlap, run, remote, faults>>

\* GetRawDiff and ListPRFiles read the pull request as it is by now, not the
\* job's commit.
ReadDiff(w) ==
  /\ At(w, "gate") /\ mem[w].live
  /\ mem' = [mem EXCEPT ![w].diff = Len(heads), ![w].pc = "create"]
  /\ UNCHANGED <<queue, local, run, remote, faults>>

\* CreateRun inserts the row, or meets its unique key.
CreateRun(w) ==
  /\ At(w, "create") /\ mem[w].live
  /\ \/ /\ run[RunKey(w)].status = "none"
        /\ run' = [run EXCEPT ![RunKey(w)].status = "running"]
        /\ Proceed(w, "agents")
     \/ /\ run[RunKey(w)].status # "none"
        /\ GoTo(w, "recover")
        /\ UNCHANGED <<run, faults>>
  /\ UNCHANGED <<queue, local, remote>>

\* Mutant: a finished run counts as stalled.
MutTerminalStatuses == {"failed"}

\* Runs that recoverRun leaves alone.
TerminalStatuses == {"done", "failed"}

\* recoverRun, RunByKey: nothing to do for a run that is over.
RecoverRun(w) ==
  /\ At(w, "recover") /\ mem[w].live
  /\ \/ /\ run[RunKey(w)].status \in TerminalStatuses
        /\ Leave(w, "completeJob")
     \/ /\ run[RunKey(w)].status \notin TerminalStatuses
        /\ GoTo(w, "restart")
  /\ UNCHANGED <<queue, local, run, remote, faults>>

\* recoverRun, RestartRun: running again, whatever it is by now.
RestartRun(w) ==
  /\ At(w, "restart") /\ mem[w].live
  /\ run' = [run EXCEPT ![RunKey(w)].status = "running"]
  /\ Proceed(w, "agents")
  /\ UNCHANGED <<queue, local, remote>>

\* What validation, suppression and caps may leave of the agents' findings.
Kept == {F \in SUBSET Findings : Cardinality(F) <= MaxFindings}

\* runAgents while the context lives: its findings, or an error because every
\* review failed.
AgentsReturn(w) ==
  /\ At(w, "agents") /\ mem[w].live
  /\ \/ \E F \in Kept : mem' = [mem EXCEPT ![w].found = F, ![w].pc = "complete"] /\ UNCHANGED faults
     \/ MayFault /\ faults' = faults + 1 /\ GoTo(w, "failRun")
  /\ UNCHANGED <<queue, local, run, remote>>

\* runAgents after the context ended: an error, or what there is, which may be
\* nothing at all.
AgentsCutShort(w) ==
  /\ At(w, "agents") /\ ~ mem[w].live
  /\ \/ \E F \in Kept : mem' = [mem EXCEPT ![w].found = F, ![w].pc = "complete"]
     \/ GoTo(w, "failRun")
  /\ UNCHANGED <<queue, local, run, remote, faults>>

\* Mutant: a status that recoverRun does not know.
MutFailedStatus == "error"

\* The status FailRun writes.
FailedStatus == "failed"

\* FailRun, its own error ignored, then AnalyzePR returns the agents' error.
FailRun(w) ==
  /\ At(w, "failRun")
  /\ \/ /\ mem[w].live
        /\ run' = [run EXCEPT ![RunKey(w)].status = FailedStatus]
        /\ UNCHANGED faults
     \/ /\ ~ mem[w].live
        /\ UNCHANGED <<run, faults>>
     \/ /\ mem[w].live /\ MayFault
        /\ faults' = faults + 1
        /\ UNCHANGED run
  /\ Leave(w, "failJob")
  /\ UNCHANGED <<queue, local, remote>>

\* finish: CompleteRun, which takes the job's context, comes first ...
CompleteRun(w) ==
  /\ At(w, "complete") /\ mem[w].live
  /\ run' = [run EXCEPT ![RunKey(w)].status = "done"]
  /\ Proceed(w, "save")
  /\ UNCHANGED <<queue, local, remote>>

\* ... then SaveFindings, which keeps the rows the run already has ...
SaveFindings(w) ==
  /\ At(w, "save") /\ mem[w].live
  /\ run' = [run EXCEPT ![RunKey(w)].findings = @ \cup mem[w].found]
  /\ Proceed(w, "load")
  /\ UNCHANGED <<queue, local, remote>>

\* ... and FindingsForRun reads them all back.
LoadFindings(w) ==
  /\ At(w, "load") /\ mem[w].live
  /\ mem' = [mem EXCEPT ![w].found = run[RunKey(w)].findings, ![w].pc = "check"]
  /\ UNCHANGED <<queue, local, run, remote, faults>>

-----------------------------------------------------------------------------
(* PostPRReview *)

\* Mutant: the commit that is the pull request's head by now.
MutTarget(w) == heads[Len(heads)]

\* The commit that everything is posted on: payload.HeadSHA.
Target(w) == Sha(w)

\* A post of this kind took effect n times more than it was to.
Receive(w, kind, n) ==
  /\ posts' = [posts EXCEPT ![Target(w)][kind] = @ + n + 1]
  /\ resent' = [resent EXCEPT ![Target(w)][kind] = @ + n]

CreateCheckRun(w) ==
  /\ At(w, "check") /\ mem[w].live
  /\ \E n \in 0 .. MaxRetries : Receive(w, "checks", n) /\ Sent(w, n, "review")
  /\ UNCHANGED <<queue, local, run, about, issues, issueRows>>

CreateReview(w) ==
  /\ At(w, "review") /\ mem[w].live
  /\ \E n \in 0 .. MaxRetries : Receive(w, "reviews", n) /\ Sent(w, n, "comments")
  /\ about' = [about EXCEPT ![Target(w)] = @ \cup {[sent |-> sent[holds[w]], diff |-> mem[w].diff]}]
  /\ UNCHANGED <<queue, local, run, issues, issueRows>>

\* The inline comments; their errors are logged and forgotten.
CreateComments(w) ==
  /\ At(w, "comments")
  /\ \/ /\ mem[w].live /\ mem[w].found # {}
        /\ \E n \in 0 .. MaxRetries :
             /\ Receive(w, "comments", n)
             /\ faults + n <= MaxFaults /\ faults' = faults + n
     \/ /\ ~ mem[w].live \/ mem[w].found = {}
        /\ UNCHANGED <<posts, resent, faults>>
     \/ /\ MayFault /\ faults' = faults + 1
        /\ UNCHANGED <<posts, resent>>
  /\ GoTo(w, "listIssues")
  /\ UNCHANGED <<queue, local, run, about, issues, issueRows>>

\* IssuesForPR: an error leaves an empty list.
ListIssues(w) ==
  /\ At(w, "listIssues")
  /\ \/ /\ mem[w].live
        /\ mem' = [mem EXCEPT ![w].known = issueRows, ![w].pc = "issues"]
        /\ UNCHANGED faults
     \/ /\ ~ mem[w].live
        /\ GoTo(w, "issues") /\ UNCHANGED faults
     \/ /\ mem[w].live /\ MayFault
        /\ GoTo(w, "issues") /\ faults' = faults + 1
  /\ UNCHANGED <<queue, local, run, remote>>

\* Mutant: the open issues of the pull request are not consulted.
MutToOpen(w) == mem[w].found \cap Severe

\* Findings the loop has yet to look at; those of the list are skipped.
ToOpen(w) == (mem[w].found \cap Severe) \ mem[w].known

\* One turn of the loop: the issue, then its row, whose error is logged.
OpenIssue(w) ==
  /\ At(w, "issues") /\ mem[w].live
  /\ mem[w].opened < MaxIssues
  /\ \E f \in ToOpen(w), n \in 0 .. MaxRetries :
       /\ issues' = [issues EXCEPT ![f] = @ + n + 1]
       /\ \/ /\ faults + n <= MaxFaults /\ faults' = faults + n
             /\ issueRows' = issueRows \cup {f}
          \/ /\ faults + n < MaxFaults /\ faults' = faults + n + 1
             /\ UNCHANGED issueRows
       /\ mem' = [mem EXCEPT ![w].found = @ \ {f}, ![w].opened = @ + 1]
  /\ UNCHANGED <<queue, local, run, received>>

\* The answer to the last request is an error, whatever the n before it and
\* itself have done: the finding is passed over.
OpenIssueFails(w) ==
  /\ At(w, "issues") /\ mem[w].live
  /\ mem[w].opened < MaxIssues
  /\ \E f \in ToOpen(w), n \in 0 .. MaxRetries :
       /\ faults + n < MaxFaults /\ faults' = faults + n + 1
       /\ \E done \in {n, n + 1} : issues' = [issues EXCEPT ![f] = @ + done]
       /\ mem' = [mem EXCEPT ![w].found = @ \ {f}]
  /\ UNCHANGED <<queue, local, run, received, issueRows>>

IssuesDone(w) ==
  /\ At(w, "issues")
  /\ ~ mem[w].live \/ ToOpen(w) = {} \/ mem[w].opened >= MaxIssues
  /\ GoTo(w, "state")
  /\ UNCHANGED <<queue, local, run, remote, faults>>

\* SetPRState, the last statement; PostPRReview returns its error.
SetPRState(w) ==
  /\ At(w, "state") /\ mem[w].live
  /\ Leave(w, "completeJob")
  /\ UNCHANGED <<queue, local, run, remote, faults>>

-----------------------------------------------------------------------------

Analyze(w) ==
  \/ SkipByPolicy(w) \/ ReadDiff(w)
  \/ CreateRun(w) \/ RecoverRun(w) \/ RestartRun(w)
  \/ AgentsReturn(w) \/ AgentsCutShort(w) \/ FailRun(w)
  \/ CompleteRun(w) \/ SaveFindings(w) \/ LoadFindings(w)

Post(w) ==
  \/ CreateCheckRun(w) \/ CreateReview(w) \/ CreateComments(w)
  \/ ListIssues(w) \/ OpenIssue(w) \/ OpenIssueFails(w) \/ IssuesDone(w)
  \/ SetPRState(w)

WorkerStep(w) ==
  \/ \E j \in Jobs : Take(w, j)
  \/ Analyze(w) \/ Post(w) \/ CallFails(w)
  \/ CompleteJob(w) \/ FailJob(w)

Next ==
  \/ \E j \in Jobs : RequestReview(j) \/ TakeLost(j)
  \/ \E j \in Jobs, s \in Heads : Synchronize(j, s)
  \/ \E w \in Workers : WorkerStep(w) \/ Expire(w) \/ OutcomeLost(w)
  \/ Crash \/ Reap

Spec == Init /\ [][Next]_vars

\* Workers keep working and the reaper keeps reaping.
FairSpec ==
  /\ Spec
  /\ \A w \in Workers : WF_vars(WorkerStep(w))
  /\ WF_vars(Reap)

-----------------------------------------------------------------------------
(* Properties *)

\* Every row, local variable and counter keeps its kind; a run's status is one
\* that recoverRun knows how to treat (pipeline.go:315).
TypeOK ==
  /\ phase \in [Jobs -> {"new", "waiting", "taken", "done", "failed"}]
  /\ tries \in [Jobs -> Nat]
  /\ holds \in [Workers -> Jobs \cup {NoJob}]
  /\ heads \in Seq(Heads)
  /\ sent \in [Jobs -> 0 .. Len(heads)]
  /\ run \in [Heads -> [status : RunStatuses, findings : SUBSET Findings]]
  /\ mem \in [Workers -> Mem]
  /\ overlap \subseteq {{s, t} : s, t \in Heads}
  /\ skipped \subseteq Jobs
  /\ posts \in [Heads -> [Kinds -> Nat]] /\ resent \in [Heads -> [Kinds -> Nat]]
  /\ about \in [Heads -> SUBSET [sent : Nat, diff : Nat]]
  /\ issues \in [Findings -> Nat]
  /\ issueRows \subseteq Findings
  /\ faults \in 0 .. MaxFaults

\* However often jobs are retried, repeated, dropped and reaped: a second
\* check run, review or batch of comments on a commit, beyond those that
\* doWithRetry repeats after an answer that hid an effect (client.go:430-461),
\* takes two of its jobs in flight at once, one of which then takes the other's
\* run for stalled (pipeline.go:137, 305-325); and a second open issue about a
\* finding takes two jobs of the pull request at once, or a fault: one that hid
\* that the issue was opened, or kept it from being recorded or listed
\* (poster.go:128-177).
RepeatsNeedOverlap ==
  /\ \A s \in Heads, k \in Kinds : posts[s][k] > 1 + resent[s][k] => {s} \in overlap
  /\ \A f \in Findings : issues[f] > 1 + faults => overlap # {}

\* Whatever is pushed, also back and forth, while jobs wait, run and are
\* retried: a review is posted on the commit that was the head when its job was
\* sent, and speaks of the diff the pull request had then or came to have
\* later, never of one from before; that the head may have moved in between,
\* even to an older commit, is the code's choice (pipeline.go:112,
\* poster.go:128).
DiffNotEarlier ==
  \A s \in Heads : \A review \in about[s] :
    /\ review.sent \in DOMAIN heads /\ heads[review.sent] = s
    /\ review.diff \in review.sent .. Len(heads)

\* A job whose head commit was to be reviewed is only removed from the queue
\* when the commit has its review.
CompletedMeansReviewed ==
  \A j \in Jobs :
    phase[j] = "done" /\ j \notin skipped => posts[Commit(j)]["reviews"] > 0

\* Every job is eventually completed or given up, whatever fails on the way; if
\* nothing fails, with a review of its commit, its own or that of another job
\* for the same commit.
EventuallyReviewed ==
  \A j \in Jobs :
    phase[j] = "waiting" ~>
      \/ phase[j] = "done" /\ (j \in skipped \/ posts[Commit(j)]["reviews"] > 0)
      \/ phase[j] \in {"done", "failed"} /\ faults > 0

=============================================================================
