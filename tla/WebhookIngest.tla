---------------------------- MODULE WebhookIngest ----------------------------
(***************************************************************************)
(* The webhook receiver (internal/httpapi/handler.go): GitHub delivers     *)
(* events, possibly several times, late and at once; the handler records   *)
(* the delivery id, filters the bot's own events and enqueues jobs, one    *)
(* INSERT after the other, or registers installations and repositories.    *)
(* The handler's process may crash between any two of these steps.         *)
(***************************************************************************)
EXTENDS Naturals, Sequences

CONSTANTS
  Deliveries,  \* X-GitHub-Delivery ids
  Requests,    \* HTTP requests in flight at once
  MaxSends,    \* bound: times a delivery is sent
  MaxFaults    \* bound: failing statements and crashes

ASSUME WebhookIngestAssumption == MaxSends \in Nat /\ MaxFaults \in Nat

VARIABLES
  botLogin,   \* whether BOT_LOGIN is set, as the deployment has it
  installed,  \* whether the app is installed, as GitHub knows it
  event,      \* event[d]: the event behind a delivery id
  sends,      \* sends[d]: how often GitHub has sent it
  answers,    \* answers[d]: the status codes GitHub received for it
  up,         \* whether the process runs
  blind,      \* history: whether it was ever started without finding the login
  selfLogin,  \* whether the process knows the bot's login
  req,        \* req[r]: a handler goroutine
  syncing,    \* whether a syncRepos goroutine runs
  recorded,   \* ids in webhook_deliveries
  jobs,       \* jobs[d][k]: jobs of kind k enqueued for the delivery
  rows,       \* which of the "installation" and "repo" rows exist
  faults      \* faults so far

github  == <<installed, event, sends>>
process == <<botLogin, up, blind, selfLogin, syncing>>
vars == <<github, answers, process, req, recorded, jobs, rows, faults>>

Kinds == {"review", "synchronize", "merged", "push", "command",
          "installation", "reposAdded", "other"}
JobKinds == {"analyze_pr", "feedback_sweep", "close_pr_issues", "analyze_push", "issue_command"}

\* "review" stands for opened, reopened and ready_for_review, "other" for what
\* the handlers ignore: ping, closed without a merge, a deleted branch, a
\* comment that is no command, an uninstallation, removed repositories.
JobsOf(kind) ==
  CASE kind = "review"      -> <<"analyze_pr">>
    [] kind = "synchronize" -> <<"analyze_pr", "feedback_sweep">>
    [] kind = "merged"      -> <<"close_pr_issues">>
    [] kind = "push"        -> <<"analyze_push">>
    [] kind = "command"     -> <<"issue_command">>
    [] OTHER                -> <<>>

None == [kind |-> "none", own |-> FALSE]
Event == [kind : Kinds, own : BOOLEAN]
Free == [pc |-> "free", d |-> "none", next |-> 0]

Init ==
  /\ botLogin \in BOOLEAN
  /\ installed = FALSE
  /\ event = [d \in Deliveries |-> None]
  /\ sends = [d \in Deliveries |-> 0]
  /\ answers = [d \in Deliveries |-> {}]
  /\ up = FALSE /\ blind = FALSE /\ selfLogin = FALSE /\ syncing = FALSE
  /\ req = [r \in Requests |-> Free]
  /\ recorded = {}
  /\ jobs = [d \in Deliveries |-> [k \in JobKinds |-> 0]]
  /\ rows = {}
  /\ faults = 0

MayFault == faults < MaxFaults
Fault == MayFault /\ faults' = faults + 1

-----------------------------------------------------------------------------
(* GitHub *)

\* The app is installed; everything else happens in installed repositories.
Install(d) ==
  /\ ~ installed
  /\ event[d] = None
  /\ installed' = TRUE
  /\ event' = [event EXCEPT ![d] = [kind |-> "installation", own |-> FALSE]]
  /\ UNCHANGED <<sends, answers, process, req, recorded, jobs, rows, faults>>

\* Somebody acts, the bot itself included: it opens pull requests, pushes
\* their branches and comments.
Emit(d, e) ==
  /\ installed
  /\ event[d] = None
  /\ e.kind # "installation"
  /\ e.own => e.kind \in {"review", "push", "other"}
  /\ event' = [event EXCEPT ![d] = e]
  /\ UNCHANGED <<installed, sends, answers, process, req, recorded, jobs, rows, faults>>

\* A delivery arrives, for the first time or again.
Deliver(d, r) ==
  /\ up
  /\ event[d] # None
  /\ sends[d] < MaxSends
  /\ req[r] = Free
  /\ sends' = [sends EXCEPT ![d] = @ + 1]
  /\ req' = [req EXCEPT ![r] = [pc |-> "record", d |-> d, next |-> 1]]
  /\ UNCHANGED <<installed, event, answers, process, recorded, jobs, rows, faults>>

-----------------------------------------------------------------------------
(* handleWebhook *)

At(r, pc) == req[r].pc = pc
GoTo(r, pc) == req' = [req EXCEPT ![r].pc = pc]

Answer(r, code) ==
  /\ answers' = [answers EXCEPT ![req[r].d] = @ \cup {code}]
  /\ req' = [req EXCEPT ![r] = Free]

\* RecordDelivery inserted no row: the delivery was seen before.
Duplicate(r) ==
  /\ At(r, "record")
  /\ req[r].d \in recorded
  /\ Answer(r, 200)
  /\ UNCHANGED <<github, process, recorded, jobs, rows, faults>>

\* Mutant: every delivery is recorded and dispatched.
MutFresh(r) == TRUE

\* RecordDelivery inserts a row ...
Fresh(r) == req[r].d \notin recorded

\* ... and the event is dispatched.
Record(r) ==
  /\ At(r, "record")
  /\ Fresh(r)
  /\ recorded' = recorded \cup {req[r].d}
  /\ GoTo(r, "dispatch")
  /\ UNCHANGED <<github, answers, process, jobs, rows, faults>>

\* RecordDelivery fails, with or without its row.
RecordFails(r) ==
  /\ At(r, "record")
  /\ Fault
  /\ recorded' \in {recorded, recorded \cup {req[r].d}}
  /\ Answer(r, 500)
  /\ UNCHANGED <<github, process, jobs, rows>>

\* Mutants: no filter, and a filter on whatever happens.
MutUnfiltered(e) == FALSE
MutFilterAll(e) == e.own \/ selfLogin

\* The handlers of pull requests, pushes and comments drop the bot's own
\* events, if the process knows who the bot is.
Filtered(e) == e.own /\ selfLogin

Dispatch(r) ==
  LET e == event[req[r].d] IN
  /\ At(r, "dispatch")
  /\ \/ /\ e.kind = "installation"
        /\ GoTo(r, "upsert") /\ UNCHANGED answers
     \/ /\ e.kind = "reposAdded"
        /\ GoTo(r, "addRepo") /\ UNCHANGED answers
     \/ /\ JobsOf(e.kind) # <<>> /\ ~ Filtered(e)
        /\ GoTo(r, "enqueue") /\ UNCHANGED answers
     \/ /\ e.kind \notin {"installation", "reposAdded"}
        /\ JobsOf(e.kind) = <<>> \/ Filtered(e)
        /\ Answer(r, 202)
  /\ UNCHANGED <<github, process, recorded, jobs, rows, faults>>

\* Mutant: the handler returns after its first job.
MutOnlyJob(kind, n) == TRUE

\* Whether the n-th job of an event is its last.
LastJob(kind, n) == n = Len(JobsOf(kind))

\* Enqueue inserts the next job of the event.
Enqueue(r) ==
  LET d == req[r].d
      k == JobsOf(event[d].kind)[req[r].next] IN
  /\ At(r, "enqueue")
  /\ jobs' = [jobs EXCEPT ![d][k] = @ + 1]
  /\ IF LastJob(event[d].kind, req[r].next)
       THEN Answer(r, 202)
       ELSE req' = [req EXCEPT ![r].next = @ + 1] /\ UNCHANGED answers
  /\ UNCHANGED <<github, process, recorded, rows, faults>>

\* Enqueue fails, with or without its row.
EnqueueFails(r) ==
  LET d == req[r].d
      k == JobsOf(event[d].kind)[req[r].next] IN
  /\ At(r, "enqueue")
  /\ Fault
  /\ jobs' \in {jobs, [jobs EXCEPT ![d][k] = @ + 1]}
  /\ Answer(r, 500)
  /\ UNCHANGED <<github, process, recorded, rows>>

\* Mutant: the repositories are not listed.
MutSpawnSync == syncing' = syncing

SpawnSync == syncing' = TRUE

\* handleInstallation: the row, then a goroutine that lists the repositories.
UpsertInstallation(r) ==
  /\ At(r, "upsert")
  /\ \/ /\ rows' = rows \cup {"installation"}
        /\ SpawnSync
        /\ Answer(r, 202)
        /\ UNCHANGED faults
     \/ /\ Fault
        /\ Answer(r, 500)
        /\ UNCHANGED <<rows, syncing>>
  /\ UNCHANGED <<github, botLogin, up, blind, selfLogin, recorded, jobs>>

\* syncRepos; its errors are logged.
SyncRepos ==
  /\ syncing
  /\ syncing' = FALSE
  /\ \/ rows' = rows \cup {"repo"} /\ UNCHANGED faults
     \/ Fault /\ UNCHANGED rows
  /\ UNCHANGED <<github, answers, botLogin, up, blind, selfLogin, req, recorded, jobs>>

\* handleInstallationRepos: repos reference their installation.
AddRepo(r) ==
  /\ At(r, "addRepo")
  /\ \/ /\ "installation" \in rows
        /\ rows' = rows \cup {"repo"}
        /\ Answer(r, 202)
        /\ UNCHANGED faults
     \/ /\ "installation" \notin rows
        /\ Answer(r, 500)
        /\ UNCHANGED <<rows, faults>>
     \/ /\ Fault
        /\ Answer(r, 500)
        /\ UNCHANGED rows
  /\ UNCHANGED <<github, process, recorded, jobs>>

-----------------------------------------------------------------------------
(* The process *)

\* ResolveSelfLogin runs once, at start: with BOT_LOGIN, or if there is an
\* installation whose token answers.
Start ==
  /\ ~ up
  /\ up' = TRUE
  /\ \/ selfLogin' = (botLogin \/ installed) /\ UNCHANGED faults
     \/ ~ botLogin /\ Fault /\ selfLogin' = FALSE
  /\ blind' = (blind \/ ~ selfLogin')
  /\ UNCHANGED <<github, answers, botLogin, syncing, req, recorded, jobs, rows>>

Crash ==
  /\ up
  /\ Fault
  /\ up' = FALSE /\ selfLogin' = FALSE /\ syncing' = FALSE
  /\ req' = [r \in Requests |-> Free]
  /\ UNCHANGED <<github, answers, botLogin, blind, recorded, jobs, rows>>

Handle(r) ==
  \/ Duplicate(r) \/ Record(r) \/ RecordFails(r) \/ Dispatch(r)
  \/ Enqueue(r) \/ EnqueueFails(r) \/ UpsertInstallation(r) \/ AddRepo(r)

Next ==
  \/ \E d \in Deliveries :
       \/ Install(d)
       \/ \E e \in Event : Emit(d, e)
       \/ \E r \in Requests : Deliver(d, r)
  \/ \E r \in Requests : Handle(r)
  \/ SyncRepos
  \/ Start
  \/ Crash

Spec == Init /\ [][Next]_vars

\* GitHub sends every event once, and the process is started and does its work.
FairSpec ==
  /\ Spec
  /\ \A d \in Deliveries :
       WF_vars(sends[d] = 0 /\ \E r \in Requests : Deliver(d, r))
  /\ \A r \in Requests : WF_vars(Handle(r))
  /\ WF_vars(SyncRepos)
  /\ WF_vars(Start)

-----------------------------------------------------------------------------
(* Properties *)

\* The jobs of an event of that kind, and those that it is to get.
Asked(d) == {JobsOf(event[d].kind)[n] : n \in DOMAIN JobsOf(event[d].kind)}
Wanted(d) == IF event[d].own THEN {} ELSE Asked(d)
AllEnqueued(d) == \A k \in Wanted(d) : jobs[d][k] > 0

\* However often a delivery is sent, and however many requests carry it at the
\* same time, each of its jobs is enqueued at most once, and no other job; one
\* of the bot's own events gets jobs only if BOT_LOGIN is empty and the process
\* was started when the login could not be found (handler.go:73, 153,
\* main.go:123).
EnqueuedOnce ==
  \A d \in Deliveries : event[d] # None =>
    \A k \in JobKinds :
      jobs[d][k] <= IF k \in Asked(d) /\ (event[d].own => blind /\ ~ botLogin) THEN 1 ELSE 0

\* "The bot ignores its own events, so its own PRs never retrigger it"
\* (README.md:18).  The code violates it in the deployment that RAILWAY.md:64-95
\* describes: BOT_LOGIN empty, the app installed after the first start.
OwnEventsIgnored ==
  \A d \in Deliveries : event[d].own => \A k \in JobKinds : jobs[d][k] = 0

\* 202 Accepted means that every job of the event is in the queue, for the
\* events that need two of them as well (handler.go:175-193).
AcceptedIsEnqueued == \A d \in Deliveries : 202 \in answers[d] => AllEnqueued(d)

\* Every event that happens gets its jobs, unless something fails.
EventuallyEnqueued ==
  \A d \in Deliveries : event[d] # None ~> AllEnqueued(d) \/ faults > 0

\* The repositories of an installation are registered in the end, although the
\* webhook is answered before syncRepos has listed them (handler.go:271),
\* unless something fails.
EventuallyRegistered == installed ~> "repo" \in rows \/ faults > 0

=============================================================================
