---------------------------- MODULE IssueCommands ----------------------------
(***************************************************************************)
(* What becomes of the analysis issues: the approve and deny commands      *)
(* (internal/posting/approve.go) and the closing of a merged pull          *)
(* request's issues (ClosePRIssues in internal/posting/poster.go), over    *)
(* the issues table and GitHub's issues, branches and pull requests.       *)
(*                                                                         *)
(* The jobs come from ExclusiveQueue.  Between any two calls of a worker   *)
(* people may push to the default branch, merge or close fix pull          *)
(* requests, close issues by hand, and another worker may run.             *)
(***************************************************************************)
EXTENDS Naturals, Sequences, FiniteSets

CONSTANTS
  Jobs, Workers, MaxAttempts, NoJob,   \* the queue's
  Issues,         \* numbers of the tracked issues of one repository
  PRIssues,       \* those about findings of the pull request that may be merged
  Files,          \* files the stored suggestions are for
  Stored,         \* stored suggestions: [id, issue, file], ids in row order
  MaxFixFiles,    \* files of one fix (maxFixFiles)
  MaxCloseIssues, \* issues closed per merged pull request (maxCloseIssues)
  MaxPushes,      \* bound: commits on the default branch
  MaxFaults       \* bound: failing calls and crashes

ASSUME IssueCommandsAssumption ==
  /\ MaxAttempts \in Nat \ {0} /\ NoJob \notin Jobs
  /\ Issues \subseteq Nat \ {0} /\ IsFiniteSet(Issues) /\ PRIssues \subseteq Issues
  /\ Stored \subseteq [id : Nat, issue : Issues, file : Files]
  /\ \A x, y \in Stored : x.id = y.id => x = y
  /\ MaxFixFiles \in Nat \ {0} /\ MaxCloseIssues \in Nat
  /\ MaxPushes \in Nat \ {0} /\ MaxFaults \in Nat

VARIABLES
  phase, tries, holds,  \* the queue
  cmd,       \* cmd[j]: command and issue of a job
  merged,    \* whether the reviewed pull request was merged
  row,       \* row[i]: status and fix_pr_number in the issues table
  open,      \* whether issue i is open on GitHub
  comments,  \* comments[i]: what the bot told the issue
  main,      \* the default branch: what each commit holds of the files
  branches,  \* the bot's branches: [name, commit]
  prs,       \* its fix pull requests, in the order of their numbers
  mem,       \* mem[w]: local state of the goroutine processing a job
  faults     \* faults so far

queue  == <<phase, tries, holds>>
people == <<cmd, merged>>
github == <<open, comments, main, branches, prs>>
vars == <<queue, people, row, github, mem, faults>>

Q == INSTANCE ExclusiveQueue

Commands == {"none", "approve", "deny", "close"}
PCs == {"idle", "read", "base", "fixes", "noFix", "branch", "pr", "comment",
        "record", "denyComment", "denyEdit", "denyRow", "list", "closeComment",
        "closeEdit", "closeRow", "failJob", "completeJob"}

Ids == {x.id : x \in Stored}
Version == 0 .. MaxPushes
Tree == [Files -> [rev : Version, snippets : SUBSET Ids]]

\* An entry of a fix: suggestion id applied to the file as of commit rev.
Entry  == [id : Ids, file : Files, rev : Version]
Commit == [parent : Version, entries : SUBSET Entry]

Idle == [pc |-> "idle", base |-> 0, todo |-> {}, entries |-> {}, pr |-> 0, closed |-> 0]

Init ==
  /\ Q!Init
  /\ cmd = [j \in Jobs |-> [what |-> "none", issue |-> 0]]
  /\ merged = FALSE
  /\ row = [i \in Issues |-> [status |-> "open", fix |-> 0]]
  /\ open = [i \in Issues |-> TRUE]
  /\ comments = [i \in Issues |-> {}]
  /\ main = << [f \in Files |-> [rev |-> 1, snippets |-> {x.id : x \in {y \in Stored : y.file = f}}]] >>
  /\ branches = {}
  /\ prs = << >>
  /\ mem = [w \in Workers |-> Idle]
  /\ faults = 0

At(w, pc)   == mem[w].pc = pc
Issue(w)    == cmd[holds[w]].issue
MayFault    == faults < MaxFaults
Fault       == MayFault /\ faults' = faults + 1
GoTo(w, pc) == mem' = [mem EXCEPT ![w].pc = pc]

\* A call that succeeds leads to pc.  A call whose effect took place but whose
\* answer was an error fails the job.
Proceed(w, pc) ==
  \/ GoTo(w, pc) /\ UNCHANGED faults
  \/ Fault /\ GoTo(w, "failJob")

Least(S) == CHOOSE x \in S : \A y \in S : x <= y

-----------------------------------------------------------------------------
(* People *)

\* Somebody comments approve or deny on an issue.
Comment(j, i, what) ==
  /\ Q!Submit(j)
  /\ what \in {"approve", "deny"}
  /\ cmd' = [cmd EXCEPT ![j] = [what |-> what, issue |-> i]]
  /\ UNCHANGED <<merged, row, github, mem, faults>>

\* The reviewed pull request is merged.
MergePR(j) ==
  /\ ~ merged
  /\ Q!Submit(j)
  /\ merged' = TRUE
  /\ cmd' = [cmd EXCEPT ![j].what = "close"]
  /\ UNCHANGED <<row, github, mem, faults>>

\* A commit on the default branch changes a file, or is a fix pull request.
Changed(fs, gone) ==
  [f \in Files |-> IF f \in fs
     THEN [rev |-> Len(main) + 1, snippets |-> main[Len(main)][f].snippets \ gone]
     ELSE main[Len(main)][f]]

Push(f, gone) ==
  /\ Len(main) < MaxPushes
  /\ main' = Append(main, Changed({f}, gone))
  /\ UNCHANGED <<queue, people, row, open, comments, branches, prs, mem, faults>>

\* "Fixes #n" closes the issue on GitHub; no webhook handler hears of it.
MergeFix(n) ==
  LET done == prs[n].commit.entries IN
  /\ prs[n].state = "open"
  /\ Len(main) < MaxPushes
  /\ prs' = [prs EXCEPT ![n].state = "merged"]
  /\ main' = Append(main, Changed({e.file : e \in done}, {e.id : e \in done}))
  /\ open' = [open EXCEPT ![prs[n].issue] = FALSE]
  /\ UNCHANGED <<queue, people, row, comments, branches, mem, faults>>

CloseFix(n) ==
  /\ prs[n].state = "open"
  /\ prs' = [prs EXCEPT ![n].state = "closed"]
  /\ UNCHANGED <<queue, people, row, open, comments, main, branches, mem, faults>>

CloseByHand(i) ==
  /\ open[i]
  /\ open' = [open EXCEPT ![i] = FALSE]
  /\ UNCHANGED <<queue, people, row, comments, main, branches, prs, mem, faults>>

-----------------------------------------------------------------------------
(* The queue's side of a job *)

Take(w, j) ==
  /\ Q!Take(w, j)
  /\ mem' = [mem EXCEPT ![w] =
       [Idle EXCEPT !.pc = IF cmd[j].what = "close" THEN "list" ELSE "read"]]
  /\ UNCHANGED <<people, row, github, faults>>

CompleteJob(w) ==
  /\ At(w, "completeJob")
  /\ Q!Finish(w, holds[w])
  /\ mem' = [mem EXCEPT ![w] = Idle]
  /\ UNCHANGED <<people, row, github, faults>>

FailJob(w) ==
  /\ At(w, "failJob")
  /\ Q!Retry(w, holds[w]) \/ Q!GiveUp(w, holds[w])
  /\ mem' = [mem EXCEPT ![w] = Idle]
  /\ UNCHANGED <<people, row, github, faults>>

\* The job is dropped: its outcome could not be stored, or the process stopped.
Drop(W) ==
  /\ \E w \in W : ~ At(w, "idle")
  /\ Fault
  /\ Q!Vanish(W)
  /\ mem' = [w \in Workers |-> IF w \in W THEN Idle ELSE mem[w]]
  /\ UNCHANGED <<people, row, github>>

OutcomeLost(w) == mem[w].pc \in {"failJob", "completeJob"} /\ Drop({w})
Crash == Drop(Workers)

Reap ==
  /\ \E S \in SUBSET Jobs \ {{}} : Q!Recover(S)
  /\ UNCHANGED <<people, row, github, mem, faults>>

\* A call fails without an effect, and its error is returned.
CallFails(w) ==
  /\ mem[w].pc \notin {"idle", "comment", "denyComment", "failJob", "completeJob"}
  /\ Fault
  /\ GoTo(w, "failJob")
  /\ UNCHANGED <<queue, people, row, github>>

-----------------------------------------------------------------------------
(* HandleIssueCommand *)

\* Mutant: off by one.
MutFixRecorded(i) == row[i].fix >= 0

FixRecorded(i) == row[i].fix > 0

\* IssueByNumber: a closed issue, or one that has its fix, is left alone.
ReadIssue(w) ==
  /\ At(w, "read")
  /\ \/ /\ row[Issue(w)].status # "open"
        /\ GoTo(w, "completeJob")
     \/ /\ row[Issue(w)].status = "open"
        /\ cmd[holds[w]].what = "deny"
        /\ GoTo(w, "denyComment")
     \/ /\ row[Issue(w)].status = "open"
        /\ cmd[holds[w]].what = "approve"
        /\ GoTo(w, IF FixRecorded(Issue(w)) THEN "completeJob" ELSE "base")
  /\ UNCHANGED <<queue, people, row, github, faults>>

\* FindingsForIssue and GetBranchSHA: the fixes, and the commit to fix.
ReadBase(w) ==
  /\ At(w, "base")
  /\ mem' = [mem EXCEPT ![w].base = Len(main), ![w].pc = "fixes",
               ![w].todo = {x.id : x \in {y \in Stored : y.issue = Issue(w)}}]
  /\ UNCHANGED <<queue, people, row, github, faults>>

\* Mutants: one entry too many; files read from the tip of the branch.
MutFull(w) == Cardinality(mem[w].entries) > MaxFixFiles
MutReadRef(w) == Len(main)

Full(w) == Cardinality(mem[w].entries) >= MaxFixFiles

\* The commit whose files the fixes are applied to.
ReadRef(w) == mem[w].base

\* The next fix: its file cannot be read, lacks the snippet, or gives an entry.
ReadFix(w) ==
  LET id   == Least(mem[w].todo)
      file == (CHOOSE x \in Stored : x.id = id).file
      at   == main[ReadRef(w)][file] IN
  /\ At(w, "fixes")
  /\ mem[w].todo # {} /\ ~ Full(w)
  /\ \/ /\ id \in at.snippets
        /\ mem' = [mem EXCEPT ![w].todo = @ \ {id},
                     ![w].entries = @ \cup {[id |-> id, file |-> file, rev |-> at.rev]}]
        /\ UNCHANGED faults
     \/ /\ id \notin at.snippets
        /\ mem' = [mem EXCEPT ![w].todo = @ \ {id}]
        /\ UNCHANGED faults
     \/ /\ Fault
        /\ mem' = [mem EXCEPT ![w].todo = @ \ {id}]
  /\ UNCHANGED <<queue, people, row, github>>

FixesRead(w) ==
  /\ At(w, "fixes")
  /\ mem[w].todo = {} \/ Full(w)
  /\ GoTo(w, IF mem[w].entries = {} THEN "noFix" ELSE "branch")
  /\ UNCHANGED <<queue, people, row, github, faults>>

\* A comment that there is nothing to apply; its error is returned.
SayNoFix(w) ==
  /\ At(w, "noFix")
  /\ comments' = [comments EXCEPT ![Issue(w)] = @ \cup {"no fix"}]
  /\ Proceed(w, "completeJob")
  /\ UNCHANGED <<queue, people, row, open, main, branches, prs>>

\* CreateTree, CreateCommit: of two entries for one path the later one counts.
NewCommit(w) ==
  [parent  |-> mem[w].base,
   entries |-> {e \in mem[w].entries :
                  \A d \in mem[w].entries : d.file = e.file => d.id <= e.id}]

\* Mutant: a branch per approval.
MutBranchName(w) == <<Issue(w), holds[w]>>

\* codepeer/fix-issue-N
BranchName(w) == <<Issue(w), NoJob>>

\* CreateBranch takes an existing branch, whatever it points to, for success.
CreateBranch(w) ==
  /\ At(w, "branch")
  /\ \/ /\ \A b \in branches : b.name # BranchName(w)
        /\ branches' = branches \cup {[name |-> BranchName(w), commit |-> NewCommit(w)]}
     \/ /\ \E b \in branches : b.name = BranchName(w)
        /\ UNCHANGED branches
  /\ Proceed(w, "pr")
  /\ UNCHANGED <<queue, people, row, open, comments, main, prs>>

\* GitHub refuses a second open pull request for a branch, and one for a
\* branch that was merged.
Refused(name) == \E n \in DOMAIN prs : prs[n].head = name /\ prs[n].state # "closed"

CreatePR(w) ==
  LET b == CHOOSE b \in branches : b.name = BranchName(w) IN
  /\ At(w, "pr")
  /\ \/ /\ ~ Refused(b.name)
        /\ prs' = Append(prs, [issue |-> Issue(w), head |-> b.name,
                               commit |-> b.commit, state |-> "open"])
        /\ \/ mem' = [mem EXCEPT ![w].pr = Len(prs) + 1, ![w].pc = "comment"]
              /\ UNCHANGED faults
           \/ Fault /\ GoTo(w, "failJob")
     \/ /\ Refused(b.name)
        /\ GoTo(w, "failJob")
        /\ UNCHANGED <<prs, faults>>
  /\ UNCHANGED <<queue, people, row, open, comments, main, branches>>

\* The comment that names the pull request; its error is logged.
SayFixed(w) ==
  /\ At(w, "comment")
  /\ \/ comments' = [comments EXCEPT ![Issue(w)] = @ \cup {"fix"}] /\ UNCHANGED faults
     \/ Fault /\ UNCHANGED comments
  /\ GoTo(w, "record")
  /\ UNCHANGED <<queue, people, row, open, main, branches, prs>>

\* SetIssueFixPR
RecordFix(w) ==
  /\ At(w, "record")
  /\ row' = [row EXCEPT ![Issue(w)].fix = mem[w].pr]
  /\ Proceed(w, "completeJob")
  /\ UNCHANGED <<queue, people, github>>

\* denyIssue: a comment whose error is logged, the issue, then its row.
SayDenied(w) ==
  /\ At(w, "denyComment")
  /\ \/ comments' = [comments EXCEPT ![Issue(w)] = @ \cup {"denied"}] /\ UNCHANGED faults
     \/ Fault /\ UNCHANGED comments
  /\ GoTo(w, "denyEdit")
  /\ UNCHANGED <<queue, people, row, open, main, branches, prs>>

\* Mutant: the error of EditIssue is logged, too.
MutDenyEdit(w) ==
  /\ At(w, "denyEdit")
  /\ \/ open' = [open EXCEPT ![Issue(w)] = FALSE] /\ UNCHANGED faults
     \/ Fault /\ UNCHANGED open
  /\ GoTo(w, "denyRow")
  /\ UNCHANGED <<queue, people, row, comments, main, branches, prs>>

DenyEdit(w) ==
  /\ At(w, "denyEdit")
  /\ open' = [open EXCEPT ![Issue(w)] = FALSE]
  /\ Proceed(w, "denyRow")
  /\ UNCHANGED <<queue, people, row, comments, main, branches, prs>>

DenyRow(w) ==
  /\ At(w, "denyRow")
  /\ row' = [row EXCEPT ![Issue(w)].status = "closed"]
  /\ Proceed(w, "completeJob")
  /\ UNCHANGED <<queue, people, github>>

-----------------------------------------------------------------------------
(* ClosePRIssues *)

ListIssues(w) ==
  /\ At(w, "list")
  /\ mem' = [mem EXCEPT ![w].todo = {i \in PRIssues : row[i].status = "open"},
                        ![w].pc = "closeComment"]
  /\ UNCHANGED <<queue, people, row, github, faults>>

\* Mutant: off by one.
MutMoreToClose(w) == mem[w].todo # {} /\ mem[w].closed + 1 < MaxCloseIssues

MoreToClose(w) == mem[w].todo # {} /\ mem[w].closed < MaxCloseIssues

CloseComment(w) ==
  /\ At(w, "closeComment")
  /\ MoreToClose(w)
  /\ comments' = [comments EXCEPT ![Least(mem[w].todo)] = @ \cup {"resolved"}]
  /\ Proceed(w, "closeEdit")
  /\ UNCHANGED <<queue, people, row, open, main, branches, prs>>

CloseEdit(w) ==
  /\ At(w, "closeEdit")
  /\ open' = [open EXCEPT ![Least(mem[w].todo)] = FALSE]
  /\ Proceed(w, "closeRow")
  /\ UNCHANGED <<queue, people, row, comments, main, branches, prs>>

CloseRow(w) ==
  LET i == Least(mem[w].todo) IN
  /\ At(w, "closeRow")
  /\ row' = [row EXCEPT ![i].status = "closed"]
  /\ \/ mem' = [mem EXCEPT ![w].todo = @ \ {i}, ![w].closed = @ + 1, ![w].pc = "closeComment"]
        /\ UNCHANGED faults
     \/ Fault /\ GoTo(w, "failJob")
  /\ UNCHANGED <<queue, people, github>>

CloseDone(w) ==
  /\ At(w, "closeComment")
  /\ ~ MoreToClose(w)
  /\ GoTo(w, "completeJob")
  /\ UNCHANGED <<queue, people, row, github, faults>>

-----------------------------------------------------------------------------

WorkerStep(w) ==
  \/ \E j \in Jobs : Take(w, j)
  \/ ReadIssue(w) \/ ReadBase(w) \/ ReadFix(w) \/ FixesRead(w) \/ SayNoFix(w)
  \/ CreateBranch(w) \/ CreatePR(w) \/ SayFixed(w) \/ RecordFix(w)
  \/ SayDenied(w) \/ DenyEdit(w) \/ DenyRow(w)
  \/ ListIssues(w) \/ CloseComment(w) \/ CloseEdit(w) \/ CloseRow(w) \/ CloseDone(w)
  \/ CallFails(w) \/ CompleteJob(w) \/ FailJob(w)

People ==
  \/ \E j \in Jobs : MergePR(j)
  \/ \E j \in Jobs, i \in Issues, what \in {"approve", "deny"} : Comment(j, i, what)
  \/ \E f \in Files, gone \in {{}, Ids} : Push(f, gone)
  \/ \E n \in DOMAIN prs : MergeFix(n) \/ CloseFix(n)
  \/ \E i \in Issues : CloseByHand(i)

Next ==
  \/ People
  \/ \E w \in Workers : WorkerStep(w) \/ OutcomeLost(w)
  \/ Crash \/ Reap

Spec == Init /\ [][Next]_vars

\* Workers keep working and the reaper keeps reaping.
FairSpec ==
  /\ Spec
  /\ \A w \in Workers : WF_vars(WorkerStep(w))
  /\ WF_vars(Reap)

-----------------------------------------------------------------------------
(* Properties *)

\* Every row, branch, pull request and local variable keeps its kind; a fix
\* never has more entries than maxFixFiles.
TypeOK ==
  /\ phase \in [Jobs -> {"new", "waiting", "taken", "done", "failed"}]
  /\ tries \in [Jobs -> Nat]
  /\ holds \in [Workers -> Jobs \cup {NoJob}]
  /\ cmd \in [Jobs -> [what : Commands, issue : Issues \cup {0}]]
  /\ merged \in BOOLEAN
  /\ row \in [Issues -> [status : {"open", "closed"}, fix : 0 .. Len(prs)]]
  /\ open \in [Issues -> BOOLEAN]
  /\ comments \in [Issues -> SUBSET {"fix", "no fix", "denied", "resolved"}]
  /\ Len(main) \in 1 .. MaxPushes /\ \A v \in DOMAIN main : main[v] \in Tree
  /\ \A b \in branches : b.commit \in Commit
  /\ \A n \in DOMAIN prs :
       /\ prs[n].issue \in Issues /\ prs[n].commit \in Commit
       /\ prs[n].state \in {"open", "merged", "closed"}
  /\ \A w \in Workers :
       /\ mem[w].pc \in PCs /\ mem[w].base \in Version
       /\ mem[w].todo \subseteq Ids \cup Issues
       /\ mem[w].entries \subseteq Entry
       /\ Cardinality(mem[w].entries) <= MaxFixFiles
       /\ mem[w].pr \in 0 .. Len(prs)
       /\ mem[w].closed \in 0 .. MaxCloseIssues
  /\ faults \in 0 .. MaxFaults

\* An issue whose row is closed is closed on GitHub: the row, which makes every
\* later command be ignored, follows the issue, whatever call fails and whoever
\* else closes it (approve.go:40-44, poster.go:262-271).
ClosedRowClosedIssue == \A i \in Issues : row[i].status = "closed" => ~ open[i]

\* Approvals by several people on several workers, and their retries, never
\* lead to two open fix pull requests for one issue (approve.go:48, 121-130).
OneOpenFixPR ==
  \A m, n \in DOMAIN prs :
    prs[m].state = "open" /\ prs[n].state = "open" /\ prs[m].issue = prs[n].issue => m = n

\* A fix changes nothing but its snippets: every file it contains was read at
\* the commit's parent, so that merging it reverts nobody's push, however many
\* calls and pushes lie between (approve.go:69-118).
FixRevertsNothing ==
  \A n \in DOMAIN prs : \A e \in prs[n].commit.entries :
    e.rev = main[prs[n].commit.parent][e.file].rev

\* Once the job of a merged pull request is done, none of its issues is left
\* open in the table, if there were no more than maxCloseIssues (poster.go:252).
MergedMeansResolved ==
  Cardinality(PRIssues) <= MaxCloseIssues =>
    \A j \in Jobs : phase[j] = "done" /\ cmd[j].what = "close" =>
      \A i \in PRIssues : row[i].status = "closed"

\* Unless something fails, an approval leads to a fix pull request or to a
\* comment that there is none, unless the issue is closed first: also when
\* several approvals race and all but one are refused by GitHub.
ApprovalAnswered ==
  \A j \in Jobs, i \in Issues :
    phase[j] = "waiting" /\ cmd[j] = [what |-> "approve", issue |-> i] ~>
      \/ \E n \in DOMAIN prs : prs[n].issue = i
      \/ "no fix" \in comments[i]
      \/ row[i].status = "closed"
      \/ faults > 0

=============================================================================
