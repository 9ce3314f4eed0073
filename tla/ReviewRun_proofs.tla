-------------------------- MODULE ReviewRun_proofs --------------------------
(***************************************************************************)
(* Proofs about ReviewRun, for every number of jobs, workers, commits,     *)
(* findings and faults.                                                    *)
(***************************************************************************)
EXTENDS ReviewRun, TLAPS

Busy(w) == ~ At(w, "idle")

\* Where a worker goes by the diff it read.
WithDiff == {"create", "recover", "restart", "agents", "failRun", "complete",
             "save", "load", "check", "review"}

\* A busy worker has a job, and a job that was sent has a head commit.
Linked ==
  /\ Len(heads) > 0
  /\ \A j \in Jobs : phase[j] # "new" => sent[j] \in 1 .. Len(heads)
  /\ \A w \in Workers : Busy(w) <=> holds[w] \in Jobs
  /\ \A w \in Workers : holds[w] \in Jobs => phase[holds[w]] # "new"

\* The diff was read after the job was sent.
Diffs == \A w \in Workers : mem[w].pc \in WithDiff => mem[w].diff \in sent[holds[w]] .. Len(heads)

Counts == [Heads -> [Kinds -> Nat]]
Abouts == [Heads -> SUBSET [sent : Nat, diff : Nat]]

Base == TypeOK /\ Linked /\ Diffs /\ DiffNotEarlier

-----------------------------------------------------------------------------
(* Steps of one worker *)

\* A step of w within its job.
Within(w) ==
  /\ UNCHANGED <<queue, heads, sent, overlap>>
  /\ Busy(w) /\ mem'[w].pc # "idle"
  /\ mem' \in [Workers -> Mem]
  /\ \A v \in Workers : v # w => mem'[v] = mem[v]
  /\ faults' \in 0 .. MaxFaults /\ faults' >= faults
  /\ mem'[w].pc \in WithDiff => mem'[w].diff \in sent[holds[w]] .. Len(heads)

\* The job of a busy worker has a head commit of the pull request.
LEMMA BusySha ==
  ASSUME TypeOK, Linked, NEW w \in Workers, Busy(w)
  PROVE  /\ holds[w] \in Jobs /\ sent[holds[w]] \in 1 .. Len(heads)
         /\ Sha(w) = heads[sent[holds[w]]] /\ Sha(w) \in Heads
<1>1. holds[w] \in Jobs /\ sent[holds[w]] \in 1 .. Len(heads)
  BY DEF Linked
<1>2. heads \in Seq(Heads)
  BY DEF TypeOK
<1> QED
  BY <1>1, <1>2 DEF Sha, Commit

\* Such a step keeps jobs, workers and diffs in order.
LEMMA WithinOrder ==
  ASSUME TypeOK, Linked, Diffs, NEW w \in Workers, Within(w)
  PROVE  Linked' /\ Diffs'
<1>1. \A v \in Workers : Busy(v)' <=> Busy(v)
  BY DEF Within, Busy, At
<1>2. Linked'
  BY <1>1 DEF Linked, Within, queue
<1>3. Diffs'
  BY DEF Diffs, Within, queue
<1> QED
  BY <1>2, <1>3

\* An idle worker is well typed.
LEMMA IdleType == Idle \in Mem /\ Idle.pc = "idle" /\ Idle.live = TRUE
BY DEF Mem, Idle, PCs

\* Another statement is reached ...
LEMMA GoToWithin ==
  ASSUME TypeOK, Linked, Diffs, NEW w \in Workers, Busy(w),
         NEW pc \in PCs \ {"idle"}, GoTo(w, pc),
         pc \in WithDiff => mem[w].pc \in WithDiff,
         UNCHANGED <<queue, heads, sent, overlap>>,
         faults' \in 0 .. MaxFaults, faults' >= faults
  PROVE  Within(w) /\ mem'[w] = [mem[w] EXCEPT !.pc = pc]
<1>1. mem \in [Workers -> Mem] /\ mem[w] \in Mem
  BY DEF TypeOK
<1>2. [mem[w] EXCEPT !.pc = pc] \in Mem
  BY <1>1 DEF Mem
<1>3. mem' = [mem EXCEPT ![w] = [mem[w] EXCEPT !.pc = pc]]
  BY <1>1 DEF GoTo
<1>4. /\ mem' \in [Workers -> Mem]
      /\ mem'[w] = [mem[w] EXCEPT !.pc = pc]
      /\ \A v \in Workers : v # w => mem'[v] = mem[v]
  BY <1>1, <1>2, <1>3
<1>5. mem'[w].pc = pc /\ mem'[w].diff = mem[w].diff
  BY <1>1, <1>4 DEF Mem
<1> QED
  BY <1>4, <1>5 DEF Within, Diffs

\* ... or the job's functions return.
LEMMA LeaveWithin ==
  ASSUME TypeOK, NEW w \in Workers, Busy(w),
         NEW pc \in {"failJob", "completeJob"}, Leave(w, pc),
         UNCHANGED <<queue, heads, sent, overlap>>,
         faults' \in 0 .. MaxFaults, faults' >= faults
  PROVE  Within(w) /\ mem'[w].pc = pc
<1>1. mem \in [Workers -> Mem]
  BY DEF TypeOK
<1>2. [Idle EXCEPT !.pc = pc] \in Mem /\ [Idle EXCEPT !.pc = pc].pc = pc
  BY IdleType DEF Mem, PCs
<1>3. mem' = [mem EXCEPT ![w] = [Idle EXCEPT !.pc = pc]]
  BY DEF Leave
<1>4. /\ mem' \in [Workers -> Mem]
      /\ mem'[w] = [Idle EXCEPT !.pc = pc]
      /\ \A v \in Workers : v # w => mem'[v] = mem[v]
  BY <1>1, <1>2, <1>3
<1> QED
  BY <1>2, <1>4 DEF Within, WithDiff

\* A fault is counted.
LEMMA FaultType ==
  ASSUME TypeOK
  PROVE  /\ MayFault /\ faults' = faults + 1 => faults' \in 0 .. MaxFaults /\ faults' >= faults
         /\ UNCHANGED faults => faults' \in 0 .. MaxFaults /\ faults' >= faults
BY ReviewRunAssumption DEF TypeOK, MayFault

\* A call whose answer may be lost.
LEMMA ProceedWithin ==
  ASSUME TypeOK, Linked, Diffs, NEW w \in Workers, Busy(w),
         NEW pc \in PCs \ {"idle"}, Proceed(w, pc),
         pc \in WithDiff => mem[w].pc \in WithDiff,
         UNCHANGED <<queue, heads, sent, overlap>>
  PROVE  Within(w) /\ mem'[w].pc \in {pc, "failJob"}
<1>1. CASE GoTo(w, pc) /\ UNCHANGED faults
  <2>1. Within(w) /\ mem'[w] = [mem[w] EXCEPT !.pc = pc]
    BY <1>1, FaultType, GoToWithin
  <2>2. mem[w] \in Mem
    BY DEF TypeOK
  <2> QED
    BY <2>1, <2>2 DEF Mem
<1>2. CASE MayFault /\ Leave(w, "failJob") /\ faults' = faults + 1
  BY <1>2, FaultType, LeaveWithin
<1> QED
  BY <1>1, <1>2 DEF Proceed

-----------------------------------------------------------------------------
(* The steps of AnalyzePR *)

\* What a step within a job keeps; types of the tables it may change.
LEMMA WithinBase ==
  ASSUME Base, NEW w \in Workers, Within(w), skipped' \subseteq Jobs,
         run' \in [Heads -> [status : RunStatuses, findings : SUBSET Findings]],
         posts' \in Counts, resent' \in Counts, about' \in Abouts,
         issues' \in [Findings -> Nat], issueRows' \subseteq Findings,
         \A s \in Heads : \A a \in about'[s] :
           \/ a \in about[s]
           \/ s = Sha(w) /\ a.sent = sent[holds[w]] /\ a.diff \in sent[holds[w]] .. Len(heads)
  PROVE  Base'
<1>1. Linked' /\ Diffs'
  BY WithinOrder DEF Base
<1>2. TypeOK'
  BY DEF Base, TypeOK, Within, queue, Counts, Abouts
<1>3. DiffNotEarlier'
  <2>1. /\ sent[holds[w]] \in 1 .. Len(heads) /\ Sha(w) = heads[sent[holds[w]]]
        /\ heads' = heads /\ DOMAIN heads = 1 .. Len(heads)
    BY BusySha DEF Base, TypeOK, Within
  <2> QED
    BY <2>1 DEF Base, DiffNotEarlier
<1> QED
  BY <1>1, <1>2, <1>3 DEF Base

\* The tables stay as they are.
Still == UNCHANGED <<run, posts, resent, about, issues, issueRows>>

LEMMA StillBase ==
  ASSUME Base, NEW w \in Workers, Within(w), skipped' \subseteq Jobs, Still
  PROVE  Base'
<1>1. /\ run' \in [Heads -> [status : RunStatuses, findings : SUBSET Findings]]
      /\ posts' \in Counts /\ resent' \in Counts /\ about' \in Abouts
      /\ issues' \in [Findings -> Nat] /\ issueRows' \subseteq Findings
  BY DEF Base, TypeOK, Still, Counts, Abouts
<1>2. \A s \in Heads : \A a \in about'[s] : a \in about[s]
  BY DEF Still
<1> QED
  BY <1>1, <1>2, WithinBase

\* Only the run of w's job changes.
RunOnly(w) ==
  /\ UNCHANGED <<skipped, posts, resent, about, issues, issueRows>>
  /\ run'[Sha(w)] \in [status : RunStatuses, findings : SUBSET Findings]
  /\ run' = [run EXCEPT ![Sha(w)] = run'[Sha(w)]]

LEMMA RunOnlyBase ==
  ASSUME Base, NEW w \in Workers, Within(w), RunOnly(w)
  PROVE  Base'
<1>1. /\ skipped' \subseteq Jobs
      /\ posts' \in Counts /\ resent' \in Counts /\ about' \in Abouts
      /\ issues' \in [Findings -> Nat] /\ issueRows' \subseteq Findings
  BY DEF Base, TypeOK, RunOnly, Counts, Abouts
<1>2. run' \in [Heads -> [status : RunStatuses, findings : SUBSET Findings]]
  <2>1. run \in [Heads -> [status : RunStatuses, findings : SUBSET Findings]]
    BY DEF Base, TypeOK
  <2>2. PICK r \in [status : RunStatuses, findings : SUBSET Findings] :
          run' = [run EXCEPT ![Sha(w)] = r]
    BY DEF RunOnly
  <2> QED
    BY <2>1, <2>2
<1>3. \A s \in Heads : \A a \in about'[s] : a \in about[s]
  BY DEF RunOnly
<1> QED
  BY <1>1, <1>2, <1>3, WithinBase

\* Steps that leave the tables alone.
StillStep(w) ==
  \/ Expire(w) \/ CallFails(w) \/ SkipByPolicy(w) \/ ReadDiff(w)
  \/ RecoverRun(w) \/ AgentsReturn(w) \/ AgentsCutShort(w) \/ LoadFindings(w)
  \/ ListIssues(w) \/ IssuesDone(w) \/ SetPRState(w)


\* Any other step of w within its job.
LEMMA BecomesWithin ==
  ASSUME Base, NEW w \in Workers, Busy(w),
         NEW m \in Mem, m.pc # "idle", mem' = [mem EXCEPT ![w] = m],
         m.pc \in WithDiff => m.diff \in sent[holds[w]] .. Len(heads),
         UNCHANGED <<queue, heads, sent, overlap>>,
         faults' \in 0 .. MaxFaults, faults' >= faults
  PROVE  Within(w) /\ mem'[w] = m
<1>1. mem \in [Workers -> Mem]
  BY DEF Base, TypeOK
<1>2. /\ mem' \in [Workers -> Mem]
      /\ mem'[w] = m
      /\ \A v \in Workers : v # w => mem'[v] = mem[v]
  BY <1>1
<1> QED
  BY <1>2 DEF Within

\* They are steps within a job.
LEMMA StillWithin ==
  ASSUME Base, NEW w \in Workers, StillStep(w)
  PROVE  Within(w) /\ skipped' \subseteq Jobs /\ Still
<1>0. /\ TypeOK /\ Linked /\ Diffs /\ skipped \subseteq Jobs
      /\ mem \in [Workers -> Mem] /\ mem[w] \in Mem
  BY DEF Base, TypeOK
<1> USE DEF PCs, WithDiff
<1>1. CASE Expire(w)
  <2> DEFINE m == [mem[w] EXCEPT !.live = FALSE]
  <2>1. m \in Mem /\ m.pc = mem[w].pc /\ m.diff = mem[w].diff
    BY <1>0 DEF Mem
  <2>2. Busy(w) /\ mem' = [mem EXCEPT ![w] = m]
    BY <1>0, <1>1 DEF Expire, Busy, At
  <2> HIDE DEF m
  <2>3. Within(w)
    BY <1>0, <1>1, <2>1, <2>2, FaultType, BecomesWithin DEF Expire, Busy, At, Diffs, local
  <2> QED
    BY <1>0, <1>1, <2>3 DEF Expire, Still, local, remote, received
<1>2. CASE CallFails(w)
  <2>1. Busy(w)
    BY <1>2 DEF CallFails, FailingCalls, Busy, At
  <2>2. Within(w)
    BY <1>0, <1>2, <2>1, FaultType, LeaveWithin DEF CallFails, local
  <2> QED
    BY <1>0, <1>2, <2>2 DEF CallFails, Still, local, remote, received
<1>3. CASE SkipByPolicy(w)
  <2>1. Busy(w)
    BY <1>3 DEF SkipByPolicy, Busy, At
  <2>2. Within(w)
    BY <1>0, <1>3, <2>1, FaultType, LeaveWithin DEF SkipByPolicy
  <2>3. skipped' \subseteq Jobs
    BY <1>0, <1>3, <2>1, BusySha DEF SkipByPolicy
  <2> QED
    BY <1>3, <2>2, <2>3 DEF SkipByPolicy, Still, remote, received
<1>4. CASE ReadDiff(w)
  <2> DEFINE m == [mem[w] EXCEPT !.diff = Len(heads), !.pc = "create"]
  <2>1. Busy(w)
    BY <1>4 DEF ReadDiff, Busy, At
  <2>2. Len(heads) \in Nat /\ Len(heads) \in sent[holds[w]] .. Len(heads)
    <3>1. Len(heads) \in Nat
      BY <1>0 DEF TypeOK
    <3>2. sent[holds[w]] \in 1 .. Len(heads)
      BY <1>0, <2>1, BusySha
    <3> QED
      BY <3>1, <3>2
  <2>3. m \in Mem /\ m.pc = "create" /\ m.diff = Len(heads)
    BY <1>0, <2>2 DEF Mem
  <2>4. mem' = [mem EXCEPT ![w] = m]
    BY <1>0, <1>4 DEF ReadDiff
  <2> HIDE DEF m
  <2>5. Within(w)
    BY <1>0, <1>4, <2>1, <2>2, <2>3, <2>4, FaultType, BecomesWithin DEF ReadDiff, local
  <2> QED
    BY <1>0, <1>4, <2>5 DEF ReadDiff, Still, local, remote, received
<1>5. CASE RecoverRun(w)
  <2>1. Busy(w) /\ mem[w].pc \in WithDiff
    BY <1>5 DEF RecoverRun, Busy, At
  <2>2. CASE Leave(w, "completeJob")
    BY <1>0, <1>5, <2>1, <2>2, FaultType, LeaveWithin DEF RecoverRun, Still, local, remote, received
  <2>3. CASE GoTo(w, "restart")
    BY <1>0, <1>5, <2>1, <2>3, FaultType, GoToWithin DEF RecoverRun, Still, local, remote, received
  <2> QED
    BY <1>5, <2>2, <2>3 DEF RecoverRun
<1>6. CASE AgentsReturn(w) \/ AgentsCutShort(w)
  <2>1. Busy(w) /\ mem[w].pc = "agents"
    BY <1>6 DEF AgentsReturn, AgentsCutShort, Busy, At
  <2>2. CASE GoTo(w, "failRun")
    BY <1>0, <1>6, <2>1, <2>2, FaultType, GoToWithin DEF AgentsReturn, AgentsCutShort, Still, local, remote, received
  <2>3. ASSUME NEW F \in Kept, mem' = [mem EXCEPT ![w].found = F, ![w].pc = "complete"],
               UNCHANGED faults
        PROVE  Within(w)
    <3> DEFINE m == [mem[w] EXCEPT !.found = F, !.pc = "complete"]
    <3>1. F \in SUBSET Findings
      BY DEF Kept
    <3>2. m \in Mem /\ m.pc = "complete" /\ m.diff = mem[w].diff
      BY <1>0, <3>1 DEF Mem
    <3>3. mem' = [mem EXCEPT ![w] = m]
      BY <1>0, <2>3
    <3> HIDE DEF m
    <3> QED
      BY <1>0, <1>6, <2>1, <2>3, <3>2, <3>3, FaultType, BecomesWithin
      DEF AgentsReturn, AgentsCutShort, local, Diffs
  <2>4. Within(w)
    BY <1>6, <2>2, <2>3 DEF AgentsReturn, AgentsCutShort
  <2> QED
    BY <1>0, <1>6, <2>4 DEF AgentsReturn, AgentsCutShort, Still, local, remote, received
<1>7. CASE LoadFindings(w)
  <2> DEFINE m == [mem[w] EXCEPT !.found = run[RunKey(w)].findings, !.pc = "check"]
  <2>1. Busy(w) /\ mem[w].pc = "load"
    BY <1>7 DEF LoadFindings, Busy, At
  <2>2. run[RunKey(w)].findings \in SUBSET Findings
    BY <1>0, <2>1, BusySha DEF RunKey, TypeOK
  <2>3. m \in Mem /\ m.pc = "check" /\ m.diff = mem[w].diff
    BY <1>0, <2>2 DEF Mem
  <2>4. mem' = [mem EXCEPT ![w] = m]
    BY <1>0, <1>7 DEF LoadFindings
  <2> HIDE DEF m
  <2>5. Within(w)
    BY <1>0, <1>7, <2>1, <2>3, <2>4, FaultType, BecomesWithin DEF LoadFindings, local, Diffs
  <2> QED
    BY <1>0, <1>7, <2>5 DEF LoadFindings, Still, local, remote, received
<1>8. CASE ListIssues(w)
  <2>1. Busy(w)
    BY <1>8 DEF ListIssues, Busy, At
  <2>0. faults' \in 0 .. MaxFaults /\ faults' >= faults /\ UNCHANGED <<queue, heads, sent, overlap>>
    BY <1>0, <1>8, FaultType DEF ListIssues, local
  <2>2. ASSUME GoTo(w, "issues") PROVE Within(w)
    BY <1>0, <2>0, <2>1, <2>2, GoToWithin
  <2>3. ASSUME mem' = [mem EXCEPT ![w].known = issueRows, ![w].pc = "issues"]
        PROVE  Within(w)
    <3> DEFINE m == [mem[w] EXCEPT !.known = issueRows, !.pc = "issues"]
    <3>0. issueRows \in SUBSET Findings
      BY <1>0 DEF TypeOK
    <3>1. m \in Mem /\ m.pc = "issues"
      BY <1>0, <3>0 DEF Mem
    <3>2. mem' = [mem EXCEPT ![w] = m]
      BY <1>0, <2>3
    <3> HIDE DEF m
    <3> QED
      BY <2>0, <2>1, <3>1, <3>2, BecomesWithin
  <2>4. Within(w)
    BY <1>8, <2>2, <2>3 DEF ListIssues
  <2> QED
    BY <1>0, <1>8, <2>4 DEF ListIssues, Still, local, remote, received
<1>10. CASE IssuesDone(w)
  <2>1. Busy(w)
    BY <1>10 DEF IssuesDone, Busy, At
  <2> QED
    BY <1>0, <1>10, <2>1, FaultType, GoToWithin DEF IssuesDone, Still, local, remote, received
<1>11. CASE SetPRState(w)
  <2>1. Busy(w)
    BY <1>11 DEF SetPRState, Busy, At
  <2> QED
    BY <1>0, <1>11, <2>1, FaultType, LeaveWithin DEF SetPRState, Still, local, remote, received
<1> QED
  BY <1>1, <1>2, <1>3, <1>4, <1>5, <1>6, <1>7, <1>8, <1>10, <1>11 DEF StillStep


\* Steps that write the run of the job's commit.
RunStep(w) == CreateRun(w) \/ RestartRun(w) \/ FailRun(w) \/ CompleteRun(w) \/ SaveFindings(w)

LEMMA RunWithin ==
  ASSUME Base, NEW w \in Workers, RunStep(w)
  PROVE  Within(w) /\ RunOnly(w)
<1>0. /\ TypeOK /\ Linked /\ Diffs
      /\ mem \in [Workers -> Mem] /\ mem[w] \in Mem
      /\ run \in [Heads -> [status : RunStatuses, findings : SUBSET Findings]]
  BY DEF Base, TypeOK
<1>1. Busy(w)
  BY DEF RunStep, CreateRun, RestartRun, FailRun, CompleteRun, SaveFindings, Busy, At
<1>2. Sha(w) \in Heads /\ run[Sha(w)] \in [status : RunStatuses, findings : SUBSET Findings]
  BY <1>0, <1>1, BusySha
<1> USE DEF PCs, WithDiff
<1>3. CASE CreateRun(w)
  <2>1. mem[w].pc = "create" /\ UNCHANGED <<queue, heads, sent, overlap>>
    BY <1>3 DEF CreateRun, At, local
  <2>2. CASE run' = [run EXCEPT ![RunKey(w)].status = "running"] /\ Proceed(w, "agents")
    <3>1. Within(w)
      BY <1>0, <1>1, <2>1, <2>2, ProceedWithin
    <3>2. RunOnly(w)
      BY <1>0, <1>2, <1>3, <2>2 DEF RunOnly, RunKey, RunStatuses, CreateRun, local, remote, received
    <3> QED
      BY <3>1, <3>2
  <2>3. CASE GoTo(w, "recover") /\ UNCHANGED <<run, faults>>
    <3>1. Within(w)
      BY <1>0, <1>1, <2>1, <2>3, FaultType, GoToWithin
    <3>2. RunOnly(w)
      BY <1>0, <1>2, <1>3, <2>3 DEF RunOnly, CreateRun, local, remote, received
    <3> QED
      BY <3>1, <3>2
  <2> QED
    BY <1>3, <2>2, <2>3 DEF CreateRun
<1>4. CASE RestartRun(w)
  <2>1. mem[w].pc = "restart" /\ UNCHANGED <<queue, heads, sent, overlap>>
    BY <1>4 DEF RestartRun, At, local
  <2>2. Within(w)
    BY <1>0, <1>1, <1>4, <2>1, ProceedWithin DEF RestartRun
  <2>3. RunOnly(w)
    BY <1>0, <1>2, <1>4 DEF RunOnly, RunKey, RunStatuses, RestartRun, local, remote, received
  <2> QED
    BY <2>2, <2>3
<1>5. CASE FailRun(w)
  <2>1. /\ UNCHANGED <<queue, heads, sent, overlap>>
        /\ faults' \in 0 .. MaxFaults /\ faults' >= faults
    BY <1>0, <1>5, FaultType DEF FailRun, local
  <2>2. Within(w)
    BY <1>0, <1>1, <1>5, <2>1, LeaveWithin DEF FailRun
  <2>3. RunOnly(w)
    BY <1>0, <1>2, <1>5 DEF RunOnly, RunKey, RunStatuses, FailedStatus, FailRun, local, remote, received
  <2> QED
    BY <2>2, <2>3
<1>6. CASE CompleteRun(w)
  <2>1. mem[w].pc = "complete" /\ UNCHANGED <<queue, heads, sent, overlap>>
    BY <1>6 DEF CompleteRun, At, local
  <2>2. Within(w)
    BY <1>0, <1>1, <1>6, <2>1, ProceedWithin DEF CompleteRun
  <2>3. RunOnly(w)
    BY <1>0, <1>2, <1>6 DEF RunOnly, RunKey, RunStatuses, CompleteRun, local, remote, received
  <2> QED
    BY <2>2, <2>3
<1>7. CASE SaveFindings(w)
  <2>1. mem[w].pc = "save" /\ UNCHANGED <<queue, heads, sent, overlap>>
    BY <1>7 DEF SaveFindings, At, local
  <2>2. Within(w)
    BY <1>0, <1>1, <1>7, <2>1, ProceedWithin DEF SaveFindings
  <2>3. mem[w].found \in SUBSET Findings
    BY <1>0 DEF Mem
  <2>4. RunOnly(w)
    BY <1>0, <1>2, <1>7, <2>3 DEF RunOnly, RunKey, SaveFindings, local, remote, received
  <2> QED
    BY <2>2, <2>4
<1> QED
  BY <1>3, <1>4, <1>5, <1>6, <1>7 DEF RunStep

-----------------------------------------------------------------------------
(* The steps of PostPRReview *)

\* Only what GitHub received for the commit changes, n times more than it was to.
Receipt(w, kind, n) ==
  /\ kind \in Kinds /\ n \in Nat
  /\ posts' = [posts EXCEPT ![Sha(w)][kind] = @ + n + 1]
  /\ resent' = [resent EXCEPT ![Sha(w)][kind] = @ + n]

PostOnly(w) ==
  /\ UNCHANGED <<skipped, run, issues, issueRows>>
  /\ posts' \in Counts /\ resent' \in Counts /\ about' \in Abouts
  /\ \A s \in Heads : s # Sha(w) => posts'[s] = posts[s] /\ resent'[s] = resent[s]
  /\ \A s \in Heads : \A a \in about'[s] :
       \/ a \in about[s]
       \/ s = Sha(w) /\ a.sent = sent[holds[w]] /\ a.diff \in sent[holds[w]] .. Len(heads)

LEMMA PostOnlyBase ==
  ASSUME Base, NEW w \in Workers, Within(w), PostOnly(w)
  PROVE  Base'
<1>1. /\ skipped' \subseteq Jobs /\ issues' \in [Findings -> Nat] /\ issueRows' \subseteq Findings
      /\ run' \in [Heads -> [status : RunStatuses, findings : SUBSET Findings]]
  BY DEF Base, TypeOK, PostOnly
<1>2. /\ posts' \in Counts /\ resent' \in Counts /\ about' \in Abouts
      /\ \A s \in Heads : \A a \in about'[s] :
           \/ a \in about[s]
           \/ s = Sha(w) /\ a.sent = sent[holds[w]] /\ a.diff \in sent[holds[w]] .. Len(heads)
  BY DEF PostOnly
<1> QED
  BY <1>1, <1>2, WithinBase

\* A receipt is a step of one commit and kind.
LEMMA Receipts ==
  ASSUME TypeOK, NEW w \in Workers, Sha(w) \in Heads, NEW kind, NEW n, Receipt(w, kind, n)
  PROVE  /\ posts' \in Counts /\ resent' \in Counts
         /\ \A s \in Heads : s # Sha(w) => posts'[s] = posts[s] /\ resent'[s] = resent[s]
         /\ \A k \in Kinds \ {kind} :
              posts'[Sha(w)][k] = posts[Sha(w)][k] /\ resent'[Sha(w)][k] = resent[Sha(w)][k]
         /\ posts'[Sha(w)][kind] = posts[Sha(w)][kind] + n + 1
         /\ resent'[Sha(w)][kind] = resent[Sha(w)][kind] + n
<1>0. kind \in Kinds /\ n \in Nat
  BY DEF Receipt
<1>1. posts \in Counts /\ resent \in Counts
  BY DEF TypeOK, Counts
<1> DEFINE p == [posts[Sha(w)] EXCEPT ![kind] = @ + n + 1]
           r == [resent[Sha(w)] EXCEPT ![kind] = @ + n]
<1>2. /\ posts[Sha(w)] \in [Kinds -> Nat] /\ resent[Sha(w)] \in [Kinds -> Nat]
      /\ posts[Sha(w)][kind] \in Nat /\ resent[Sha(w)][kind] \in Nat
  BY <1>0, <1>1 DEF Counts
<1>3. /\ p \in [Kinds -> Nat] /\ p[kind] = posts[Sha(w)][kind] + n + 1
      /\ \A k \in Kinds \ {kind} : p[k] = posts[Sha(w)][k]
  <2>1. posts[Sha(w)][kind] + n + 1 \in Nat
    BY <1>0, <1>2
  <2> QED
    BY <1>0, <1>2, <2>1
<1>4. /\ r \in [Kinds -> Nat] /\ r[kind] = resent[Sha(w)][kind] + n
      /\ \A k \in Kinds \ {kind} : r[k] = resent[Sha(w)][k]
  <2>1. resent[Sha(w)][kind] + n \in Nat
    BY <1>0, <1>2
  <2> QED
    BY <1>0, <1>2, <2>1
<1>5. posts' = [posts EXCEPT ![Sha(w)] = p] /\ resent' = [resent EXCEPT ![Sha(w)] = r]
  BY <1>1 DEF Receipt, Counts
<1> HIDE DEF p, r
<1>6. /\ posts' \in Counts /\ posts'[Sha(w)] = p
      /\ \A s \in Heads : s # Sha(w) => posts'[s] = posts[s]
  BY <1>1, <1>3, <1>5 DEF Counts
<1>7. /\ resent' \in Counts /\ resent'[Sha(w)] = r
      /\ \A s \in Heads : s # Sha(w) => resent'[s] = resent[s]
  BY <1>1, <1>4, <1>5 DEF Counts
<1> QED
  BY <1>3, <1>4, <1>6, <1>7

\* A call whose requests may be repeated.
LEMMA SentWithin ==
  ASSUME TypeOK, Linked, Diffs, NEW w \in Workers, Busy(w), NEW n \in Nat,
         NEW pc \in PCs \ {"idle"}, Sent(w, n, pc),
         pc \in WithDiff => mem[w].pc \in WithDiff,
         UNCHANGED <<queue, heads, sent, overlap>>
  PROVE  Within(w) /\ mem'[w].pc \in {pc, "failJob"}
<1>0. faults \in 0 .. MaxFaults
  BY DEF TypeOK
<1>1. CASE faults + n <= MaxFaults /\ faults' = faults + n /\ GoTo(w, pc)
  <2>1. faults' \in 0 .. MaxFaults /\ faults' >= faults
    BY <1>0, <1>1, ReviewRunAssumption
  <2>2. Within(w) /\ mem'[w] = [mem[w] EXCEPT !.pc = pc]
    BY <1>1, <2>1, GoToWithin
  <2>3. mem[w] \in Mem
    BY DEF TypeOK
  <2> QED
    BY <2>2, <2>3 DEF Mem
<1>2. CASE faults + n < MaxFaults /\ faults' = faults + n + 1 /\ Leave(w, "failJob")
  <2>1. faults' \in 0 .. MaxFaults /\ faults' >= faults
    BY <1>0, <1>2, ReviewRunAssumption
  <2> QED
    BY <1>2, <2>1, LeaveWithin
<1> QED
  BY <1>1, <1>2 DEF Sent

\* Posts, as seen by the invariant: comments may also come to nothing.
LEMMA PostWithin ==
  ASSUME Base, NEW w \in Workers,
         CreateCheckRun(w) \/ CreateReview(w) \/ CreateComments(w)
  PROVE  /\ Within(w) /\ PostOnly(w)
         /\ \/ /\ mem[w].pc = "check" /\ mem'[w].pc \in {"review", "failJob"}
               /\ \E n : Receipt(w, "checks", n)
            \/ /\ mem[w].pc = "review" /\ mem'[w].pc \in {"comments", "failJob"}
               /\ \E n : Receipt(w, "reviews", n)
            \/ /\ mem[w].pc = "comments" /\ mem'[w].pc = "listIssues"
               /\ (\E n : Receipt(w, "comments", n)) \/ UNCHANGED <<posts, resent>>
<1>0. /\ TypeOK /\ Linked /\ Diffs
      /\ mem \in [Workers -> Mem] /\ mem[w] \in Mem
      /\ posts \in Counts /\ resent \in Counts /\ about \in Abouts
      /\ faults \in 0 .. MaxFaults
  BY DEF Base, TypeOK, Counts, Abouts
<1>1. Busy(w) /\ UNCHANGED <<queue, heads, sent, overlap, skipped, run, issues, issueRows>>
  BY DEF CreateCheckRun, CreateReview, CreateComments, At, Busy, local
<1>2. Sha(w) \in Heads /\ sent[holds[w]] \in 1 .. Len(heads) /\ Len(heads) \in Nat
  BY <1>0, <1>1, BusySha DEF TypeOK
<1> USE DEF PCs, WithDiff
<1>3. CASE CreateCheckRun(w)
  <2>1. mem[w].pc = "check" /\ about' = about
    BY <1>3 DEF CreateCheckRun, At
  <2>2. PICK n \in 0 .. MaxRetries : Receive(w, "checks", n) /\ Sent(w, n, "review")
    BY <1>3 DEF CreateCheckRun
  <2>3. n \in Nat
    BY ReviewRunAssumption
  <2>4. Receipt(w, "checks", n)
    BY <2>2, <2>3 DEF Receipt, Receive, Target, Kinds
  <2>5. Within(w) /\ mem'[w].pc \in {"review", "failJob"}
    BY <1>0, <1>1, <2>1, <2>2, <2>3, SentWithin
  <2> QED
    BY <1>0, <1>1, <1>2, <2>1, <2>4, <2>5, Receipts DEF PostOnly
<1>4. CASE CreateReview(w)
  <2>1. /\ mem[w].pc = "review"
        /\ about' = [about EXCEPT ![Sha(w)] =
                       @ \cup {[sent |-> sent[holds[w]], diff |-> mem[w].diff]}]
    BY <1>4 DEF CreateReview, At, Target
  <2>2. PICK n \in 0 .. MaxRetries : Receive(w, "reviews", n) /\ Sent(w, n, "comments")
    BY <1>4 DEF CreateReview
  <2>3. n \in Nat
    BY ReviewRunAssumption
  <2>4. Receipt(w, "reviews", n)
    BY <2>2, <2>3 DEF Receipt, Receive, Target, Kinds
  <2>5. Within(w) /\ mem'[w].pc \in {"comments", "failJob"}
    BY <1>0, <1>1, <2>1, <2>2, <2>3, SentWithin
  <2>6. mem[w].diff \in sent[holds[w]] .. Len(heads)
    BY <1>0, <2>1 DEF Diffs
  <2> DEFINE a == [sent |-> sent[holds[w]], diff |-> mem[w].diff]
  <2>7. a \in [sent : Nat, diff : Nat] /\ a.sent = sent[holds[w]] /\ a.diff = mem[w].diff
    BY <1>2, <2>6
  <2>8. about' = [about EXCEPT ![Sha(w)] = @ \cup {a}]
    BY <2>1
  <2> HIDE DEF a
  <2>9. /\ about' \in Abouts
        /\ \A s \in Heads : \A b \in about'[s] : b \in about[s] \/ (s = Sha(w) /\ b = a)
    BY <1>0, <1>2, <2>7, <2>8 DEF Abouts
  <2> QED
    BY <1>0, <1>1, <1>2, <2>1, <2>4, <2>5, <2>6, <2>7, <2>9, Receipts DEF PostOnly
<1>5. CASE CreateComments(w)
  <2>1. mem[w].pc = "comments" /\ about' = about /\ GoTo(w, "listIssues")
    BY <1>5 DEF CreateComments, At
  <2>2. \/ \E n \in 0 .. MaxRetries :
             /\ Receive(w, "comments", n)
             /\ faults + n <= MaxFaults /\ faults' = faults + n
        \/ UNCHANGED <<posts, resent>> /\ (UNCHANGED faults \/ (MayFault /\ faults' = faults + 1))
    BY <1>5 DEF CreateComments
  <2>3. CASE UNCHANGED <<posts, resent>> /\ (UNCHANGED faults \/ (MayFault /\ faults' = faults + 1))
    <3>1. Within(w) /\ mem'[w] = [mem[w] EXCEPT !.pc = "listIssues"]
      BY <1>0, <1>1, <2>1, <2>3, FaultType, GoToWithin
    <3> QED
      BY <1>0, <1>1, <2>1, <2>3, <3>1 DEF PostOnly, Mem
  <2>4. ASSUME NEW n \in 0 .. MaxRetries, Receive(w, "comments", n),
               faults + n <= MaxFaults, faults' = faults + n
        PROVE  Within(w) /\ Receipt(w, "comments", n) /\ mem'[w].pc = "listIssues"
    <3>1. n \in Nat
      BY ReviewRunAssumption
    <3>2. Receipt(w, "comments", n)
      BY <2>4, <3>1 DEF Receipt, Receive, Target, Kinds
    <3>3. faults' \in 0 .. MaxFaults /\ faults' >= faults
      BY <1>0, <2>4, <3>1, ReviewRunAssumption
    <3>4. Within(w) /\ mem'[w] = [mem[w] EXCEPT !.pc = "listIssues"]
      BY <1>0, <1>1, <2>1, <3>3, GoToWithin
    <3> QED
      BY <1>0, <3>2, <3>4 DEF Mem
  <2>5. ASSUME NEW n, Receipt(w, "comments", n), Within(w) PROVE PostOnly(w)
    BY <1>0, <1>1, <1>2, <2>1, <2>5, Receipts DEF PostOnly
  <2> QED
    BY <2>1, <2>2, <2>3, <2>4, <2>5
<1> QED
  BY <1>3, <1>4, <1>5

\* Only issues change: of one finding, which w is done with then.
IssueOnly == UNCHANGED <<skipped, run, posts, resent, about>>
IssueStep(w) == OpenIssue(w) \/ OpenIssueFails(w)

\* The issue of f is opened n times, for the m faults and the row of it.
Opens(w, f, n, m) ==
  /\ f \in ToOpen(w) /\ n \in Nat /\ m \in Nat
  /\ issues' = [issues EXCEPT ![f] = @ + n]
  /\ faults' = faults + m /\ faults + m <= MaxFaults
  /\ \/ issueRows' = issueRows /\ n <= m
     \/ issueRows' = issueRows \cup {f} /\ n <= m + 1
  /\ mem'[w].found = mem[w].found \ {f} /\ mem'[w].known = mem[w].known
  /\ mem'[w].live = mem[w].live

LEMMA IssueWithin ==
  ASSUME Base, NEW w \in Workers, IssueStep(w)
  PROVE  /\ Within(w) /\ IssueOnly
         /\ mem[w].pc = "issues" /\ mem[w].live /\ mem'[w].pc = "issues"
         /\ issues' \in [Findings -> Nat] /\ issueRows' \subseteq Findings
         /\ \E f, n, m : Opens(w, f, n, m)
<1>0. /\ TypeOK /\ mem \in [Workers -> Mem] /\ mem[w] \in Mem
      /\ faults \in 0 .. MaxFaults /\ issues \in [Findings -> Nat] /\ issueRows \subseteq Findings
  BY DEF Base, TypeOK
<1>1. /\ Busy(w) /\ mem[w].pc = "issues" /\ mem[w].live
      /\ UNCHANGED <<queue, heads, sent, overlap>> /\ IssueOnly
  BY DEF IssueStep, OpenIssue, OpenIssueFails, At, Busy, local, received, IssueOnly
<1>2. PICK f \in ToOpen(w), o \in {mem[w].opened, mem[w].opened + 1}, n \in Nat, m \in Nat :
        /\ issues' = [issues EXCEPT ![f] = @ + n]
        /\ faults' = faults + m /\ faults + m <= MaxFaults
        /\ \/ issueRows' = issueRows /\ n <= m
           \/ issueRows' = issueRows \cup {f} /\ n <= m + 1
        /\ mem' = [mem EXCEPT ![w].found = @ \ {f}, ![w].opened = o]
  <2>1. ASSUME OpenIssue(w)
        PROVE  \E f \in ToOpen(w), n \in Nat, m \in Nat :
                 /\ issues' = [issues EXCEPT ![f] = @ + n]
                 /\ faults' = faults + m /\ faults + m <= MaxFaults
                 /\ \/ issueRows' = issueRows /\ n <= m
                    \/ issueRows' = issueRows \cup {f} /\ n <= m + 1
                 /\ mem' = [mem EXCEPT ![w].found = @ \ {f}, ![w].opened = mem[w].opened + 1]
    <3>1. PICK f \in ToOpen(w), n \in 0 .. MaxRetries :
            /\ issues' = [issues EXCEPT ![f] = @ + n + 1]
            /\ \/ /\ faults + n <= MaxFaults /\ faults' = faults + n
                  /\ issueRows' = issueRows \cup {f}
               \/ /\ faults + n < MaxFaults /\ faults' = faults + n + 1
                  /\ UNCHANGED issueRows
            /\ mem' = [mem EXCEPT ![w].found = @ \ {f}, ![w].opened = @ + 1]
      BY <2>1 DEF OpenIssue
    <3>2. n \in Nat /\ n + 1 \in Nat /\ MaxFaults \in Nat /\ faults \in Nat
      BY <1>0, ReviewRunAssumption
    <3>3. issues' = [issues EXCEPT ![f] = @ + (n + 1)]
      <4>1. f \in Findings
        BY <1>0 DEF ToOpen, Mem
      <4>2. issues[f] + n + 1 = issues[f] + (n + 1)
        BY <1>0, <3>2, <4>1
      <4> QED
        BY <1>0, <3>1, <4>1, <4>2
    <3>4. mem' = [mem EXCEPT ![w].found = @ \ {f}, ![w].opened = mem[w].opened + 1]
      BY <1>0, <3>1
    <3>5. CASE faults + n <= MaxFaults /\ faults' = faults + n /\ issueRows' = issueRows \cup {f}
      <4> SUFFICES \E c \in Nat, m \in Nat :
                     /\ issues' = [issues EXCEPT ![f] = @ + c]
                     /\ faults' = faults + m /\ faults + m <= MaxFaults /\ c <= m + 1
        BY <3>4, <3>5
      <4> WITNESS n + 1 \in Nat, n \in Nat
      <4> QED
        BY <3>2, <3>3, <3>5
    <3>6. CASE faults + n < MaxFaults /\ faults' = faults + n + 1 /\ issueRows' = issueRows
      <4>1. faults' = faults + (n + 1) /\ faults + (n + 1) <= MaxFaults
        BY <3>2, <3>6
      <4> SUFFICES \E c \in Nat, m \in Nat :
                     /\ issues' = [issues EXCEPT ![f] = @ + c]
                     /\ faults' = faults + m /\ faults + m <= MaxFaults /\ c <= m
        BY <3>4, <3>6
      <4> WITNESS n + 1 \in Nat, n + 1 \in Nat
      <4> QED
        BY <3>2, <3>3, <4>1
    <3> QED
      BY <3>1, <3>5, <3>6
  <2>2. ASSUME OpenIssueFails(w)
        PROVE  \E f \in ToOpen(w), n \in Nat, m \in Nat :
                 /\ issues' = [issues EXCEPT ![f] = @ + n]
                 /\ faults' = faults + m /\ faults + m <= MaxFaults
                 /\ issueRows' = issueRows /\ n <= m
                 /\ mem' = [mem EXCEPT ![w].found = @ \ {f}, ![w].opened = mem[w].opened]
    <3>1. PICK f \in ToOpen(w), n \in 0 .. MaxRetries :
            /\ faults + n < MaxFaults /\ faults' = faults + n + 1
            /\ \E done \in {n, n + 1} : issues' = [issues EXCEPT ![f] = @ + done]
            /\ mem' = [mem EXCEPT ![w].found = @ \ {f}] /\ issueRows' = issueRows
      BY <2>2 DEF OpenIssueFails
    <3>2. PICK done \in {n, n + 1} : issues' = [issues EXCEPT ![f] = @ + done]
      BY <3>1
    <3>3. n + 1 \in Nat /\ done \in Nat /\ done <= n + 1 /\ MaxFaults \in Nat /\ faults \in Nat
      BY <1>0, ReviewRunAssumption
    <3>4. faults' = faults + (n + 1) /\ faults + (n + 1) <= MaxFaults
      BY <3>1, <3>3
    <3>5. mem' = [mem EXCEPT ![w].found = @ \ {f}, ![w].opened = mem[w].opened]
      BY <1>0, <3>1 DEF Mem
    <3> QED
      BY <3>1, <3>2, <3>3, <3>4, <3>5
  <2> QED
    BY <2>1, <2>2 DEF IssueStep
<1>3. f \in Findings /\ mem[w].opened \in Nat
  BY <1>0 DEF ToOpen, Mem
<1> DEFINE x == [mem[w] EXCEPT !.found = @ \ {f}, !.opened = o]
<1>4. /\ x \in Mem /\ x.pc = "issues" /\ x.found = mem[w].found \ {f}
      /\ x.known = mem[w].known /\ x.live = mem[w].live
  <2>1. o \in Nat /\ mem[w].found \ {f} \in SUBSET Findings
    BY <1>0, <1>3 DEF Mem
  <2> QED
    BY <1>0, <1>1, <2>1 DEF Mem
<1>5. mem' = [mem EXCEPT ![w] = x]
  BY <1>0, <1>2
<1> HIDE DEF x
<1>6. faults' \in 0 .. MaxFaults /\ faults' >= faults
  BY <1>0, <1>2, ReviewRunAssumption
<1>7. Within(w) /\ mem'[w] = x
  BY <1>1, <1>4, <1>5, <1>6, BecomesWithin DEF WithDiff
<1>8. issues' \in [Findings -> Nat] /\ issueRows' \subseteq Findings
  <2>1. issues[f] + n \in Nat
    BY <1>0, <1>3
  <2> QED
    BY <1>0, <1>2, <1>3, <2>1
<1>9. Opens(w, f, n, m)
  BY <1>2, <1>4, <1>7 DEF Opens
<1> QED
  BY <1>1, <1>4, <1>7, <1>8, <1>9


-----------------------------------------------------------------------------
(* The steps of the queue *)

\* A job is sent.
LEMMA SubmitBase ==
  ASSUME Base, NEW j \in Jobs, RequestReview(j) \/ \E s \in Heads : Synchronize(j, s)
  PROVE  /\ Base' /\ Still /\ UNCHANGED <<holds, mem, overlap, faults, skipped>>
         /\ \A w \in Workers : Busy(w) => Sha(w)' = Sha(w)
<1>0. TypeOK /\ Linked /\ Diffs /\ DiffNotEarlier
  BY DEF Base
<1>1. /\ phase[j] = "new" /\ phase' = [phase EXCEPT ![j] = "waiting"]
      /\ UNCHANGED <<tries, holds, mem, overlap, faults, skipped, run, posts, resent, about,
                     issues, issueRows>>
  BY DEF RequestReview, Synchronize, Q!Submit, remote, received
<1>2. /\ heads' \in Seq(Heads) /\ Len(heads') \in Nat /\ Len(heads) \in Nat
      /\ Len(heads') >= Len(heads) /\ Len(heads') > 0
      /\ \A i \in 1 .. Len(heads) : heads'[i] = heads[i]
      /\ sent' = [sent EXCEPT ![j] = Len(heads')]
  <2>1. heads \in Seq(Heads) /\ Len(heads) > 0
    BY <1>0 DEF TypeOK, Linked
  <2>2. CASE RequestReview(j)
    BY <2>1, <2>2 DEF RequestReview
  <2>3. ASSUME NEW s \in Heads, Synchronize(j, s)
        PROVE  /\ heads' = Append(heads, s) /\ sent' = [sent EXCEPT ![j] = Len(heads) + 1]
    BY <2>3 DEF Synchronize
  <2> QED
    BY <2>1, <2>2, <2>3
<1>3. \A w \in Workers : holds[w] # j
  BY <1>0, <1>1 DEF Linked
<1>4. \A w \in Workers : Busy(w) => /\ Sha(w)' = Sha(w)
                                    /\ sent'[holds[w]] = sent[holds[w]]
  BY <1>0, <1>1, <1>2, <1>3, BusySha DEF TypeOK, Sha, Commit
<1>5. TypeOK'
  <2>1. /\ sent' \in [Jobs -> 0 .. Len(heads')]
        /\ phase' \in [Jobs -> {"new", "waiting", "taken", "done", "failed"}]
    <3>1. Len(heads') \in 0 .. Len(heads') /\ \A i \in 0 .. Len(heads) : i \in 0 .. Len(heads')
      BY <1>2
    <3> QED
      BY <1>0, <1>1, <1>2, <3>1 DEF TypeOK
  <2> QED
    BY <1>0, <1>1, <1>2, <2>1 DEF TypeOK
<1>6. Linked'
  <2>1. ASSUME NEW i \in Jobs, phase'[i] # "new" PROVE sent'[i] \in 1 .. Len(heads')
    <3>1. CASE i = j
      BY <1>0, <1>2, <3>1 DEF TypeOK
    <3>2. CASE i # j
      <4>1. sent'[i] = sent[i] /\ sent[i] \in 1 .. Len(heads)
        BY <1>0, <1>1, <1>2, <2>1, <3>2 DEF TypeOK, Linked
      <4> QED
        BY <1>2, <4>1
    <3> QED
      BY <3>1, <3>2
  <2>2. \A w \in Workers : Busy(w)' <=> Busy(w)
    BY <1>1 DEF Busy, At
  <2>3. \A w \in Workers : holds'[w] \in Jobs => phase'[holds'[w]] # "new"
    BY <1>0, <1>1 DEF TypeOK, Linked
  <2> QED
    BY <1>0, <1>1, <1>2, <2>1, <2>2, <2>3 DEF Linked
<1>7. Diffs'
  <2> SUFFICES ASSUME NEW w \in Workers, mem[w].pc \in WithDiff
               PROVE  mem[w].diff \in sent'[holds[w]] .. Len(heads')
    BY <1>1 DEF Diffs
  <2>1. Busy(w)
    BY DEF WithDiff, Busy, At
  <2>2. mem[w].diff \in sent[holds[w]] .. Len(heads) /\ sent[holds[w]] \in 1 .. Len(heads)
    BY <1>0, <2>1, BusySha DEF Diffs
  <2> QED
    BY <1>2, <1>4, <2>1, <2>2
<1>8. DiffNotEarlier'
  <2> SUFFICES ASSUME NEW s \in Heads, NEW a \in about[s]
               PROVE  /\ a.sent \in DOMAIN heads' /\ heads'[a.sent] = s
                      /\ a.diff \in a.sent .. Len(heads')
    BY <1>1 DEF DiffNotEarlier
  <2>1. /\ a.sent \in DOMAIN heads /\ heads[a.sent] = s
        /\ a.diff \in a.sent .. Len(heads)
    BY <1>0 DEF DiffNotEarlier
  <2>2. DOMAIN heads = 1 .. Len(heads) /\ DOMAIN heads' = 1 .. Len(heads')
    BY <1>0, <1>2 DEF TypeOK
  <2> QED
    BY <1>2, <2>1, <2>2
<1> QED
  BY <1>1, <1>4, <1>5, <1>6, <1>7, <1>8 DEF Base, Still

\* An idle worker takes a job.
LEMMA TakeBase ==
  ASSUME Base, NEW w \in Workers, NEW j \in Jobs, Take(w, j)
  PROVE  /\ Base' /\ Still /\ UNCHANGED <<heads, sent, faults, skipped>>
         /\ mem'[w].pc = "gate" /\ holds'[w] = j
         /\ \A v \in Workers : v # w => mem'[v] = mem[v] /\ holds'[v] = holds[v]
         /\ overlap' = overlap \cup {{Commit(j), Sha(v)} : v \in {u \in Workers : Busy(u)}}
<1>0. TypeOK /\ Linked /\ Diffs /\ DiffNotEarlier /\ mem \in [Workers -> Mem]
  BY DEF Base, TypeOK
<1>1. /\ phase[j] = "waiting" /\ phase' = [phase EXCEPT ![j] = "taken"]
      /\ tries' = [tries EXCEPT ![j] = @ + 1]
      /\ holds[w] = NoJob /\ holds' = [holds EXCEPT ![w] = j]
      /\ UNCHANGED <<heads, sent, skipped, run, posts, resent, about, issues, issueRows, faults>>
      /\ overlap' = overlap \cup {{Commit(j), Sha(v)} : v \in {u \in Workers : Busy(u)}}
  BY DEF Take, Q!Take, remote, received, Busy
<1>2. [Idle EXCEPT !.pc = "gate"] \in Mem /\ [Idle EXCEPT !.pc = "gate"].pc = "gate"
  BY IdleType DEF Mem, PCs
<1>3. /\ mem' \in [Workers -> Mem] /\ mem'[w].pc = "gate"
      /\ \A v \in Workers : v # w => mem'[v] = mem[v] /\ holds'[v] = holds[v]
      /\ holds'[w] = j
  BY <1>0, <1>1, <1>2 DEF Take, TypeOK
<1>4. overlap' \subseteq {{s, t} : s, t \in Heads}
  <2>1. Commit(j) \in Heads
    <3>1. sent[j] \in 1 .. Len(heads) /\ heads \in Seq(Heads)
      BY <1>0, <1>1 DEF Linked, TypeOK
    <3> QED
      BY <3>1 DEF Commit
  <2>2. \A v \in Workers : Busy(v) => Sha(v) \in Heads
    BY <1>0, BusySha
  <2> QED
    BY <1>0, <1>1, <2>1, <2>2 DEF TypeOK
<1>5. TypeOK'
  <2>1. tries' \in [Jobs -> Nat]
    <3>1. tries[j] + 1 \in Nat
      BY <1>0 DEF TypeOK
    <3> QED
      BY <1>0, <1>1, <3>1 DEF TypeOK
  <2>2. /\ phase' \in [Jobs -> {"new", "waiting", "taken", "done", "failed"}]
        /\ holds' \in [Workers -> Jobs \cup {NoJob}]
    BY <1>0, <1>1 DEF TypeOK
  <2>3. UNCHANGED <<heads, sent, skipped, run, posts, resent, about, issues, issueRows, faults>>
    BY <1>1
  <2> QED
    BY <1>0, <1>3, <1>4, <2>1, <2>2, <2>3 DEF TypeOK
<1>6. Linked'
  <2>1. \A v \in Workers : Busy(v)' <=> holds'[v] \in Jobs
    BY <1>0, <1>3 DEF Linked, Busy, At
  <2>2. \A i \in Jobs : phase'[i] # "new" => sent'[i] \in 1 .. Len(heads')
    BY <1>0, <1>1 DEF TypeOK, Linked
  <2>3. \A v \in Workers : holds'[v] \in Jobs => phase'[holds'[v]] # "new"
    BY <1>0, <1>1, <1>3 DEF TypeOK, Linked
  <2> QED
    BY <1>0, <1>1, <2>1, <2>2, <2>3 DEF Linked
<1>7. Diffs'
  BY <1>0, <1>1, <1>3 DEF Diffs, WithDiff
<1> QED
  BY <1>0, <1>1, <1>3, <1>5, <1>6, <1>7 DEF Base, DiffNotEarlier, Still

\* What the steps have in common that end a worker's job or have nothing to do
\* with workers: no job starts and no other one is touched.
Ending ==
  /\ Still /\ UNCHANGED <<heads, sent, overlap, skipped>>
  /\ faults' \in 0 .. MaxFaults /\ faults' >= faults
  /\ \A v \in Workers : \/ mem'[v] = mem[v] /\ holds'[v] = holds[v]
                        \/ mem'[v] = Idle /\ holds'[v] = NoJob
  /\ mem' \in [Workers -> Mem] /\ holds' \in [Workers -> Jobs \cup {NoJob}]
  /\ tries' \in [Jobs -> Nat]
  /\ phase' \in [Jobs -> {"new", "waiting", "taken", "done", "failed"}]
  /\ \A j \in Jobs : phase'[j] = "new" <=> phase[j] = "new"

LEMMA EndingBase ==
  ASSUME Base, Ending
  PROVE  Base'
<1>0. TypeOK /\ Linked /\ Diffs /\ DiffNotEarlier
  BY DEF Base
<1>1. TypeOK'
  BY <1>0 DEF TypeOK, Ending, Still
<1>2. Linked'
  <2>1. \A v \in Workers : Busy(v)' <=> holds'[v] \in Jobs
    BY <1>0, IdleType, ReviewRunAssumption DEF Linked, Ending, Busy, At
  <2>2. \A i \in Jobs : phase'[i] # "new" => sent'[i] \in 1 .. Len(heads')
    BY <1>0 DEF Linked, Ending
  <2>3. \A v \in Workers : holds'[v] \in Jobs => phase'[holds'[v]] # "new"
    BY <1>0, ReviewRunAssumption DEF Linked, Ending
  <2> QED
    BY <1>0, <2>1, <2>2, <2>3 DEF Linked, Ending
<1>3. Diffs'
  BY <1>0, IdleType DEF Diffs, Ending, WithDiff
<1> QED
  BY <1>0, <1>1, <1>2, <1>3 DEF Base, DiffNotEarlier, Ending, Still

LEMMA EndingSteps ==
  ASSUME Base,
         \/ \E w \in Workers : CompleteJob(w) \/ FailJob(w) \/ OutcomeLost(w)
         \/ \E j \in Jobs : TakeLost(j)
         \/ Crash \/ Reap
  PROVE  Ending
<1>0. /\ TypeOK /\ Linked /\ mem \in [Workers -> Mem] /\ Idle \in Mem
      /\ holds \in [Workers -> Jobs \cup {NoJob}] /\ tries \in [Jobs -> Nat]
      /\ phase \in [Jobs -> {"new", "waiting", "taken", "done", "failed"}]
  BY IdleType DEF Base, TypeOK
<1>1. ASSUME NEW w \in Workers, CompleteJob(w) \/ FailJob(w) PROVE Ending
  <2>1. PICK outcome \in {"done", "waiting", "failed"} : Q!Settle(w, holds[w], outcome)
    BY <1>1 DEF CompleteJob, FailJob, Q!Finish, Q!Retry, Q!GiveUp
  <2>2. /\ phase[holds[w]] = "taken" /\ phase' = [phase EXCEPT ![holds[w]] = outcome]
        /\ holds' = [holds EXCEPT ![w] = NoJob] /\ tries' = tries
    BY <2>1 DEF Q!Settle
  <2>3. /\ mem' = [mem EXCEPT ![w] = Idle]
        /\ UNCHANGED <<heads, sent, skipped, overlap>> /\ Still /\ UNCHANGED faults
    BY <1>1 DEF CompleteJob, FailJob, Still, local, remote, received
  <2>4. faults' \in 0 .. MaxFaults /\ faults' >= faults
    BY <1>0, <2>3, FaultType
  <2>5. /\ phase' \in [Jobs -> {"new", "waiting", "taken", "done", "failed"}]
        /\ \A j \in Jobs : phase'[j] = "new" <=> phase[j] = "new"
    BY <1>0, <2>2
  <2>6. /\ mem' \in [Workers -> Mem] /\ holds' \in [Workers -> Jobs \cup {NoJob}]
        /\ \A v \in Workers : \/ mem'[v] = mem[v] /\ holds'[v] = holds[v]
                              \/ mem'[v] = Idle /\ holds'[v] = NoJob
    BY <1>0, <2>2, <2>3
  <2> QED
    BY <1>0, <2>2, <2>3, <2>4, <2>5, <2>6 DEF Ending, Still
<1>2. ASSUME NEW w \in Workers, OutcomeLost(w) PROVE Ending
  <2>1. /\ holds' = [v \in Workers |-> IF v \in {w} THEN NoJob ELSE holds[v]]
        /\ mem' = [mem EXCEPT ![w] = Idle]
        /\ UNCHANGED <<phase, tries, heads, sent, skipped, overlap>> /\ Still
        /\ MayFault /\ faults' = faults + 1
    BY <1>2 DEF OutcomeLost, Q!Vanish, Still, local, remote, received
  <2>2. faults' \in 0 .. MaxFaults /\ faults' >= faults
    BY <1>0, <2>1, FaultType
  <2>3. /\ mem' \in [Workers -> Mem] /\ holds' \in [Workers -> Jobs \cup {NoJob}]
        /\ \A v \in Workers : \/ mem'[v] = mem[v] /\ holds'[v] = holds[v]
                              \/ mem'[v] = Idle /\ holds'[v] = NoJob
    BY <1>0, <2>1
  <2> QED
    BY <1>0, <2>1, <2>2, <2>3 DEF Ending, Still
<1>3. ASSUME NEW j \in Jobs, TakeLost(j) PROVE Ending
  <2>1. /\ phase[j] = "waiting" /\ phase' = [phase EXCEPT ![j] = "taken"]
        /\ tries' = [tries EXCEPT ![j] = @ + 1]
    BY <1>3 DEF TakeLost, Q!TakeLost
  <2>2. /\ UNCHANGED <<holds, mem, heads, sent, skipped, overlap>> /\ Still
        /\ MayFault /\ faults' = faults + 1
    BY <1>3 DEF TakeLost, Q!TakeLost, Still, local, remote, received
  <2>3. tries' \in [Jobs -> Nat]
    <3>1. tries[j] + 1 \in Nat
      BY <1>0
    <3> QED
      BY <1>0, <2>1, <3>1
  <2>4. faults' \in 0 .. MaxFaults /\ faults' >= faults
    BY <1>0, <2>2, FaultType
  <2>5. /\ phase' \in [Jobs -> {"new", "waiting", "taken", "done", "failed"}]
        /\ \A i \in Jobs : phase'[i] = "new" <=> phase[i] = "new"
    BY <1>0, <2>1
  <2> QED
    BY <1>0, <2>2, <2>3, <2>4, <2>5 DEF Ending, Still
<1>4. CASE Crash
  BY <1>0, <1>4, FaultType DEF Crash, Q!Vanish, Ending, Still, local, remote, received
<1>5. CASE Reap
  <2>1. PICK S \in SUBSET Jobs : Q!Recover(S)
    BY <1>5 DEF Reap
  <2>2. /\ \A j \in S : phase[j] = "taken"
        /\ phase' = [j \in Jobs |-> IF j \in S THEN "waiting" ELSE phase[j]]
        /\ UNCHANGED <<tries, holds>>
    BY <2>1 DEF Q!Recover
  <2>3. UNCHANGED <<mem, heads, sent, skipped, overlap>> /\ Still /\ UNCHANGED faults
    BY <1>5 DEF Reap, Still, local, remote, received
  <2>4. faults' \in 0 .. MaxFaults /\ faults' >= faults
    BY <1>0, <2>3, FaultType
  <2>5. /\ phase' \in [Jobs -> {"new", "waiting", "taken", "done", "failed"}]
        /\ \A j \in Jobs : phase'[j] = "new" <=> phase[j] = "new"
    BY <1>0, <2>2
  <2> QED
    BY <1>0, <2>2, <2>3, <2>4, <2>5 DEF Ending, Still
<1> QED
  BY <1>1, <1>2, <1>3, <1>4, <1>5

-----------------------------------------------------------------------------
(* The invariant and what follows from it *)

\* Every step is one of these.
LEMMA Steps ==
  ASSUME Next
  PROVE  \/ \E j \in Jobs : RequestReview(j) \/ \E s \in Heads : Synchronize(j, s)
         \/ \E w \in Workers, j \in Jobs : Take(w, j)
         \/ \E w \in Workers : \/ StillStep(w) \/ RunStep(w)
                               \/ CreateCheckRun(w) \/ CreateReview(w) \/ CreateComments(w)
                               \/ IssueStep(w)
         \/ \E w \in Workers : CompleteJob(w) \/ FailJob(w) \/ OutcomeLost(w)
         \/ \E j \in Jobs : TakeLost(j)
         \/ Crash \/ Reap
BY DEF Next, WorkerStep, Analyze, Post, StillStep, RunStep, IssueStep

LEMMA InitBase == Init => Base
<1> SUFFICES ASSUME Init PROVE Base
  OBVIOUS
<1>1. 0 \in Nat /\ 0 \in 0 .. MaxFaults /\ 1 \in Heads
  BY ReviewRunAssumption DEF Heads
<1>2. Linked
  BY IdleType, ReviewRunAssumption DEF Init, Q!Init, Linked, Busy, At
<1>3. TypeOK
  <2>1. heads \in Seq(Heads) /\ Len(heads) = 1 /\ sent \in [Jobs -> 0 .. Len(heads)]
    BY <1>1 DEF Init
  <2>2. posts \in [Heads -> [Kinds -> Nat]] /\ resent \in [Heads -> [Kinds -> Nat]]
    BY DEF Init
  <2> QED
    BY <1>1, <2>1, <2>2, IdleType DEF Init, Q!Init, TypeOK, RunStatuses
<1>4. Diffs
  BY IdleType DEF Init, Diffs, WithDiff
<1> QED
  BY <1>2, <1>3, <1>4 DEF Base, Init, DiffNotEarlier

LEMMA NextBase ==
  ASSUME Base, [Next]_vars
  PROVE  Base'
<1>1. CASE Next
  <2>1. ASSUME NEW w \in Workers, IssueStep(w) PROVE Base'
    <3>1. /\ Within(w) /\ IssueOnly
          /\ issues' \in [Findings -> Nat] /\ issueRows' \subseteq Findings
      BY <2>1, IssueWithin
    <3>2. /\ skipped' \subseteq Jobs
          /\ run' \in [Heads -> [status : RunStatuses, findings : SUBSET Findings]]
          /\ posts' \in Counts /\ resent' \in Counts /\ about' \in Abouts
          /\ \A s \in Heads : \A a \in about'[s] : a \in about[s]
      BY <3>1 DEF Base, TypeOK, IssueOnly, Counts, Abouts
    <3> QED
      BY <3>1, <3>2, WithinBase
  <2>2. ASSUME NEW w \in Workers, CreateCheckRun(w) \/ CreateReview(w) \/ CreateComments(w) PROVE Base'
    BY <2>2, PostWithin, PostOnlyBase
  <2>3. ASSUME NEW w \in Workers, RunStep(w) PROVE Base'
    BY <2>3, RunWithin, RunOnlyBase
  <2>4. ASSUME NEW w \in Workers, StillStep(w) PROVE Base'
    BY <2>4, StillWithin, StillBase
  <2> QED
    BY <1>1, <2>1, <2>2, <2>3, <2>4, Steps, SubmitBase, TakeBase, EndingSteps, EndingBase
<1>2. CASE UNCHANGED vars
  BY <1>2 DEF Base, TypeOK, Linked, Diffs, DiffNotEarlier, Busy, At, vars, queue, local, remote,
              received
<1> QED
  BY <1>1, <1>2

LEMMA BaseAlways == Spec => []Base
<1>1. Init => Base
  BY InitBase
<1>2. Base /\ [Next]_vars => Base'
  BY NextBase
<1> QED
  BY <1>1, <1>2, PTL DEF Spec

\* The rows of jobs and runs, local variables and counters keep their types,
\* and a run has a status that recoverRun knows (pipeline.go:305-325).
THEOREM TypeCorrectness == Spec => []TypeOK
<1>1. Base => TypeOK
  BY DEF Base
<1> QED
  BY <1>1, BaseAlways, PTL

\* A review is posted on the commit its job was sent for, and speaks of the diff
\* the pull request had when the job was sent or later, wherever heads are
\* pushed to (pipeline.go:112, poster.go:128).
THEOREM DiffsNotEarlier == Spec => []DiffNotEarlier
<1>1. Base => DiffNotEarlier
  BY DEF Base
<1> QED
  BY <1>1, BaseAlways, PTL


-----------------------------------------------------------------------------
(* Repeats need an overlap *)

\* Two jobs in flight were seen to overlap.
Pairs ==
  \A v, w \in Workers : v # w /\ Busy(v) /\ Busy(w) => {Sha(v), Sha(w)} \in overlap

\* Where w is in its job tells what GitHub has not received for commit s.
AtStage(w, s) ==
  /\ mem[w].pc \in {"restart", "agents", "failRun", "complete"} => run[s].status # "done"
  /\ mem[w].pc \in {"save", "load", "check", "review", "comments"} => run[s].status = "done"
  /\ mem[w].pc \in {"save", "load", "check"} => posts[s]["checks"] = 0
  /\ mem[w].pc \in {"save", "load", "check", "review"} => posts[s]["reviews"] = 0
  /\ mem[w].pc \in {"save", "load", "check", "review", "comments"} => posts[s]["comments"] = 0

\* Nothing is posted for a run that is not done, and then once and as many
\* times more as requests were sent again.
Posted(s) ==
  /\ \A k \in Kinds : posts[s][k] <= 1 + resent[s][k]
  /\ run[s].status # "done" => \A k \in Kinds : posts[s][k] = 0

Once ==
  \A s \in Heads : {s} \notin overlap =>
    Posted(s) /\ \A w \in Workers : Busy(w) /\ Sha(w) = s => AtStage(w, s)

\* An issue beyond a finding's row is paid for by a fault, those included that
\* w is about to open.
Paid ==
  /\ \A f \in Findings : issues[f] <= faults + (IF f \in issueRows THEN 1 ELSE 0)
  /\ \A w \in Workers : At(w, "issues") /\ mem[w].live =>
       \A f \in ToOpen(w) : issues[f] <= faults

IInv == Base /\ Pairs /\ Once /\ (overlap = {} => Paid)


\* Without an overlap of s with itself, one job of s is in flight.
LEMMA OneOf ==
  ASSUME Pairs, NEW v \in Workers, NEW w \in Workers, v # w, Busy(v), Busy(w), Sha(v) = Sha(w)
  PROVE  {Sha(w)} \in overlap
<1>1. {Sha(v), Sha(w)} \in overlap
  BY DEF Pairs
<1> QED
  BY <1>1

\* Steps within a job overlap nothing new.
LEMMA WithinPairs ==
  ASSUME Pairs, NEW w \in Workers, Within(w)
  PROVE  Pairs'
<1>1. \A v \in Workers : (Busy(v)' <=> Busy(v)) /\ Sha(v)' = Sha(v)
  BY DEF Within, Busy, At, Sha, Commit, queue
<1> QED
  BY <1>1 DEF Pairs, Within

\* Such a step is to be judged by its own commit.
LEMMA WithinOnce ==
  ASSUME TypeOK, Pairs, Once, NEW w \in Workers, Within(w),
         \A s \in Heads : s # Sha(w) => /\ run'[s].status = run[s].status
                                          /\ posts'[s] = posts[s] /\ resent'[s] = resent[s],
         \A s \in Heads : s = Sha(w) /\ {s} \notin overlap => Posted(s)' /\ AtStage(w, s)'
  PROVE  Once'
<1>1. \A v \in Workers : (Busy(v)' <=> Busy(v)) /\ Sha(v)' = Sha(v)
  BY DEF Within, Busy, At, Sha, Commit, queue
<1>2. overlap' = overlap /\ Busy(w) /\ \A v \in Workers : v # w => mem'[v] = mem[v]
  BY DEF Within
<1> SUFFICES ASSUME NEW s \in Heads, {s} \notin overlap
             PROVE  Posted(s)' /\ \A v \in Workers : Busy(v)' /\ Sha(v)' = s => AtStage(v, s)'
  BY <1>2 DEF Once
<1>3. CASE s = Sha(w)
  BY <1>1, <1>2, <1>3, OneOf
<1>4. CASE s # Sha(w)
  <2>1. Posted(s) /\ Posted(s)'
    BY <1>4 DEF Once, Posted
  <2>2. ASSUME NEW v \in Workers, Busy(v), Sha(v) = s PROVE AtStage(v, s)'
    <3>1. mem'[v] = mem[v] /\ AtStage(v, s)
      BY <1>2, <1>4, <2>2 DEF Once
    <3> QED
      BY <1>4, <3>1 DEF AtStage
  <2> QED
    BY <1>1, <2>1, <2>2
<1> QED
  BY <1>3, <1>4

\* So is its worker, when it comes to issues.
LEMMA WithinPaid ==
  ASSUME TypeOK, Pairs, overlap = {}, Paid, NEW w \in Workers, Within(w),
         UNCHANGED <<issues, issueRows>>,
         At(w, "issues")' /\ mem'[w].live => \A f \in ToOpen(w)' : issues[f] <= faults'
  PROVE  Paid'
<1>1. faults \in Nat /\ faults' \in Nat /\ faults' >= faults /\ issues \in [Findings -> Nat]
  BY ReviewRunAssumption DEF TypeOK, Within
<1>2. \A f \in Findings : issues[f] <= faults' + (IF f \in issueRows THEN 1 ELSE 0)
  BY <1>1 DEF Paid
<1>3. ASSUME NEW v \in Workers, v # w PROVE ~ At(v, "issues")'
  BY <1>3 DEF Within, Pairs, Busy, At
<1> QED
  BY <1>2, <1>3 DEF Paid

\* Steps that leave the tables alone, by where they lead.
LEMMA StillOnce ==
  ASSUME Base, NEW w \in Workers, StillStep(w), NEW s \in Heads, s = Sha(w),
         Posted(s), AtStage(w, s)
  PROVE  Posted(s)' /\ AtStage(w, s)'
<1>0. mem \in [Workers -> Mem] /\ mem[w] \in Mem
  BY DEF Base, TypeOK
<1>1. Still
  BY StillWithin
<1>2. Posted(s)'
  BY <1>1 DEF Posted, Still
<1>3. \/ mem'[w].pc \in {"failJob", "completeJob", "create", "issues", "state"}
      \/ mem'[w].pc = mem[w].pc
      \/ mem'[w].pc = "restart" /\ run[s].status # "done"
      \/ mem'[w].pc \in {"failRun", "complete"} /\ mem[w].pc = "agents"
      \/ mem'[w].pc = "check" /\ mem[w].pc = "load"
  <2>1. CASE Expire(w)
    BY <1>0, <2>1 DEF Expire, Mem
  <2>2. CASE CallFails(w) \/ SkipByPolicy(w) \/ SetPRState(w)
    BY <1>0, <2>2, IdleType DEF CallFails, SkipByPolicy, SetPRState, Leave, Mem, Idle
  <2>3. CASE ReadDiff(w)
    BY <1>0, <2>3 DEF ReadDiff, Mem
  <2>4. CASE RecoverRun(w)
    BY <1>0, <2>4 DEF RecoverRun, RunKey, TerminalStatuses, Leave, GoTo, Mem, Idle
  <2>5. CASE AgentsReturn(w) \/ AgentsCutShort(w)
    BY <1>0, <2>5 DEF AgentsReturn, AgentsCutShort, GoTo, At, Mem
  <2>6. CASE LoadFindings(w)
    BY <1>0, <2>6 DEF LoadFindings, At, Mem
  <2>7. CASE ListIssues(w) \/ IssuesDone(w)
    BY <1>0, <2>7 DEF ListIssues, IssuesDone, GoTo, Mem
  <2> QED
    BY <2>1, <2>2, <2>3, <2>4, <2>5, <2>6, <2>7 DEF StillStep
<1>4. AtStage(w, s)'
  BY <1>1, <1>3 DEF AtStage, Still
<1> QED
  BY <1>2, <1>4

\* Among them is the listing of the known issues.
LEMMA StillPaid ==
  ASSUME Base, NEW w \in Workers, StillStep(w), Paid
  PROVE  At(w, "issues")' /\ mem'[w].live => \A f \in ToOpen(w)' : issues[f] <= faults'
<1>0. /\ mem \in [Workers -> Mem] /\ mem[w] \in Mem
      /\ faults \in Nat /\ issues \in [Findings -> Nat]
  BY ReviewRunAssumption DEF Base, TypeOK
<1> SUFFICES ASSUME mem'[w].pc = "issues", mem'[w].live, NEW f \in ToOpen(w)'
             PROVE  issues[f] <= faults'
  BY DEF At
<1>1. f \in mem'[w].found /\ f \in Severe /\ f \notin mem'[w].known /\ f \in Findings
  BY ReviewRunAssumption DEF ToOpen
<1>2. CASE ListIssues(w)
  <2>1. issues[f] <= faults + (IF f \in issueRows THEN 1 ELSE 0)
    BY <1>1 DEF Paid
  <2>2. CASE mem' = [mem EXCEPT ![w].known = issueRows, ![w].pc = "issues"] /\ UNCHANGED faults
    <3>1. mem'[w].known = issueRows
      BY <1>0, <2>2 DEF Mem
    <3> QED
      BY <1>0, <1>1, <2>1, <2>2, <3>1
  <2>3. CASE ~ mem[w].live /\ GoTo(w, "issues")
    <3>1. mem'[w].live = mem[w].live
      BY <1>0, <2>3 DEF GoTo, Mem
    <3> QED
      BY <2>3, <3>1
  <2>4. CASE faults' = faults + 1
    <3>1. issues[f] \in Nat
      BY <1>0, <1>1
    <3> QED
      BY <1>0, <2>1, <2>4, <3>1
  <2> QED
    BY <1>2, <2>2, <2>3, <2>4 DEF ListIssues
<1>3. CASE ~ ListIssues(w)
  <2>1. CASE Expire(w)
    BY <1>0, <2>1 DEF Expire, Mem
  <2>2. CASE CallFails(w) \/ SkipByPolicy(w) \/ SetPRState(w)
    BY <1>0, <2>2 DEF CallFails, SkipByPolicy, SetPRState, Leave, Mem, Idle
  <2>3. CASE ReadDiff(w) \/ LoadFindings(w)
    BY <1>0, <2>3 DEF ReadDiff, LoadFindings, Mem
  <2>4. CASE RecoverRun(w)
    BY <1>0, <2>4 DEF RecoverRun, Leave, GoTo, Mem, Idle
  <2>5. CASE AgentsReturn(w) \/ AgentsCutShort(w)
    BY <1>0, <2>5 DEF AgentsReturn, AgentsCutShort, GoTo, Mem
  <2>6. CASE IssuesDone(w)
    BY <1>0, <2>6 DEF IssuesDone, GoTo, Mem
  <2> QED
    BY <1>3, <2>1, <2>2, <2>3, <2>4, <2>5, <2>6 DEF StillStep
<1> QED
  BY <1>2, <1>3


\* Steps that write the run.
LEMMA RunOnce ==
  ASSUME Base, NEW w \in Workers, RunStep(w), NEW s \in Heads, s = Sha(w),
         Posted(s), AtStage(w, s)
  PROVE  Posted(s)' /\ AtStage(w, s)'
<1>0. /\ mem \in [Workers -> Mem] /\ mem[w] \in Mem
      /\ run \in [Heads -> [status : RunStatuses, findings : SUBSET Findings]]
  BY DEF Base, TypeOK
<1>1. posts' = posts /\ resent' = resent
  BY RunWithin DEF RunOnly
<1>2. ASSUME NEW pc \in PCs, Proceed(w, pc) PROVE mem'[w].pc \in {pc, "failJob"}
  BY <1>0, <1>2, IdleType DEF Proceed, GoTo, Leave, Mem, Idle
<1>3. CASE CreateRun(w)
  <2>1. CASE run[s].status = "none" /\ Proceed(w, "agents") /\ run' = [run EXCEPT ![RunKey(w)].status = "running"]
    <3>1. run'[s].status = "running"
      BY <1>0, <2>1 DEF RunKey
    <3>2. mem'[w].pc \in {"agents", "failJob"}
      BY <1>2, <2>1 DEF PCs
    <3> QED
      BY <1>1, <2>1, <3>1, <3>2 DEF Posted, AtStage
  <2>2. CASE GoTo(w, "recover") /\ UNCHANGED <<run, faults>>
    <3>1. mem'[w].pc = "recover"
      BY <1>0, <2>2 DEF GoTo, Mem
    <3> QED
      BY <1>1, <2>2, <3>1 DEF Posted, AtStage
  <2> QED
    BY <1>3, <2>1, <2>2 DEF CreateRun, RunKey
<1>4. CASE RestartRun(w)
  <2>1. run[s].status # "done"
    BY <1>4 DEF RestartRun, AtStage, At
  <2>2. run'[s].status = "running"
    BY <1>0, <1>4 DEF RestartRun, RunKey
  <2>3. mem'[w].pc \in {"agents", "failJob"}
    BY <1>2, <1>4 DEF RestartRun, PCs
  <2> QED
    BY <1>1, <2>1, <2>2, <2>3 DEF Posted, AtStage
<1>5. CASE FailRun(w)
  <2>1. run[s].status # "done"
    BY <1>5 DEF FailRun, AtStage, At
  <2>2. run'[s].status \in {"failed", run[s].status}
    BY <1>0, <1>5 DEF FailRun, RunKey, FailedStatus
  <2>3. mem'[w].pc = "failJob"
    BY <1>0, <1>5, IdleType DEF FailRun, Leave, Mem, Idle
  <2> QED
    BY <1>1, <2>1, <2>2, <2>3 DEF Posted, AtStage
<1>6. CASE CompleteRun(w)
  <2>1. run[s].status # "done"
    BY <1>6 DEF CompleteRun, AtStage, At
  <2>2. run'[s].status = "done"
    BY <1>0, <1>6 DEF CompleteRun, RunKey
  <2>3. mem'[w].pc \in {"save", "failJob"}
    BY <1>2, <1>6 DEF CompleteRun, PCs
  <2>4. posts[s]["checks"] = 0 /\ posts[s]["reviews"] = 0 /\ posts[s]["comments"] = 0
    BY <2>1 DEF Posted, Kinds
  <2> QED
    BY <1>1, <2>1, <2>2, <2>3, <2>4 DEF Posted, AtStage
<1>7. CASE SaveFindings(w)
  <2>1. mem[w].pc = "save"
    BY <1>7 DEF SaveFindings, At
  <2>2. run'[s].status = run[s].status
    BY <1>0, <1>7 DEF SaveFindings, RunKey
  <2>3. mem'[w].pc \in {"load", "failJob"}
    BY <1>2, <1>7 DEF SaveFindings, PCs
  <2> QED
    BY <1>1, <2>1, <2>2, <2>3 DEF Posted, AtStage
<1> QED
  BY <1>3, <1>4, <1>5, <1>6, <1>7 DEF RunStep

\* Steps that post on the commit.
LEMMA PostOnce ==
  ASSUME Base, NEW w \in Workers, CreateCheckRun(w) \/ CreateReview(w) \/ CreateComments(w),
         NEW s \in Heads, s = Sha(w), Posted(s), AtStage(w, s)
  PROVE  Posted(s)' /\ AtStage(w, s)'
<1>0. TypeOK /\ posts \in Counts /\ resent \in Counts
  BY DEF Base, TypeOK, Counts
<1>1. run' = run
  BY PostWithin DEF PostOnly
<1>2. \A k \in Kinds : posts[s][k] \in Nat /\ resent[s][k] \in Nat
  BY <1>0 DEF Counts
<1>3. ASSUME NEW kind, NEW n, Receipt(w, kind, n), posts[s][kind] = 0,
             run[s].status = "done"
      PROVE  /\ Posted(s)'
             /\ \A k \in Kinds \ {kind} : posts'[s][k] = posts[s][k]
  <2>1. /\ \A k \in Kinds \ {kind} : posts'[s][k] = posts[s][k] /\ resent'[s][k] = resent[s][k]
        /\ posts'[s][kind] = posts[s][kind] + n + 1
        /\ resent'[s][kind] = resent[s][kind] + n
    BY <1>0, <1>3, Receipts
  <2>2. kind \in Kinds /\ n \in Nat
    BY <1>3 DEF Receipt
  <2>3. \A k \in Kinds : posts'[s][k] <= 1 + resent'[s][k]
    BY <1>2, <1>3, <2>1, <2>2 DEF Posted
  <2> QED
    BY <1>1, <1>3, <2>1, <2>3 DEF Posted
<1> USE DEF Kinds
<1>4. CASE /\ mem[w].pc = "check" /\ mem'[w].pc \in {"review", "failJob"}
           /\ \E n : Receipt(w, "checks", n)
  <2>1. posts[s]["checks"] = 0 /\ run[s].status = "done"
    BY <1>4 DEF AtStage
  <2> QED
    BY <1>1, <1>3, <1>4, <2>1 DEF AtStage
<1>5. CASE /\ mem[w].pc = "review" /\ mem'[w].pc \in {"comments", "failJob"}
           /\ \E n : Receipt(w, "reviews", n)
  <2>1. posts[s]["reviews"] = 0 /\ run[s].status = "done"
    BY <1>5 DEF AtStage
  <2> QED
    BY <1>1, <1>3, <1>5, <2>1 DEF AtStage
<1>6. CASE /\ mem[w].pc = "comments" /\ mem'[w].pc = "listIssues"
           /\ (\E n : Receipt(w, "comments", n)) \/ UNCHANGED <<posts, resent>>
  <2>1. posts[s]["comments"] = 0 /\ run[s].status = "done"
    BY <1>6 DEF AtStage
  <2>2. Posted(s)'
    BY <1>1, <1>3, <1>6, <2>1 DEF Posted
  <2> QED
    BY <1>6, <2>2 DEF AtStage
<1> QED
  BY <1>4, <1>5, <1>6, PostWithin

\* None of these comes to issues.
LEMMA NotAtIssues ==
  ASSUME Base, NEW w \in Workers,
         RunStep(w) \/ CreateCheckRun(w) \/ CreateReview(w) \/ CreateComments(w)
  PROVE  ~ At(w, "issues")'
<1>0. mem \in [Workers -> Mem] /\ mem[w] \in Mem
  BY DEF Base, TypeOK
<1>1. CASE CreateRun(w) \/ RestartRun(w) \/ FailRun(w)
  BY <1>0, <1>1 DEF CreateRun, RestartRun, FailRun, Proceed, GoTo, Leave, At, Mem, Idle
<1>2. CASE CompleteRun(w) \/ SaveFindings(w)
  BY <1>0, <1>2 DEF CompleteRun, SaveFindings, Proceed, GoTo, Leave, At, Mem, Idle
<1>3. CASE CreateCheckRun(w) \/ CreateReview(w) \/ CreateComments(w)
  BY <1>3, PostWithin DEF At
<1> QED
  BY <1>1, <1>2, <1>3 DEF RunStep

\* An issue is opened: for a finding that has none, or faults were there before.
LEMMA OpenIssuePaid ==
  ASSUME Base, Pairs, overlap = {}, Paid, NEW w \in Workers, IssueStep(w)
  PROVE  Paid'
<1>0. /\ mem \in [Workers -> Mem] /\ mem[w] \in Mem
      /\ faults \in Nat /\ issues \in [Findings -> Nat]
  BY ReviewRunAssumption DEF Base, TypeOK
<1>1. mem[w].pc = "issues" /\ mem[w].live /\ Within(w)
  BY IssueWithin
<1>2. PICK f, n, m : Opens(w, f, n, m)
  BY IssueWithin
<1>3. /\ f \in Findings /\ issues[f] <= faults /\ f \in ToOpen(w)
      /\ n \in Nat /\ m \in Nat /\ faults' = faults + m
      /\ \/ issueRows' = issueRows /\ n <= m
         \/ issueRows' = issueRows \cup {f} /\ n <= m + 1
  BY <1>0, <1>1, <1>2 DEF Opens, Paid, At, ToOpen, Mem
<1>a. issues'[f] = issues[f] + n /\ \A g \in Findings : g # f => issues'[g] = issues[g]
  BY <1>0, <1>2, <1>3 DEF Opens
<1>4. ASSUME NEW g \in Findings
      PROVE  issues'[g] <= faults' + (IF g \in issueRows' THEN 1 ELSE 0)
  <2>1. issues[g] \in Nat /\ issues[g] <= faults + (IF g \in issueRows THEN 1 ELSE 0)
    BY <1>0 DEF Paid
  <2>2. CASE g = f
    <3>1. CASE issueRows' = issueRows /\ n <= m
      BY <1>0, <1>3, <1>a, <2>1, <2>2, <3>1
    <3>2. CASE issueRows' = issueRows \cup {f} /\ n <= m + 1
      BY <1>0, <1>3, <1>a, <2>1, <2>2, <3>2
    <3> QED
      BY <1>3, <3>1, <3>2
  <2>3. CASE g # f
    <3>1. issues'[g] = issues[g] /\ (g \in issueRows' <=> g \in issueRows)
      BY <1>3, <1>a, <2>3
    <3> QED
      BY <1>0, <1>3, <2>1, <3>1
  <2> QED
    BY <2>2, <2>3
<1>5. ASSUME NEW g \in ToOpen(w)' PROVE issues'[g] <= faults'
  <2>1. mem'[w].found = mem[w].found \ {f} /\ mem'[w].known = mem[w].known
    BY <1>2 DEF Opens
  <2>2. g \in ToOpen(w) /\ g # f /\ g \in Findings
    BY <1>0, <2>1 DEF ToOpen, Mem
  <2>3. issues[g] \in Nat /\ issues[g] <= faults
    BY <1>0, <1>1, <2>2 DEF Paid, At
  <2>4. issues'[g] = issues[g]
    BY <1>a, <2>2
  <2> QED
    BY <1>0, <1>3, <2>3, <2>4
<1>6. ASSUME NEW v \in Workers, v # w PROVE ~ At(v, "issues")'
  BY <1>1, <1>6 DEF Within, Pairs, Busy, At
<1> QED
  BY <1>4, <1>5, <1>6 DEF Paid

\* A step within a job keeps the invariant.
LEMMA WithinIInv ==
  ASSUME IInv, NEW w \in Workers,
         \/ StillStep(w) \/ RunStep(w) \/ IssueStep(w)
         \/ CreateCheckRun(w) \/ CreateReview(w) \/ CreateComments(w)
  PROVE  Pairs' /\ Once' /\ (overlap' = {} => Paid')
<1>0. Base /\ TypeOK /\ Linked /\ Pairs /\ Once /\ (overlap = {} => Paid)
  BY DEF IInv, Base
<1>1. Within(w)
  BY <1>0, StillWithin, RunWithin, PostWithin, IssueWithin
<1>2. overlap' = overlap /\ Busy(w) /\ Sha(w) \in Heads
  BY <1>0, <1>1, BusySha DEF Within
<1>3. ASSUME NEW s \in Heads, s = Sha(w), {s} \notin overlap PROVE Posted(s) /\ AtStage(w, s)
  BY <1>0, <1>2, <1>3 DEF Once
<1>4. Pairs'
  BY <1>0, <1>1, WithinPairs
<1>5. CASE StillStep(w)
  <2>1. Still
    BY <1>0, <1>5, StillWithin
  <2>2. Once'
    BY <1>0, <1>1, <1>3, <1>5, <2>1, StillOnce, WithinOnce DEF Still
  <2>3. overlap' = {} => Paid'
    BY <1>0, <1>1, <1>2, <1>5, <2>1, StillPaid, WithinPaid DEF Still
  <2> QED
    BY <1>4, <2>2, <2>3
<1>6. CASE RunStep(w)
  <2>1. RunOnly(w)
    BY <1>0, <1>6, RunWithin
  <2>2. \A s \in Heads : s # Sha(w) => /\ run'[s].status = run[s].status
                                          /\ posts'[s] = posts[s] /\ resent'[s] = resent[s]
    BY <1>0, <2>1 DEF RunOnly, TypeOK
  <2>3. Once'
    BY <1>0, <1>1, <1>3, <1>6, <2>2, RunOnce, WithinOnce
  <2>4. overlap' = {} => Paid'
    BY <1>0, <1>1, <1>2, <1>6, <2>1, NotAtIssues, WithinPaid DEF RunOnly
  <2> QED
    BY <1>4, <2>3, <2>4
<1>7. CASE CreateCheckRun(w) \/ CreateReview(w) \/ CreateComments(w)
  <2>1. PostOnly(w)
    BY <1>0, <1>7, PostWithin
  <2>2. \A s \in Heads : s # Sha(w) => /\ run'[s].status = run[s].status
                                          /\ posts'[s] = posts[s] /\ resent'[s] = resent[s]
    BY <2>1 DEF PostOnly
  <2>3. Once'
    BY <1>0, <1>1, <1>3, <1>7, <2>2, PostOnce, WithinOnce
  <2>4. overlap' = {} => Paid'
    BY <1>0, <1>1, <1>2, <1>7, <2>1, NotAtIssues, WithinPaid DEF PostOnly
  <2> QED
    BY <1>4, <2>3, <2>4
<1>8. CASE IssueStep(w)
  <2>1. IssueOnly /\ mem'[w].pc = "issues"
    BY <1>0, <1>8, IssueWithin
  <2>3. ASSUME NEW s \in Heads, s = Sha(w), {s} \notin overlap PROVE Posted(s)' /\ AtStage(w, s)'
    BY <1>3, <2>1, <2>3 DEF IssueOnly, Posted, AtStage
  <2>4. Once'
    BY <1>0, <1>1, <2>1, <2>3, WithinOnce DEF IssueOnly
  <2>5. overlap' = {} => Paid'
    BY <1>0, <1>2, <1>8, OpenIssuePaid
  <2> QED
    BY <1>4, <2>4, <2>5
<1> QED
  BY <1>5, <1>6, <1>7, <1>8

\* So do the steps of the queue.
LEMMA QueueIInv ==
  ASSUME IInv,
         \/ \E j \in Jobs : RequestReview(j) \/ \E s \in Heads : Synchronize(j, s)
         \/ \E w \in Workers, j \in Jobs : Take(w, j)
         \/ \E w \in Workers : CompleteJob(w) \/ FailJob(w) \/ OutcomeLost(w)
         \/ \E j \in Jobs : TakeLost(j)
         \/ Crash \/ Reap
  PROVE  Pairs' /\ Once' /\ (overlap' = {} => Paid')
<1>0. Base /\ TypeOK /\ Linked /\ Pairs /\ Once /\ (overlap = {} => Paid)
  BY DEF IInv, Base
<1>1. ASSUME NEW j \in Jobs, RequestReview(j) \/ \E s \in Heads : Synchronize(j, s)
      PROVE  Pairs' /\ Once' /\ (overlap' = {} => Paid')
  <2>1. /\ Still /\ UNCHANGED <<holds, mem, overlap, faults>>
        /\ \A w \in Workers : (Busy(w)' <=> Busy(w)) /\ (Busy(w) => Sha(w)' = Sha(w))
    BY <1>0, <1>1, SubmitBase DEF Busy, At
  <2>2. Pairs'
    BY <1>0, <2>1 DEF Pairs
  <2>3. Once'
    BY <1>0, <2>1 DEF Once, Posted, AtStage, Still
  <2>4. overlap' = {} => Paid'
    BY <1>0, <2>1 DEF Paid, At, ToOpen, Still
  <2> QED
    BY <2>2, <2>3, <2>4
<1>2. ASSUME NEW w \in Workers, NEW j \in Jobs, Take(w, j)
      PROVE  Pairs' /\ Once' /\ (overlap' = {} => Paid')
  <2>1. /\ Still /\ UNCHANGED <<heads, sent, faults>> /\ mem'[w].pc = "gate" /\ holds'[w] = j
        /\ \A v \in Workers : v # w => mem'[v] = mem[v] /\ holds'[v] = holds[v]
        /\ overlap' = overlap \cup {{Commit(j), Sha(v)} : v \in {u \in Workers : Busy(u)}}
    BY <1>0, <1>2, TakeBase
  <2>2. /\ Sha(w)' = Commit(j)
        /\ \A v \in Workers : v # w => (Busy(v)' <=> Busy(v)) /\ Sha(v)' = Sha(v)
    BY <2>1 DEF Busy, At, Sha, Commit
  <2>3. \A v \in Workers : v # w /\ Busy(v) => {Commit(j), Sha(v)} \in overlap'
    BY <2>1
  <2>4. Pairs'
    <3> SUFFICES ASSUME NEW u \in Workers, NEW v \in Workers, u # v, Busy(u)', Busy(v)'
                 PROVE  {Sha(u)', Sha(v)'} \in overlap'
      BY DEF Pairs
    <3>1. CASE u # w /\ v # w
      BY <1>0, <2>1, <2>2, <3>1 DEF Pairs
    <3>2. CASE u = w
      BY <2>2, <2>3, <3>2
    <3>3. CASE v = w
      <4>1. {Sha(u)', Sha(v)'} = {Sha(v)', Sha(u)'}
        OBVIOUS
      <4> QED
        BY <2>2, <2>3, <3>3, <4>1
    <3> QED
      BY <3>1, <3>2, <3>3
  <2>5. Once'
    <3> SUFFICES ASSUME NEW s \in Heads, {s} \notin overlap
                 PROVE  Posted(s)' /\ \A v \in Workers : Busy(v)' /\ Sha(v)' = s => AtStage(v, s)'
      BY <2>1 DEF Once
    <3>1. Posted(s)'
      BY <1>0, <2>1 DEF Once, Posted, Still
    <3>2. AtStage(w, s)'
      BY <2>1 DEF AtStage
    <3>3. ASSUME NEW v \in Workers, v # w, Busy(v), Sha(v) = s PROVE AtStage(v, s)'
      <4>1. AtStage(v, s) /\ mem'[v] = mem[v] /\ run' = run /\ posts' = posts
        BY <1>0, <2>1, <3>3 DEF Once, Still
      <4> QED
        BY <4>1 DEF AtStage
    <3> QED
      BY <2>2, <3>1, <3>2, <3>3
  <2>6. overlap' = {} => Paid'
    <3> SUFFICES ASSUME overlap' = {} PROVE Paid'
      OBVIOUS
    <3>1. Paid
      BY <1>0, <2>1
    <3> QED
      BY <2>1, <3>1 DEF Paid, At, ToOpen, Still
  <2> QED
    BY <2>4, <2>5, <2>6
<1>3. ASSUME Ending PROVE Pairs' /\ Once' /\ (overlap' = {} => Paid')
  <2>1. /\ Still /\ UNCHANGED <<heads, sent, overlap>> /\ faults' \in Nat /\ faults' >= faults
        /\ \A v \in Workers : Busy(v)' => mem'[v] = mem[v] /\ holds'[v] = holds[v] /\ Busy(v)
    BY <1>3, IdleType, ReviewRunAssumption DEF Ending, Busy, At
  <2>2. \A v \in Workers : Busy(v)' => Sha(v)' = Sha(v)
    BY <2>1 DEF Sha, Commit
  <2>3. Pairs'
    BY <1>0, <2>1, <2>2 DEF Pairs
  <2>4. Once'
    BY <1>0, <2>1, <2>2 DEF Once, Posted, AtStage, Still
  <2>5. overlap' = {} => Paid'
    <3> SUFFICES ASSUME overlap' = {} PROVE Paid'
      OBVIOUS
    <3>1. Paid /\ faults \in Nat /\ issues \in [Findings -> Nat]
      BY <1>0, <2>1, ReviewRunAssumption DEF TypeOK
    <3>2. \A f \in Findings : issues'[f] <= faults' + (IF f \in issueRows' THEN 1 ELSE 0)
      BY <2>1, <3>1 DEF Paid, Still
    <3>3. ASSUME NEW v \in Workers, At(v, "issues")', mem'[v].live, NEW f \in ToOpen(v)'
          PROVE  issues'[f] <= faults'
      <4>1. mem'[v] = mem[v] /\ issues' = issues
        BY <2>1, <3>3 DEF Busy, At, Still
      <4>2. f \in ToOpen(v) /\ At(v, "issues") /\ mem[v].live /\ f \in Findings
        BY <3>3, <4>1, ReviewRunAssumption DEF ToOpen, At
      <4>3. issues[f] <= faults /\ issues[f] \in Nat
        BY <3>1, <4>2 DEF Paid
      <4> QED
        BY <2>1, <3>1, <4>1, <4>3
    <3> QED
      BY <3>2, <3>3 DEF Paid
  <2> QED
    BY <2>3, <2>4, <2>5
<1> QED
  BY <1>0, <1>1, <1>2, <1>3, EndingSteps

\* The invariant is inductive.
LEMMA Inductive ==
  /\ Init => IInv
  /\ IInv /\ [Next]_vars => IInv'
<1>1. ASSUME Init PROVE IInv
  <2>1. Base
    BY <1>1, InitBase
  <2>2. Pairs /\ \A w \in Workers : ~ Busy(w)
    BY <1>1, IdleType DEF Init, Pairs, Busy, At
  <2>3. Once
    BY <1>1, <2>2 DEF Init, Once, Posted
  <2>4. Paid
    BY <1>1, IdleType DEF Init, Paid, At
  <2> QED
    BY <2>1, <2>2, <2>3, <2>4 DEF IInv
<1>2. ASSUME IInv, [Next]_vars PROVE IInv'
  <2>1. Base'
    BY <1>2, NextBase DEF IInv
  <2>2. CASE Next
    BY <1>2, <2>1, <2>2, Steps, WithinIInv, QueueIInv DEF IInv
  <2>3. CASE UNCHANGED vars
    BY <1>2, <2>1, <2>3 DEF IInv, Pairs, Once, Posted, AtStage, Paid, ToOpen, Busy, At, Sha,
                            Commit,                             vars, queue, local, remote, received
  <2> QED
    BY <1>2, <2>2, <2>3
<1> QED
  BY <1>1, <1>2

\* Beyond what doWithRetry repeats, a second check run, review or batch of
\* comments on a commit takes two of its jobs in flight at once, and a second
\* issue about a finding two jobs of the pull request, or a fault for each:
\* whatever jobs, workers, crashes, expired contexts and retries there are
\* (pipeline.go:137, 305-325, poster.go:128-177, client.go:430-461).
THEOREM RepeatsTakeOverlap == Spec => []RepeatsNeedOverlap
<1>1. IInv => RepeatsNeedOverlap
  <2> SUFFICES ASSUME IInv PROVE RepeatsNeedOverlap
    OBVIOUS
  <2>1. TypeOK /\ Once /\ (overlap = {} => Paid)
    BY DEF IInv, Base
  <2>2. ASSUME NEW s \in Heads, NEW k \in Kinds, posts[s][k] > 1 + resent[s][k]
        PROVE  {s} \in overlap
    <3>1. posts[s][k] \in Nat /\ resent[s][k] \in Nat
      BY <2>1 DEF TypeOK
    <3>2. ~ Posted(s)
      BY <2>2, <3>1 DEF Posted
    <3> QED
      BY <2>1, <3>2 DEF Once
  <2>3. ASSUME NEW f \in Findings, issues[f] > 1 + faults PROVE overlap # {}
    <3>1. issues[f] \in Nat /\ faults \in Nat
      BY <2>1, ReviewRunAssumption DEF TypeOK
    <3>2. CASE Paid
      BY <2>3, <3>1, <3>2 DEF Paid
    <3> QED
      BY <2>1, <3>2
  <2> QED
    BY <2>2, <2>3 DEF RepeatsNeedOverlap
<1> QED
  BY <1>1, Inductive, PTL DEF Spec

=============================================================================
