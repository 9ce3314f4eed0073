------------------------ MODULE IssueCommands_proofs ------------------------
(***************************************************************************)
(* Proofs about IssueCommands, for every number of jobs, workers, issues,  *)
(* files, stored suggestions, pushes and faults.                           *)
(***************************************************************************)
EXTENDS IssueCommands, FiniteSetTheorems, WellFoundedInduction, TLAPS

Row    == [status : {"open", "closed"}, fix : Nat]
Name   == Issues \X {NoJob}
Branch == [name : Name, commit : Commit]
PR     == [issue : Issues, head : Name, commit : Commit, state : {"open", "merged", "closed"}]
Mem    == [pc : PCs, base : Version, todo : SUBSET (Ids \cup Issues), entries : SUBSET Entry,
           pr : Nat, closed : 0 .. MaxCloseIssues]

\* What the variables hold.
QueueType ==
  /\ phase \in [Jobs -> {"new", "waiting", "taken", "done", "failed"}]
  /\ tries \in [Jobs -> Nat]
  /\ holds \in [Workers -> Jobs \cup {NoJob}]
  /\ cmd \in [Jobs -> [what : Commands, issue : Issues \cup {0}]]
  /\ merged \in BOOLEAN

TableType ==
  /\ row \in [Issues -> Row] /\ \A i \in Issues : row[i].fix <= Len(prs)
  /\ open \in [Issues -> BOOLEAN]
  /\ comments \in [Issues -> SUBSET {"fix", "no fix", "denied", "resolved"}]
  /\ main \in Seq(Tree) /\ Len(main) \in 1 .. MaxPushes
  /\ branches \subseteq Branch
  /\ prs \in Seq(PR)

Types == QueueType /\ TableType /\ mem \in [Workers -> Mem] /\ faults \in 0 .. MaxFaults

Busy(w) == ~ At(w, "idle")
What(w) == cmd[holds[w]].what

\* A busy worker has a job that was sent, and what was sent is a command.
Order ==
  /\ \A w \in Workers : Busy(w) <=> holds[w] \in Jobs
  /\ \A w \in Workers : holds[w] \in Jobs => phase[holds[w]] # "new"
  /\ \A j \in Jobs : phase[j] # "new" =>
       /\ cmd[j].what # "none"
       /\ cmd[j].what # "close" => cmd[j].issue \in Issues

Answering == {"read", "base", "fixes", "noFix", "branch", "pr", "comment",
              "record", "denyComment", "denyEdit", "denyRow"}
Closing   == {"list", "closeComment", "closeEdit", "closeRow"}

\* Entries were read at their commit.
ReadAt(entries, commit) ==
  \A e \in entries : commit \in DOMAIN main /\ e.rev = main[commit][e.file].rev

AllResolved == \A i \in PRIssues : row[i].status = "closed"

\* Where a worker is in the work on an issue ...
Fixing(w) ==
  /\ mem[w].pr <= Len(prs)
  /\ IsFiniteSet(mem[w].entries) /\ Cardinality(mem[w].entries) <= MaxFixFiles
  /\ mem[w].pc \in Answering => What(w) # "close"
  /\ mem[w].pc \in {"read", "base"} => mem[w].entries = {}
  /\ ReadAt(mem[w].entries, mem[w].base)
  /\ mem[w].pc \in {"fixes", "branch"} => mem[w].base \in DOMAIN main
  /\ mem[w].pc = "fixes" => mem[w].todo \subseteq Ids
  /\ mem[w].pc = "pr" => \E b \in branches : b.name = BranchName(w)
  /\ mem[w].pc = "denyRow" => ~ open[Issue(w)]

\* ... and in the work on the issues of a merged pull request.
Resolving(w) ==
  /\ mem[w].pc \in Closing => What(w) = "close"
  /\ mem[w].pc = "list" => mem[w].closed = 0
  /\ mem[w].pc \in Closing \ {"list"} =>
       /\ mem[w].todo \subseteq PRIssues
       /\ \A i \in PRIssues : row[i].status = "closed" \/ i \in mem[w].todo
       /\ mem[w].closed + Cardinality(mem[w].todo) <= Cardinality(PRIssues)
  /\ mem[w].pc \in {"closeEdit", "closeRow"} =>
       mem[w].todo # {} /\ mem[w].closed < MaxCloseIssues
  /\ mem[w].pc = "closeRow" => ~ open[Least(mem[w].todo)]
  /\ mem[w].pc = "completeJob" /\ What(w) = "close"
       /\ Cardinality(PRIssues) <= MaxCloseIssues => AllResolved

\* Branches and pull requests hold commits whose files were read at the parent.
Commits ==
  /\ \A b \in branches : ReadAt(b.commit.entries, b.commit.parent)
  /\ \A n \in DOMAIN prs : ReadAt(prs[n].commit.entries, prs[n].commit.parent)

\* A pull request is for the branch that is named after its issue.
Heads == \A n \in DOMAIN prs : prs[n].head = <<prs[n].issue, NoJob>>

Base == Types /\ Order
Stages == \A w \in Workers : Fixing(w) /\ Resolving(w)
IInv == Base /\ Stages /\ Commits /\ Heads
        /\ ClosedRowClosedIssue /\ OneOpenFixPR /\ MergedMeansResolved

-----------------------------------------------------------------------------
(* Operators of the model *)

\* Numbers have a least one.
LEMMA LeastExists ==
  ASSUME NEW T, T \subseteq Nat, T # {}
  PROVE  \E x \in T : \A y \in T : x <= y
<1> DEFINE Below(x) == {y \in T : y <= x}
<1> DEFINE Belows == {Below(x) : x \in T}
<1>1. Belows # {}
  OBVIOUS
<1>2. Belows \subseteq FiniteSubsetsOf(T)
  <2> SUFFICES ASSUME NEW x \in T PROVE Below(x) \in FiniteSubsetsOf(T)
    OBVIOUS
  <2>1. x \in Nat /\ Below(x) \in SUBSET Nat /\ \A y \in Below(x) : y <= x
    OBVIOUS
  <2>2. IsFiniteSet(Below(x))
    <3> HIDE DEF Below
    <3> QED
      BY <2>1, FS_BoundedSetOfNaturals
  <2> QED
    BY <2>2 DEF FiniteSubsetsOf
<1>3. PICK B \in Belows : \A C \in Belows : ~ (<<C, B>> \in StrictSubsetOrdering(T))
  <2> HIDE DEF Belows
  <2> QED
    BY <1>1, <1>2, FS_StrictSubsetOrderingWellFounded, WFMin
<1>4. PICK x \in T : B = Below(x)
  BY <1>3
<1>5. ASSUME NEW y \in T, y < x PROVE FALSE
  <2>0. x \in Nat /\ y \in Nat /\ \A z \in T : z \in Nat
    OBVIOUS
  <2>1. Below(y) \subseteq Below(x)
    <3>1. ASSUME NEW z \in T, z <= y PROVE z <= x
      BY <1>5, <2>0, <3>1
    <3> QED
      BY <3>1
  <2>2. x \in Below(x) /\ x \notin Below(y)
    BY <1>5, <2>0
  <2>3. <<Below(y), Below(x)>> \in StrictSubsetOrdering(T)
    BY <2>1, <2>2 DEF StrictSubsetOrdering
  <2> QED
    BY <1>3, <1>4, <2>3
<1> QED
  BY <1>5


\* The least of some numbers is one of them.
LEMMA LeastIn ==
  ASSUME NEW T, T \subseteq Nat, T # {}
  PROVE  Least(T) \in T
BY LeastExists DEF Least

\* What the constants give.
LEMMA Constant ==
  /\ Ids \subseteq Nat /\ Issues \subseteq Nat /\ PRIssues \subseteq Issues
  /\ IsFiniteSet(PRIssues)
  /\ \A id \in Ids : (CHOOSE x \in Stored : x.id = id) \in Stored
  /\ \A x \in Stored : x.id \in Ids /\ x.file \in Files
  /\ MaxPushes \in Nat \ {0} /\ MaxFixFiles \in Nat \ {0} /\ MaxCloseIssues \in Nat
  /\ MaxFaults \in Nat /\ NoJob \notin Jobs
<1>1. \A id \in Ids : \E x \in Stored : x.id = id
  BY DEF Ids
<1>2. \A x \in Stored : x.id \in Nat /\ x.file \in Files
  BY IssueCommandsAssumption
<1>3. IsFiniteSet(PRIssues)
  BY IssueCommandsAssumption, FS_Subset
<1> QED
  BY <1>1, <1>2, <1>3, IssueCommandsAssumption DEF Ids

\* A commit holds entries of the fix.
LEMMA CommitType ==
  ASSUME NEW w \in Workers, mem[w] \in Mem
  PROVE  NewCommit(w) \in Commit /\ NewCommit(w).parent = mem[w].base
         /\ NewCommit(w).entries \subseteq mem[w].entries
BY DEF NewCommit, Commit, Mem

\* A row is closed.
LEMMA RowClosed ==
  ASSUME row \in [Issues -> Row], \A i \in Issues : row[i].fix <= Len(prs),
         NEW k \in Issues, row' = [row EXCEPT ![k].status = "closed"]
  PROVE  /\ row' \in [Issues -> Row] /\ \A i \in Issues : row'[i].fix <= Len(prs)
         /\ \A i \in Issues : row[i].status = "closed" => row'[i].status = "closed"
         /\ \A i \in Issues : row'[i].status = "closed" => row[i].status = "closed" \/ i = k
         /\ row'[k].status = "closed"
<1> DEFINE r == [row[k] EXCEPT !.status = "closed"]
<1>1. r \in Row /\ r.status = "closed" /\ r.fix = row[k].fix
  BY DEF Row
<1>2. row' = [row EXCEPT ![k] = r]
  OBVIOUS
<1> HIDE DEF r
<1> QED
  BY <1>1, <1>2

\* Pull requests are counted.
LEMMA PRCount ==
  /\ TableType => Len(prs) \in Nat
  /\ TableType' => Len(prs') \in Nat
  /\ TableType /\ prs' = prs => Len(prs) <= Len(prs')
<1>1. \A s \in Seq(PR) : Len(s) \in Nat
  OBVIOUS
<1>2. \A n \in Nat : n <= n
  OBVIOUS
<1> QED
  BY <1>1, <1>2 DEF TableType

-----------------------------------------------------------------------------
(* Steps of one worker *)

\* A step of w within its job.
Within(w) ==
  /\ UNCHANGED <<queue, people>>
  /\ Busy(w) /\ mem'[w].pc # "idle"
  /\ mem' \in [Workers -> Mem]
  /\ \A v \in Workers : v # w => mem'[v] = mem[v]
  /\ faults' \in 0 .. MaxFaults

\* Nothing is undone in the tables and on GitHub.
Forth ==
  /\ TableType'
  /\ \A v \in DOMAIN main : v \in DOMAIN main' /\ main'[v] = main[v]
  /\ branches \subseteq branches'
  /\ \A i \in Issues : /\ ~ open[i] => ~ open'[i]
                       /\ row[i].status = "closed" => row'[i].status = "closed"
  /\ Len(prs) <= Len(prs')

\* What w remembers apart from the statement it is at.
Kept(w) ==
  /\ mem'[w].base = mem[w].base /\ mem'[w].todo = mem[w].todo
  /\ mem'[w].entries = mem[w].entries /\ mem'[w].pr = mem[w].pr
  /\ mem'[w].closed = mem[w].closed

\* The job of a busy worker.
LEMMA BusyJob ==
  ASSUME Base, NEW w \in Workers, Busy(w)
  PROVE  /\ holds[w] \in Jobs /\ What(w) \in Commands \ {"none"}
         /\ What(w) # "close" => Issue(w) \in Issues
<1>1. holds[w] \in Jobs /\ phase[holds[w]] # "new"
  BY DEF Base, Order
<1>2. cmd[holds[w]].what # "none" /\ (cmd[holds[w]].what # "close" => cmd[holds[w]].issue \in Issues)
  BY <1>1 DEF Base, Order
<1>3. cmd[holds[w]].what \in Commands
  BY <1>1 DEF Base, Types, QueueType
<1> QED
  BY <1>1, <1>2, <1>3 DEF What, Issue

\* Such a step keeps jobs and workers in order.
LEMMA WithinOrder ==
  ASSUME Base, NEW w \in Workers, Within(w), TableType'
  PROVE  Base' /\ \A v \in Workers : What(v)' = What(v) /\ Issue(v)' = Issue(v)
<1>1. \A v \in Workers : Busy(v)' <=> Busy(v)
  BY DEF Within, Busy, At
<1>2. UNCHANGED <<phase, tries, holds, cmd, merged>>
  BY DEF Within, queue, people
<1>3. Order'
  BY <1>1, <1>2 DEF Base, Order
<1>4. Types'
  BY <1>2 DEF Base, Types, QueueType, Within
<1> QED
  BY <1>2, <1>3, <1>4 DEF Base, What, Issue

\* A fault is counted.
LEMMA FaultType ==
  ASSUME Base, Fault \/ UNCHANGED faults
  PROVE  faults' \in 0 .. MaxFaults
BY Constant DEF Base, Types, Fault, MayFault

\* Memory that is well typed may take any form within a job.
LEMMA BecomesWithin ==
  ASSUME Base, NEW w \in Workers, Busy(w),
         NEW m \in Mem, m.pc # "idle", mem' = [mem EXCEPT ![w] = m],
         UNCHANGED <<queue, people>>, faults' \in 0 .. MaxFaults
  PROVE  Within(w) /\ mem'[w] = m
<1>1. mem \in [Workers -> Mem]
  BY DEF Base, Types
<1>2. /\ mem' \in [Workers -> Mem]
      /\ mem'[w] = m
      /\ \A v \in Workers : v # w => mem'[v] = mem[v]
  BY <1>1
<1> QED
  BY <1>2 DEF Within

\* Another statement is reached.
LEMMA GoToWithin ==
  ASSUME Base, NEW w \in Workers, Busy(w),
         NEW pc \in PCs \ {"idle"}, GoTo(w, pc), UNCHANGED <<queue, people>>,
         faults' \in 0 .. MaxFaults
  PROVE  Within(w) /\ mem'[w].pc = pc /\ Kept(w)
<1> DEFINE m == [mem[w] EXCEPT !.pc = pc]
<1>1. mem \in [Workers -> Mem] /\ mem[w] \in Mem
  BY DEF Base, Types
<1>2. /\ m \in Mem /\ m.pc = pc /\ m.base = mem[w].base /\ m.todo = mem[w].todo
      /\ m.entries = mem[w].entries /\ m.pr = mem[w].pr /\ m.closed = mem[w].closed
  BY <1>1 DEF Mem
<1>3. mem' = [mem EXCEPT ![w] = m]
  BY <1>1 DEF GoTo
<1> HIDE DEF m
<1> QED
  BY <1>2, <1>3, BecomesWithin DEF Kept

\* A call whose answer may be lost.
LEMMA ProceedWithin ==
  ASSUME Base, NEW w \in Workers, Busy(w),
         NEW pc \in PCs \ {"idle"}, Proceed(w, pc), UNCHANGED <<queue, people>>
  PROVE  Within(w) /\ mem'[w].pc \in {pc, "failJob"} /\ Kept(w)
<1>1. "failJob" \in PCs \ {"idle"}
  BY DEF PCs
<1>2. faults' \in 0 .. MaxFaults
  BY FaultType DEF Proceed
<1>3. PICK p \in {pc, "failJob"} : GoTo(w, p)
  BY DEF Proceed
<1> QED
  BY <1>1, <1>2, <1>3, GoToWithin

\* What others do does not mislead a worker.
LEMMA StillStage ==
  ASSUME Base, Stages, Forth, NEW v \in Workers, mem'[v] = mem[v],
         What(v)' = What(v), Issue(v)' = Issue(v)
  PROVE  Fixing(v)' /\ Resolving(v)'
<1>0. /\ TableType /\ TableType' /\ mem[v] \in Mem /\ Fixing(v) /\ Resolving(v)
      /\ mem[v].pc \in Answering => What(v) # "close"
  BY DEF Base, Types, Stages, Forth, Fixing
<1>1. Fixing(v)'
  <2>1. ReadAt(mem[v].entries, mem[v].base)'
    <3>1. \A e \in mem[v].entries :
            mem[v].base \in DOMAIN main /\ e.rev = main[mem[v].base][e.file].rev
      BY <1>0 DEF Fixing, ReadAt
    <3>2. \A e \in mem[v].entries :
            mem[v].base \in DOMAIN main' /\ e.rev = main'[mem[v].base][e.file].rev
      BY <3>1 DEF Forth
    <3> QED
      BY <3>2 DEF ReadAt
  <2>2. mem[v].pr <= Len(prs')
    <3>1. Len(prs) \in Nat /\ Len(prs') \in Nat /\ mem[v].pr \in Nat
      BY <1>0, PRCount DEF Mem
    <3>2. mem[v].pr <= Len(prs) /\ Len(prs) <= Len(prs')
      BY <1>0 DEF Fixing, Forth
    <3> QED
      BY <3>1, <3>2
  <2>3. mem[v].pc = "denyRow" => ~ open'[Issue(v)]
    <3>1. ASSUME mem[v].pc = "denyRow" PROVE Issue(v) \in Issues
      BY <1>0, <3>1, BusyJob DEF Answering, Busy, At
    <3> QED
      BY <1>0, <3>1 DEF Fixing, Forth
  <2>4. mem[v].pc = "pr" => \E b \in branches' : b.name = BranchName(v)
    BY <1>0 DEF Fixing, Forth
  <2>5. BranchName(v)' = BranchName(v)
    BY DEF BranchName
  <2> QED
    BY <1>0, <2>1, <2>2, <2>3, <2>4, <2>5 DEF Fixing, Forth
<1>2. Resolving(v)'
  <2>1. \A i \in PRIssues : row[i].status = "closed" => row'[i].status = "closed"
    BY Constant DEF Forth
  <2>2. AllResolved => AllResolved'
    BY <2>1 DEF AllResolved
  <2>3. mem[v].pc = "closeRow" => ~ open'[Least(mem[v].todo)]
    <3>1. ASSUME mem[v].pc = "closeRow" PROVE Least(mem[v].todo) \in Issues
      <4>1. mem[v].todo \subseteq PRIssues /\ mem[v].todo # {}
        BY <1>0, <3>1 DEF Resolving, Closing
      <4> QED
        BY <4>1, LeastIn, Constant
    <3> QED
      BY <1>0, <3>1 DEF Resolving, Forth
  <2> QED
    BY <1>0, <2>1, <2>2, <2>3 DEF Resolving
<1> QED
  BY <1>1, <1>2

\* A step within a job keeps the invariant if it leaves its own worker and what
\* it changed in order.
LEMMA WithinIInv ==
  ASSUME IInv, NEW w \in Workers, Within(w), Forth, Fixing(w)', Resolving(w)',
         Commits', Heads', ClosedRowClosedIssue', OneOpenFixPR'
  PROVE  IInv'
<1>1. Base' /\ \A v \in Workers : What(v)' = What(v) /\ Issue(v)' = Issue(v)
  BY WithinOrder DEF IInv, Forth
<1>2. Stages'
  <2> SUFFICES ASSUME NEW v \in Workers, v # w PROVE Fixing(v)' /\ Resolving(v)'
    BY DEF Stages
  <2>1. mem'[v] = mem[v]
    BY DEF Within
  <2> QED
    BY <1>1, <2>1, StillStage DEF IInv
<1>3. MergedMeansResolved'
  <2>1. \A i \in PRIssues : row[i].status = "closed" => row'[i].status = "closed"
    BY Constant DEF Forth
  <2> QED
    BY <2>1 DEF IInv, MergedMeansResolved, Within, queue, people
<1> QED
  BY <1>1, <1>2, <1>3 DEF IInv

\* Commits stay what they are.
LEMMA StillCommits ==
  ASSUME IInv, Forth, UNCHANGED <<branches, prs>>
  PROVE  Commits' /\ Heads' /\ OneOpenFixPR'
<1>1. \A c \in Version, E \in SUBSET Entry : ReadAt(E, c) => ReadAt(E, c)'
  BY DEF ReadAt, Forth
<1>2. \A b \in branches : b.commit.entries \in SUBSET Entry /\ b.commit.parent \in Version
  BY DEF IInv, Base, Types, TableType, Branch, Commit
<1>3. \A n \in DOMAIN prs : prs[n].commit.entries \in SUBSET Entry /\ prs[n].commit.parent \in Version
  <2>1. prs \in Seq(PR)
    BY DEF IInv, Base, Types, TableType
  <2>2. \A n \in DOMAIN prs : prs[n] \in PR
    BY <2>1
  <2> QED
    BY <2>2 DEF PR, Commit
<1>4. Commits'
  BY <1>1, <1>2, <1>3 DEF IInv, Commits
<1> QED
  BY <1>4 DEF IInv, Heads, OneOpenFixPR

\* The tables are as they were, but for comments.
LEMMA SameTables ==
  ASSUME IInv, UNCHANGED <<row, open, main, branches, prs>>,
         comments' \in [Issues -> SUBSET {"fix", "no fix", "denied", "resolved"}]
  PROVE  Forth /\ Commits' /\ Heads' /\ OneOpenFixPR' /\ ClosedRowClosedIssue'
<1>1. TableType
  BY DEF IInv, Base, Types
<1>2. TableType'
  BY <1>1 DEF TableType
<1>3. Len(prs) <= Len(prs')
  BY <1>1, PRCount
<1>4. Forth
  BY <1>2, <1>3 DEF Forth
<1> QED
  BY <1>4, StillCommits DEF IInv, ClosedRowClosedIssue

-----------------------------------------------------------------------------
(* Where a worker stands *)

\* A step of the work on an issue does not concern pull requests that merge.
LEMMA FixResolving ==
  ASSUME Base, NEW w \in Workers, Within(w), What(w) # "close",
         mem'[w].pc \notin Closing
  PROVE  Resolving(w)'
<1>1. What(w)' = What(w)
  BY DEF What, Within, queue, people
<1> QED
  BY <1>1 DEF Resolving, Closing

\* A step that leaves the fix as it is.
LEMMA KeptFixing ==
  ASSUME IInv, NEW w \in Workers, Within(w), Forth,
         mem'[w].base = mem[w].base, mem'[w].entries = mem[w].entries,
         mem'[w].pr = mem[w].pr,
         mem'[w].pc \in Answering => mem[w].pc \in Answering,
         mem'[w].pc \in {"read", "base"} => mem[w].pc = "read",
         mem'[w].pc # "fixes",
         mem'[w].pc = "branch" => mem[w].pc = "fixes",
         mem'[w].pc = "pr" => \E b \in branches' : b.name = BranchName(w),
         mem'[w].pc = "denyRow" => ~ open'[Issue(w)]
  PROVE  Fixing(w)'
<1>0. Fixing(w) /\ mem[w] \in Mem /\ TableType /\ TableType'
  BY DEF IInv, Stages, Base, Types, Forth
<1>1. What(w)' = What(w) /\ Issue(w)' = Issue(w) /\ BranchName(w)' = BranchName(w)
  BY DEF What, Issue, BranchName, Within, queue, people
<1>2. ReadAt(mem[w].entries, mem[w].base)'
  <2>1. \A e \in mem[w].entries :
          mem[w].base \in DOMAIN main /\ e.rev = main[mem[w].base][e.file].rev
    BY <1>0 DEF Fixing, ReadAt
  <2>2. \A e \in mem[w].entries :
          mem[w].base \in DOMAIN main' /\ e.rev = main'[mem[w].base][e.file].rev
    BY <2>1 DEF Forth
  <2> QED
    BY <2>2 DEF ReadAt
<1>3. mem[w].pr <= Len(prs')
  <2>1. Len(prs) \in Nat /\ Len(prs') \in Nat /\ mem[w].pr \in Nat
    BY <1>0, PRCount DEF Mem
  <2>2. mem[w].pr <= Len(prs) /\ Len(prs) <= Len(prs')
    BY <1>0 DEF Fixing, Forth
  <2> QED
    BY <2>1, <2>2
<1> QED
  BY <1>0, <1>1, <1>2, <1>3 DEF Fixing, Forth

\* A step to the end of a job that failed.
LEMMA FailedStage ==
  ASSUME IInv, NEW w \in Workers, Within(w), Forth, Kept(w), mem'[w].pc = "failJob"
  PROVE  Fixing(w)' /\ Resolving(w)'
<1>1. Fixing(w)'
  BY KeptFixing DEF Kept, Answering
<1>2. Resolving(w)'
  BY DEF Resolving, Closing
<1> QED
  BY <1>1, <1>2

\* A step that leaves the issues of a merged pull request to be closed as they
\* are, for a worker that closes them.
LEMMA CloseFixing ==
  ASSUME IInv, NEW w \in Workers, Within(w), Forth,
         mem'[w].base = mem[w].base, mem'[w].entries = mem[w].entries,
         mem'[w].pr = mem[w].pr, mem'[w].pc \in Closing \cup {"completeJob"}
  PROVE  Fixing(w)'
BY KeptFixing DEF Answering, Closing

\* A step that changes no table but the comments.
LEMMA StillIInv ==
  ASSUME IInv, NEW w \in Workers, Within(w), UNCHANGED <<row, open, main, branches, prs>>,
         comments' \in [Issues -> SUBSET {"fix", "no fix", "denied", "resolved"}],
         Fixing(w)', Resolving(w)'
  PROVE  IInv'
BY SameTables, WithinIInv

-----------------------------------------------------------------------------
(* The steps of an approval *)

\* Any call fails.
LEMMA CallFailsIInv ==
  ASSUME IInv, NEW w \in Workers, CallFails(w)
  PROVE  IInv'
<1>0. Base /\ Busy(w) /\ UNCHANGED <<queue, people, row, open, main, branches, prs, comments>>
  BY DEF IInv, CallFails, Busy, At, github
<1>1. Within(w) /\ mem'[w].pc = "failJob" /\ Kept(w)
  BY <1>0, FaultType, GoToWithin DEF CallFails, PCs
<1>2. comments' \in [Issues -> SUBSET {"fix", "no fix", "denied", "resolved"}]
  BY <1>0 DEF Base, Types, TableType
<1> QED
  BY <1>0, <1>1, <1>2, SameTables, FailedStage, StillIInv

\* Steps that lead to another statement of an answer.
LEMMA AnswerIInv ==
  ASSUME IInv, NEW w \in Workers, ReadIssue(w) \/ FixesRead(w)
  PROVE  IInv'
<1>0. /\ Base /\ Busy(w) /\ mem[w].pc \in {"read", "fixes"}
      /\ UNCHANGED <<queue, people, row, open, main, branches, prs, comments, faults>>
  BY DEF IInv, ReadIssue, FixesRead, Busy, At, github
<1>1. comments' \in [Issues -> SUBSET {"fix", "no fix", "denied", "resolved"}]
  BY <1>0 DEF Base, Types, TableType
<1>2. What(w) # "close"
  BY <1>0 DEF IInv, Stages, Fixing, Answering
<1>3. PICK pc \in {"completeJob", "denyComment", "base", "noFix", "branch"} :
        /\ GoTo(w, pc)
        /\ pc = "base" => mem[w].pc = "read"
        /\ pc = "branch" => mem[w].pc = "fixes"
  BY DEF ReadIssue, FixesRead, At
<1>4. Within(w) /\ mem'[w].pc = pc /\ Kept(w)
  BY <1>0, <1>3, FaultType, GoToWithin DEF PCs
<1>5. Fixing(w)'
  BY <1>0, <1>1, <1>3, <1>4, SameTables, KeptFixing DEF Kept, Answering
<1>6. Resolving(w)'
  BY <1>0, <1>2, <1>3, <1>4, FixResolving DEF Closing
<1> QED
  BY <1>0, <1>1, <1>4, <1>5, <1>6, StillIInv

\* Steps that say something.
LEMMA SayIInv ==
  ASSUME IInv, NEW w \in Workers, SayNoFix(w) \/ SayFixed(w) \/ SayDenied(w)
  PROVE  IInv'
<1>0. /\ Base /\ Busy(w) /\ mem[w].pc \in {"noFix", "comment", "denyComment"}
      /\ UNCHANGED <<queue, people, row, open, main, branches, prs>>
  BY DEF IInv, SayNoFix, SayFixed, SayDenied, Busy, At
<1>1. What(w) # "close"
  BY <1>0 DEF IInv, Stages, Fixing, Answering
<1>2. Issue(w) \in Issues
  BY <1>0, <1>1, BusyJob
<1>3. comments' \in [Issues -> SUBSET {"fix", "no fix", "denied", "resolved"}]
  <2>1. comments \in [Issues -> SUBSET {"fix", "no fix", "denied", "resolved"}]
    BY <1>0 DEF Base, Types, TableType
  <2>2. \/ UNCHANGED comments
        \/ \E c \in {"fix", "no fix", "denied"} :
             comments' = [comments EXCEPT ![Issue(w)] = @ \cup {c}]
    BY DEF SayNoFix, SayFixed, SayDenied
  <2> QED
    BY <1>2, <2>1, <2>2
<1>4. Within(w) /\ mem'[w].pc \in {"completeJob", "failJob", "record", "denyEdit"} /\ Kept(w)
  <2>1. CASE SayNoFix(w)
    BY <1>0, <2>1, ProceedWithin DEF SayNoFix, PCs
  <2>2. CASE SayFixed(w)
    BY <1>0, <2>2, FaultType, GoToWithin DEF SayFixed, PCs
  <2>3. CASE SayDenied(w)
    BY <1>0, <2>3, FaultType, GoToWithin DEF SayDenied, PCs
  <2> QED
    BY <2>1, <2>2, <2>3
<1>5. Fixing(w)'
  BY <1>0, <1>3, <1>4, SameTables, KeptFixing DEF Kept, Answering
<1>6. Resolving(w)'
  BY <1>0, <1>1, <1>4, FixResolving DEF Closing
<1> QED
  BY <1>0, <1>3, <1>4, <1>5, <1>6, StillIInv

\* The commit to fix is read.
LEMMA ReadBaseIInv ==
  ASSUME IInv, NEW w \in Workers, ReadBase(w)
  PROVE  IInv'
<1>0. /\ Base /\ Busy(w) /\ mem[w].pc = "base" /\ Fixing(w) /\ TableType
      /\ mem \in [Workers -> Mem] /\ mem[w] \in Mem
      /\ UNCHANGED <<queue, people, row, open, main, branches, prs, comments, faults>>
  BY DEF IInv, Base, Types, Stages, ReadBase, Busy, At, github
<1>1. comments' \in [Issues -> SUBSET {"fix", "no fix", "denied", "resolved"}]
  BY <1>0 DEF TableType
<1>2. What(w) # "close" /\ mem[w].entries = {}
  BY <1>0 DEF Fixing, Answering
<1> DEFINE ids == {x.id : x \in {y \in Stored : y.issue = Issue(w)}}
<1> DEFINE m == [mem[w] EXCEPT !.base = Len(main), !.pc = "fixes", !.todo = ids]
<1>3. ids \subseteq Ids
  BY Constant
<1>4. Len(main) \in Version /\ Len(main) \in DOMAIN main
  <2>1. Len(main) \in 1 .. MaxPushes /\ main \in Seq(Tree)
    BY <1>0 DEF TableType
  <2> QED
    BY <2>1, Constant DEF Version
<1>5. mem' = [mem EXCEPT ![w] = m]
  BY <1>0 DEF ReadBase
<1> HIDE DEF ids
<1>6. /\ m \in Mem /\ m.pc = "fixes" /\ m.base = Len(main) /\ m.todo = ids
      /\ m.entries = mem[w].entries /\ m.pr = mem[w].pr
  BY <1>0, <1>3, <1>4 DEF Mem, PCs
<1> HIDE DEF m
<1>7. Within(w) /\ mem'[w] = m
  BY <1>0, <1>5, <1>6, FaultType, BecomesWithin
<1>8. What(w)' = What(w)
  BY <1>0 DEF What, queue, people
<1>9. Fixing(w)'
  BY <1>0, <1>2, <1>3, <1>4, <1>6, <1>7, <1>8 DEF Fixing, ReadAt
<1>10. Resolving(w)'
  BY <1>0, <1>2, <1>6, <1>7, FixResolving DEF Closing
<1> QED
  BY <1>0, <1>1, <1>7, <1>9, <1>10, StillIInv

\* A file is read.
LEMMA ReadFixIInv ==
  ASSUME IInv, NEW w \in Workers, ReadFix(w)
  PROVE  IInv'
<1>0. /\ Base /\ Busy(w) /\ mem[w].pc = "fixes" /\ Fixing(w) /\ TableType
      /\ mem \in [Workers -> Mem] /\ mem[w] \in Mem
      /\ UNCHANGED <<queue, people, row, open, main, branches, prs, comments>>
  BY DEF IInv, Base, Types, Stages, ReadFix, Busy, At, github
<1>1. comments' \in [Issues -> SUBSET {"fix", "no fix", "denied", "resolved"}]
  BY <1>0 DEF TableType
<1>2. /\ What(w) # "close" /\ mem[w].base \in DOMAIN main /\ mem[w].todo \subseteq Ids
      /\ IsFiniteSet(mem[w].entries) /\ ReadAt(mem[w].entries, mem[w].base)
  BY <1>0 DEF Fixing, Answering
<1>3. mem[w].todo # {} /\ Cardinality(mem[w].entries) < MaxFixFiles
  <2>1. mem[w].todo # {} /\ ~ (Cardinality(mem[w].entries) >= MaxFixFiles)
    BY DEF ReadFix, Full
  <2>2. Cardinality(mem[w].entries) \in Nat
    BY <1>2, FS_CardinalityType
  <2> QED
    BY <2>1, <2>2, Constant
<1>4. PICK id \in Ids, file \in Files :
        /\ \/ mem' = [mem EXCEPT ![w].todo = @ \ {id},
                        ![w].entries = @ \cup {[id |-> id, file |-> file,
                                                rev |-> main[mem[w].base][file].rev]}]
           \/ mem' = [mem EXCEPT ![w].todo = @ \ {id}]
        /\ Fault \/ UNCHANGED faults
  <2> DEFINE i == Least(mem[w].todo)
             f == (CHOOSE x \in Stored : x.id = i).file
  <2>1. \/ mem' = [mem EXCEPT ![w].todo = @ \ {i},
                      ![w].entries = @ \cup {[id |-> i, file |-> f,
                                              rev |-> main[mem[w].base][f].rev]}]
        \/ mem' = [mem EXCEPT ![w].todo = @ \ {i}]
    BY DEF ReadFix, ReadRef
  <2>2. Fault \/ UNCHANGED faults
    BY DEF ReadFix
  <2>3. i \in Ids
    BY <1>2, <1>3, LeastIn, Constant
  <2> HIDE DEF i
  <2>4. (CHOOSE x \in Stored : x.id = i) \in Stored
    BY <2>3, Constant
  <2>5. f \in Files
    BY <2>4, Constant
  <2> HIDE DEF f
  <2> QED
    BY <2>1, <2>2, <2>3, <2>5
<1>6. main[mem[w].base] \in Tree
  <2>1. main \in Seq(Tree)
    BY <1>0 DEF TableType
  <2> QED
    BY <1>2, <2>1
<1> DEFINE e == [id |-> id, file |-> file, rev |-> main[mem[w].base][file].rev]
<1>7. e \in Entry /\ e.rev = main[mem[w].base][e.file].rev
  BY <1>6 DEF Entry, Tree
<1>8. PICK E : /\ E = mem[w].entries \/ E = mem[w].entries \cup {e}
               /\ mem' = [mem EXCEPT ![w].todo = @ \ {id}, ![w].entries = E]
  <2>1. CASE mem' = [mem EXCEPT ![w].todo = @ \ {id}]
    <3>1. mem' = [mem EXCEPT ![w].todo = @ \ {id}, ![w].entries = mem[w].entries]
      BY <1>0, <2>1 DEF Mem
    <3> QED
      BY <3>1
  <2>2. CASE mem' = [mem EXCEPT ![w].todo = @ \ {id}, ![w].entries = @ \cup {e}]
    <3>1. mem' = [mem EXCEPT ![w].todo = @ \ {id}, ![w].entries = mem[w].entries \cup {e}]
      BY <1>0, <2>2 DEF Mem
    <3> QED
      BY <3>1
  <2> QED
    BY <1>4, <2>1, <2>2
<1> HIDE DEF e
<1>9. /\ E \subseteq Entry /\ IsFiniteSet(E) /\ Cardinality(E) <= MaxFixFiles
      /\ ReadAt(E, mem[w].base)
  <2>1. Cardinality(mem[w].entries) \in Nat
    BY <1>2, FS_CardinalityType
  <2>2. CASE E = mem[w].entries
    BY <1>0, <1>2, <1>3, <2>1, <2>2, Constant DEF Mem
  <2>3. CASE E = mem[w].entries \cup {e}
    <3>1. /\ IsFiniteSet(E)
          /\ Cardinality(E) \in {Cardinality(mem[w].entries), Cardinality(mem[w].entries) + 1}
      BY <1>2, <2>3, FS_AddElement
    <3>2. Cardinality(E) <= MaxFixFiles
      BY <1>3, <2>1, <3>1, Constant
    <3>3. E \subseteq Entry
      BY <1>0, <1>7, <2>3 DEF Mem
    <3>4. ReadAt(E, mem[w].base)
      BY <1>2, <1>7, <2>3 DEF ReadAt
    <3> QED
      BY <3>1, <3>2, <3>3, <3>4
  <2> QED
    BY <1>8, <2>2, <2>3
<1> DEFINE m == [mem[w] EXCEPT !.todo = @ \ {id}, !.entries = E]
<1>10. /\ m \in Mem /\ m.pc = "fixes" /\ m.base = mem[w].base /\ m.pr = mem[w].pr
       /\ m.entries = E /\ m.todo \subseteq Ids
       /\ mem' = [mem EXCEPT ![w] = m]
  BY <1>0, <1>2, <1>8, <1>9 DEF Mem
<1> HIDE DEF m
<1>11. Within(w) /\ mem'[w] = m
  BY <1>0, <1>4, <1>10, FaultType, BecomesWithin
<1>12. What(w)' = What(w)
  BY <1>0 DEF What, queue, people
<1>13. Fixing(w)'
  <2>1. mem'[w].pr <= Len(prs')
    BY <1>0, <1>10, <1>11 DEF Fixing
  <2>2. ReadAt(mem[w].entries, mem[w].base)'
    <3>1. \A d \in mem'[w].entries :
            mem'[w].base \in DOMAIN main' /\ d.rev = main'[mem'[w].base][d.file].rev
      BY <1>0, <1>9, <1>10, <1>11 DEF ReadAt
    <3> QED
      BY <3>1 DEF ReadAt
  <2> QED
    BY <1>0, <1>2, <1>9, <1>10, <1>11, <1>12, <2>1, <2>2 DEF Fixing
<1>14. Resolving(w)'
  BY <1>0, <1>2, <1>10, <1>11, FixResolving DEF Closing
<1> QED
  BY <1>0, <1>1, <1>11, <1>13, <1>14, StillIInv


\* A branch is made, or taken as it is.
LEMMA CreateBranchIInv ==
  ASSUME IInv, NEW w \in Workers, CreateBranch(w)
  PROVE  IInv'
<1>0. /\ Base /\ Busy(w) /\ mem[w].pc = "branch" /\ Fixing(w) /\ TableType
      /\ mem[w] \in Mem
      /\ UNCHANGED <<queue, people, row, open, main, prs, comments>>
  BY DEF IInv, Base, Types, Stages, CreateBranch, Busy, At
<1>1. What(w) # "close" /\ mem[w].base \in DOMAIN main /\ ReadAt(mem[w].entries, mem[w].base)
  BY <1>0 DEF Fixing, Answering
<1>2. Within(w) /\ mem'[w].pc \in {"pr", "failJob"} /\ Kept(w)
  BY <1>0, ProceedWithin DEF CreateBranch, PCs
<1> DEFINE new == [name |-> BranchName(w), commit |-> NewCommit(w)]
<1>3. /\ branches' = branches \cup {new} \/ UNCHANGED branches
      /\ \E b \in branches' : b.name = BranchName(w)
  <2>1. CASE branches' = branches \cup {new}
    <3>1. new \in branches' /\ new.name = BranchName(w)
      BY <2>1
    <3> QED
      BY <2>1, <3>1
  <2>2. CASE (\E b \in branches : b.name = BranchName(w)) /\ UNCHANGED branches
    BY <2>2
  <2> QED
    BY <2>1, <2>2 DEF CreateBranch
<1>4. new \in Branch
  BY <1>0, <1>1, BusyJob, CommitType DEF Branch, Name, BranchName
<1>5. ReadAt(new.commit.entries, new.commit.parent)
  BY <1>0, <1>1, CommitType DEF ReadAt
<1> HIDE DEF new
<1>6. TableType'
  BY <1>0, <1>3, <1>4 DEF TableType
<1>7. Forth
  BY <1>0, <1>3, <1>6, PRCount DEF Forth
<1>8. Commits' /\ Heads'
  <2>1. \A b \in branches' : ReadAt(b.commit.entries, b.commit.parent)
    BY <1>3, <1>5 DEF IInv, Commits
  <2>2. Commits'
    BY <1>0, <2>1 DEF IInv, Commits, ReadAt
  <2> QED
    BY <1>0, <2>2 DEF IInv, Heads
<1>9. ClosedRowClosedIssue' /\ OneOpenFixPR'
  BY <1>0 DEF IInv, ClosedRowClosedIssue, OneOpenFixPR
<1>10. Fixing(w)'
  BY <1>0, <1>2, <1>3, <1>7, KeptFixing DEF Kept, Answering
<1>11. Resolving(w)'
  BY <1>0, <1>1, <1>2, FixResolving DEF Closing
<1> QED
  BY <1>2, <1>7, <1>8, <1>9, <1>10, <1>11, WithinIInv

\* A pull request is opened, or refused.
LEMMA CreatePRIInv ==
  ASSUME IInv, NEW w \in Workers, CreatePR(w)
  PROVE  IInv'
<1>0. /\ Base /\ Busy(w) /\ mem[w].pc = "pr" /\ Fixing(w) /\ TableType
      /\ mem \in [Workers -> Mem] /\ mem[w] \in Mem
      /\ UNCHANGED <<queue, people, row, open, comments, main, branches>>
  BY DEF IInv, Base, Types, Stages, CreatePR, Busy, At
<1>1. What(w) # "close" /\ \E b \in branches : b.name = BranchName(w)
  BY <1>0 DEF Fixing, Answering
<1>2. Issue(w) \in Issues
  BY <1>0, <1>1, BusyJob
<1>3. PICK b \in branches :
        /\ b.name = BranchName(w)
        /\ \/ /\ ~ Refused(b.name)
              /\ prs' = Append(prs, [issue |-> Issue(w), head |-> b.name,
                                     commit |-> b.commit, state |-> "open"])
              /\ \/ mem' = [mem EXCEPT ![w].pr = Len(prs) + 1, ![w].pc = "comment"]
                    /\ UNCHANGED faults
                 \/ Fault /\ GoTo(w, "failJob")
           \/ GoTo(w, "failJob") /\ UNCHANGED <<prs, faults>>
  <2> DEFINE b == CHOOSE b \in branches : b.name = BranchName(w)
  <2>1. b \in branches /\ b.name = BranchName(w)
    BY <1>1
  <2>2. \/ /\ ~ Refused(b.name)
           /\ prs' = Append(prs, [issue |-> Issue(w), head |-> b.name,
                                  commit |-> b.commit, state |-> "open"])
           /\ \/ mem' = [mem EXCEPT ![w].pr = Len(prs) + 1, ![w].pc = "comment"]
                 /\ UNCHANGED faults
              \/ Fault /\ GoTo(w, "failJob")
        \/ GoTo(w, "failJob") /\ UNCHANGED <<prs, faults>>
    BY DEF CreatePR
  <2> HIDE DEF b
  <2> QED
    BY <2>1, <2>2
<1>4. b \in Branch /\ b.name = <<Issue(w), NoJob>> /\ ReadAt(b.commit.entries, b.commit.parent)
  BY <1>0, <1>3 DEF TableType, BranchName, IInv, Commits
<1>5. CASE GoTo(w, "failJob") /\ UNCHANGED <<prs, faults>>
  <2>1. Within(w) /\ mem'[w].pc = "failJob" /\ Kept(w)
    BY <1>0, <1>5, FaultType, GoToWithin DEF PCs
  <2>2. comments' \in [Issues -> SUBSET {"fix", "no fix", "denied", "resolved"}]
    BY <1>0 DEF TableType
  <2>3. Forth
    BY <1>0, <1>5, <2>2, SameTables
  <2>4. Fixing(w)' /\ Resolving(w)'
    BY <2>1, <2>3, FailedStage
  <2> QED
    BY <1>0, <1>5, <2>1, <2>2, <2>4, StillIInv
<1>6. ASSUME ~ Refused(b.name),
             NEW new, new = [issue |-> Issue(w), head |-> b.name,
                             commit |-> b.commit, state |-> "open"],
             prs' = Append(prs, new),
             \/ mem' = [mem EXCEPT ![w].pr = Len(prs) + 1, ![w].pc = "comment"]
                /\ UNCHANGED faults
             \/ Fault /\ GoTo(w, "failJob")
      PROVE  IInv'
  <2>1. /\ new \in PR /\ new.issue = Issue(w) /\ new.head = <<new.issue, NoJob>>
        /\ ReadAt(new.commit.entries, new.commit.parent)
    BY <1>2, <1>4, <1>6 DEF PR, Branch
  <2>2. prs \in Seq(PR) /\ Len(prs) \in Nat /\ Len(prs) + 1 \in Nat
    <3>1. prs \in Seq(PR)
      BY <1>0 DEF TableType
    <3> QED
      BY <1>0, <3>1, PRCount
  <2>3. /\ prs' \in Seq(PR) /\ Len(prs') = Len(prs) + 1
        /\ DOMAIN prs' = DOMAIN prs \cup {Len(prs) + 1} /\ prs'[Len(prs) + 1] = new
        /\ \A n \in DOMAIN prs : prs'[n] = prs[n]
    BY <1>6, <2>1, <2>2
  <2>4. TableType'
    <3>1. \A i \in Issues : row[i].fix <= Len(prs')
      <4>1. \A i \in Issues : row[i].fix \in Nat /\ row[i].fix <= Len(prs)
        BY <1>0 DEF TableType, Row
      <4> QED
        BY <2>2, <2>3, <4>1
    <3> QED
      BY <1>0, <2>3, <3>1 DEF TableType
  <2>5. Forth
    <3>1. Len(prs) <= Len(prs')
      BY <2>2, <2>3
    <3> QED
      BY <1>0, <2>4, <3>1 DEF Forth
  <2>6. Within(w) /\ \/ mem'[w].pc = "failJob" /\ Kept(w)
                     \/ /\ mem'[w].pc = "comment" /\ mem'[w].pr = Len(prs')
                        /\ mem'[w].base = mem[w].base /\ mem'[w].entries = mem[w].entries
    <3>1. CASE Fault /\ GoTo(w, "failJob")
      BY <1>0, <3>1, FaultType, GoToWithin DEF PCs
    <3>2. CASE mem' = [mem EXCEPT ![w].pr = Len(prs) + 1, ![w].pc = "comment"]
               /\ UNCHANGED faults
      <4> DEFINE m == [mem[w] EXCEPT !.pr = Len(prs) + 1, !.pc = "comment"]
      <4>1. /\ m \in Mem /\ m.pc = "comment" /\ m.pr = Len(prs) + 1
            /\ m.base = mem[w].base /\ m.entries = mem[w].entries
            /\ mem' = [mem EXCEPT ![w] = m]
        BY <1>0, <2>2, <3>2 DEF Mem, PCs
      <4> HIDE DEF m
      <4> QED
        BY <1>0, <2>3, <3>2, <4>1, FaultType, BecomesWithin
    <3> QED
      BY <1>6, <3>1, <3>2
  <2>7. Commits' /\ Heads'
    <3>1. \A n \in DOMAIN prs' :
            ReadAt(prs'[n].commit.entries, prs'[n].commit.parent) /\ prs'[n].head = <<prs'[n].issue, NoJob>>
      BY <2>1, <2>3 DEF IInv, Commits, Heads
    <3>2. \A b_1 \in branches : ReadAt(b_1.commit.entries, b_1.commit.parent)
      BY DEF IInv, Commits
    <3> QED
      BY <1>0, <3>1, <3>2 DEF Commits, Heads, ReadAt
  <2>8. OneOpenFixPR'
    <3>1. \A n \in DOMAIN prs : prs[n].issue = new.issue => prs[n].state # "open"
      BY <1>6, <2>1 DEF IInv, Heads, Refused
    <3> QED
      BY <2>3, <3>1 DEF IInv, OneOpenFixPR
  <2>9. ClosedRowClosedIssue'
    BY <1>0 DEF IInv, ClosedRowClosedIssue
  <2>10. Fixing(w)'
    <3>1. CASE mem'[w].pc = "failJob" /\ Kept(w)
      BY <2>5, <2>6, <3>1, FailedStage
    <3>2. CASE /\ mem'[w].pc = "comment" /\ mem'[w].pr = Len(prs')
               /\ mem'[w].base = mem[w].base /\ mem'[w].entries = mem[w].entries
      <4>1. What(w)' = What(w)
        BY <1>0 DEF What, queue, people
      <4>2. ReadAt(mem[w].entries, mem[w].base)'
        BY <1>0, <3>2 DEF Fixing, ReadAt
      <4> QED
        BY <1>0, <1>1, <2>2, <2>3, <3>2, <4>1, <4>2 DEF Fixing
    <3> QED
      BY <2>6, <3>1, <3>2
  <2>11. Resolving(w)'
    BY <1>0, <1>1, <2>6, FixResolving DEF Closing
  <2> QED
    BY <2>5, <2>6, <2>7, <2>8, <2>9, <2>10, <2>11, WithinIInv
<1> QED
  BY <1>3, <1>5, <1>6

\* The pull request is recorded.
LEMMA RecordFixIInv ==
  ASSUME IInv, NEW w \in Workers, RecordFix(w)
  PROVE  IInv'
<1>0. /\ Base /\ Busy(w) /\ mem[w].pc = "record" /\ Fixing(w) /\ TableType /\ mem[w] \in Mem
      /\ UNCHANGED <<queue, people, open, main, branches, prs, comments>>
  BY DEF IInv, Base, Types, Stages, RecordFix, Busy, At, github
<1>1. What(w) # "close" /\ mem[w].pr \in Nat /\ mem[w].pr <= Len(prs)
  BY <1>0 DEF Fixing, Answering, Mem
<1>2. Issue(w) \in Issues
  BY <1>0, <1>1, BusyJob
<1>3. Within(w) /\ mem'[w].pc \in {"completeJob", "failJob"} /\ Kept(w)
  BY <1>0, ProceedWithin DEF RecordFix, PCs
<1>4. /\ row' \in [Issues -> Row]
      /\ \A i \in Issues : row'[i].status = row[i].status /\ row'[i].fix <= Len(prs)
  <2> DEFINE r == [row[Issue(w)] EXCEPT !.fix = mem[w].pr]
  <2>1. row \in [Issues -> Row] /\ \A i \in Issues : row[i].fix <= Len(prs)
    BY <1>0 DEF TableType
  <2>2. r \in Row /\ r.status = row[Issue(w)].status /\ r.fix = mem[w].pr
    BY <1>1, <1>2, <2>1 DEF Row
  <2>3. row' = [row EXCEPT ![Issue(w)] = r]
    BY DEF RecordFix
  <2> HIDE DEF r
  <2> QED
    BY <1>1, <1>2, <2>1, <2>2, <2>3
<1>5. TableType'
  BY <1>0, <1>4 DEF TableType
<1>6. Forth
  BY <1>0, <1>4, <1>5, PRCount DEF Forth
<1>7. Commits' /\ Heads' /\ OneOpenFixPR'
  BY <1>0, <1>6, StillCommits
<1>8. ClosedRowClosedIssue'
  BY <1>0, <1>4 DEF IInv, ClosedRowClosedIssue
<1>9. Fixing(w)'
  BY <1>3, <1>6, KeptFixing DEF Kept, Answering
<1>10. Resolving(w)'
  BY <1>0, <1>1, <1>3, FixResolving DEF Closing
<1> QED
  BY <1>3, <1>6, <1>7, <1>8, <1>9, <1>10, WithinIInv


-----------------------------------------------------------------------------
(* The steps of a denial *)

\* The issue is closed ...
LEMMA DenyEditIInv ==
  ASSUME IInv, NEW w \in Workers, DenyEdit(w)
  PROVE  IInv'
<1>0. /\ Base /\ Busy(w) /\ mem[w].pc = "denyEdit" /\ Fixing(w) /\ TableType
      /\ UNCHANGED <<queue, people, row, main, branches, prs, comments>>
  BY DEF IInv, Base, Types, Stages, DenyEdit, Busy, At
<1>1. What(w) # "close"
  BY <1>0 DEF Fixing, Answering
<1>2. Issue(w) \in Issues
  BY <1>0, <1>1, BusyJob
<1>3. Within(w) /\ mem'[w].pc \in {"denyRow", "failJob"} /\ Kept(w)
  BY <1>0, ProceedWithin DEF DenyEdit, PCs
<1>4. /\ open' \in [Issues -> BOOLEAN] /\ ~ open'[Issue(w)]
      /\ \A i \in Issues : ~ open[i] => ~ open'[i]
  BY <1>0, <1>2 DEF DenyEdit, TableType
<1>5. TableType'
  BY <1>0, <1>4 DEF TableType
<1>6. Forth
  BY <1>0, <1>4, <1>5, PRCount DEF Forth
<1>7. Commits' /\ Heads' /\ OneOpenFixPR'
  BY <1>0, <1>6, StillCommits
<1>8. ClosedRowClosedIssue'
  BY <1>0, <1>4 DEF IInv, ClosedRowClosedIssue
<1>9. Fixing(w)'
  BY <1>0, <1>3, <1>4, <1>6, KeptFixing DEF Kept, Answering
<1>10. Resolving(w)'
  BY <1>0, <1>1, <1>3, FixResolving DEF Closing
<1> QED
  BY <1>3, <1>6, <1>7, <1>8, <1>9, <1>10, WithinIInv

\* ... and then its row.
LEMMA DenyRowIInv ==
  ASSUME IInv, NEW w \in Workers, DenyRow(w)
  PROVE  IInv'
<1>0. /\ Base /\ Busy(w) /\ mem[w].pc = "denyRow" /\ Fixing(w) /\ TableType
      /\ UNCHANGED <<queue, people, open, main, branches, prs, comments>>
  BY DEF IInv, Base, Types, Stages, DenyRow, Busy, At, github
<1>1. What(w) # "close" /\ ~ open[Issue(w)]
  BY <1>0 DEF Fixing, Answering
<1>2. Issue(w) \in Issues
  BY <1>0, <1>1, BusyJob
<1>3. Within(w) /\ mem'[w].pc \in {"completeJob", "failJob"} /\ Kept(w)
  BY <1>0, ProceedWithin DEF DenyRow, PCs
<1>4. /\ row' \in [Issues -> Row] /\ \A i \in Issues : row'[i].fix <= Len(prs)
      /\ \A i \in Issues : row[i].status = "closed" => row'[i].status = "closed"
      /\ \A i \in Issues : row'[i].status = "closed" => row[i].status = "closed" \/ i = Issue(w)
  BY <1>0, <1>2, RowClosed DEF DenyRow, TableType
<1>5. TableType'
  BY <1>0, <1>4 DEF TableType
<1>6. Forth
  BY <1>0, <1>4, <1>5, PRCount DEF Forth
<1>7. Commits' /\ Heads' /\ OneOpenFixPR'
  BY <1>0, <1>6, StillCommits
<1>8. ClosedRowClosedIssue'
  BY <1>0, <1>1, <1>4 DEF IInv, ClosedRowClosedIssue
<1>9. Fixing(w)'
  BY <1>3, <1>6, KeptFixing DEF Kept, Answering
<1>10. Resolving(w)'
  BY <1>0, <1>1, <1>3, FixResolving DEF Closing
<1> QED
  BY <1>3, <1>6, <1>7, <1>8, <1>9, <1>10, WithinIInv

-----------------------------------------------------------------------------
(* The steps after a merge *)

\* The issues to close are read.
LEMMA ListIInv ==
  ASSUME IInv, NEW w \in Workers, ListIssues(w)
  PROVE  IInv'
<1>0. /\ Base /\ Busy(w) /\ mem[w].pc = "list" /\ Resolving(w) /\ Fixing(w) /\ TableType
      /\ mem \in [Workers -> Mem] /\ mem[w] \in Mem
      /\ UNCHANGED <<queue, people, row, open, main, branches, prs, comments, faults>>
  BY DEF IInv, Base, Types, Stages, ListIssues, Busy, At, github
<1>1. comments' \in [Issues -> SUBSET {"fix", "no fix", "denied", "resolved"}]
  BY <1>0 DEF TableType
<1>2. What(w) = "close" /\ mem[w].closed = 0
  BY <1>0 DEF Resolving, Closing
<1> DEFINE todo == {i \in PRIssues : row[i].status = "open"}
<1>3. /\ todo \subseteq PRIssues /\ todo \subseteq Issues
      /\ \A i \in PRIssues : row[i].status = "closed" \/ i \in todo
  BY <1>0, Constant DEF TableType, Row
<1>4. mem' = [mem EXCEPT ![w].todo = todo, ![w].pc = "closeComment"]
  BY DEF ListIssues
<1> HIDE DEF todo
<1>5. 0 + Cardinality(todo) <= Cardinality(PRIssues)
  <2>1. IsFiniteSet(todo) /\ Cardinality(todo) <= Cardinality(PRIssues)
    BY <1>3, Constant, FS_Subset
  <2>2. Cardinality(todo) \in Nat
    BY <2>1, FS_CardinalityType
  <2> QED
    BY <2>1, <2>2
<1> DEFINE m == [mem[w] EXCEPT !.todo = todo, !.pc = "closeComment"]
<1>6. /\ m \in Mem /\ m.pc = "closeComment" /\ m.todo = todo /\ m.closed = 0
      /\ m.base = mem[w].base /\ m.entries = mem[w].entries /\ m.pr = mem[w].pr
      /\ mem' = [mem EXCEPT ![w] = m]
  BY <1>0, <1>2, <1>3, <1>4 DEF Mem, PCs
<1> HIDE DEF m
<1>7. Within(w) /\ mem'[w] = m
  BY <1>0, <1>6, FaultType, BecomesWithin
<1>8. Fixing(w)'
  BY <1>0, <1>1, <1>6, <1>7, SameTables, CloseFixing DEF Closing
<1>9. Resolving(w)'
  <2>1. What(w)' = "close"
    BY <1>0, <1>2 DEF What, queue, people
  <2> QED
    BY <1>0, <1>3, <1>5, <1>6, <1>7, <2>1 DEF Resolving, Closing
<1> QED
  BY <1>0, <1>1, <1>7, <1>8, <1>9, StillIInv

\* The next issue is told ...
LEMMA CloseCommentIInv ==
  ASSUME IInv, NEW w \in Workers, CloseComment(w)
  PROVE  IInv'
<1>0. /\ Base /\ Busy(w) /\ mem[w].pc = "closeComment" /\ Resolving(w) /\ Fixing(w) /\ TableType
      /\ UNCHANGED <<queue, people, row, open, main, branches, prs>>
  BY DEF IInv, Base, Types, Stages, CloseComment, Busy, At
<1>1. /\ mem[w].todo # {} /\ mem[w].todo \subseteq PRIssues /\ mem[w].closed < MaxCloseIssues
      /\ What(w) = "close"
      /\ \A i \in PRIssues : row[i].status = "closed" \/ i \in mem[w].todo
      /\ mem[w].closed + Cardinality(mem[w].todo) <= Cardinality(PRIssues)
  BY <1>0 DEF Resolving, Closing, CloseComment, MoreToClose
<1>2. Least(mem[w].todo) \in Issues
  BY <1>1, LeastIn, Constant
<1>3. comments' \in [Issues -> SUBSET {"fix", "no fix", "denied", "resolved"}]
  BY <1>0, <1>2 DEF TableType, CloseComment
<1>4. Within(w) /\ mem'[w].pc \in {"closeEdit", "failJob"} /\ Kept(w)
  BY <1>0, ProceedWithin DEF CloseComment, PCs
<1>5. CASE mem'[w].pc = "failJob"
  BY <1>0, <1>3, <1>4, <1>5, SameTables, FailedStage, StillIInv
<1>6. CASE mem'[w].pc = "closeEdit"
  <2>1. Fixing(w)'
    BY <1>0, <1>3, <1>4, <1>6, SameTables, CloseFixing DEF Kept, Closing
  <2>2. What(w)' = "close"
    BY <1>0, <1>1 DEF What, queue, people
  <2>3. Resolving(w)'
    BY <1>0, <1>1, <1>4, <1>6, <2>2 DEF Resolving, Closing, Kept
  <2> QED
    BY <1>0, <1>3, <1>4, <2>1, <2>3, StillIInv
<1> QED
  BY <1>4, <1>5, <1>6

\* ... closed ...
LEMMA CloseEditIInv ==
  ASSUME IInv, NEW w \in Workers, CloseEdit(w)
  PROVE  IInv'
<1>0. /\ Base /\ Busy(w) /\ mem[w].pc = "closeEdit" /\ Resolving(w) /\ Fixing(w) /\ TableType
      /\ UNCHANGED <<queue, people, row, main, branches, prs, comments>>
  BY DEF IInv, Base, Types, Stages, CloseEdit, Busy, At
<1>1. /\ mem[w].todo # {} /\ mem[w].todo \subseteq PRIssues /\ mem[w].closed < MaxCloseIssues
      /\ What(w) = "close"
      /\ \A i \in PRIssues : row[i].status = "closed" \/ i \in mem[w].todo
      /\ mem[w].closed + Cardinality(mem[w].todo) <= Cardinality(PRIssues)
  BY <1>0 DEF Resolving, Closing
<1>2. Least(mem[w].todo) \in Issues
  BY <1>1, LeastIn, Constant
<1>3. Within(w) /\ mem'[w].pc \in {"closeRow", "failJob"} /\ Kept(w)
  BY <1>0, ProceedWithin DEF CloseEdit, PCs
<1>4. /\ open' \in [Issues -> BOOLEAN] /\ ~ open'[Least(mem[w].todo)]
      /\ \A i \in Issues : ~ open[i] => ~ open'[i]
  BY <1>0, <1>2 DEF CloseEdit, TableType
<1>5. TableType'
  BY <1>0, <1>4 DEF TableType
<1>6. Forth
  BY <1>0, <1>4, <1>5, PRCount DEF Forth
<1>7. Commits' /\ Heads' /\ OneOpenFixPR'
  BY <1>0, <1>6, StillCommits
<1>8. ClosedRowClosedIssue'
  BY <1>0, <1>4 DEF IInv, ClosedRowClosedIssue
<1>9. Fixing(w)' /\ Resolving(w)'
  <2>1. CASE mem'[w].pc = "failJob"
    BY <1>3, <1>6, <2>1, FailedStage
  <2>2. CASE mem'[w].pc = "closeRow"
    <3>1. Fixing(w)'
      BY <1>3, <1>6, <2>2, CloseFixing DEF Kept, Closing
    <3>2. What(w)' = "close"
      BY <1>0, <1>1 DEF What, queue, people
    <3>3. Resolving(w)'
      BY <1>0, <1>1, <1>3, <1>4, <2>2, <3>2 DEF Resolving, Closing, Kept
    <3> QED
      BY <3>1, <3>3
  <2> QED
    BY <1>3, <2>1, <2>2
<1> QED
  BY <1>3, <1>6, <1>7, <1>8, <1>9, WithinIInv

\* ... and its row closed.
LEMMA CloseRowIInv ==
  ASSUME IInv, NEW w \in Workers, CloseRow(w)
  PROVE  IInv'
<1>0. /\ Base /\ Busy(w) /\ mem[w].pc = "closeRow" /\ Resolving(w) /\ Fixing(w) /\ TableType
      /\ mem \in [Workers -> Mem] /\ mem[w] \in Mem
      /\ UNCHANGED <<queue, people, open, main, branches, prs, comments>>
  BY DEF IInv, Base, Types, Stages, CloseRow, Busy, At, github
<1>1. /\ mem[w].todo # {} /\ mem[w].todo \subseteq PRIssues /\ mem[w].closed < MaxCloseIssues
      /\ What(w) = "close" /\ ~ open[Least(mem[w].todo)]
      /\ \A i \in PRIssues : row[i].status = "closed" \/ i \in mem[w].todo
      /\ mem[w].closed + Cardinality(mem[w].todo) <= Cardinality(PRIssues)
  BY <1>0 DEF Resolving, Closing
<1>2. PICK i \in mem[w].todo :
        /\ i = Least(mem[w].todo)
        /\ row' = [row EXCEPT ![i].status = "closed"]
        /\ \/ /\ mem' = [mem EXCEPT ![w].todo = @ \ {i}, ![w].closed = @ + 1, ![w].pc = "closeComment"]
              /\ UNCHANGED faults
           \/ Fault /\ GoTo(w, "failJob")
  <2> DEFINE i == Least(mem[w].todo)
  <2>1. i \in mem[w].todo
    BY <1>1, LeastIn, Constant
  <2>2. row' = [row EXCEPT ![i].status = "closed"]
    BY DEF CloseRow
  <2>3. \/ /\ mem' = [mem EXCEPT ![w].todo = @ \ {i}, ![w].closed = @ + 1, ![w].pc = "closeComment"]
           /\ UNCHANGED faults
        \/ Fault /\ GoTo(w, "failJob")
    BY DEF CloseRow
  <2>4. i = Least(mem[w].todo)
    OBVIOUS
  <2> HIDE DEF i
  <2> QED
    BY <2>1, <2>2, <2>3, <2>4
<1>3. i \in Issues /\ i \in PRIssues /\ ~ open[i]
  BY <1>1, <1>2, Constant
<1>4. /\ row' \in [Issues -> Row] /\ \A k \in Issues : row'[k].fix <= Len(prs)
      /\ \A k \in Issues : row[k].status = "closed" => row'[k].status = "closed"
      /\ \A k \in Issues : row'[k].status = "closed" => row[k].status = "closed" \/ k = i
      /\ row'[i].status = "closed"
  BY <1>0, <1>2, <1>3, RowClosed DEF TableType
<1>5. TableType'
  BY <1>0, <1>4 DEF TableType
<1>6. Forth
  BY <1>0, <1>4, <1>5, PRCount DEF Forth
<1>7. Commits' /\ Heads' /\ OneOpenFixPR'
  BY <1>0, <1>6, StillCommits
<1>8. ClosedRowClosedIssue'
  BY <1>0, <1>3, <1>4 DEF IInv, ClosedRowClosedIssue
<1>9. CASE Fault /\ GoTo(w, "failJob")
  <2>1. Within(w) /\ mem'[w].pc = "failJob" /\ Kept(w)
    BY <1>0, <1>9, FaultType, GoToWithin DEF PCs
  <2>2. Fixing(w)' /\ Resolving(w)'
    BY <1>6, <2>1, FailedStage
  <2> QED
    BY <1>6, <1>7, <1>8, <2>1, <2>2, WithinIInv
<1>10. CASE /\ mem' = [mem EXCEPT ![w].todo = @ \ {i}, ![w].closed = @ + 1, ![w].pc = "closeComment"]
            /\ UNCHANGED faults
  <2> DEFINE m == [mem[w] EXCEPT !.todo = @ \ {i}, !.closed = @ + 1, !.pc = "closeComment"]
  <2>1. mem[w].closed \in Nat /\ mem[w].closed + 1 \in 0 .. MaxCloseIssues
    BY <1>0, <1>1, Constant DEF Mem
  <2>2. /\ m \in Mem /\ m.pc = "closeComment" /\ m.todo = mem[w].todo \ {i}
        /\ m.closed = mem[w].closed + 1
        /\ m.base = mem[w].base /\ m.entries = mem[w].entries /\ m.pr = mem[w].pr
        /\ mem' = [mem EXCEPT ![w] = m]
    BY <1>0, <1>10, <2>1 DEF Mem, PCs
  <2> HIDE DEF m
  <2>3. Within(w) /\ mem'[w] = m
    BY <1>0, <1>10, <2>2, FaultType, BecomesWithin
  <2>4. Fixing(w)'
    BY <1>6, <2>2, <2>3, CloseFixing DEF Closing
  <2>5. What(w)' = "close"
    BY <1>0, <1>1 DEF What, queue, people
  <2>6. m.closed + Cardinality(m.todo) <= Cardinality(PRIssues)
    <3>1. IsFiniteSet(mem[w].todo) /\ Cardinality(mem[w].todo) \in Nat
          /\ Cardinality(PRIssues) \in Nat
      BY <1>1, Constant, FS_Subset, FS_CardinalityType
    <3>2. IsFiniteSet(mem[w].todo \ {i}) /\ i \notin mem[w].todo \ {i}
          /\ mem[w].todo = (mem[w].todo \ {i}) \cup {i}
      BY <1>2, <3>1, FS_RemoveElement
    <3>3. /\ Cardinality(mem[w].todo \ {i}) \in Nat
          /\ Cardinality(mem[w].todo) = Cardinality(mem[w].todo \ {i}) + 1
      BY <3>2, FS_AddElement, FS_CardinalityType
    <3> QED
      BY <1>1, <2>1, <2>2, <3>1, <3>3
  <2>7. /\ m.todo \subseteq PRIssues
        /\ \A k \in PRIssues : row'[k].status = "closed" \/ k \in m.todo
    BY <1>1, <1>4, <2>2, Constant
  <2>8. Resolving(w)'
    BY <2>2, <2>3, <2>5, <2>6, <2>7 DEF Resolving, Closing
  <2> QED
    BY <1>6, <1>7, <1>8, <2>3, <2>4, <2>8, WithinIInv
<1> QED
  BY <1>2, <1>9, <1>10

\* No issue is left, or the cap is reached.
LEMMA CloseDoneIInv ==
  ASSUME IInv, NEW w \in Workers, CloseDone(w)
  PROVE  IInv'
<1>0. /\ Base /\ Busy(w) /\ mem[w].pc = "closeComment" /\ Resolving(w) /\ Fixing(w) /\ TableType
      /\ mem[w] \in Mem
      /\ UNCHANGED <<queue, people, row, open, main, branches, prs, comments, faults>>
  BY DEF IInv, Base, Types, Stages, CloseDone, Busy, At, github
<1>1. /\ mem[w].todo = {} \/ ~ (mem[w].closed < MaxCloseIssues)
      /\ mem[w].todo \subseteq PRIssues /\ What(w) = "close"
      /\ \A i \in PRIssues : row[i].status = "closed" \/ i \in mem[w].todo
      /\ mem[w].closed + Cardinality(mem[w].todo) <= Cardinality(PRIssues)
  BY <1>0 DEF Resolving, Closing, CloseDone, MoreToClose
<1>2. comments' \in [Issues -> SUBSET {"fix", "no fix", "denied", "resolved"}]
  BY <1>0 DEF TableType
<1>3. Within(w) /\ mem'[w].pc = "completeJob" /\ Kept(w)
  BY <1>0, FaultType, GoToWithin DEF CloseDone, PCs
<1>4. Fixing(w)'
  BY <1>0, <1>2, <1>3, SameTables, CloseFixing DEF Kept
<1>5. ASSUME Cardinality(PRIssues) <= MaxCloseIssues PROVE AllResolved
  <2>1. mem[w].todo = {}
    <3>1. IsFiniteSet(mem[w].todo) /\ Cardinality(mem[w].todo) \in Nat
          /\ Cardinality(PRIssues) \in Nat /\ mem[w].closed \in Nat
      BY <1>0, <1>1, Constant, FS_Subset, FS_CardinalityType DEF Mem
    <3>2. ASSUME ~ (mem[w].closed < MaxCloseIssues) PROVE Cardinality(mem[w].todo) = 0
      BY <1>1, <1>5, <3>1, <3>2, Constant
    <3> QED
      BY <1>1, <3>1, <3>2, FS_EmptySet
  <2> QED
    BY <1>1, <2>1 DEF AllResolved
<1>6. Resolving(w)'
  <2>1. AllResolved' <=> AllResolved
    BY <1>0 DEF AllResolved
  <2> QED
    BY <1>3, <1>5, <2>1 DEF Resolving, Closing
<1> QED
  BY <1>0, <1>2, <1>3, <1>4, <1>6, StillIInv


-----------------------------------------------------------------------------
(* Steps of people and of the queue *)

\* Idle and starting workers are well typed.
LEMMA IdleType ==
  /\ Idle \in Mem /\ Idle.pc = "idle" /\ Idle.entries = {} /\ Idle.pr = 0 /\ Idle.closed = 0
  /\ \A pc \in PCs : LET m == [Idle EXCEPT !.pc = pc] IN
       m \in Mem /\ m.pc = pc /\ m.entries = {} /\ m.pr = 0 /\ m.closed = 0
<1>1. 0 \in Version /\ 0 \in 0 .. MaxCloseIssues
  BY Constant DEF Version
<1> QED
  BY <1>1 DEF Mem, Idle, PCs

\* A worker that has just started, or has nothing to do, is where it should be.
LEMMA StartStage ==
  ASSUME TableType', NEW w \in Workers, mem'[w].entries = {}, mem'[w].pr = 0, mem'[w].closed = 0,
         \/ mem'[w].pc = "idle"
         \/ mem'[w].pc = "read" /\ What(w)' # "close"
         \/ mem'[w].pc = "list" /\ What(w)' = "close"
  PROVE  Fixing(w)' /\ Resolving(w)'
<1>1. Fixing(w)'
  <2>1. 0 <= Len(prs')
    <3>1. Len(prs') \in Nat
      BY PRCount
    <3> QED
      BY <3>1
  <2>2. IsFiniteSet({}) /\ Cardinality({}) = 0 /\ 0 <= MaxFixFiles
    BY FS_EmptySet, Constant
  <2>3. ReadAt(mem[w].entries, mem[w].base)'
    BY DEF ReadAt
  <2> QED
    BY <2>1, <2>2, <2>3 DEF Fixing, Answering
<1>2. Resolving(w)'
  BY DEF Resolving, Closing
<1> QED
  BY <1>1, <1>2

\* What these steps have in common.  Each worker goes on, stops or starts, and a
\* job is done only when its worker says so.
Outside ==
  /\ Forth /\ branches' = branches
  /\ \A n \in DOMAIN prs' : /\ n \in DOMAIN prs /\ prs'[n].commit = prs[n].commit
                            /\ prs'[n].head = prs[n].head /\ prs'[n].issue = prs[n].issue
                            /\ prs'[n].state = "open" => prs[n].state = "open"
  /\ \A i \in Issues : row'[i] = row[i]
  /\ \A v \in Workers :
       \/ mem'[v] = mem[v] /\ (Busy(v) => What(v)' = What(v) /\ Issue(v)' = Issue(v))
       \/ mem'[v] = Idle
       \/ /\ mem'[v].entries = {} /\ mem'[v].pr = 0 /\ mem'[v].closed = 0
          /\ mem'[v].pc = IF What(v)' = "close" THEN "list" ELSE "read"
  /\ \A j \in Jobs : phase'[j] = "done" /\ cmd'[j].what = "close" =>
       \/ phase[j] = "done" /\ cmd[j].what = "close"
       \/ \E w \in Workers : holds[w] = j /\ mem[w].pc = "completeJob" /\ What(w) = "close"

\* Such a step keeps the invariant.
LEMMA OutsideIInv ==
  ASSUME IInv, Base', Outside
  PROVE  IInv'
<1>0. Forth /\ TableType' /\ Base
  BY DEF Outside, Forth, IInv
<1>1. Stages'
  <2> SUFFICES ASSUME NEW v \in Workers PROVE Fixing(v)' /\ Resolving(v)'
    BY DEF Stages
  <2>1. CASE mem'[v] = mem[v] /\ What(v)' = What(v) /\ Issue(v)' = Issue(v)
    BY <1>0, <2>1, StillStage DEF IInv
  <2>2. CASE mem'[v] = mem[v] /\ ~ Busy(v)
    <3>1. Fixing(v) /\ mem[v].pc = "idle" /\ mem[v] \in Mem
      BY <1>0, <2>2 DEF IInv, Stages, Busy, At, Base, Types
    <3>2. ReadAt(mem[v].entries, mem[v].base)'
      <4>1. \A e \in mem[v].entries :
              mem[v].base \in DOMAIN main /\ e.rev = main[mem[v].base][e.file].rev
        BY <3>1 DEF Fixing, ReadAt
      <4>2. \A e \in mem[v].entries :
              mem[v].base \in DOMAIN main' /\ e.rev = main'[mem[v].base][e.file].rev
        BY <1>0, <4>1 DEF Forth
      <4> QED
        BY <2>2, <4>2 DEF ReadAt
    <3>3. mem[v].pr <= Len(prs')
      <4>1. Len(prs) \in Nat /\ Len(prs') \in Nat /\ mem[v].pr \in Nat
        BY <1>0, <3>1, PRCount DEF Mem, Base, Types
      <4>2. mem[v].pr <= Len(prs) /\ Len(prs) <= Len(prs')
        BY <1>0, <3>1 DEF Fixing, Forth
      <4> QED
        BY <4>1, <4>2
    <3>4. Fixing(v)'
      BY <2>2, <3>1, <3>2, <3>3 DEF Fixing, Answering
    <3>5. Resolving(v)'
      BY <2>2, <3>1 DEF Resolving, Closing
    <3> QED
      BY <3>4, <3>5
  <2>3. CASE mem'[v] = Idle
    BY <1>0, <2>3, IdleType, StartStage
  <2>4. CASE /\ mem'[v].entries = {} /\ mem'[v].pr = 0 /\ mem'[v].closed = 0
             /\ mem'[v].pc = IF What(v)' = "close" THEN "list" ELSE "read"
    BY <1>0, <2>4, StartStage
  <2> QED
    BY <2>1, <2>2, <2>3, <2>4 DEF Outside
<1>2. Commits' /\ Heads'
  <2>1. \A b \in branches' :
          \A e \in b.commit.entries :
            b.commit.parent \in DOMAIN main' /\ e.rev = main'[b.commit.parent][e.file].rev
    BY <1>0 DEF Outside, IInv, Commits, ReadAt, Forth
  <2>2. \A n \in DOMAIN prs' :
          \A e \in prs'[n].commit.entries :
            /\ prs'[n].commit.parent \in DOMAIN main'
            /\ e.rev = main'[prs'[n].commit.parent][e.file].rev
    <3> SUFFICES ASSUME NEW n \in DOMAIN prs', NEW e \in prs'[n].commit.entries
                 PROVE  /\ prs'[n].commit.parent \in DOMAIN main'
                        /\ e.rev = main'[prs'[n].commit.parent][e.file].rev
      OBVIOUS
    <3>1. n \in DOMAIN prs /\ prs'[n].commit = prs[n].commit
      BY DEF Outside
    <3>2. /\ prs[n].commit.parent \in DOMAIN main
          /\ e.rev = main[prs[n].commit.parent][e.file].rev
      BY <3>1 DEF IInv, Commits, ReadAt
    <3> QED
      BY <1>0, <3>1, <3>2 DEF Forth
  <2> QED
    BY <2>1, <2>2 DEF Outside, IInv, Commits, Heads, ReadAt
<1>3. ClosedRowClosedIssue'
  BY <1>0 DEF Outside, IInv, ClosedRowClosedIssue, Forth
<1>4. OneOpenFixPR'
  BY DEF Outside, IInv, OneOpenFixPR
<1>5. MergedMeansResolved'
  <2> SUFFICES ASSUME Cardinality(PRIssues) <= MaxCloseIssues, NEW j \in Jobs,
                      phase'[j] = "done", cmd'[j].what = "close", NEW i \in PRIssues
               PROVE  row[i].status = "closed"
    BY Constant DEF Outside, MergedMeansResolved
  <2>1. CASE phase[j] = "done" /\ cmd[j].what = "close"
    BY <2>1 DEF IInv, MergedMeansResolved
  <2>2. CASE \E w \in Workers : holds[w] = j /\ mem[w].pc = "completeJob" /\ What(w) = "close"
    BY <2>2 DEF IInv, Stages, Resolving, AllResolved
  <2> QED
    BY <2>1, <2>2 DEF Outside
<1> QED
  BY <1>1, <1>2, <1>3, <1>4, <1>5 DEF IInv

\* A commit on the default branch comes after those that are there.
LEMMA MainGrows ==
  ASSUME TableType, Len(main) < MaxPushes, NEW fs, NEW gone,
         main' = Append(main, Changed(fs, gone))
  PROVE  /\ main' \in Seq(Tree) /\ Len(main') \in 1 .. MaxPushes
         /\ \A v \in DOMAIN main : v \in DOMAIN main' /\ main'[v] = main[v]
<1>1. main \in Seq(Tree) /\ Len(main) \in 1 .. MaxPushes
  BY DEF TableType
<1>2. main[Len(main)] \in Tree
  BY <1>1
<1>3. Len(main) + 1 \in Version
  BY <1>1, Constant DEF Version
<1>4. Changed(fs, gone) \in Tree
  BY <1>2, <1>3 DEF Changed, Tree
<1> HIDE DEF Changed
<1> QED
  BY <1>1, <1>4, Constant

\* A pull request is merged or closed.
LEMMA PRSettled ==
  ASSUME TableType, NEW n \in DOMAIN prs, NEW state \in {"merged", "closed"},
         prs' = [prs EXCEPT ![n].state = state]
  PROVE  /\ prs' \in Seq(PR) /\ Len(prs') = Len(prs)
         /\ \A k \in DOMAIN prs' :
              /\ k \in DOMAIN prs /\ prs'[k].commit = prs[k].commit
              /\ prs'[k].head = prs[k].head /\ prs'[k].issue = prs[k].issue
              /\ prs'[k].state = "open" => prs[k].state = "open"
<1> DEFINE p == [prs[n] EXCEPT !.state = state]
<1>1. prs \in Seq(PR)
  BY DEF TableType
<1>2. prs[n] \in PR
  BY <1>1
<1>3. /\ p \in PR /\ p.commit = prs[n].commit /\ p.head = prs[n].head
      /\ p.issue = prs[n].issue /\ p.state # "open"
  BY <1>2 DEF PR
<1>4. prs' = [prs EXCEPT ![n] = p]
  BY <1>1
<1> HIDE DEF p
<1> QED
  BY <1>1, <1>3, <1>4

\* What people do by hand to the repository: jobs and workers do not notice.
ByHand ==
  /\ UNCHANGED <<queue, people, row, comments, branches, mem, faults>>
  /\ main' \in Seq(Tree) /\ Len(main') \in 1 .. MaxPushes
  /\ \A v \in DOMAIN main : v \in DOMAIN main' /\ main'[v] = main[v]
  /\ open' \in [Issues -> BOOLEAN] /\ \A i \in Issues : ~ open[i] => ~ open'[i]
  /\ prs' \in Seq(PR) /\ Len(prs') = Len(prs)
  /\ \A k \in DOMAIN prs' :
       /\ k \in DOMAIN prs /\ prs'[k].commit = prs[k].commit
       /\ prs'[k].head = prs[k].head /\ prs'[k].issue = prs[k].issue
       /\ prs'[k].state = "open" => prs[k].state = "open"

\* Nothing is undone by them.
LEMMA ByHandOutside ==
  ASSUME Base, ByHand
  PROVE  Base' /\ Outside
<1>0. Types /\ Order /\ TableType
  BY DEF Base, Types
<1>1. UNCHANGED <<phase, tries, holds, cmd, merged, row, comments, branches, mem, faults>>
  BY DEF ByHand, queue, people
<1>2. TableType'
  BY <1>0, <1>1 DEF TableType, ByHand
<1>3. Types'
  BY <1>0, <1>1, <1>2 DEF Types, QueueType
<1>4. Order'
  BY <1>0, <1>1 DEF Order, Busy, At
<1>5. Len(prs) <= Len(prs')
  <2>1. Len(prs) \in Nat
    BY <1>0, PRCount
  <2> QED
    BY <2>1 DEF ByHand
<1>6. Forth
  BY <1>1, <1>2, <1>5 DEF Forth, ByHand
<1> QED
  BY <1>1, <1>3, <1>4, <1>6 DEF Base, Outside, ByHand, What, Issue

\* Pushes, merges and closings are of this kind.
LEMMA ByHandSteps ==
  ASSUME Base,
         \/ \E f \in Files, gone \in {{}, Ids} : Push(f, gone)
         \/ \E n \in DOMAIN prs : MergeFix(n) \/ CloseFix(n)
         \/ \E i \in Issues : CloseByHand(i)
  PROVE  ByHand
<1>0. /\ TableType /\ prs \in Seq(PR) /\ main \in Seq(Tree) /\ Len(main) \in 1 .. MaxPushes
      /\ open \in [Issues -> BOOLEAN]
  BY DEF Base, Types, TableType
<1>1. ASSUME NEW f \in Files, NEW gone \in {{}, Ids}, Push(f, gone) PROVE ByHand
  BY <1>0, <1>1, MainGrows DEF Push, ByHand
<1>2. ASSUME NEW n \in DOMAIN prs, MergeFix(n) PROVE ByHand
  <2>1. /\ Len(main) < MaxPushes
        /\ \E fs, gone : main' = Append(main, Changed(fs, gone))
        /\ prs' = [prs EXCEPT ![n].state = "merged"]
        /\ open' = [open EXCEPT ![prs[n].issue] = FALSE]
        /\ UNCHANGED <<queue, people, row, comments, branches, mem, faults>>
    BY <1>2 DEF MergeFix
  <2>2. /\ main' \in Seq(Tree) /\ Len(main') \in 1 .. MaxPushes
        /\ \A v \in DOMAIN main : v \in DOMAIN main' /\ main'[v] = main[v]
    BY <1>0, <2>1, MainGrows
  <2>3. open' \in [Issues -> BOOLEAN] /\ \A i \in Issues : ~ open[i] => ~ open'[i]
    BY <1>0, <2>1
  <2> QED
    BY <1>0, <2>1, <2>2, <2>3, PRSettled DEF ByHand
<1>3. ASSUME NEW n \in DOMAIN prs, CloseFix(n) PROVE ByHand
  <2>1. /\ prs' = [prs EXCEPT ![n].state = "closed"]
        /\ UNCHANGED <<queue, people, row, open, comments, main, branches, mem, faults>>
    BY <1>3 DEF CloseFix
  <2> QED
    BY <1>0, <2>1, PRSettled DEF ByHand
<1>4. ASSUME NEW i \in Issues, CloseByHand(i) PROVE ByHand
  BY <1>0, <1>4 DEF CloseByHand, ByHand
<1> QED
  BY <1>1, <1>2, <1>3, <1>4

\* The tables and GitHub are as they were.
LEMMA SameForth ==
  ASSUME Base, UNCHANGED <<row, github>>
  PROVE  Forth /\ Len(prs') = Len(prs) /\ UNCHANGED <<row, open, main, branches, prs>>
<1>1. TableType /\ UNCHANGED <<row, open, comments, main, branches, prs>>
  BY DEF Base, Types, github
<1>2. TableType'
  BY <1>1 DEF TableType
<1>3. Len(prs) <= Len(prs')
  BY <1>1, PRCount
<1> QED
  BY <1>1, <1>2, <1>3 DEF Forth

\* A job is sent, which nobody has.
LEMMA SubmitOutside ==
  ASSUME Base, NEW j \in Jobs, phase[j] = "new", phase' = [phase EXCEPT ![j] = "waiting"],
         UNCHANGED <<tries, holds, row, github, mem, faults>>, merged' \in BOOLEAN,
         cmd' \in [Jobs -> [what : Commands, issue : Issues \cup {0}]],
         \A k \in Jobs : k # j => cmd'[k] = cmd[k],
         cmd'[j].what # "none", cmd'[j].what # "close" => cmd'[j].issue \in Issues
  PROVE  Base' /\ Outside
<1>0. /\ Types /\ Order /\ holds' = holds /\ mem' = mem
      /\ phase \in [Jobs -> {"new", "waiting", "taken", "done", "failed"}]
  BY DEF Base, Types, QueueType
<1>1. Forth /\ UNCHANGED <<row, open, main, branches, prs>>
  BY SameForth
<1>2. /\ phase' \in [Jobs -> {"new", "waiting", "taken", "done", "failed"}]
      /\ phase'[j] = "waiting" /\ \A k \in Jobs : k # j => phase'[k] = phase[k]
  BY <1>0
<1>3. Types'
  BY <1>0, <1>1, <1>2 DEF Types, QueueType, Forth
<1>4. Order'
  <2>1. \A k \in Jobs : phase'[k] # "new" =>
          cmd'[k].what # "none" /\ (cmd'[k].what # "close" => cmd'[k].issue \in Issues)
    BY <1>0, <1>2 DEF Order
  <2> QED
    BY <1>0, <1>2, <2>1 DEF Order, Busy, At
<1>5. \A v \in Workers : Busy(v) => What(v)' = What(v) /\ Issue(v)' = Issue(v)
  BY <1>0 DEF Order, What, Issue
<1>6. Outside
  <2>1. \A k \in Jobs : phase'[k] = "done" /\ cmd'[k].what = "close" =>
          phase[k] = "done" /\ cmd[k].what = "close"
    BY <1>2
  <2> QED
    BY <1>0, <1>1, <1>5, <2>1 DEF Outside
<1> QED
  BY <1>3, <1>4, <1>6 DEF Base

\* Commands and merges are sent like this.
LEMMA SubmitSteps ==
  ASSUME Base, NEW j \in Jobs,
         MergePR(j) \/ \E i \in Issues, what \in {"approve", "deny"} : Comment(j, i, what)
  PROVE  Base' /\ Outside
<1>0. /\ cmd \in [Jobs -> [what : Commands, issue : Issues \cup {0}]] /\ merged \in BOOLEAN
      /\ cmd[j] \in [what : Commands, issue : Issues \cup {0}]
  BY DEF Base, Types, QueueType
<1>1. CASE MergePR(j)
  <2> DEFINE c == [cmd[j] EXCEPT !.what = "close"]
  <2>1. c \in [what : Commands, issue : Issues \cup {0}] /\ c.what = "close"
    BY <1>0 DEF Commands
  <2>2. cmd' = [cmd EXCEPT ![j] = c]
    BY <1>0, <1>1 DEF MergePR
  <2>3. /\ phase[j] = "new" /\ phase' = [phase EXCEPT ![j] = "waiting"]
        /\ UNCHANGED <<tries, holds, row, github, mem, faults>> /\ merged' \in BOOLEAN
    BY <1>1 DEF MergePR, Q!Submit
  <2> HIDE DEF c
  <2>4. /\ cmd' \in [Jobs -> [what : Commands, issue : Issues \cup {0}]]
        /\ cmd'[j] = c /\ \A k \in Jobs : k # j => cmd'[k] = cmd[k]
    BY <1>0, <2>1, <2>2
  <2> QED
    BY <2>1, <2>3, <2>4, SubmitOutside
<1>2. ASSUME NEW i \in Issues, NEW what \in {"approve", "deny"}, Comment(j, i, what)
      PROVE  Base' /\ Outside
  <2>1. /\ phase[j] = "new" /\ phase' = [phase EXCEPT ![j] = "waiting"]
        /\ UNCHANGED <<tries, holds, row, github, mem, faults>> /\ merged' \in BOOLEAN
    BY <1>0, <1>2 DEF Comment, Q!Submit
  <2>2. cmd' = [cmd EXCEPT ![j] = [what |-> what, issue |-> i]]
    BY <1>2 DEF Comment
  <2>3. [what |-> what, issue |-> i] \in [what : Commands, issue : Issues \cup {0}]
    BY DEF Commands
  <2>4. /\ cmd' \in [Jobs -> [what : Commands, issue : Issues \cup {0}]]
        /\ cmd'[j] = [what |-> what, issue |-> i] /\ \A k \in Jobs : k # j => cmd'[k] = cmd[k]
    BY <1>0, <2>2, <2>3
  <2>5. cmd'[j].what # "none" /\ cmd'[j].issue \in Issues
    BY <2>4
  <2> QED
    BY <2>1, <2>4, <2>5, SubmitOutside
<1> QED
  BY <1>1, <1>2

\* An idle worker takes a job.
LEMMA TakeOutside ==
  ASSUME Base, NEW w \in Workers, NEW j \in Jobs, Take(w, j)
  PROVE  Base' /\ Outside
<1>0. /\ Types /\ Order /\ mem \in [Workers -> Mem]
      /\ phase \in [Jobs -> {"new", "waiting", "taken", "done", "failed"}]
      /\ tries \in [Jobs -> Nat] /\ holds \in [Workers -> Jobs \cup {NoJob}]
  BY DEF Base, Types, QueueType
<1>1. /\ holds[w] = NoJob /\ phase[j] = "waiting"
      /\ phase' = [phase EXCEPT ![j] = "taken"] /\ tries' = [tries EXCEPT ![j] = @ + 1]
      /\ holds' = [holds EXCEPT ![w] = j]
      /\ UNCHANGED <<cmd, merged, row, github, faults>>
  BY DEF Take, Q!Take, people
<1> DEFINE pc == IF cmd[j].what = "close" THEN "list" ELSE "read"
<1> DEFINE m == [Idle EXCEPT !.pc = pc]
<1>2. m \in Mem /\ m.pc = pc /\ m.entries = {} /\ m.pr = 0 /\ m.closed = 0
  <2>1. pc \in PCs
    BY DEF PCs
  <2> QED
    BY <2>1, IdleType
<1>3. mem' = [mem EXCEPT ![w] = m] /\ pc # "idle"
  BY DEF Take
<1>4. pc = IF cmd[j].what = "close" THEN "list" ELSE "read"
  OBVIOUS
<1> HIDE DEF m, pc
<1>5. /\ mem' \in [Workers -> Mem] /\ mem'[w] = m
      /\ \A v \in Workers : v # w => mem'[v] = mem[v] /\ holds'[v] = holds[v]
      /\ holds' \in [Workers -> Jobs \cup {NoJob}] /\ holds'[w] = j
  BY <1>0, <1>1, <1>2, <1>3
<1>6. /\ phase' \in [Jobs -> {"new", "waiting", "taken", "done", "failed"}]
      /\ tries' \in [Jobs -> Nat]
      /\ \A k \in Jobs : phase'[k] = "new" <=> phase[k] = "new"
      /\ \A k \in Jobs : phase'[k] = "done" => phase[k] = "done"
  BY <1>0, <1>1
<1>7. Forth /\ UNCHANGED <<row, open, main, branches, prs>>
  BY <1>1, SameForth
<1>8. Types'
  BY <1>0, <1>1, <1>5, <1>6, <1>7 DEF Types, QueueType, Forth
<1>9. Order'
  <2>1. \A v \in Workers : Busy(v)' <=> holds'[v] \in Jobs
    BY <1>0, <1>2, <1>3, <1>5 DEF Order, Busy, At
  <2>2. \A v \in Workers : holds'[v] \in Jobs => phase'[holds'[v]] # "new"
    BY <1>0, <1>1, <1>5, <1>6 DEF Order
  <2> QED
    BY <1>0, <1>1, <1>6, <2>1, <2>2 DEF Order
<1>10. Outside
  <2>1. \A v \in Workers : v # w => mem'[v] = mem[v] /\ What(v)' = What(v) /\ Issue(v)' = Issue(v)
    BY <1>1, <1>5 DEF What, Issue
  <2>2. /\ mem'[w].entries = {} /\ mem'[w].pr = 0 /\ mem'[w].closed = 0
        /\ mem'[w].pc = IF What(w)' = "close" THEN "list" ELSE "read"
    BY <1>1, <1>2, <1>4, <1>5 DEF What
  <2> QED
    BY <1>1, <1>6, <1>7, <2>1, <2>2 DEF Outside
<1> QED
  BY <1>8, <1>9, <1>10 DEF Base

\* What the steps have in common that end jobs or free them.
Ending ==
  /\ UNCHANGED <<tries, people, row, github>> /\ faults' \in 0 .. MaxFaults
  /\ \A v \in Workers : \/ mem'[v] = mem[v] /\ holds'[v] = holds[v]
                        \/ mem'[v] = Idle /\ holds'[v] = NoJob
  /\ mem' \in [Workers -> Mem] /\ holds' \in [Workers -> Jobs \cup {NoJob}]
  /\ phase' \in [Jobs -> {"new", "waiting", "taken", "done", "failed"}]
  /\ \A j \in Jobs : /\ phase'[j] = "new" <=> phase[j] = "new"
                     /\ phase'[j] = "done" =>
                          \/ phase[j] = "done"
                          \/ \E w \in Workers : holds[w] = j /\ mem[w].pc = "completeJob"

\* Nothing is undone by them.
LEMMA EndingOutside ==
  ASSUME Base, Ending
  PROVE  Base' /\ Outside
<1>0. Types /\ Order /\ UNCHANGED <<tries, cmd, merged>> /\ NoJob \notin Jobs
  BY Constant DEF Base, Ending, people
<1>1. Forth /\ UNCHANGED <<row, open, main, branches, prs>>
  BY SameForth DEF Ending
<1>2. Types'
  BY <1>0, <1>1 DEF Types, QueueType, Ending, Forth
<1>3. Order'
  <2>1. \A v \in Workers : Busy(v)' <=> holds'[v] \in Jobs
    BY <1>0, IdleType DEF Order, Ending, Busy, At
  <2>2. \A v \in Workers : holds'[v] \in Jobs => phase'[holds'[v]] # "new"
    BY <1>0 DEF Order, Ending
  <2> QED
    BY <1>0, <2>1, <2>2 DEF Order, Ending
<1>4. Outside
  <2>1. \A v \in Workers : \/ mem'[v] = mem[v] /\ What(v)' = What(v) /\ Issue(v)' = Issue(v)
                           \/ mem'[v] = Idle
    BY <1>0 DEF Ending, What, Issue
  <2>2. \A j \in Jobs : phase'[j] = "done" /\ cmd'[j].what = "close" =>
          \/ phase[j] = "done" /\ cmd[j].what = "close"
          \/ \E w \in Workers : holds[w] = j /\ mem[w].pc = "completeJob" /\ What(w) = "close"
    BY <1>0 DEF Ending, What
  <2> QED
    BY <1>1, <2>1, <2>2 DEF Outside
<1> QED
  BY <1>2, <1>3, <1>4 DEF Base

\* Outcomes, crashes and the reaper are of this kind.
LEMMA EndingSteps ==
  ASSUME Base,
         \/ \E w \in Workers : CompleteJob(w) \/ FailJob(w) \/ OutcomeLost(w)
         \/ Crash \/ Reap
  PROVE  Ending
<1>0. /\ mem \in [Workers -> Mem] /\ Idle \in Mem /\ faults \in 0 .. MaxFaults
      /\ holds \in [Workers -> Jobs \cup {NoJob}]
      /\ phase \in [Jobs -> {"new", "waiting", "taken", "done", "failed"}]
  BY IdleType DEF Base, Types, QueueType
<1>1. ASSUME NEW w \in Workers, CompleteJob(w) \/ FailJob(w) PROVE Ending
  <2>1. PICK outcome \in {"done", "waiting", "failed"} :
          /\ Q!Settle(w, holds[w], outcome)
          /\ outcome = "done" => mem[w].pc = "completeJob"
    BY <1>1 DEF CompleteJob, FailJob, Q!Finish, Q!Retry, Q!GiveUp, At
  <2>2. /\ phase[holds[w]] = "taken" /\ phase' = [phase EXCEPT ![holds[w]] = outcome]
        /\ holds' = [holds EXCEPT ![w] = NoJob] /\ UNCHANGED tries
    BY <2>1 DEF Q!Settle
  <2>3. mem' = [mem EXCEPT ![w] = Idle] /\ UNCHANGED <<people, row, github, faults>>
    BY <1>1 DEF CompleteJob, FailJob
  <2>4. /\ phase' \in [Jobs -> {"new", "waiting", "taken", "done", "failed"}]
        /\ \A j \in Jobs : /\ phase'[j] = "new" <=> phase[j] = "new"
                           /\ phase'[j] = "done" =>
                                \/ phase[j] = "done"
                                \/ holds[w] = j /\ mem[w].pc = "completeJob"
    BY <1>0, <2>1, <2>2
  <2>5. /\ mem' \in [Workers -> Mem] /\ holds' \in [Workers -> Jobs \cup {NoJob}]
        /\ \A v \in Workers : \/ mem'[v] = mem[v] /\ holds'[v] = holds[v]
                              \/ mem'[v] = Idle /\ holds'[v] = NoJob
    BY <1>0, <2>2, <2>3
  <2> QED
    BY <1>0, <2>2, <2>3, <2>4, <2>5 DEF Ending
<1>2. ASSUME NEW W, Drop(W) PROVE Ending
  <2>1. /\ holds' = [v \in Workers |-> IF v \in W THEN NoJob ELSE holds[v]]
        /\ mem' = [v \in Workers |-> IF v \in W THEN Idle ELSE mem[v]]
        /\ UNCHANGED <<phase, tries, people, row, github>>
    BY <1>2 DEF Drop, Q!Vanish
  <2>2. faults' \in 0 .. MaxFaults
    BY <1>2, FaultType DEF Drop
  <2> QED
    BY <1>0, <2>1, <2>2 DEF Ending
<1>3. CASE Reap
  <2>1. PICK S \in SUBSET Jobs : Q!Recover(S)
    BY <1>3 DEF Reap
  <2>2. /\ \A j \in S : phase[j] = "taken"
        /\ phase' = [j \in Jobs |-> IF j \in S THEN "waiting" ELSE phase[j]]
        /\ UNCHANGED <<tries, holds, mem, people, row, github, faults>>
    BY <1>3, <2>1 DEF Reap, Q!Recover
  <2> QED
    BY <1>0, <2>2 DEF Ending
<1> QED
  BY <1>1, <1>2, <1>3 DEF OutcomeLost, Crash

-----------------------------------------------------------------------------
(* The theorems *)

\* At the start.
LEMMA InitIInv ==
  ASSUME Init
  PROVE  IInv
<1>1. /\ \A j \in Jobs : phase[j] = "new" /\ cmd[j] = [what |-> "none", issue |-> 0]
      /\ \A w \in Workers : holds[w] = NoJob /\ mem[w] = Idle
      /\ \A i \in Issues : row[i] = [status |-> "open", fix |-> 0]
      /\ branches = {} /\ DOMAIN prs = {} /\ prs = << >>
  BY DEF Init, Q!Init
<1>2. TableType
  <2> DEFINE t == [f \in Files |-> [rev |-> 1, snippets |-> {x.id : x \in {y \in Stored : y.file = f}}]]
  <2>1. 1 \in Version /\ 1 \in 1 .. MaxPushes
    BY Constant DEF Version
  <2>2. t \in Tree
    BY <2>1, Constant DEF Tree
  <2>3. main = <<t>>
    BY DEF Init
  <2> HIDE DEF t
  <2>4. main \in Seq(Tree) /\ Len(main) \in 1 .. MaxPushes
    BY <2>1, <2>2, <2>3
  <2>5. prs \in Seq(PR) /\ Len(prs) = 0
    BY <1>1
  <2>6. row \in [Issues -> Row] /\ \A i \in Issues : row[i].fix <= Len(prs)
    BY <1>1, <2>5 DEF Init, Row
  <2> QED
    BY <2>4, <2>5, <2>6 DEF Init, TableType
<1>3. Types
  <2>1. cmd \in [Jobs -> [what : Commands, issue : Issues \cup {0}]]
    BY DEF Init, Commands
  <2>2. mem \in [Workers -> Mem]
    BY IdleType DEF Init
  <2>3. QueueType
    BY <2>1, <1>1 DEF Init, Q!Init, QueueType
  <2>4. faults \in 0 .. MaxFaults
    BY Constant DEF Init
  <2> QED
    BY <1>2, <2>2, <2>3, <2>4 DEF Types
<1>4. Order
  BY <1>1, IdleType, Constant DEF Order, Busy, At
<1>5. Stages
  <2> SUFFICES ASSUME NEW w \in Workers PROVE Fixing(w) /\ Resolving(w)
    BY DEF Stages
  <2>1. mem[w].pc = "idle" /\ mem[w].entries = {} /\ mem[w].pr = 0 /\ mem[w].closed = 0
    BY <1>1, IdleType
  <2>2. IsFiniteSet({}) /\ Cardinality({}) = 0 /\ 0 <= MaxFixFiles /\ 0 <= Len(prs)
    BY <1>1, FS_EmptySet, Constant
  <2>3. ReadAt(mem[w].entries, mem[w].base)
    BY <2>1 DEF ReadAt
  <2>4. Fixing(w)
    BY <2>1, <2>2, <2>3 DEF Fixing, Answering
  <2>5. Resolving(w)
    BY <2>1 DEF Resolving, Closing
  <2> QED
    BY <2>4, <2>5
<1>6. Commits /\ Heads /\ OneOpenFixPR /\ ClosedRowClosedIssue /\ MergedMeansResolved
  BY <1>1 DEF Commits, Heads, OneOpenFixPR, ClosedRowClosedIssue, MergedMeansResolved
<1> QED
  BY <1>3, <1>4, <1>5, <1>6 DEF IInv, Base

\* What a worker may do.
LEMMA WorkerIInv ==
  ASSUME IInv, NEW w \in Workers, WorkerStep(w) \/ OutcomeLost(w)
  PROVE  IInv'
<1>0. Base
  BY DEF IInv
<1>1. CASE \E j \in Jobs : Take(w, j)
  BY <1>0, <1>1, TakeOutside, OutsideIInv
<1>2. CASE ReadIssue(w) \/ ReadBase(w) \/ ReadFix(w) \/ FixesRead(w)
  BY <1>2, AnswerIInv, ReadBaseIInv, ReadFixIInv
<1>3. CASE SayNoFix(w) \/ SayFixed(w) \/ SayDenied(w) \/ CallFails(w)
  BY <1>3, SayIInv, CallFailsIInv
<1>4. CASE CreateBranch(w) \/ CreatePR(w) \/ RecordFix(w)
  BY <1>4, CreateBranchIInv, CreatePRIInv, RecordFixIInv
<1>5. CASE DenyEdit(w) \/ DenyRow(w)
  BY <1>5, DenyEditIInv, DenyRowIInv
<1>6. CASE ListIssues(w) \/ CloseComment(w) \/ CloseEdit(w) \/ CloseRow(w) \/ CloseDone(w)
  BY <1>6, ListIInv, CloseCommentIInv, CloseEditIInv, CloseRowIInv, CloseDoneIInv
<1>7. CASE CompleteJob(w) \/ FailJob(w) \/ OutcomeLost(w)
  BY <1>0, <1>7, EndingSteps, EndingOutside, OutsideIInv
<1> QED
  BY <1>1, <1>2, <1>3, <1>4, <1>5, <1>6, <1>7 DEF WorkerStep

\* The invariant is inductive.
LEMMA Inductive ==
  /\ Init => IInv
  /\ IInv /\ [Next]_vars => IInv'
<1>1. Init => IInv
  BY InitIInv
<1>2. ASSUME IInv, Next PROVE IInv'
  <2>0. Base
    BY <1>2 DEF IInv
  <2>1. CASE \/ \E j \in Jobs : MergePR(j)
             \/ \E j \in Jobs, i \in Issues, what \in {"approve", "deny"} : Comment(j, i, what)
    BY <1>2, <2>0, <2>1, SubmitSteps, OutsideIInv
  <2>2. CASE \/ \E f \in Files, gone \in {{}, Ids} : Push(f, gone)
             \/ \E n \in DOMAIN prs : MergeFix(n) \/ CloseFix(n)
             \/ \E i \in Issues : CloseByHand(i)
    BY <1>2, <2>0, <2>2, ByHandSteps, ByHandOutside, OutsideIInv
  <2>3. CASE \E w \in Workers : WorkerStep(w) \/ OutcomeLost(w)
    BY <1>2, <2>3, WorkerIInv
  <2>4. CASE Crash \/ Reap
    BY <1>2, <2>0, <2>4, EndingSteps, EndingOutside, OutsideIInv
  <2> QED
    BY <1>2, <2>1, <2>2, <2>3, <2>4 DEF Next, People
<1>3. ASSUME IInv, UNCHANGED vars PROVE IInv'
  <2>1. UNCHANGED <<phase, tries, holds, cmd, merged, row, open, comments, main, branches,
                    prs, mem, faults>>
    BY <1>3 DEF vars, queue, people, github
  <2>2. Base'
    BY <1>3, <2>1 DEF IInv, Base, Types, QueueType, TableType, Order, Busy, At
  <2>3. Stages'
    <3>1. \A w \in Workers : Fixing(w)'
      BY <1>3, <2>1 DEF IInv, Stages, Fixing, ReadAt, What, Issue, BranchName
    <3>2. \A w \in Workers : Resolving(w)'
      BY <1>3, <2>1 DEF IInv, Stages, Resolving, What, AllResolved
    <3> QED
      BY <3>1, <3>2 DEF Stages
  <2>4. Commits' /\ Heads' /\ ClosedRowClosedIssue'
    BY <1>3, <2>1 DEF IInv, Commits, Heads, ClosedRowClosedIssue, ReadAt
  <2>5. OneOpenFixPR' /\ MergedMeansResolved'
    BY <1>3, <2>1 DEF IInv, OneOpenFixPR, MergedMeansResolved
  <2> QED
    BY <2>2, <2>3, <2>4, <2>5 DEF IInv
<1> QED
  BY <1>1, <1>2, <1>3

\* Rows, branches, pull requests and what workers remember keep their kinds, and
\* no fix outgrows maxFixFiles (approve.go:84).
THEOREM TypeCorrect == Spec => []TypeOK
<1>1. IInv => TypeOK
  <2> SUFFICES ASSUME IInv PROVE TypeOK
    OBVIOUS
  <2>0. /\ QueueType /\ TableType /\ mem \in [Workers -> Mem] /\ faults \in 0 .. MaxFaults
        /\ prs \in Seq(PR) /\ main \in Seq(Tree) /\ \A w \in Workers : Fixing(w)
    BY DEF IInv, Base, Types, TableType, Stages
  <2>1. Len(prs) \in Nat
    BY <2>0
  <2>2. row \in [Issues -> [status : {"open", "closed"}, fix : 0 .. Len(prs)]]
    <3>1. \A i \in Issues : row[i] \in Row /\ row[i].fix <= Len(prs)
      BY <2>0 DEF TableType
    <3>2. \A i \in Issues : row[i] \in [status : {"open", "closed"}, fix : 0 .. Len(prs)]
      BY <2>1, <3>1 DEF Row
    <3> QED
      BY <2>0, <3>2 DEF TableType
  <2>3. Len(main) \in 1 .. MaxPushes /\ \A v \in DOMAIN main : main[v] \in Tree
    <3>1. main \in Seq(Tree)
      BY <2>0
    <3>2. \A v \in DOMAIN main : main[v] \in Tree
      BY <3>1
    <3> QED
      BY <2>0, <3>2 DEF TableType
  <2>4. \A b \in branches : b.commit \in Commit
    BY <2>0 DEF TableType, Branch
  <2>5. \A n \in DOMAIN prs : /\ prs[n].issue \in Issues /\ prs[n].commit \in Commit
                              /\ prs[n].state \in {"open", "merged", "closed"}
    <3>1. \A n \in DOMAIN prs : prs[n] \in PR
      BY <2>0
    <3> QED
      BY <3>1 DEF PR
  <2>6. \A w \in Workers :
          /\ mem[w].pc \in PCs /\ mem[w].base \in Version
          /\ mem[w].todo \subseteq Ids \cup Issues
          /\ mem[w].entries \subseteq Entry
          /\ Cardinality(mem[w].entries) <= MaxFixFiles
          /\ mem[w].pr \in 0 .. Len(prs)
          /\ mem[w].closed \in 0 .. MaxCloseIssues
    <3> SUFFICES ASSUME NEW w \in Workers
                 PROVE  /\ mem[w].pc \in PCs /\ mem[w].base \in Version
                        /\ mem[w].todo \subseteq Ids \cup Issues
                        /\ mem[w].entries \subseteq Entry
                        /\ Cardinality(mem[w].entries) <= MaxFixFiles
                        /\ mem[w].pr \in 0 .. Len(prs)
                        /\ mem[w].closed \in 0 .. MaxCloseIssues
      OBVIOUS
    <3>1. mem[w] \in Mem
      BY <2>0
    <3>2. Cardinality(mem[w].entries) <= MaxFixFiles /\ mem[w].pr <= Len(prs)
      BY <2>0 DEF Fixing
    <3>3. mem[w].pr \in Nat
      BY <3>1 DEF Mem
    <3> QED
      BY <2>1, <3>1, <3>2, <3>3 DEF Mem
  <2> QED
    BY <2>0, <2>2, <2>3, <2>4, <2>5, <2>6 DEF TypeOK, QueueType, TableType
<1> QED
  BY <1>1, Inductive, PTL DEF Spec

\* A row that is closed, and makes later commands be ignored, has an issue that
\* is closed on GitHub, whichever call fails and whoever else closes it.
THEOREM RowFollowsIssue == Spec => []ClosedRowClosedIssue
<1>1. IInv => ClosedRowClosedIssue
  BY DEF IInv
<1> QED
  BY <1>1, Inductive, PTL DEF Spec

\* Any number of approvals, workers and retries open one fix pull request per
\* issue at a time (approve.go:121-130).
THEOREM ApprovalsShareAPR == Spec => []OneOpenFixPR
<1>1. IInv => OneOpenFixPR
  BY DEF IInv
<1> QED
  BY <1>1, Inductive, PTL DEF Spec

\* Every file of a fix was read at the commit the fix is based on, whatever was
\* pushed and by whomever in between (approve.go:69-118).
THEOREM FixesKeepPushes == Spec => []FixRevertsNothing
<1>1. IInv => FixRevertsNothing
  BY DEF IInv, Commits, ReadAt, FixRevertsNothing
<1> QED
  BY <1>1, Inductive, PTL DEF Spec

\* The job of a merged pull request is done only when all its issues are closed,
\* also when it was retried half-way (poster.go:252).
THEOREM MergeResolves == Spec => []MergedMeansResolved
<1>1. IInv => MergedMeansResolved
  BY DEF IInv
<1> QED
  BY <1>1, Inductive, PTL DEF Spec

=============================================================================
