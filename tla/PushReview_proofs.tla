------------------------- MODULE PushReview_proofs -------------------------
(***************************************************************************)
(* Proofs about PushReview, for every number of jobs, workers, heads,      *)
(* findings, denials and faults.                                           *)
(***************************************************************************)
EXTENDS PushReview, FiniteSetTheorems, WellFoundedInduction, TLAPS

Mem == [pc : PCs, found : SUBSET Findings, seen : [Findings -> Nat],
        rolling : Nat, todo : SUBSET Findings]
Run == [status : RunStatuses, findings : SUBSET Findings]
Row == [number : Nat, open : BOOLEAN]
Remark == [issue : Nat, sha : Heads, new : SUBSET Findings, about : SUBSET Findings]

\* What the variables hold.
Types ==
  /\ phase \in [Jobs -> {"new", "waiting", "taken", "done", "failed"}]
  /\ holds \in [Workers -> Jobs \cup {NoJob}]
  /\ sha \in [Jobs -> 0 .. MaxHead] /\ head \in Heads
  /\ run \in [Heads -> Run]
  /\ linked \in [Heads -> [Findings -> Nat]]
  /\ opened \in Nat
  /\ rows \in Seq(Row) /\ comments \in Seq(Remark)
  /\ resent \in [Heads -> Nat]
  /\ mem \in [Workers -> Mem]

Busy(w) == ~ At(w, "idle")

\* A busy worker has a job of its own, and a job that was sent has a commit.
Order ==
  /\ \A w \in Workers : Busy(w) <=> holds[w] \in Jobs
  /\ \A w \in Workers : holds[w] \in Jobs => phase[holds[w]] # "new"
  /\ \A v, w \in Workers : holds[v] = holds[w] /\ holds[v] \in Jobs => v = w
  /\ \A j \in Jobs : phase[j] = "new" <=> sha[j] = 0
  /\ IsFiniteSet({j \in Jobs : sha[j] # 0})

Base == Types /\ Order

\* Comment k tells of the findings F, as far as it can hold them.
Tells(k, F) ==
  /\ F \subseteq comments[k].new
  /\ comments[k].new \in Fits => F \subseteq comments[k].about

\* The findings a worker is about to link are in a comment on its issue.
Told ==
  \A w \in Workers : At(w, "link") =>
    \E k \in DOMAIN comments :
      /\ comments[k].issue = mem[w].rolling /\ comments[k].sha = Sha(w)
      /\ Tells(k, mem[w].todo)

\* The issue a worker uses is that of a row before which no row is open.
UsesFirst ==
  \A w \in Workers : Using(w) =>
    \E n \in DOMAIN rows :
      /\ rows[n].number = mem[w].rolling
      /\ \A m \in DOMAIN rows : m < n => ~ rows[m].open

\* At most one job has the commit.
Sole(s) == \A i, j \in Jobs : sha[i] = s /\ sha[j] = s => i = j
Posts(s) == {k \in DOMAIN comments : comments[k].sha = s}
Announced(s) == Posts(s) # {}

\* Before and after the run is stored as done, up to the comment.
Early == {"restart", "agents", "failRun", "complete"}
Late  == {"save", "load", "lookup", "open", "store", "readBack", "comment"}

\* A commit is announced once its run is done, which its one job then finds out.
Once ==
  \A s \in Heads : Sole(s) =>
    /\ Cardinality(Posts(s)) <= 1 + resent[s]
    /\ Announced(s) => run[s].status = "done"
    /\ \A w \in Workers : mem[w].pc \in Early /\ Sha(w) = s => run[s].status # "done"
    /\ \A w \in Workers : mem[w].pc \in Late /\ Sha(w) = s =>
         run[s].status = "done" /\ ~ Announced(s)

IInv == Base /\ LinkedMeansAnnounced /\ Told /\ UsesFirst /\ Once

-----------------------------------------------------------------------------
(* The rolling issue *)

\* Numbers have a least one.
LEMMA Least ==
  ASSUME NEW T, T \subseteq Nat, T # {}
  PROVE  \E x \in T : \A y \in T : x <= y
<1> DEFINE Below(x) == {y \in T : y <= x}
<1> DEFINE Belows == {Below(x) : x \in T}
<1>1. Belows # {}
  OBVIOUS
<1>2. Belows \subseteq FiniteSubsetsOf(T)
  <2> SUFFICES ASSUME NEW x \in T PROVE Below(x) \in FiniteSubsetsOf(T)
    OBVIOUS
  <2>1. x \in Nat /\ Below(x) \in SUBSET Nat /\ \A y \in Below(x) : y <= x
    OBVIOUS
  <2>2. IsFiniteSet(Below(x))
    <3> HIDE DEF Below
    <3> QED
      BY <2>1, FS_BoundedSetOfNaturals
  <2> QED
    BY <2>2 DEF FiniteSubsetsOf
<1>3. PICK B \in Belows : \A C \in Belows : ~ (<<C, B>> \in StrictSubsetOrdering(T))
  <2> HIDE DEF Belows
  <2> QED
    BY <1>1, <1>2, FS_StrictSubsetOrderingWellFounded, WFMin
<1>4. PICK x \in T : B = Below(x)
  BY <1>3
<1>5. ASSUME NEW y \in T, y < x PROVE FALSE
  <2>0. x \in Nat /\ y \in Nat /\ \A z \in T : z \in Nat
    OBVIOUS
  <2>1. Below(y) \subseteq Below(x)
    <3>1. ASSUME NEW z \in T, z <= y PROVE z <= x
      BY <1>5, <2>0, <3>1
    <3> QED
      BY <3>1
  <2>2. x \in Below(x) /\ x \notin Below(y)
    BY <1>5, <2>0
  <2>3. <<Below(y), Below(x)>> \in StrictSubsetOrdering(T)
    BY <2>1, <2>2 DEF StrictSubsetOrdering
  <2> QED
    BY <1>3, <1>4, <2>3
<1> QED
  BY <1>5

\* The rolling issue is that of the first open row.
LEMMA FirstOpen ==
  ASSUME rows \in Seq(Row), OpenRows # {}
  PROVE  \E n \in DOMAIN rows :
           Rolling = rows[n].number /\ \A m \in DOMAIN rows : m < n => ~ rows[m].open
<1>1. OpenRows \subseteq Nat
  BY DEF OpenRows
<1>2. \E n \in OpenRows : \A m \in OpenRows : n <= m
  BY <1>1, Least
<1> DEFINE n == CHOOSE n \in OpenRows : \A m \in OpenRows : n <= m
<1>3. n \in OpenRows /\ \A m \in OpenRows : n <= m
  BY <1>2
<1>4. Rolling = rows[n].number
  BY DEF Rolling
<1> HIDE DEF n
<1>5. \A m \in DOMAIN rows : m < n => m \notin OpenRows
  BY <1>1, <1>3
<1> QED
  BY <1>3, <1>4, <1>5 DEF OpenRows

-----------------------------------------------------------------------------
(* Steps of one worker *)

\* A step of w within its job.
Within(w) ==
  /\ UNCHANGED <<queue, pushes>>
  /\ Busy(w) /\ mem'[w].pc # "idle"
  /\ mem' \in [Workers -> Mem]
  /\ \A v \in Workers : v # w => mem'[v] = mem[v]

\* The job of a busy worker has a commit.
LEMMA BusySha ==
  ASSUME Base, NEW w \in Workers, Busy(w)
  PROVE  holds[w] \in Jobs /\ Sha(w) \in Heads
<1>1. holds[w] \in Jobs /\ phase[holds[w]] # "new"
  BY DEF Base, Order
<1>2. sha[holds[w]] # 0 /\ sha[holds[w]] \in 0 .. MaxHead
  BY <1>1 DEF Base, Order, Types
<1> QED
  BY <1>1, <1>2, PushReviewAssumption DEF Sha, Heads

\* Such a step keeps jobs and workers in order.
LEMMA WithinOrder ==
  ASSUME Order, NEW w \in Workers, Within(w)
  PROVE  Order' /\ \A v \in Workers : Sha(v)' = Sha(v)
<1>1. \A v \in Workers : Busy(v)' <=> Busy(v)
  BY DEF Within, Busy, At
<1> QED
  BY <1>1 DEF Order, Within, queue, pushes, Sha

\* Memory that is well typed may take any form within a job.
LEMMA BecomesWithin ==
  ASSUME Types, NEW w \in Workers, Busy(w),
         NEW m \in Mem, m.pc # "idle", mem' = [mem EXCEPT ![w] = m],
         UNCHANGED <<queue, pushes>>
  PROVE  Within(w) /\ mem'[w] = m
<1>1. mem \in [Workers -> Mem]
  BY DEF Types
<1>2. /\ mem' \in [Workers -> Mem]
      /\ mem'[w] = m
      /\ \A v \in Workers : v # w => mem'[v] = mem[v]
  BY <1>1
<1> QED
  BY <1>2 DEF Within

\* Another statement is reached.
LEMMA GoToWithin ==
  ASSUME Types, NEW w \in Workers, Busy(w),
         NEW pc \in PCs \ {"idle"}, GoTo(w, pc), UNCHANGED <<queue, pushes>>
  PROVE  Within(w) /\ mem'[w].pc = pc
<1> DEFINE m == [mem[w] EXCEPT !.pc = pc]
<1>1. mem \in [Workers -> Mem] /\ mem[w] \in Mem
  BY DEF Types
<1>2. m \in Mem /\ m.pc = pc
  BY <1>1 DEF Mem
<1>3. mem' = [mem EXCEPT ![w] = m]
  BY <1>1 DEF GoTo
<1> HIDE DEF m
<1> QED
  BY <1>2, <1>3, BecomesWithin

\* A call whose answer may be lost.
LEMMA ProceedWithin ==
  ASSUME Types, NEW w \in Workers, Busy(w),
         NEW pc \in PCs \ {"idle"}, Proceed(w, pc), UNCHANGED <<queue, pushes>>
  PROVE  Within(w) /\ mem'[w].pc \in {pc, "failJob"}
<1>1. "failJob" \in PCs \ {"idle"}
  BY DEF PCs
<1>2. PICK p \in {pc, "failJob"} : GoTo(w, p)
  BY DEF Proceed
<1> QED
  BY <1>1, <1>2, GoToWithin

\* A call whose requests may be repeated.
LEMMA SentWithin ==
  ASSUME Types, NEW w \in Workers, Busy(w), NEW n,
         NEW m \in Mem, m.pc # "idle", Sent(w, n, m), UNCHANGED <<queue, pushes>>
  PROVE  Within(w) /\ (mem'[w] = m \/ mem'[w].pc = "failJob")
<1>1. CASE mem' = [mem EXCEPT ![w] = m]
  BY <1>1, BecomesWithin
<1>2. CASE GoTo(w, "failJob")
  BY <1>2, GoToWithin DEF PCs
<1> QED
  BY <1>1, <1>2 DEF Sent

\* Rows are added, and closed for good.
Grow ==
  /\ rows' \in Seq(Row)
  /\ \A n \in DOMAIN rows :
       /\ n \in DOMAIN rows' /\ rows'[n].number = rows[n].number
       /\ ~ rows[n].open => ~ rows'[n].open

\* What becomes of the run of w's commit: only a worker that found it open may
\* undo that it is done, and whoever goes on knows whether it is.
RunMoves(w, old, new) ==
  /\ old = "done" => new = "done" \/ mem[w].pc \in Early
  /\ mem'[w].pc \in Early => new # "done" \/ (mem[w].pc \in Early /\ new = old)
  /\ mem'[w].pc \in Late => \/ mem[w].pc \in Early /\ new = "done"
                            \/ mem[w].pc \in Late /\ new = old

\* A step of w that announces and links nothing.
Unheard(w) ==
  /\ Within(w)
  /\ UNCHANGED <<linked, comments, resent>> /\ opened' \in Nat
  /\ Grow
  /\ mem'[w].pc # "link"
  /\ mem'[w].pc = "comment" =>
       OpenRows # {} /\ mem'[w].rolling = Rolling /\ rows' = rows
  /\ run' \in [Heads -> Run]
  /\ \A s \in Heads : s # Sha(w) => run'[s] = run[s]
  /\ RunMoves(w, run[Sha(w)].status, run'[Sha(w)].status)

\* The tables are as they were.
LEMMA SameTables ==
  ASSUME Base, UNCHANGED <<table, github>>
  PROVE  /\ Grow /\ UNCHANGED <<linked, comments, resent, run, rows>> /\ opened' \in Nat
         /\ run' \in [Heads -> Run]
BY DEF Base, Types, table, github, Grow

\* Steps that only lead to another statement.
LEMMA MoveUnheard ==
  ASSUME Base, NEW w \in Workers,
         CallFails(w) \/ SkipByPolicy(w) \/ RecoverRun(w) \/ NothingNew(w)
  PROVE  Unheard(w)
<1>0. Types
  BY DEF Base
<1>1. Busy(w) /\ UNCHANGED <<queue, pushes, table, github>>
  BY DEF CallFails, SkipByPolicy, RecoverRun, NothingNew, Busy, At
<1>2. PICK pc \in {"failJob", "completeJob", "restart"} :
        GoTo(w, pc) /\ (pc = "restart" => RecoverRun(w))
  BY DEF CallFails, SkipByPolicy, RecoverRun, NothingNew
<1>3. Within(w) /\ mem'[w].pc = pc
  BY <1>0, <1>1, <1>2, GoToWithin DEF PCs
<1>4. pc = "restart" => run[Sha(w)].status # "done"
  BY <1>0, <1>2, <1>3 DEF RecoverRun, RunKey, TerminalStatuses, GoTo, Types, Mem
<1>5. RunMoves(w, run[Sha(w)].status, run'[Sha(w)].status)
  BY <1>1, <1>3, <1>4 DEF RunMoves, Early, Late, table
<1> QED
  BY <1>1, <1>3, <1>5, SameTables DEF Unheard

\* Steps that end with an answer in the worker's memory.
LEMMA AnswerUnheard ==
  ASSUME Base, NEW w \in Workers, AgentsReturn(w) \/ LoadFindings(w)
  PROVE  Unheard(w)
<1>0. Types /\ mem \in [Workers -> Mem] /\ mem[w] \in Mem
  BY DEF Base, Types
<1>1. Busy(w) /\ UNCHANGED <<queue, pushes, table, github>>
  BY DEF AgentsReturn, LoadFindings, Busy, At
<1>2. Within(w) /\ \/ mem[w].pc = "agents" /\ mem'[w].pc \in {"failRun", "complete"}
                   \/ mem[w].pc = "load" /\ mem'[w].pc = "lookup"
  <2>1. CASE AgentsReturn(w) /\ GoTo(w, "failRun")
    BY <1>0, <1>1, <2>1, GoToWithin DEF AgentsReturn, At, PCs
  <2>2. ASSUME AgentsReturn(w), NEW F \in Reports,
               mem' = [mem EXCEPT ![w].found = F, ![w].pc = "complete"]
        PROVE  Within(w) /\ mem[w].pc = "agents" /\ mem'[w].pc = "complete"
    <3> DEFINE m == [mem[w] EXCEPT !.found = F, !.pc = "complete"]
    <3>1. F \in SUBSET Findings
      BY PushReviewAssumption
    <3>2. m \in Mem /\ m.pc = "complete" /\ mem' = [mem EXCEPT ![w] = m]
      BY <1>0, <2>2, <3>1 DEF Mem, PCs
    <3> HIDE DEF m
    <3> QED
      BY <1>0, <1>1, <2>2, <3>2, BecomesWithin DEF AgentsReturn, At
  <2>3. CASE LoadFindings(w)
    <3> DEFINE m == [mem[w] EXCEPT !.found = run[RunKey(w)].findings,
                                   !.seen = linked[RunKey(w)], !.pc = "lookup"]
    <3>1. run[RunKey(w)].findings \in SUBSET Findings /\ linked[RunKey(w)] \in [Findings -> Nat]
      BY <1>0, <1>1, BusySha DEF RunKey, Types, Run
    <3>2. m \in Mem /\ m.pc = "lookup" /\ mem' = [mem EXCEPT ![w] = m]
      BY <1>0, <2>3, <3>1 DEF Mem, PCs, LoadFindings
    <3> HIDE DEF m
    <3> QED
      BY <1>0, <1>1, <2>3, <3>2, BecomesWithin DEF LoadFindings, At
  <2> QED
    BY <2>1, <2>2, <2>3 DEF AgentsReturn
<1>3. RunMoves(w, run[Sha(w)].status, run'[Sha(w)].status)
  BY <1>1, <1>2 DEF RunMoves, Early, Late, table
<1> QED
  BY <1>1, <1>2, <1>3, SameTables DEF Unheard

\* Steps that look for the rolling issue.
LEMMA LookUnheard ==
  ASSUME Base, NEW w \in Workers, LookUp(w) \/ ReadBack(w)
  PROVE  Unheard(w)
<1>0. Types /\ mem \in [Workers -> Mem] /\ mem[w] \in Mem
  BY DEF Base, Types
<1>1. /\ Busy(w) /\ UNCHANGED <<queue, pushes, table, github>>
      /\ mem[w].pc \in {"lookup", "readBack"}
  BY DEF LookUp, ReadBack, Busy, At
<1>2. ASSUME NEW pc \in {"open", "failJob"}, GoTo(w, pc) PROVE Unheard(w)
  <2>1. Within(w) /\ mem'[w].pc = pc
    BY <1>0, <1>1, <1>2, GoToWithin DEF PCs
  <2>2. RunMoves(w, run[Sha(w)].status, run'[Sha(w)].status)
    BY <1>1, <2>1 DEF RunMoves, Early, Late, table
  <2> QED
    BY <1>1, <2>1, <2>2, SameTables DEF Unheard
<1>3. ASSUME OpenRows # {},
             mem' = [mem EXCEPT ![w].rolling = Rolling, ![w].pc = "comment"]
      PROVE  Unheard(w)
  <2> DEFINE m == [mem[w] EXCEPT !.rolling = Rolling, !.pc = "comment"]
  <2>1. Rolling \in Nat
    <3>1. PICK n \in DOMAIN rows : Rolling = rows[n].number
      BY <1>0, <1>3, FirstOpen DEF Types
    <3>2. rows[n] \in Row
      BY <1>0 DEF Types
    <3> QED
      BY <3>1, <3>2 DEF Row
  <2>2. m \in Mem /\ m.pc = "comment" /\ m.rolling = Rolling /\ mem' = [mem EXCEPT ![w] = m]
    BY <1>0, <1>3, <2>1 DEF Mem, PCs
  <2> HIDE DEF m
  <2>3. Within(w) /\ mem'[w] = m
    BY <1>0, <1>1, <2>2, BecomesWithin
  <2>4. RunMoves(w, run[Sha(w)].status, run'[Sha(w)].status)
    BY <1>1, <2>2, <2>3 DEF RunMoves, Early, Late, table
  <2> QED
    BY <1>1, <1>3, <2>2, <2>3, <2>4, SameTables DEF Unheard
<1> QED
  BY <1>2, <1>3 DEF LookUp, ReadBack

\* Steps that open and store a rolling issue.
LEMMA OpenUnheard ==
  ASSUME Base, NEW w \in Workers, OpenRolling(w) \/ StoreRolling(w)
  PROVE  Unheard(w)
<1>0. Types /\ mem \in [Workers -> Mem] /\ mem[w] \in Mem
  BY DEF Base, Types
<1>1. Busy(w) /\ UNCHANGED <<queue, pushes, run, linked, comments, resent>>
  BY DEF OpenRolling, StoreRolling, Busy, At, table, github
<1>2. CASE OpenRolling(w)
  <2>0. PICK n \in 0 .. MaxRetries :
          /\ opened' = opened + n + 1
          /\ Sent(w, n, [mem[w] EXCEPT !.rolling = opened + n + 1, !.pc = "store"])
    BY <1>2 DEF OpenRolling
  <2>1. opened + n + 1 \in Nat /\ opened' \in Nat /\ rows' = rows /\ mem[w].pc = "open"
    <3>1. opened \in Nat /\ MaxRetries \in Nat
      BY <1>0, PushReviewAssumption DEF Types
    <3>2. opened + n + 1 \in Nat
      BY <3>1
    <3> QED
      BY <1>2, <2>0, <3>2 DEF OpenRolling, table, At
  <2>2. Within(w) /\ mem'[w].pc \in {"store", "failJob"}
    <3> DEFINE m == [mem[w] EXCEPT !.rolling = opened + n + 1, !.pc = "store"]
    <3>1. m \in Mem /\ m.pc = "store"
      BY <1>0, <2>1 DEF Mem, PCs
    <3>2. Sent(w, n, m)
      BY <2>0
    <3> HIDE DEF m
    <3> QED
      BY <1>0, <1>1, <3>1, <3>2, SentWithin
  <2>3. RunMoves(w, run[Sha(w)].status, run'[Sha(w)].status)
    BY <1>1, <2>1, <2>2 DEF RunMoves, Early, Late
  <2> QED
    BY <1>0, <1>1, <2>1, <2>2, <2>3 DEF Unheard, Grow, Types
<1>3. CASE StoreRolling(w)
  <2>1. Within(w) /\ mem'[w].pc \in {"readBack", "failJob"} /\ mem[w].pc = "store"
    BY <1>0, <1>1, <1>3, ProceedWithin DEF StoreRolling, PCs, At
  <2>2. RunMoves(w, run[Sha(w)].status, run'[Sha(w)].status)
    BY <1>1, <2>1 DEF RunMoves, Early, Late
  <2>3. Grow
    <3>1. [number |-> mem[w].rolling, open |-> TRUE] \in Row
      BY <1>0 DEF Mem, Row
    <3> QED
      BY <1>0, <1>3, <3>1 DEF StoreRolling, Grow, Types
  <2>4. opened' \in Nat /\ run' \in [Heads -> Run]
    BY <1>0, <1>1, <1>3 DEF StoreRolling, github, Types
  <2> QED
    BY <1>1, <2>1, <2>2, <2>3, <2>4 DEF Unheard
<1> QED
  BY <1>2, <1>3

\* Steps that write the run of the commit.
LEMMA RunUnheard ==
  ASSUME Base, NEW w \in Workers,
         CreateRun(w) \/ RestartRun(w) \/ FailRun(w) \/ CompleteRun(w) \/ SaveFindings(w)
  PROVE  Unheard(w)
<1>0. Types /\ mem[w] \in Mem /\ run \in [Heads -> Run]
  BY DEF Base, Types
<1>1. Busy(w) /\ UNCHANGED <<queue, pushes, linked, rows, opened, comments, resent>>
  BY DEF CreateRun, RestartRun, FailRun, CompleteRun, SaveFindings, Busy, At, github
<1>2. Sha(w) \in Heads /\ run[Sha(w)] \in Run
  BY <1>0, <1>1, BusySha
<1>3. ASSUME Within(w), mem'[w].pc \notin {"link", "comment"},
             NEW r \in Run, run' = [run EXCEPT ![Sha(w)] = r],
             RunMoves(w, run[Sha(w)].status, r.status)
      PROVE  Unheard(w)
  <2>1. run' \in [Heads -> Run] /\ run'[Sha(w)] = r /\ \A s \in Heads : s # Sha(w) => run'[s] = run[s]
    BY <1>0, <1>2, <1>3
  <2>2. Grow /\ opened' \in Nat
    BY <1>0, <1>1 DEF Grow, Types
  <2> QED
    BY <1>1, <1>3, <2>1, <2>2 DEF Unheard
<1>4. ASSUME NEW st \in RunStatuses, run' = [run EXCEPT ![RunKey(w)].status = st],
             Within(w), mem'[w].pc \notin {"link", "comment"},
             RunMoves(w, run[Sha(w)].status, st)
      PROVE  Unheard(w)
  <2> DEFINE r == [run[Sha(w)] EXCEPT !.status = st]
  <2>1. r \in Run /\ r.status = st /\ run' = [run EXCEPT ![Sha(w)] = r]
    BY <1>0, <1>2, <1>4 DEF Run, RunKey
  <2> HIDE DEF r
  <2> QED
    BY <1>3, <1>4, <2>1
<1>5. CASE CreateRun(w)
  <2>1. mem[w].pc = "gate"
    BY <1>5 DEF CreateRun, At
  <2>2. CASE /\ run[RunKey(w)].status = "none" /\ Proceed(w, "agents")
             /\ run' = [run EXCEPT ![RunKey(w)].status = "running"]
    <3>1. Within(w) /\ mem'[w].pc \in {"agents", "failJob"}
      BY <1>0, <1>1, <2>2, ProceedWithin DEF PCs
    <3>2. RunMoves(w, run[Sha(w)].status, "running")
      BY <2>1, <2>2, <3>1 DEF RunMoves, Early, Late, RunKey
    <3> QED
      BY <1>4, <2>2, <3>1, <3>2 DEF RunStatuses
  <2>3. CASE GoTo(w, "recover") /\ run' = run
    <3>1. Within(w) /\ mem'[w].pc = "recover"
      BY <1>0, <1>1, <2>3, GoToWithin DEF PCs
    <3>2. run' = [run EXCEPT ![Sha(w)] = run[Sha(w)]]
      BY <1>0, <2>3
    <3> QED
      BY <1>2, <1>3, <3>1, <3>2 DEF RunMoves, Early, Late
  <2> QED
    BY <1>5, <2>2, <2>3 DEF CreateRun
<1>6. CASE RestartRun(w)
  <2>1. Within(w) /\ mem'[w].pc \in {"agents", "failJob"} /\ mem[w].pc = "restart"
    BY <1>0, <1>1, <1>6, ProceedWithin DEF RestartRun, PCs, At
  <2>2. RunMoves(w, run[Sha(w)].status, "running")
    BY <2>1 DEF RunMoves, Early, Late
  <2> QED
    BY <1>4, <1>6, <2>1, <2>2 DEF RestartRun, RunStatuses
<1>7. CASE FailRun(w)
  <2>1. Within(w) /\ mem'[w].pc = "failJob" /\ mem[w].pc = "failRun"
    BY <1>0, <1>1, <1>7, GoToWithin DEF FailRun, PCs, At
  <2>2. CASE run' = run
    <3>1. run' = [run EXCEPT ![Sha(w)] = run[Sha(w)]]
      BY <1>0, <2>2
    <3> QED
      BY <1>2, <1>3, <2>1, <3>1 DEF RunMoves, Early, Late
  <2>3. CASE run' = [run EXCEPT ![RunKey(w)].status = FailedStatus]
    BY <1>4, <2>1, <2>3 DEF RunMoves, Early, Late, RunStatuses, FailedStatus
  <2> QED
    BY <1>7, <2>2, <2>3 DEF FailRun
<1>8. CASE CompleteRun(w)
  <2>1. Within(w) /\ mem'[w].pc \in {"save", "failJob"} /\ mem[w].pc = "complete"
    BY <1>0, <1>1, <1>8, ProceedWithin DEF CompleteRun, PCs, At
  <2>2. RunMoves(w, run[Sha(w)].status, "done")
    BY <2>1 DEF RunMoves, Early, Late
  <2> QED
    BY <1>4, <1>8, <2>1, <2>2 DEF CompleteRun, RunStatuses
<1>9. CASE SaveFindings(w)
  <2>1. Within(w) /\ mem'[w].pc \in {"load", "failJob"} /\ mem[w].pc = "save"
    BY <1>0, <1>1, <1>9, ProceedWithin DEF SaveFindings, PCs, At
  <2> DEFINE r == [run[Sha(w)] EXCEPT !.findings = @ \cup mem[w].found]
  <2>2. r \in Run /\ r.status = run[Sha(w)].status /\ run' = [run EXCEPT ![Sha(w)] = r]
    BY <1>0, <1>2, <1>9 DEF Run, RunKey, SaveFindings, Mem
  <2> HIDE DEF r
  <2> QED
    BY <1>3, <2>1, <2>2 DEF RunMoves, Early, Late
<1> QED
  BY <1>5, <1>6, <1>7, <1>8, <1>9

-----------------------------------------------------------------------------
(* Steps of one worker keep the invariant *)

\* Rows stay closed, so the first open row comes no sooner.
LEMMA StillFirst ==
  ASSUME Types, Grow, NEW rolling \in Nat,
         \E n \in DOMAIN rows :
           rows[n].number = rolling /\ \A m \in DOMAIN rows : m < n => ~ rows[m].open
  PROVE  \E n \in DOMAIN rows' :
           rows'[n].number = rolling /\ \A m \in DOMAIN rows' : m < n => ~ rows'[m].open
<1>1. PICK n \in DOMAIN rows :
        rows[n].number = rolling /\ \A m \in DOMAIN rows : m < n => ~ rows[m].open
  OBVIOUS
<1>2. DOMAIN rows = 1 .. Len(rows) /\ Len(rows) \in Nat /\ DOMAIN rows' = 1 .. Len(rows')
      /\ Len(rows') \in Nat
  BY DEF Types, Grow
<1>3. n \in DOMAIN rows' /\ rows'[n].number = rolling
  BY <1>1 DEF Grow
<1>4. ASSUME NEW m \in DOMAIN rows', m < n PROVE ~ rows'[m].open
  <2>1. m \in DOMAIN rows
    BY <1>2, <1>4
  <2> QED
    BY <1>1, <1>4, <2>1 DEF Grow
<1> QED
  BY <1>3, <1>4

\* Nobody else works on the one job of a commit.
LEMMA OnlyWorker ==
  ASSUME Base, NEW w \in Workers, NEW v \in Workers, Busy(w), Busy(v), Sha(v) = Sha(w),
         Sole(Sha(w))
  PROVE  v = w
<1>1. holds[v] \in Jobs /\ holds[w] \in Jobs
  BY BusySha
<1>2. holds[v] = holds[w]
  BY <1>1 DEF Sole, Sha
<1> QED
  BY <1>1, <1>2 DEF Base, Order

\* A step that announces and links nothing ...
LEMMA UnheardIInv ==
  ASSUME IInv, NEW w \in Workers, Unheard(w)
  PROVE  IInv'
<1>0. /\ Base /\ Types /\ Within(w) /\ Grow
      /\ linked' = linked /\ comments' = comments /\ resent' = resent
  BY DEF IInv, Base, Unheard
<1>1. Order' /\ \A v \in Workers : Sha(v)' = Sha(v)
  BY <1>0, WithinOrder DEF Base
<1>2. Types'
  BY <1>0 DEF Types, Unheard, Within, queue, pushes, Grow
<1>3. LinkedMeansAnnounced'
  BY <1>0 DEF IInv, LinkedMeansAnnounced
<1>4. Told'
  <2> SUFFICES ASSUME NEW v \in Workers, At(v, "link")'
               PROVE  /\ At(v, "link") /\ mem'[v] = mem[v]
    BY <1>0, <1>1 DEF IInv, Told, Tells
  <2> QED
    BY <1>0 DEF Unheard, Within, At
<1>5. UsesFirst'
  <2> SUFFICES ASSUME NEW v \in Workers, Using(v)'
               PROVE  \E n \in DOMAIN rows' :
                        /\ rows'[n].number = mem'[v].rolling
                        /\ \A m \in DOMAIN rows' : m < n => ~ rows'[m].open
    BY DEF UsesFirst
  <2>1. CASE v = w
    BY <1>0, <2>1, FirstOpen DEF Unheard, Using, Types
  <2>2. CASE v # w
    <3>1. mem'[v] = mem[v] /\ Using(v) /\ mem[v].rolling \in Nat
      BY <1>0, <2>2 DEF Within, Using, Types, Mem
    <3>2. \E n \in DOMAIN rows :
            rows[n].number = mem[v].rolling /\ \A m \in DOMAIN rows : m < n => ~ rows[m].open
      BY <3>1 DEF IInv, UsesFirst
    <3> QED
      BY <1>0, <3>1, <3>2, StillFirst
  <2> QED
    BY <2>1, <2>2
<1>6. Once'
  <2> SUFFICES ASSUME NEW s \in Heads, Sole(s)
               PROVE  /\ Cardinality(Posts(s)) <= 1 + resent[s]
                      /\ Announced(s) => run'[s].status = "done"
                      /\ \A v \in Workers : mem'[v].pc \in Early /\ Sha(v) = s =>
                           run'[s].status # "done"
                      /\ \A v \in Workers : mem'[v].pc \in Late /\ Sha(v) = s =>
                           run'[s].status = "done" /\ ~ Announced(s)
    <3>1. \A s : Posts(s)' = Posts(s)
      BY <1>0 DEF Posts
    <3> QED
      BY <1>0, <1>1, <3>1 DEF Once, Sole, Announced, Within, queue, pushes
  <2>1. /\ Cardinality(Posts(s)) <= 1 + resent[s]
        /\ Announced(s) => run[s].status = "done"
        /\ \A v \in Workers : mem[v].pc \in Early /\ Sha(v) = s => run[s].status # "done"
        /\ \A v \in Workers : mem[v].pc \in Late /\ Sha(v) = s =>
             run[s].status = "done" /\ ~ Announced(s)
    BY DEF IInv, Once
  <2>2. CASE s # Sha(w)
    BY <1>0, <2>1, <2>2 DEF Unheard, Within
  <2>3. CASE s = Sha(w)
    <3>1. \A v \in Workers : v # w /\ Busy(v) => Sha(v) # s
      BY <1>0, <2>3, OnlyWorker DEF Within
    <3>2. \A v \in Workers : v # w /\ mem'[v].pc \in Early \cup Late => Sha(v) # s
      BY <1>0, <3>1 DEF Within, Busy, At, Early, Late
    <3>3. RunMoves(w, run[s].status, run'[s].status)
      BY <2>3 DEF Unheard
    <3>4. Announced(s) => run'[s].status = "done"
      BY <2>1, <2>3, <3>3 DEF RunMoves
    <3>5. mem'[w].pc \in Early => run'[s].status # "done"
      BY <2>1, <2>3, <3>3 DEF RunMoves
    <3>6. mem'[w].pc \in Late => run'[s].status = "done" /\ ~ Announced(s)
      BY <2>1, <2>3, <3>3 DEF RunMoves
    <3> QED
      BY <2>1, <3>2, <3>4, <3>5, <3>6
  <2> QED
    BY <2>2, <2>3
<1> QED
  BY <1>1, <1>2, <1>3, <1>4, <1>5, <1>6 DEF IInv, Base

\* A sequence goes on with a number of equal elements.
LEMMA Repeats ==
  ASSUME NEW S, NEW c \in S, NEW old \in Seq(S), NEW n \in Nat, NEW new, NEW more,
         more = [i \in 1 .. n + 1 |-> c], new = old \o more
  PROVE  /\ new \in Seq(S) /\ DOMAIN new = 1 .. Len(old) + n + 1
         /\ \A k \in DOMAIN old : k \in DOMAIN new /\ new[k] = old[k]
         /\ \A k \in Len(old) + 1 .. Len(old) + n + 1 : new[k] = c
<1>1. more \in Seq(S) /\ Len(more) = n + 1 /\ \A i \in 1 .. n + 1 : more[i] = c
  OBVIOUS
<1>3. /\ new \in Seq(S) /\ Len(new) = Len(old) + n + 1
      /\ \A i \in 1 .. Len(new) : new[i] = IF i <= Len(old) THEN old[i] ELSE more[i - Len(old)]
  BY <1>1
<1>4. DOMAIN new = 1 .. Len(old) + n + 1 /\ Len(old) \in Nat /\ DOMAIN old = 1 .. Len(old)
  BY <1>3
<1>5. ASSUME NEW k \in Len(old) + 1 .. Len(old) + n + 1 PROVE new[k] = c
  <2>1. k \in 1 .. Len(new) /\ ~ k <= Len(old) /\ k - Len(old) \in 1 .. n + 1
    BY <1>3, <1>4
  <2> QED
    BY <1>1, <1>3, <2>1
<1> QED
  BY <1>3, <1>4, <1>5

\* ... and one that announces findings ...
LEMMA CommentIInv ==
  ASSUME IInv, NEW w \in Workers, Comment(w)
  PROVE  IInv'
<1>0. /\ Base /\ Types /\ mem \in [Workers -> Mem] /\ mem[w] \in Mem /\ Busy(w)
      /\ mem[w].pc = "comment" /\ comments \in Seq(Remark)
      /\ UNCHANGED <<queue, pushes, run, linked, rows, opened>>
  BY DEF IInv, Base, Types, Comment, Busy, At, table
<1>a. PICK N \in NewFindings(w) \ {{}}, n \in 0 .. MaxRetries :
         /\ \E A \in Shown(N) :
              LET c == [issue |-> mem[w].rolling, sha |-> Sha(w), new |-> N, about |-> A] IN
              comments' = comments \o [i \in 1 .. n + 1 |-> c]
         /\ resent' = [resent EXCEPT ![Sha(w)] = @ + n]
         /\ Sent(w, n, [mem[w] EXCEPT !.todo = N, !.pc = "link"])
  BY DEF Comment
<1>1. PICK A \in Shown(N) :
        comments' = comments \o [i \in 1 .. n + 1 |->
                      [issue |-> mem[w].rolling, sha |-> Sha(w), new |-> N, about |-> A]]
  BY <1>a
<1>2. N \in SUBSET Findings /\ n \in Nat
  BY <1>0, PushReviewAssumption DEF NewFindings, Candidates, Mem
<1>3. Sha(w) \in Heads
  BY <1>0, BusySha
<1>4. Within(w) /\ \/ mem'[w].pc = "failJob"
                   \/ /\ mem'[w].pc = "link" /\ mem'[w].todo = N
                      /\ mem'[w].rolling = mem[w].rolling
  <2> DEFINE m == [mem[w] EXCEPT !.todo = N, !.pc = "link"]
  <2>1. m \in Mem /\ m.pc = "link" /\ m.todo = N /\ m.rolling = mem[w].rolling
    BY <1>0, <1>2 DEF Mem, PCs
  <2>2. Sent(w, n, m)
    BY <1>a
  <2> HIDE DEF m
  <2> QED
    BY <1>0, <2>1, <2>2, SentWithin
<1>5. A \in SUBSET N /\ (N \in Fits => A = N)
  BY <1>1 DEF Shown
<1> DEFINE r == [issue |-> mem[w].rolling, sha |-> Sha(w), new |-> N, about |-> A]
           last == Len(comments) + n + 1
<1>6. r \in Remark /\ r.issue = mem[w].rolling /\ r.sha = Sha(w) /\ r.new = N /\ r.about = A
  BY <1>0, <1>2, <1>3, <1>5 DEF Remark, Mem
<1>7. /\ comments' \in Seq(Remark)
      /\ DOMAIN comments' = 1 .. last
      /\ \A k \in DOMAIN comments : k \in DOMAIN comments' /\ comments'[k] = comments[k]
      /\ \A k \in Len(comments) + 1 .. last : comments'[k] = r
  <2> DEFINE more == [i \in 1 .. n + 1 |-> r]
  <2>1. comments' = comments \o more
    BY <1>1
  <2>2. r \in Remark /\ comments \in Seq(Remark) /\ n \in Nat
    BY <1>0, <1>2, <1>6
  <2>a. more = [i \in 1 .. n + 1 |-> r]
    OBVIOUS
  <2> HIDE DEF r, more
  <2>3. /\ comments' \in Seq(Remark) /\ DOMAIN comments' = 1 .. Len(comments) + n + 1
        /\ \A k \in DOMAIN comments : k \in DOMAIN comments' /\ comments'[k] = comments[k]
        /\ \A k \in Len(comments) + 1 .. Len(comments) + n + 1 : comments'[k] = r
    BY <2>a, <2>1, <2>2, Repeats
  <2> QED
    BY <2>3
<1> HIDE DEF r
<1>b. /\ Len(comments) \in Nat /\ DOMAIN comments = 1 .. Len(comments)
       /\ last \in DOMAIN comments' /\ comments'[last] = r
  <2>1. Len(comments) \in Nat /\ DOMAIN comments = 1 .. Len(comments)
    BY <1>0
  <2>2. last \in 1 .. last /\ last \in Len(comments) + 1 .. last
    BY <1>2, <2>1
  <2> QED
    BY <1>7, <2>1, <2>2
<1>c. /\ resent' \in [Heads -> Nat] /\ resent'[Sha(w)] = resent[Sha(w)] + n
       /\ \A s \in Heads : s # Sha(w) => resent'[s] = resent[s]
  BY <1>0, <1>a, <1>2, <1>3 DEF Types
<1> HIDE DEF last
<1>8. Order' /\ \A v \in Workers : Sha(v)' = Sha(v)
  BY <1>0, <1>4, WithinOrder DEF Base
<1>9. Types'
  BY <1>0, <1>4, <1>7, <1>c DEF Types, Within, queue, pushes
<1>10. LinkedMeansAnnounced'
  BY <1>0, <1>7 DEF IInv, LinkedMeansAnnounced
<1>11. Told'
  <2> SUFFICES ASSUME NEW v \in Workers, At(v, "link")'
               PROVE  \E k \in DOMAIN comments' :
                        /\ comments'[k].issue = mem'[v].rolling /\ comments'[k].sha = Sha(v)
                        /\ mem'[v].todo \subseteq comments'[k].new
                        /\ comments'[k].new \in Fits =>
                             mem'[v].todo \subseteq comments'[k].about
    BY <1>8 DEF Told, Tells
  <2>1. CASE v = w
    <3>1. mem'[w].pc = "link"
      BY <2>1 DEF At
    <3> QED
      BY <1>4, <1>5, <1>6, <1>b, <2>1, <3>1
  <2>2. CASE v # w
    <3>1. At(v, "link") /\ mem'[v] = mem[v]
      BY <1>4, <2>2 DEF Within, At
    <3> QED
      BY <1>7, <3>1 DEF IInv, Told, Tells
  <2> QED
    BY <2>1, <2>2
<1>12. UsesFirst'
  <2> SUFFICES ASSUME NEW v \in Workers, Using(v)'
               PROVE  Using(v) /\ mem'[v].rolling = mem[v].rolling
    BY <1>0 DEF IInv, UsesFirst, table
  <2> QED
    BY <1>0, <1>4 DEF Within, Using
<1>13. Once'
  <2> SUFFICES ASSUME NEW s \in Heads, Sole(s)
               PROVE  /\ Cardinality(Posts(s)') <= 1 + resent'[s]
                      /\ Announced(s)' => run[s].status = "done"
                      /\ \A v \in Workers : mem'[v].pc \in Early /\ Sha(v) = s =>
                           run[s].status # "done"
                      /\ \A v \in Workers : mem'[v].pc \in Late /\ Sha(v) = s =>
                           run[s].status = "done" /\ ~ Announced(s)'
    BY <1>0, <1>8 DEF Once, Sole, pushes
  <2>1. /\ Cardinality(Posts(s)) <= 1 + resent[s]
        /\ Announced(s) => run[s].status = "done"
        /\ \A v \in Workers : mem[v].pc \in Early /\ Sha(v) = s => run[s].status # "done"
        /\ \A v \in Workers : mem[v].pc \in Late /\ Sha(v) = s =>
             run[s].status = "done" /\ ~ Announced(s)
    BY DEF IInv, Once
  <2>2. \A v \in Workers : mem'[v].pc \in Early \cup Late => v # w /\ mem'[v] = mem[v] /\ Busy(v)
    BY <1>4 DEF Within, Early, Late, Busy, At
  <2>3. CASE s # Sha(w)
    <3>1. Posts(s)' = Posts(s)
      <4>1. \A k \in DOMAIN comments' : k \in DOMAIN comments \/ k \in Len(comments) + 1 .. last
        BY <1>7, <1>b
      <4>2. \A k \in DOMAIN comments' \ DOMAIN comments : comments'[k].sha # s
        BY <1>6, <1>7, <2>3, <4>1
      <4> QED
        BY <1>7, <4>2 DEF Posts
    <3> QED
      BY <1>c, <2>1, <2>2, <2>3, <3>1 DEF Announced
  <2>4. CASE s = Sha(w)
    <3>1. Posts(s) = {} /\ run[s].status = "done"
      BY <1>0, <2>1, <2>4 DEF Late, Announced
    <3>2. Posts(s)' = Len(comments) + 1 .. last
      <4>1. \A k \in DOMAIN comments : comments'[k].sha # s
        BY <1>7, <3>1 DEF Posts
      <4>2. \A k \in Len(comments) + 1 .. last : comments'[k].sha = s
        BY <1>6, <1>7, <2>4
      <4>3. 1 .. last = DOMAIN comments \cup (Len(comments) + 1 .. last)
        BY <1>2, <1>b DEF last
      <4> QED
        BY <1>7, <4>1, <4>2, <4>3 DEF Posts
    <3>3. Cardinality(Len(comments) + 1 .. last) = n + 1
      BY <1>2, <1>b, FS_Interval DEF last
    <3>4. resent[s] \in Nat
      BY <1>0 DEF Types
    <3>5. Cardinality(Posts(s)') <= 1 + resent'[s]
      BY <1>2, <1>c, <2>4, <3>2, <3>3, <3>4
    <3>6. \A v \in Workers : mem'[v].pc \in Early \cup Late => Sha(v) # s
      BY <1>0, <2>2, <2>4, OnlyWorker
    <3> QED
      BY <3>1, <3>5, <3>6
  <2> QED
    BY <2>3, <2>4
<1> QED
  BY <1>8, <1>9, <1>10, <1>11, <1>12, <1>13 DEF IInv, Base

\* ... and one that links a finding.
LEMMA LinkIInv ==
  ASSUME IInv, NEW w \in Workers, Link(w)
  PROVE  IInv'
<1>0. /\ Base /\ Types /\ mem \in [Workers -> Mem] /\ mem[w] \in Mem /\ Busy(w)
      /\ mem[w].pc = "link"
      /\ UNCHANGED <<queue, pushes, run, rows, opened, comments, resent>>
  BY DEF IInv, Base, Types, Link, Busy, At, github
<1>1. Sha(w) \in Heads
  BY <1>0, BusySha
<1>2. PICK f \in mem[w].todo, rest \in SUBSET mem[w].todo :
        /\ Left(w, rest)
        /\ linked' = linked \/ linked' = [linked EXCEPT ![Sha(w)][f] = mem[w].rolling]
  <2>1. PICK f \in mem[w].todo :
           \/ /\ linked' = [linked EXCEPT ![RunKey(w)][f] = mem[w].rolling]
              /\ Left(w, mem[w].todo \ {f})
           \/ /\ \E rest \in {mem[w].todo \ {f}, {}} : Left(w, rest)
              /\ UNCHANGED linked
    BY DEF Link
  <2>2. mem[w].todo \ {f} \in SUBSET mem[w].todo /\ {} \in SUBSET mem[w].todo
    OBVIOUS
  <2> QED
    BY <2>1, <2>2 DEF RunKey
<1>3. f \in Findings /\ rest \in SUBSET Findings
  BY <1>0, <1>2 DEF Mem
<1>4. /\ Within(w) /\ mem'[w].pc \in {"completeJob", "link"}
      /\ mem'[w].todo = rest /\ mem'[w].rolling = mem[w].rolling
  <2> DEFINE pc == IF rest = {} THEN "completeJob" ELSE "link"
  <2> DEFINE m == [mem[w] EXCEPT !.todo = rest, !.pc = pc]
  <2>1. pc \in PCs /\ pc \in {"completeJob", "link"}
    BY DEF PCs
  <2>2. mem' = [mem EXCEPT ![w].todo = rest, ![w].pc = pc]
    BY <1>2 DEF Left
  <2> HIDE DEF pc
  <2>3. /\ m \in Mem /\ m.pc = pc /\ m.todo = rest /\ m.rolling = mem[w].rolling
        /\ mem' = [mem EXCEPT ![w] = m]
    BY <1>0, <1>3, <2>1, <2>2 DEF Mem
  <2> HIDE DEF m
  <2> QED
    BY <1>0, <2>1, <2>3, BecomesWithin
<1>5. /\ linked' \in [Heads -> [Findings -> Nat]]
      /\ \A s \in Heads, g \in Findings :
           linked'[s][g] = linked[s][g] \/ (s = Sha(w) /\ g = f /\ linked'[s][g] = mem[w].rolling)
  <2> DEFINE x == [linked[Sha(w)] EXCEPT ![f] = mem[w].rolling]
  <2>1. linked \in [Heads -> [Findings -> Nat]] /\ mem[w].rolling \in Nat
    BY <1>0 DEF Types, Mem
  <2>2. /\ x \in [Findings -> Nat] /\ x[f] = mem[w].rolling
        /\ \A g \in Findings : g # f => x[g] = linked[Sha(w)][g]
    BY <1>1, <1>3, <2>1
  <2>3. linked' = linked \/ linked' = [linked EXCEPT ![Sha(w)] = x]
    BY <1>2
  <2> HIDE DEF x
  <2> QED
    BY <1>1, <2>1, <2>2, <2>3
<1>6. Order' /\ \A v \in Workers : Sha(v)' = Sha(v)
  BY <1>0, <1>4, WithinOrder DEF Base
<1>7. Types'
  BY <1>0, <1>4, <1>5 DEF Types, Within, queue, pushes
<1>8. PICK k \in DOMAIN comments :
        /\ comments[k].issue = mem[w].rolling /\ comments[k].sha = Sha(w)
        /\ Tells(k, mem[w].todo)
  BY <1>0 DEF IInv, Told, At
<1>9. LinkedMeansAnnounced'
  <2> SUFFICES ASSUME NEW s \in Heads, NEW g \in Findings, linked'[s][g] > 0
               PROVE  \E l \in DOMAIN comments :
                        /\ comments[l].issue = linked'[s][g] /\ comments[l].sha = s
                        /\ g \in comments[l].new
                        /\ comments[l].new \in Fits => g \in comments[l].about
    BY <1>0 DEF LinkedMeansAnnounced
  <2>1. CASE linked'[s][g] = linked[s][g]
    BY <2>1 DEF IInv, LinkedMeansAnnounced
  <2>2. CASE s = Sha(w) /\ g = f /\ linked'[s][g] = mem[w].rolling
    BY <1>2, <1>8, <2>2 DEF Tells
  <2> QED
    BY <1>5, <2>1, <2>2
<1>10. Told'
  <2> SUFFICES ASSUME NEW v \in Workers, At(v, "link")'
               PROVE  \E l \in DOMAIN comments :
                        /\ comments[l].issue = mem'[v].rolling /\ comments[l].sha = Sha(v)
                        /\ Tells(l, mem'[v].todo)
    BY <1>0, <1>6 DEF Told, Tells
  <2>1. CASE v = w
    <3>1. Tells(k, mem'[v].todo)
      BY <1>2, <1>4, <1>8, <2>1 DEF Tells
    <3> QED
      BY <1>4, <1>8, <2>1, <3>1
  <2>2. CASE v # w
    BY <1>4, <2>2 DEF IInv, Told, Within, At
  <2> QED
    BY <2>1, <2>2
<1>11. UsesFirst'
  <2> SUFFICES ASSUME NEW v \in Workers, Using(v)'
               PROVE  Using(v) /\ mem'[v].rolling = mem[v].rolling
    BY <1>0 DEF IInv, UsesFirst
  <2> QED
    BY <1>0, <1>4 DEF Within, Using
<1>12. Once'
  <2>1. \A v \in Workers : mem'[v].pc \in Early \cup Late => mem'[v] = mem[v]
    BY <1>4 DEF Within, Early, Late
  <2>2. \A s : Posts(s)' = Posts(s)
    BY <1>0 DEF Posts
  <2> QED
    BY <1>0, <1>6, <2>1, <2>2 DEF IInv, Once, Sole, Announced, pushes
<1> QED
  BY <1>6, <1>7, <1>9, <1>10, <1>11, <1>12 DEF IInv, Base

-----------------------------------------------------------------------------
(* Steps of people and of the queue *)

\* What they have in common: no worker's job goes on.
Outside ==
  /\ UNCHANGED <<run, linked, comments, resent>> /\ opened' \in Nat /\ Grow
  /\ mem' \in [Workers -> Mem]
  /\ \A v \in Workers : \/ mem'[v] = mem[v] /\ (Busy(v) => Sha(v)' = Sha(v))
                        \/ mem'[v].pc \in {"idle", "gate"}
  /\ \A s \in Heads : Sole(s)' => Sole(s)

\* Such a step keeps the invariant.
LEMMA OutsideIInv ==
  ASSUME IInv, Base', Outside
  PROVE  IInv'
<1>0. Types
  BY DEF IInv, Base
<1>1. LinkedMeansAnnounced'
  BY DEF IInv, LinkedMeansAnnounced, Outside
<1>2. Told'
  <2> SUFFICES ASSUME NEW v \in Workers, At(v, "link")'
               PROVE  At(v, "link") /\ mem'[v] = mem[v] /\ Sha(v)' = Sha(v)
    BY DEF IInv, Told, Tells, Outside
  <2> QED
    BY DEF Outside, At, Busy
<1>3. UsesFirst'
  <2> SUFFICES ASSUME NEW v \in Workers, Using(v)'
               PROVE  \E n \in DOMAIN rows' :
                        /\ rows'[n].number = mem'[v].rolling
                        /\ \A m \in DOMAIN rows' : m < n => ~ rows'[m].open
    BY DEF UsesFirst
  <2>1. mem'[v] = mem[v] /\ Using(v) /\ mem[v].rolling \in Nat
    BY <1>0 DEF Outside, Using, Types, Mem
  <2>2. \E n \in DOMAIN rows :
          rows[n].number = mem[v].rolling /\ \A m \in DOMAIN rows : m < n => ~ rows[m].open
    BY <2>1 DEF IInv, UsesFirst
  <2>3. Grow
    BY DEF Outside
  <2> QED
    BY <1>0, <2>1, <2>2, <2>3, StillFirst
<1>4. Once'
  <2>1. \A v \in Workers : mem'[v].pc \in Early \cup Late => mem'[v] = mem[v] /\ Sha(v)' = Sha(v)
    BY DEF Outside, Early, Late, Busy, At
  <2>2. \A s : Posts(s)' = Posts(s) /\ (Announced(s)' <=> Announced(s))
    BY DEF Outside, Announced, Posts
  <2> QED
    BY <2>1, <2>2 DEF IInv, Once, Outside
<1> QED
  BY <1>1, <1>2, <1>3, <1>4 DEF IInv

\* Idle and starting workers are well typed.
LEMMA IdleType ==
  /\ Idle \in Mem /\ Idle.pc = "idle"
  /\ [Idle EXCEPT !.pc = "gate"] \in Mem /\ [Idle EXCEPT !.pc = "gate"].pc = "gate"
BY DEF Mem, Idle, Unlinked, PCs

\* A push.
LEMMA PushOutside ==
  ASSUME Base, NEW j \in Jobs, NEW s \in Heads, Push(j, s)
  PROVE  Base' /\ Outside
<1>0. Types /\ Order /\ s # 0
  BY PushReviewAssumption DEF Base, Heads
<1>1. /\ phase[j] = "new" /\ phase' = [phase EXCEPT ![j] = "waiting"]
      /\ sha' = [sha EXCEPT ![j] = s] /\ sha[j] = 0
      /\ UNCHANGED <<holds, run, linked, opened, rows, comments, resent, mem>>
      /\ head' \in Heads
  BY <1>0 DEF Push, Q!Submit, table, github, Types, Order
<1>2. /\ phase' \in [Jobs -> {"new", "waiting", "taken", "done", "failed"}]
      /\ sha' \in [Jobs -> 0 .. MaxHead]
      /\ sha'[j] = s /\ phase'[j] = "waiting"
      /\ \A i \in Jobs : i # j => sha'[i] = sha[i] /\ phase'[i] = phase[i]
  BY <1>0, <1>1, PushReviewAssumption DEF Types, Heads
<1>3. \A w \in Workers : Busy(w) => holds[w] \in Jobs /\ holds[w] # j
  BY <1>0, <1>1 DEF Order
<1>4. \A w \in Workers : Busy(w) => Sha(w)' = Sha(w)
  BY <1>1, <1>2, <1>3 DEF Sha
<1>5. Order'
  <2>1. IsFiniteSet({i \in Jobs : sha'[i] # 0})
    <3>1. {i \in Jobs : sha'[i] # 0} = {i \in Jobs : sha[i] # 0} \cup {j}
      BY <1>0, <1>2
    <3> QED
      BY <1>0, <3>1, FS_AddElement DEF Order
  <2>2. \A i \in Jobs : phase'[i] = "new" <=> sha'[i] = 0
    BY <1>0, <1>2 DEF Order
  <2>3. \A w \in Workers : holds'[w] \in Jobs => phase'[holds'[w]] # "new"
    BY <1>0, <1>1, <1>2 DEF Order
  <2>4. \A w \in Workers : Busy(w)' <=> holds'[w] \in Jobs
    BY <1>0, <1>1 DEF Order, Busy, At
  <2> QED
    BY <1>0, <1>1, <2>1, <2>2, <2>3, <2>4 DEF Order
<1>6. Types'
  BY <1>0, <1>1, <1>2 DEF Types
<1>7. \A t \in Heads : Sole(t)' => Sole(t)
  <2> SUFFICES ASSUME NEW t \in Heads, Sole(t)', NEW i \in Jobs, NEW k \in Jobs,
                      sha[i] = t, sha[k] = t
               PROVE  i = k
    BY DEF Sole
  <2>1. t # 0
    BY PushReviewAssumption DEF Heads
  <2>2. sha'[i] = t /\ sha'[k] = t
    BY <1>1, <1>2, <2>1
  <2> QED
    BY <2>2 DEF Sole
<1>8. Outside
  BY <1>0, <1>1, <1>4, <1>7 DEF Outside, Grow, Types
<1> QED
  BY <1>5, <1>6, <1>8 DEF Base

\* A denial.
LEMMA DenyOutside ==
  ASSUME Base, NEW n \in DOMAIN rows, Deny(n)
  PROVE  Base' /\ Outside
<1>0. Types /\ Order /\ rows \in Seq(Row)
  BY DEF Base, Types
<1>1. /\ rows' = [rows EXCEPT ![n].open = FALSE]
      /\ UNCHANGED <<phase, holds, sha, head, run, linked, opened, comments, resent, mem>>
  BY DEF Deny, queue, pushes, github
<1>2. Grow
  <2>1. \A m \in DOMAIN rows : rows[m] \in Row
    BY <1>0
  <2> DEFINE x == [rows[n] EXCEPT !.open = FALSE]
  <2>2. x \in Row /\ x.number = rows[n].number /\ x.open = FALSE
    BY <2>1 DEF Row
  <2>3. rows' = [rows EXCEPT ![n] = x]
    BY <1>1
  <2> HIDE DEF x
  <2>4. /\ DOMAIN rows' = DOMAIN rows /\ rows' \in Seq(Row)
        /\ \A m \in DOMAIN rows : rows'[m] = IF m = n THEN x ELSE rows[m]
    BY <1>0, <2>2, <2>3
  <2> QED
    BY <2>1, <2>2, <2>4 DEF Grow
<1>3. Types'
  BY <1>0, <1>1, <1>2 DEF Types, Grow
<1>4. Order'
  BY <1>0, <1>1 DEF Order, Busy, At
<1>5. Outside
  BY <1>0, <1>1, <1>2 DEF Outside, Sole, Types, Sha
<1> QED
  BY <1>3, <1>4, <1>5 DEF Base

\* A worker takes a job.
LEMMA TakeOutside ==
  ASSUME Base, NEW w \in Workers, NEW j \in Jobs, Take(w, j)
  PROVE  Base' /\ Outside
<1>0. Types /\ Order /\ mem \in [Workers -> Mem]
  BY DEF Base, Types
<1>1. /\ phase[j] = "waiting" /\ phase' = [phase EXCEPT ![j] = "taken"]
      /\ holds[w] = NoJob /\ holds' = [holds EXCEPT ![w] = j]
      /\ \A v \in Workers : holds[v] # j
      /\ UNCHANGED <<sha, head, run, linked, opened, rows, comments, resent>>
  BY DEF Take, Q!Take, Q!Held, pushes, table, github
<1>2. /\ mem' \in [Workers -> Mem] /\ mem'[w].pc = "gate" /\ holds'[w] = j
      /\ \A v \in Workers : v # w => mem'[v] = mem[v] /\ holds'[v] = holds[v]
  BY <1>0, <1>1, IdleType DEF Take, Types
<1>3. /\ phase' \in [Jobs -> {"new", "waiting", "taken", "done", "failed"}]
      /\ holds' \in [Workers -> Jobs \cup {NoJob}]
      /\ \A i \in Jobs : phase'[i] = "new" <=> phase[i] = "new"
  BY <1>0, <1>1 DEF Types
<1>4. Types'
  BY <1>0, <1>1, <1>2, <1>3 DEF Types
<1>5. Order'
  <2>1. \A v \in Workers : Busy(v)' <=> holds'[v] \in Jobs
    BY <1>0, <1>2 DEF Order, Busy, At
  <2>2. \A v \in Workers : holds'[v] \in Jobs => phase'[holds'[v]] # "new"
    BY <1>0, <1>1, <1>2, <1>3 DEF Order
  <2>3. \A u, v \in Workers : holds'[u] = holds'[v] /\ holds'[u] \in Jobs => u = v
    BY <1>0, <1>1, <1>2 DEF Order
  <2> QED
    BY <1>0, <1>1, <1>3, <2>1, <2>2, <2>3 DEF Order
<1>6. Outside
  BY <1>0, <1>1, <1>2 DEF Outside, Grow, Sole, Types, Sha
<1> QED
  BY <1>4, <1>5, <1>6 DEF Base

\* What the steps have in common that end jobs or free them.
Ending ==
  /\ UNCHANGED <<sha, head, table, github>>
  /\ \A v \in Workers : \/ mem'[v] = mem[v] /\ holds'[v] = holds[v]
                        \/ mem'[v] = Idle /\ holds'[v] = NoJob
  /\ mem' \in [Workers -> Mem] /\ holds' \in [Workers -> Jobs \cup {NoJob}]
  /\ phase' \in [Jobs -> {"new", "waiting", "taken", "done", "failed"}]
  /\ \A j \in Jobs : phase'[j] = "new" <=> phase[j] = "new"

\* Such a step leaves tables and GitHub alone.
LEMMA EndingOutside ==
  ASSUME Base, Ending
  PROVE  Base' /\ Outside
<1>0. Types /\ Order
  BY DEF Base
<1>1. Types'
  BY <1>0 DEF Types, Ending, table, github
<1>2. Order'
  <2>1. \A v \in Workers : Busy(v)' <=> holds'[v] \in Jobs
    BY <1>0, IdleType, PushReviewAssumption DEF Order, Ending, Busy, At
  <2>2. \A v \in Workers : holds'[v] \in Jobs => phase'[holds'[v]] # "new" /\ holds'[v] = holds[v]
    BY <1>0, PushReviewAssumption DEF Order, Ending
  <2>3. \A u, v \in Workers : holds'[u] = holds'[v] /\ holds'[u] \in Jobs => u = v
    BY <1>0, <2>2 DEF Order
  <2> QED
    BY <1>0, <2>1, <2>2, <2>3 DEF Order, Ending
<1>3. \A v \in Workers : \/ mem'[v] = mem[v] /\ Sha(v)' = Sha(v)
                         \/ mem'[v].pc \in {"idle", "gate"}
  BY IdleType DEF Ending, Sha
<1>4. Outside
  BY <1>0, <1>3 DEF Outside, Ending, Grow, Sole, Types, table, github
<1> QED
  BY <1>1, <1>2, <1>4 DEF Base

\* Outcomes, crashes and the reaper are of this kind.
LEMMA EndingSteps ==
  ASSUME Base,
         \/ \E w \in Workers : CompleteJob(w) \/ FailJob(w) \/ OutcomeLost(w)
         \/ Crash \/ Reap
  PROVE  Ending
<1>0. /\ mem \in [Workers -> Mem] /\ Idle \in Mem
      /\ holds \in [Workers -> Jobs \cup {NoJob}]
      /\ phase \in [Jobs -> {"new", "waiting", "taken", "done", "failed"}]
  BY IdleType DEF Base, Types
<1>1. ASSUME NEW w \in Workers, CompleteJob(w) \/ FailJob(w) PROVE Ending
  <2>1. PICK outcome \in {"done", "waiting", "failed"} : Q!Settle(w, holds[w], outcome)
    BY <1>1 DEF CompleteJob, FailJob, Q!Finish, Q!Retry, Q!GiveUp
  <2>2. /\ phase[holds[w]] = "taken" /\ phase' = [phase EXCEPT ![holds[w]] = outcome]
        /\ holds' = [holds EXCEPT ![w] = NoJob]
    BY <2>1 DEF Q!Settle
  <2>3. mem' = [mem EXCEPT ![w] = Idle] /\ UNCHANGED <<sha, head, table, github>>
    BY <1>1 DEF CompleteJob, FailJob, pushes
  <2>4. /\ phase' \in [Jobs -> {"new", "waiting", "taken", "done", "failed"}]
        /\ \A j \in Jobs : phase'[j] = "new" <=> phase[j] = "new"
    BY <1>0, <2>2
  <2>5. /\ mem' \in [Workers -> Mem] /\ holds' \in [Workers -> Jobs \cup {NoJob}]
        /\ \A v \in Workers : \/ mem'[v] = mem[v] /\ holds'[v] = holds[v]
                              \/ mem'[v] = Idle /\ holds'[v] = NoJob
    BY <1>0, <2>2, <2>3
  <2> QED
    BY <2>3, <2>4, <2>5 DEF Ending
<1>2. ASSUME NEW W, Drop(W) PROVE Ending
  <2>1. /\ holds' = [v \in Workers |-> IF v \in W THEN NoJob ELSE holds[v]]
        /\ mem' = [v \in Workers |-> IF v \in W THEN Idle ELSE mem[v]]
        /\ UNCHANGED <<phase, sha, head, table, github>>
    BY <1>2 DEF Drop, Q!Vanish, pushes
  <2> QED
    BY <1>0, <2>1 DEF Ending
<1>3. CASE Reap
  <2>1. PICK S \in SUBSET Jobs : Q!Recover(S)
    BY <1>3 DEF Reap
  <2>2. /\ \A j \in S : phase[j] = "taken"
        /\ phase' = [j \in Jobs |-> IF j \in S THEN "waiting" ELSE phase[j]]
        /\ UNCHANGED <<holds, mem, sha, head, table, github>>
    BY <1>3, <2>1 DEF Reap, Q!Recover, pushes
  <2> QED
    BY <1>0, <2>2 DEF Ending
<1> QED
  BY <1>1, <1>2, <1>3 DEF OutcomeLost, Crash

-----------------------------------------------------------------------------
(* The theorems *)

\* At the start.
LEMMA InitIInv ==
  ASSUME Init
  PROVE  IInv
<1>1. Types
  <2>1. 1 \in Heads /\ 0 \in 0 .. MaxHead
    BY PushReviewAssumption DEF Heads
  <2>2. [status |-> "none", findings |-> {}] \in Run
    BY DEF Run, RunStatuses
  <2>3. Unlinked \in [Findings -> Nat] /\ Idle \in Mem
    BY IdleType DEF Unlinked
  <2>4. << >> \in Seq(Row) /\ << >> \in Seq(Remark)
    OBVIOUS
  <2> QED
    BY <2>1, <2>2, <2>3, <2>4 DEF Init, Types, Q!Init
<1>2. /\ \A w \in Workers : mem[w].pc = "idle" /\ holds[w] = NoJob
      /\ \A j \in Jobs : phase[j] = "new" /\ sha[j] = 0
  BY IdleType DEF Init, Q!Init
<1>3. Order
  <2>1. {j \in Jobs : sha[j] # 0} = {}
    BY <1>2
  <2>2. IsFiniteSet({j \in Jobs : sha[j] # 0})
    BY <2>1, FS_EmptySet
  <2> QED
    BY <1>2, <2>2, PushReviewAssumption DEF Order, Busy, At
<1>4. LinkedMeansAnnounced
  BY DEF Init, LinkedMeansAnnounced, Unlinked
<1>5. Told /\ UsesFirst
  BY <1>2 DEF Told, UsesFirst, At, Using
<1>6. Once
  <2>1. \A s : Posts(s) = {}
    BY DEF Init, Posts
  <2>2. Cardinality({}) = 0
    BY FS_EmptySet
  <2>3. \A s \in Heads : Cardinality(Posts(s)) = 0 /\ resent[s] = 0
    BY <2>1, <2>2 DEF Init
  <2> QED
    BY <1>2, <2>1, <2>3 DEF Once, Announced, Early, Late
<1> QED
  BY <1>1, <1>3, <1>4, <1>5, <1>6 DEF IInv, Base

\* What a worker may do.
LEMMA WorkerIInv ==
  ASSUME IInv, NEW w \in Workers, WorkerStep(w) \/ OutcomeLost(w)
  PROVE  IInv'
<1>0. Base
  BY DEF IInv
<1>1. CASE \E j \in Jobs : Take(w, j)
  BY <1>0, <1>1, TakeOutside, OutsideIInv
<1>2. CASE \/ CallFails(w) \/ SkipByPolicy(w) \/ RecoverRun(w) \/ NothingNew(w)
           \/ AgentsReturn(w) \/ LoadFindings(w) \/ LookUp(w) \/ ReadBack(w)
           \/ OpenRolling(w) \/ StoreRolling(w) \/ CreateRun(w) \/ RestartRun(w)
           \/ FailRun(w) \/ CompleteRun(w) \/ SaveFindings(w)
  <2>1. Unheard(w)
    BY <1>0, <1>2, MoveUnheard, AnswerUnheard, LookUnheard, OpenUnheard, RunUnheard
  <2> QED
    BY <2>1, UnheardIInv
<1>3. CASE Comment(w)
  BY <1>3, CommentIInv
<1>4. CASE Link(w)
  BY <1>4, LinkIInv
<1>5. CASE CompleteJob(w) \/ FailJob(w) \/ OutcomeLost(w)
  BY <1>0, <1>5, EndingSteps, EndingOutside, OutsideIInv
<1> QED
  BY <1>1, <1>2, <1>3, <1>4, <1>5 DEF WorkerStep, Analyze, Post

\* The invariant is inductive.
LEMMA Inductive ==
  /\ Init => IInv
  /\ IInv /\ [Next]_vars => IInv'
<1>1. Init => IInv
  BY InitIInv
<1>2. ASSUME IInv, Next PROVE IInv'
  <2>0. Base
    BY <1>2 DEF IInv
  <2>1. CASE \E j \in Jobs, s \in Heads : Push(j, s)
    BY <1>2, <2>0, <2>1, PushOutside, OutsideIInv
  <2>2. CASE \E n \in DOMAIN rows : Deny(n)
    BY <1>2, <2>0, <2>2, DenyOutside, OutsideIInv
  <2>3. CASE \E w \in Workers : WorkerStep(w) \/ OutcomeLost(w)
    BY <1>2, <2>3, WorkerIInv
  <2>4. CASE Crash \/ Reap
    BY <1>2, <2>0, <2>4, EndingSteps, EndingOutside, OutsideIInv
  <2> QED
    BY <1>2, <2>1, <2>2, <2>3, <2>4 DEF Next
<1>3. ASSUME IInv, UNCHANGED vars PROVE IInv'
  <2>1. UNCHANGED <<phase, holds, sha, head, run, linked, opened, rows, comments, resent, mem>>
    BY <1>3 DEF vars, queue, pushes, table, github
  <2>2. Base'
    BY <1>3, <2>1 DEF IInv, Base, Types, Order, Busy, At
  <2>3. LinkedMeansAnnounced' /\ Told' /\ UsesFirst'
    BY <1>3, <2>1 DEF IInv, LinkedMeansAnnounced, Told, Tells, UsesFirst, Using, At, Sha
  <2>4. Once'
    <3>1. \A s : Posts(s)' = Posts(s)
      BY <2>1 DEF Posts
    <3> QED
      BY <1>3, <2>1, <3>1 DEF IInv, Once, Sole, Announced, Sha
  <2> QED
    BY <2>2, <2>3, <2>4 DEF IInv
<1> QED
  BY <1>1, <1>2, <1>3

\* No finding is taken for announced that no comment was written about,
\* whatever jobs, workers, crashes, failing and repeated calls and denials there
\* are; only a comment that had to be cut may not tell of it (poster.go:233-240,
\* markdown.go:158).
THEOREM NothingLinkedUntold == Spec => []LinkedMeansAnnounced
<1>1. IInv => LinkedMeansAnnounced
  BY DEF IInv
<1> QED
  BY <1>1, Inductive, PTL DEF Spec

\* However many workers race for the rolling issue, they comment on different
\* ones only after a denial (poster.go:194-213).
THEOREM RacersAgree == Spec => []OneIssueInUse
<1>1. IInv => OneIssueInUse
  <2> SUFFICES ASSUME IInv, NEW v \in Workers, NEW w \in Workers, Using(v), Using(w),
                      mem[v].rolling # mem[w].rolling
               PROVE  \E n \in DOMAIN rows :
                        rows[n].number \in {mem[v].rolling, mem[w].rolling} /\ ~ rows[n].open
    BY DEF OneIssueInUse
  <2>1. PICK n \in DOMAIN rows :
          rows[n].number = mem[v].rolling /\ \A m \in DOMAIN rows : m < n => ~ rows[m].open
    BY DEF IInv, UsesFirst
  <2>2. PICK l \in DOMAIN rows :
          rows[l].number = mem[w].rolling /\ \A m \in DOMAIN rows : m < l => ~ rows[m].open
    BY DEF IInv, UsesFirst
  <2>3. n < l \/ l < n
    BY <2>1, <2>2 DEF IInv, Base, Types
  <2> QED
    BY <2>1, <2>2, <2>3
<1> QED
  BY <1>1, Inductive, PTL DEF Spec

\* A finding of a commit that was pushed once is in one comment, and in no more
\* than one for every time that doWithRetry sent it again, however often its job
\* is retried (pipeline.go:315-317, client.go:430-461).
THEOREM OnePushOneComment == Spec => []AnnouncedOnce
<1>1. IInv => AnnouncedOnce
  <2> SUFFICES ASSUME IInv, NEW s \in Heads, Cardinality({j \in Jobs : sha[j] = s}) = 1,
                      NEW f \in Findings
               PROVE  Cardinality({k \in DOMAIN comments : comments[k].sha = s /\ f \in comments[k].new})
                        <= 1 + resent[s]
    BY DEF AnnouncedOnce
  <2>1. IsFiniteSet({j \in Jobs : sha[j] = s})
    <3>1. s # 0
      BY PushReviewAssumption DEF Heads
    <3>2. {j \in Jobs : sha[j] = s} \in SUBSET {j \in Jobs : sha[j] # 0}
      BY <3>1
    <3> QED
      BY <3>2, FS_Subset DEF IInv, Base, Order
  <2>2. PICK x : {j \in Jobs : sha[j] = s} = {x}
    BY <2>1, FS_Singleton
  <2>3. Sole(s)
    BY <2>2 DEF Sole
  <2>4. Cardinality(Posts(s)) <= 1 + resent[s] /\ resent[s] \in Nat
    BY <2>3 DEF IInv, Once, Base, Types
  <2> DEFINE About == {k \in DOMAIN comments : comments[k].sha = s /\ f \in comments[k].new}
  <2>5. About \in SUBSET Posts(s)
    BY DEF Posts
  <2>6. IsFiniteSet(Posts(s))
    <3>1. Posts(s) \in SUBSET (1 .. Len(comments)) /\ Len(comments) \in Nat
      BY DEF Posts, IInv, Base, Types
    <3>2. IsFiniteSet(1 .. Len(comments))
      BY <3>1, FS_Interval
    <3> QED
      BY <3>1, <3>2, FS_Subset
  <2>7. /\ Cardinality(About) <= Cardinality(Posts(s))
        /\ Cardinality(About) \in Nat /\ Cardinality(Posts(s)) \in Nat
    <3> HIDE DEF About
    <3> QED
      BY <2>5, <2>6, FS_Subset, FS_CardinalityType
  <2> QED
    BY <2>4, <2>7
<1> QED
  BY <1>1, Inductive, PTL DEF Spec

=============================================================================
