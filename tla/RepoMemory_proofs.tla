-------------------------- MODULE RepoMemory_proofs --------------------------
(***************************************************************************)
(* Proofs about RepoMemory, for every number of workers and findings and   *)
(* every life of a cache entry and of a job.                               *)
(***************************************************************************)
EXTENDS RepoMemory, FiniteSetTheorems, TLAPS

-----------------------------------------------------------------------------
(* Type correctness *)

\* An idle worker is well typed.
LEMMA IdleType == Idle \in Mem
BY RepoMemoryAssumption DEF Idle, Mem, PCs, Ages, Limit, Ancient

\* A worker takes a well typed step, and the others do not move.
LEMMA BecomesType ==
  ASSUME mem \in [Workers -> Mem], NEW w \in Workers, NEW m \in Mem, Becomes(w, m)
  PROVE  /\ mem' \in [Workers -> Mem]
         /\ mem'[w] = m
         /\ \A v \in Workers : v # w => mem'[v] = mem[v]
BY DEF Becomes

\* An age grows by one or stays at its limit.
LEMMA OlderType ==
  ASSUME NEW a \in Ages
  PROVE  /\ Older(a) \in Ages
         /\ Older(a) <= a + 1
BY RepoMemoryAssumption DEF Older, Ages, Limit, Ancient

\* A bounded weight is a weight.
LEMMA ClampType ==
  ASSUME NEW n \in Int
  PROVE  /\ Clamp(n) \in -MaxWeight .. MaxWeight
         /\ n <= 0 => Clamp(n) <= 0
         /\ n >= 0 => Clamp(n) >= 0
         /\ n <= -2 => Clamp(n) <= -2
BY RepoMemoryAssumption DEF Clamp

\* The empty tables and the idle workers are well typed.
LEMMA InitTypeOK == Init => TypeOK
<1> SUFFICES ASSUME Init PROVE TypeOK
  OBVIOUS
<1>1. Ancient \in Ages /\ 0 \in 0 .. TTL /\ 0 \in -MaxWeight .. MaxWeight /\ 0 \in 0 .. MaxEvents
  BY RepoMemoryAssumption DEF Ages, Limit, Ancient
<1> QED
  BY <1>1, IdleType DEF Init, TypeOK

\* A worker's local state is well typed.
LEMMA MemType ==
  ASSUME TypeOK, NEW w \in Workers
  PROVE  mem[w] \in Mem
BY DEF TypeOK

\* So are the values that events, ages and lives take in a step.
LEMMA BoundsType ==
  ASSUME TypeOK
  PROVE  /\ MayHappen => events' \in 0 .. MaxEvents
         /\ TTL \in 0 .. TTL /\ JobTTL \in 0 .. JobTTL
         /\ 0 \in Ages /\ 0 \in 0 .. MaxComments
BY RepoMemoryAssumption DEF TypeOK, MayHappen, Ages, Limit

\* The steps of refreshConfig keep the types ...
LEMMA RefreshTypeOK ==
  ASSUME TypeOK, NEW w \in Workers,
         CheckCache(w) \/ Fetch(w) \/ StoreCache(w) \/ PersistRow(w) \/ PersistFails(w)
  PROVE  TypeOK'
<1>0. mem[w] \in Mem /\ mem \in [Workers -> Mem]
  BY MemType DEF TypeOK
<1>1. CASE CheckCache(w)
  <2>1. cache.age \in Ages
    BY DEF TypeOK
  <2>2. [mem[w] EXCEPT !.pc = "persist", !.age = cache.age] \in Mem
    BY <1>0, <2>1 DEF Mem, PCs
  <2>3. [mem[w] EXCEPT !.pc = "fetch"] \in Mem
    BY <1>0 DEF Mem, PCs
  <2>4. mem' \in [Workers -> Mem]
    BY <1>0, <1>1, <2>2, <2>3, BecomesType DEF CheckCache
  <2> QED
    BY <1>1, <2>4 DEF TypeOK, CheckCache, settings, learning
<1>2. CASE Fetch(w)
  <2>1. [mem[w] EXCEPT !.pc = "store", !.age = 0] \in Mem
    BY <1>0, BoundsType DEF Mem, PCs
  <2>2. [mem[w] EXCEPT !.pc = "gate"] \in Mem
    BY <1>0 DEF Mem, PCs
  <2>3. mem' \in [Workers -> Mem] /\ events' \in 0 .. MaxEvents
    BY <1>0, <1>2, <2>1, <2>2, BecomesType, BoundsType DEF Fetch, Either, TypeOK
  <2> QED
    BY <1>2, <2>3 DEF TypeOK, Fetch, settings, learning
<1>3. CASE StoreCache(w)
  <2>1. [mem[w] EXCEPT !.pc = "persist"] \in Mem
    BY <1>0 DEF Mem, PCs
  <2>2. mem' \in [Workers -> Mem]
    BY <1>0, <1>3, <2>1, BecomesType DEF StoreCache, GoTo
  <2>3. [left |-> TTL, age |-> mem[w].age] \in [left : 0 .. TTL, age : Ages]
    BY <1>0, BoundsType DEF Mem
  <2> QED
    BY <1>3, <2>2, <2>3 DEF TypeOK, StoreCache, learning
<1>4. CASE PersistRow(w)
  <2>1. [mem[w] EXCEPT !.pc = "gate", !.own = TRUE] \in Mem
    BY <1>0 DEF Mem, PCs
  <2>2. mem' \in [Workers -> Mem]
    BY <1>0, <1>4, <2>1, BecomesType DEF PersistRow
  <2>3. mem[w].age \in Ages
    BY <1>0 DEF Mem
  <2> QED
    BY <1>4, <2>2, <2>3 DEF TypeOK, PersistRow, learning
<1>5. CASE PersistFails(w)
  <2>1. [mem[w] EXCEPT !.pc = "gate"] \in Mem
    BY <1>0 DEF Mem, PCs
  <2>2. mem' \in [Workers -> Mem]
    BY <1>0, <1>5, <2>1, BecomesType DEF PersistFails, GoTo
  <2> QED
    BY <1>5, <2>2, BoundsType DEF TypeOK, PersistFails, settings, learning
<1> QED
  BY <1>1, <1>2, <1>3, <1>4, <1>5

\* ... and so do those of a review ...
LEMMA ReviewTypeOK ==
  ASSUME TypeOK, NEW w \in Workers,
         Gate(w) \/ ReadSuppressed(w) \/ PostComments(w)
  PROVE  TypeOK'
<1>0. mem[w] \in Mem /\ mem \in [Workers -> Mem]
  BY MemType DEF TypeOK
<1>1. CASE Gate(w)
  <2>1. row \in Ages
    BY DEF TypeOK
  <2>2. [mem[w] EXCEPT !.pc = "suppress", !.age = row] \in Mem
    BY <1>0, <2>1 DEF Mem, PCs
  <2>3. mem' \in [Workers -> Mem]
    BY <1>0, <1>1, <2>2, IdleType, BecomesType DEF Gate
  <2> QED
    BY <1>1, <2>3 DEF TypeOK, Gate, settings, learning
<1>2. CASE ReadSuppressed(w)
  <2>1. SuppressedKeys \in SUBSET Keys
    BY DEF SuppressedKeys
  <2>2. [mem[w] EXCEPT !.pc = "post", !.suppressed = SuppressedKeys] \in Mem
    BY <1>0, <2>1 DEF Mem, PCs
  <2>3. [mem[w] EXCEPT !.pc = "post"] \in Mem
    BY <1>0 DEF Mem, PCs
  <2>4. mem' \in [Workers -> Mem] /\ events' \in 0 .. MaxEvents
    BY <1>0, <1>2, <2>2, <2>3, BecomesType, BoundsType DEF ReadSuppressed, Either, TypeOK
  <2> QED
    BY <1>2, <2>4 DEF TypeOK, ReadSuppressed, settings, learning
<1>3. CASE PostComments(w)
  <2>1. mem' \in [Workers -> Mem]
    BY <1>0, <1>3, IdleType, BecomesType DEF PostComments
  <2> QED
    BY <1>3, <2>1 DEF TypeOK, PostComments, settings
<1> QED
  BY <1>1, <1>2, <1>3

\* ... and of a sweep ...
LEMMA SweepTypeOK ==
  ASSUME TypeOK, NEW w \in Workers,
         ListComments(w) \/ NextComment(w) \/ Learn(w) \/ LearnFails(w) \/ EndSweep(w) \/ Return(w)
  PROVE  TypeOK'
<1>0. mem[w] \in Mem /\ mem \in [Workers -> Mem]
  BY MemType DEF TypeOK
<1>1. CASE ListComments(w)
  <2> DEFINE whole == Cardinality(comments) <= MaxComments
             standing == {k \in comments : Against \in reactions[k]}
  <2>1. comments \in SUBSET Keys /\ standing \in SUBSET Keys /\ whole \in BOOLEAN
    BY DEF TypeOK
  <2> HIDE DEF whole, standing
  <2>2. [mem[w] EXCEPT !.pc = "sweep", !.todo = comments,
                       !.whole = whole, !.standing = standing] \in Mem
    BY <1>0, <2>1 DEF Mem, PCs
  <2>3. mem' \in [Workers -> Mem]
    BY <1>0, <1>1, <2>2, BecomesType DEF ListComments, whole, standing
  <2> QED
    BY <1>1, <2>3 DEF TypeOK, ListComments, settings, learning
<1>2. CASE NextComment(w)
  <2>1. PICK k \in mem[w].todo :
          LET next == [mem[w] EXCEPT !.todo = @ \ {k}, !.seen = @ + 1] IN
          \/ \E P \in Page(reactions[k]) :
               /\ Becomes(w, [next EXCEPT !.votes = {k} \X Counted(P),
                                          !.whole = @ /\ P = reactions[k]])
               /\ UNCHANGED events
          \/ Becomes(w, [next EXCEPT !.whole = FALSE]) /\ MayHappen
    BY <1>2 DEF NextComment
  <2>2. k \in Keys
    BY <1>0 DEF Mem
  <2>3. mem[w].seen + 1 \in 0 .. MaxComments
    <3>1. mem[w].seen \in 0 .. MaxComments
      BY <1>0 DEF Mem
    <3>2. mem[w].seen < MaxComments
      BY <1>2 DEF NextComment, MayLook
    <3> QED
      BY <3>1, <3>2, RepoMemoryAssumption
  <2> DEFINE next == [mem[w] EXCEPT !.todo = @ \ {k}, !.seen = @ + 1]
  <2>4. next \in Mem
    BY <1>0, <2>3 DEF Mem
  <2> HIDE DEF next
  <2>5. ASSUME NEW P \in Page(reactions[k])
        PROVE  [next EXCEPT !.votes = {k} \X Counted(P), !.whole = @ /\ P = reactions[k]] \in Mem
    <3>1. {k} \X Counted(P) \in SUBSET (Keys \X Reactions)
      BY <2>2 DEF Counted, Page, TypeOK
    <3>2. (next.whole /\ P = reactions[k]) \in BOOLEAN
      OBVIOUS
    <3> QED
      BY <2>4, <3>1, <3>2 DEF Mem
  <2>6. [next EXCEPT !.whole = FALSE] \in Mem
    BY <2>4 DEF Mem
  <2>7. mem' \in [Workers -> Mem] /\ events' \in 0 .. MaxEvents
    BY <1>0, <2>1, <2>5, <2>6, BecomesType, BoundsType DEF next, TypeOK
  <2> QED
    BY <1>2, <2>7 DEF TypeOK, NextComment, settings, learning
<1>3. CASE Learn(w)
  <2>1. PICK v \in mem[w].votes :
          LET signal == IF v[2][2] = "-1" THEN "down" ELSE "up" IN
          /\ weight' = [weight EXCEPT ![v[1]][signal] = Clamp(@ + Delta(signal))]
          /\ Becomes(w, [mem[w] EXCEPT !.votes = @ \ {v}])
    BY <1>3 DEF Learn
  <2> DEFINE signal == IF v[2][2] = "-1" THEN "down" ELSE "up"
  <2>2. v[1] \in Keys /\ signal \in Signals
    BY <1>0 DEF Mem, Signals
  <2>3. weight[v[1]] \in [Signals -> -MaxWeight .. MaxWeight]
    BY <2>2 DEF TypeOK
  <2>4. weight[v[1]][signal] + Delta(signal) \in Int
    BY <2>2, <2>3, RepoMemoryAssumption DEF Delta
  <2>5. Clamp(weight[v[1]][signal] + Delta(signal)) \in -MaxWeight .. MaxWeight
    BY <2>4, ClampType
  <2>6. weight' \in [Keys -> [Signals -> -MaxWeight .. MaxWeight]]
    BY <2>1, <2>2, <2>3, <2>5 DEF TypeOK
  <2>7. [mem[w] EXCEPT !.votes = @ \ {v}] \in Mem
    BY <1>0 DEF Mem
  <2>8. mem' \in [Workers -> Mem]
    BY <1>0, <2>1, <2>7, BecomesType
  <2> QED
    BY <1>3, <2>6, <2>8 DEF TypeOK, Learn, settings
<1>4. CASE LearnFails(w)
  <2>1. PICK v \in mem[w].votes : Becomes(w, [mem[w] EXCEPT !.votes = @ \ {v}, !.whole = FALSE])
    BY <1>4 DEF LearnFails
  <2>2. [mem[w] EXCEPT !.votes = @ \ {v}, !.whole = FALSE] \in Mem
    BY <1>0 DEF Mem
  <2>3. mem' \in [Workers -> Mem]
    BY <1>0, <2>1, <2>2, BecomesType
  <2> QED
    BY <1>4, <2>3, BoundsType DEF TypeOK, LearnFails, settings, learning
<1>5. CASE EndSweep(w)
  <2>1. [mem[w] EXCEPT !.pc = "swept"] \in Mem
    BY <1>0 DEF Mem, PCs
  <2>2. mem' \in [Workers -> Mem]
    BY <1>0, <1>5, <2>1, BecomesType DEF EndSweep, GoTo
  <2> QED
    BY <1>5, <2>2 DEF TypeOK, EndSweep, settings, learning
<1>6. CASE Return(w)
  <2>1. mem' \in [Workers -> Mem]
    BY <1>0, <1>6, IdleType, BecomesType DEF Return
  <2> QED
    BY <1>6, <2>1 DEF TypeOK, Return, settings, learning
<1> QED
  BY <1>1, <1>2, <1>3, <1>4, <1>5, <1>6

\* ... the start and the end of a job, time and reactions.
LEMMA OtherTypeOK ==
  ASSUME TypeOK
  PROVE  /\ \A w \in Workers : Start(w, "check") \/ Start(w, "list") \/ Fail(w) => TypeOK'
         /\ \A k \in Keys, r \in Reactions : React(k, r) => TypeOK'
         /\ Tick => TypeOK'
<1>0. mem \in [Workers -> Mem]
  BY DEF TypeOK
<1>1. ASSUME NEW w \in Workers, Start(w, "check") \/ Start(w, "list") PROVE TypeOK'
  <2>1. /\ [Idle EXCEPT !.pc = "check", !.left = JobTTL] \in Mem
        /\ [Idle EXCEPT !.pc = "list", !.left = JobTTL] \in Mem
    BY IdleType, BoundsType DEF Mem, PCs
  <2>2. mem' \in [Workers -> Mem]
    BY <1>0, <1>1, <2>1, BecomesType DEF Start
  <2> QED
    BY <1>1, <2>2 DEF TypeOK, Start, settings, learning
<1>2. ASSUME NEW w \in Workers, Fail(w) PROVE TypeOK'
  <2>1. mem' \in [Workers -> Mem]
    BY <1>0, <1>2, IdleType, BecomesType DEF Fail
  <2>2. events' \in 0 .. MaxEvents
    BY <1>2, BoundsType DEF Fail, TypeOK
  <2> QED
    BY <1>2, <2>1, <2>2 DEF TypeOK, Fail, settings, learning
<1>3. ASSUME NEW k \in Keys, NEW r \in Reactions, React(k, r) PROVE TypeOK'
  <2>1. reactions' \in [Keys -> SUBSET Reactions] /\ blamed' \in SUBSET Keys
    BY <1>3 DEF React, TypeOK
  <2>2. ASSUME NEW w \in Workers PROVE [mem[w] EXCEPT !.standing = @ \ {k}] \in Mem
    BY MemType DEF Mem
  <2>3. mem' \in [Workers -> Mem]
    BY <1>0, <1>3, <2>2 DEF React
  <2> QED
    BY <1>3, <2>1, <2>3, BoundsType DEF TypeOK, React, settings
<1>4. ASSUME Tick PROVE TypeOK'
  <2>1. cache.left \in 0 .. TTL /\ cache.age \in Ages /\ row \in Ages
    BY DEF TypeOK
  <2>2. cache' \in [left : 0 .. TTL, age : Ages] /\ row' \in Ages
    <3>1. (IF cache.left > 0 THEN cache.left - 1 ELSE 0) \in 0 .. TTL
      BY <2>1, RepoMemoryAssumption
    <3>2. Older(cache.age) \in Ages /\ Older(row) \in Ages
      BY <2>1, OlderType
    <3> QED
      BY <1>4, <3>1, <3>2 DEF Tick
  <2>3. ASSUME NEW w \in Workers, ~ At(w, "idle")
        PROVE  [mem[w] EXCEPT !.left = @ - 1,
                              !.age = IF mem[w].pc \in InHand THEN Older(@) ELSE @] \in Mem
    <3>1. mem[w] \in Mem
      BY MemType
    <3>2. mem[w].left - 1 \in 0 .. JobTTL
      <4>1. mem[w].left \in 0 .. JobTTL
        BY <3>1 DEF Mem
      <4>2. mem[w].left > 0
        BY <1>4, <2>3 DEF Tick
      <4> QED
        BY <4>1, <4>2, RepoMemoryAssumption
    <3>3. mem[w].age \in Ages /\ Older(mem[w].age) \in Ages
      BY <3>1, OlderType DEF Mem
    <3>4. (IF mem[w].pc \in InHand THEN Older(mem[w].age) ELSE mem[w].age) \in Ages
      BY <3>3
    <3> QED
      BY <3>1, <3>2, <3>4 DEF Mem
  <2>4. mem' \in [Workers -> Mem]
    BY <1>4, <2>3, IdleType DEF Tick
  <2> QED
    BY <1>4, <2>2, <2>4, BoundsType DEF TypeOK, Tick, learning
<1> QED
  BY <1>1, <1>2, <1>3, <1>4

\* Every step keeps the types.
LEMMA NextTypeOK ==
  ASSUME TypeOK, [Next]_vars
  PROVE  TypeOK'
<1>1. CASE \E w \in Workers : Review(w) \/ Sweep(w) \/ Fail(w)
  BY <1>1, RefreshTypeOK, ReviewTypeOK, SweepTypeOK, OtherTypeOK DEF Review, Sweep
<1>2. CASE (\E k \in Keys, r \in Reactions : React(k, r)) \/ Tick
  BY <1>2, OtherTypeOK
<1>3. CASE UNCHANGED vars
  BY <1>3 DEF vars, settings, learning, TypeOK
<1> QED
  BY <1>1, <1>2, <1>3 DEF Next

\* No row and no local variable ever leaves its type, and no sweep looks at
\* more comments than it may.
THEOREM TypeCorrectness == Spec => []TypeOK
BY InitTypeOK, NextTypeOK, PTL DEF Spec

-----------------------------------------------------------------------------
(* The age of the settings in use *)

\* While JobTTL - left of the job has passed, settings read by the job are at
\* most that old, those from the cache a cache life and a job older, and those
\* in the row yet another job older.
InUse(m) ==
  /\ m.pc \in {"check", "fetch", "store", "persist"} => ~ m.own
  /\ m.pc = "store" => m.age <= JobTTL - m.left
  /\ m.pc = "persist" => m.age <= 2 * JobTTL + TTL - 1 - m.left
  /\ m.pc = "gate" /\ m.own => row <= 3 * JobTTL + TTL - 1 - m.left
  /\ m.pc = "suppress" /\ m.own => m.age <= 3 * JobTTL + TTL - 1

\* A cache entry was read from the repository at most a job before its life
\* began.
SettingsInv ==
  /\ cache.left > 0 => cache.age <= JobTTL + TTL - cache.left
  /\ \A w \in Workers : InUse(mem[w])

\* A step of one worker that leaves the settings alone only has to answer for
\* that worker.
LEMMA SettingsKept ==
  ASSUME TypeOK, SettingsInv, NEW w \in Workers, NEW m \in Mem,
         Becomes(w, m), InUse(m), UNCHANGED <<cache, row>>
  PROVE  SettingsInv'
<1>1. mem'[w] = m /\ \A v \in Workers : v # w => mem'[v] = mem[v]
  BY BecomesType DEF TypeOK
<1>2. ASSUME NEW v \in Workers PROVE InUse(mem[v])'
  BY <1>1 DEF SettingsInv, InUse
<1> QED
  BY <1>2 DEF SettingsInv

\* The steps of refreshConfig keep the ages in bounds ...
LEMMA RefreshSettings ==
  ASSUME TypeOK, SettingsInv, NEW w \in Workers,
         CheckCache(w) \/ Fetch(w) \/ StoreCache(w) \/ PersistRow(w) \/ PersistFails(w)
  PROVE  SettingsInv'
<1>0. /\ mem[w] \in Mem
      /\ mem[w].left \in 0 .. JobTTL /\ mem[w].age \in Nat
      /\ cache.left \in 0 .. TTL /\ cache.age \in Nat
      /\ row \in Nat
      /\ JobTTL \in Nat \ {0} /\ TTL \in Nat \ {0}
  BY MemType, RepoMemoryAssumption DEF TypeOK, Mem, Ages, Limit
<1>00. InUse(mem[w])
  BY DEF SettingsInv
<1>1. CASE CheckCache(w)
  <2>1. ~ mem[w].own
    BY <1>1, <1>00 DEF CheckCache, At, InUse
  <2>2. CASE Cached
    <3> DEFINE m == [mem[w] EXCEPT !.pc = "persist", !.age = cache.age]
    <3>1. Becomes(w, m) /\ UNCHANGED <<cache, row>>
      BY <1>1, <2>2 DEF CheckCache, settings
    <3>2. /\ m \in Mem
          /\ m.pc = "persist" /\ m.age = cache.age /\ m.left = mem[w].left /\ m.own = mem[w].own
      BY <1>0 DEF TypeOK, Mem, PCs
    <3> HIDE DEF m
    <3>3. cache.age <= 2 * JobTTL + TTL - 1 - mem[w].left
      BY <1>0, <2>2 DEF Cached, SettingsInv
    <3>4. InUse(m)
      BY <2>1, <3>2, <3>3 DEF InUse
    <3> QED
      BY <3>1, <3>2, <3>4, SettingsKept
  <2>3. CASE ~ Cached
    <3> DEFINE m == [mem[w] EXCEPT !.pc = "fetch"]
    <3>1. Becomes(w, m) /\ UNCHANGED <<cache, row>>
      BY <1>1, <2>3 DEF CheckCache, settings
    <3>2. m \in Mem /\ m.pc = "fetch" /\ m.own = mem[w].own
      BY <1>0 DEF Mem, PCs
    <3> HIDE DEF m
    <3>3. InUse(m)
      BY <2>1, <3>2 DEF InUse
    <3> QED
      BY <3>1, <3>2, <3>3, SettingsKept
  <2> QED
    BY <2>2, <2>3
<1>2. CASE Fetch(w)
  <2>1. ~ mem[w].own
    BY <1>2, <1>00 DEF Fetch, At, InUse
  <2> DEFINE m == [mem[w] EXCEPT !.pc = "store", !.age = 0]
             n == [mem[w] EXCEPT !.pc = "gate"]
  <2>2. (Becomes(w, m) \/ Becomes(w, n)) /\ UNCHANGED <<cache, row>>
    BY <1>2 DEF Fetch, Either, settings
  <2>3. m \in Mem /\ m.pc = "store" /\ m.age = 0 /\ m.left = mem[w].left /\ m.own = mem[w].own
    BY <1>0, BoundsType DEF Mem, PCs
  <2>4. n \in Mem /\ n.pc = "gate" /\ n.own = mem[w].own
    BY <1>0 DEF Mem, PCs
  <2> HIDE DEF m, n
  <2>5. InUse(m) /\ InUse(n)
    <3>1. 0 <= JobTTL - mem[w].left
      BY <1>0
    <3> QED
      BY <2>1, <2>3, <2>4, <3>1 DEF InUse
  <2> QED
    BY <2>2, <2>3, <2>4, <2>5, SettingsKept
<1>3. CASE StoreCache(w)
  <2> DEFINE m == [mem[w] EXCEPT !.pc = "persist"]
  <2>1. ~ mem[w].own /\ mem[w].age <= JobTTL - mem[w].left
    BY <1>3, <1>00 DEF StoreCache, At, InUse
  <2>2. /\ m \in Mem /\ m.pc = "persist"
        /\ m.age = mem[w].age /\ m.left = mem[w].left /\ m.own = mem[w].own
    BY <1>0 DEF Mem, PCs
  <2>3. Becomes(w, m) /\ row' = row /\ cache' = [left |-> TTL, age |-> mem[w].age]
    BY <1>3 DEF StoreCache, GoTo
  <2> HIDE DEF m
  <2>4. mem[w].age <= 2 * JobTTL + TTL - 1 - mem[w].left /\ mem[w].age <= JobTTL + TTL - TTL
    BY <1>0, <2>1
  <2>6. mem'[w] = m /\ \A v \in Workers : v # w => mem'[v] = mem[v]
    BY <2>2, <2>3, BecomesType DEF TypeOK
  <2>7. ASSUME NEW v \in Workers PROVE InUse(mem[v])'
    BY <2>2, <2>3, <2>4, <2>1, <2>6 DEF SettingsInv, InUse
  <2> QED
    BY <2>3, <2>4, <2>7 DEF SettingsInv
<1>4. CASE PersistRow(w)
  <2> DEFINE m == [mem[w] EXCEPT !.pc = "gate", !.own = TRUE]
  <2>1. mem[w].age <= 2 * JobTTL + TTL - 1 - mem[w].left
    BY <1>4, <1>00 DEF PersistRow, At, InUse
  <2>2. m \in Mem /\ m.pc = "gate" /\ m.left = mem[w].left
    BY <1>0 DEF Mem, PCs
  <2>3. Becomes(w, m) /\ cache' = cache /\ row' = mem[w].age
    BY <1>4 DEF PersistRow
  <2> HIDE DEF m
  <2>4. mem'[w] = m /\ \A v \in Workers : v # w => mem'[v] = mem[v]
    BY <2>2, <2>3, BecomesType DEF TypeOK
  <2>5. ASSUME NEW v \in Workers PROVE row' <= 3 * JobTTL + TTL - 1 - mem[v].left
    <3>1. mem[v].left \in 0 .. JobTTL
      BY MemType DEF Mem
    <3> QED
      BY <1>0, <2>1, <2>3, <3>1
  <2>6. ASSUME NEW v \in Workers PROVE InUse(mem[v])'
    <3>1. CASE v = w
      BY <2>2, <2>4, <2>5, <3>1 DEF InUse
    <3>2. CASE v # w
      BY <2>4, <2>5, <3>2 DEF SettingsInv, InUse
    <3> QED
      BY <3>1, <3>2
  <2> QED
    BY <2>3, <2>6 DEF SettingsInv
<1>5. CASE PersistFails(w)
  <2> DEFINE m == [mem[w] EXCEPT !.pc = "gate"]
  <2>1. ~ mem[w].own
    BY <1>5, <1>00 DEF PersistFails, At, InUse
  <2>2. m \in Mem /\ m.pc = "gate" /\ m.own = mem[w].own
    BY <1>0 DEF Mem, PCs
  <2>3. Becomes(w, m) /\ UNCHANGED <<cache, row>>
    BY <1>5 DEF PersistFails, GoTo, settings
  <2> HIDE DEF m
  <2>4. InUse(m)
    BY <2>1, <2>2 DEF InUse
  <2> QED
    BY <2>2, <2>3, <2>4, SettingsKept
<1> QED
  BY <1>1, <1>2, <1>3, <1>4, <1>5

\* ... and so do the gates, which take the row's ...
LEMMA GateSettings ==
  ASSUME TypeOK, SettingsInv, NEW w \in Workers, Gate(w)
  PROVE  SettingsInv'
<1> DEFINE m == [mem[w] EXCEPT !.pc = "suppress", !.age = row]
<1>1. mem[w] \in Mem /\ mem[w].left \in 0 .. JobTTL /\ row \in Ages
  BY MemType DEF Mem, TypeOK
<1>2. m \in Mem /\ m.pc = "suppress" /\ m.age = row /\ m.own = mem[w].own
  BY <1>1 DEF Mem, PCs
<1>3. (Becomes(w, Idle) \/ Becomes(w, m)) /\ UNCHANGED <<cache, row>>
  BY DEF Gate, settings
<1> HIDE DEF m
<1>4. InUse(m)
  <2>1. mem[w].own => row <= 3 * JobTTL + TTL - 1 - mem[w].left
    BY DEF Gate, At, SettingsInv, InUse
  <2>2. mem[w].own => row <= 3 * JobTTL + TTL - 1
    BY <1>1, <2>1, RepoMemoryAssumption DEF Ages, Limit
  <2> QED
    BY <1>2, <2>2 DEF InUse
<1>5. InUse(Idle)
  BY DEF InUse, Idle
<1> QED
  BY <1>2, <1>3, <1>4, <1>5, IdleType, SettingsKept

\* ... and every other step of a worker, which brings it to a statement where
\* its settings do not matter.
LEMMA OtherSettings ==
  ASSUME TypeOK, SettingsInv, NEW w \in Workers,
         \/ Start(w, "check") \/ Start(w, "list") \/ Fail(w)
         \/ ReadSuppressed(w) \/ PostComments(w)
         \/ Sweep(w)
  PROVE  SettingsInv'
<1>0. mem[w] \in Mem
  BY MemType
<1>1. ASSUME NEW m \in Mem, Becomes(w, m), UNCHANGED <<cache, row>>,
             m.pc \in {"idle", "post", "list", "sweep", "swept"}
      PROVE  SettingsInv'
  BY <1>1, SettingsKept DEF InUse
<1>2. Idle \in Mem /\ Idle.pc = "idle" /\ ~ Idle.own
  BY IdleType DEF Idle
<1>3. CASE Start(w, "check")
  <2> DEFINE m == [Idle EXCEPT !.pc = "check", !.left = JobTTL]
  <2>1. m \in Mem /\ m.pc = "check" /\ m.own = Idle.own
    BY <1>2, BoundsType DEF Mem, PCs
  <2> HIDE DEF m
  <2>2. InUse(m)
    BY <1>2, <2>1 DEF InUse
  <2> QED
    BY <1>3, <2>1, <2>2, SettingsKept DEF Start, settings, m
<1>4. CASE Start(w, "list")
  <2>1. /\ [Idle EXCEPT !.pc = "list", !.left = JobTTL] \in Mem
        /\ [Idle EXCEPT !.pc = "list", !.left = JobTTL].pc = "list"
    BY <1>2, BoundsType DEF Mem, PCs
  <2> QED
    BY <1>1, <1>4, <2>1 DEF Start, settings
<1>5. CASE Fail(w) \/ PostComments(w) \/ Return(w)
  BY <1>1, <1>2, <1>5 DEF Fail, PostComments, Return, settings
<1>6. CASE ReadSuppressed(w)
  <2>1. SuppressedKeys \in SUBSET Keys
    BY DEF SuppressedKeys
  <2>2. /\ [mem[w] EXCEPT !.pc = "post", !.suppressed = SuppressedKeys] \in Mem
        /\ [mem[w] EXCEPT !.pc = "post", !.suppressed = SuppressedKeys].pc = "post"
        /\ [mem[w] EXCEPT !.pc = "post"] \in Mem
        /\ [mem[w] EXCEPT !.pc = "post"].pc = "post"
    BY <1>0, <2>1 DEF Mem, PCs
  <2> QED
    BY <1>1, <1>6, <2>2 DEF ReadSuppressed, Either, settings
<1>7. CASE ListComments(w) \/ NextComment(w) \/ Learn(w) \/ LearnFails(w) \/ EndSweep(w)
  <2>1. mem'[w] \in Mem
    BY <1>7, SweepTypeOK DEF TypeOK
  <2>2. mem'[w].pc \in {"sweep", "swept"} /\ Becomes(w, mem'[w]) /\ UNCHANGED <<cache, row>>
    <3>1. ASSUME NEW m, Becomes(w, m), m.pc \in {"sweep", "swept"}
          PROVE  mem'[w].pc \in {"sweep", "swept"} /\ Becomes(w, mem'[w])
      <4>1. mem'[w] = m
        BY <3>1 DEF Becomes, TypeOK
      <4> QED
        BY <3>1, <4>1
    <3>2. CASE ListComments(w)
      <4> DEFINE m == [mem[w] EXCEPT !.pc = "sweep", !.todo = comments,
                         !.whole = Cardinality(comments) <= MaxComments,
                         !.standing = {k \in comments : Against \in reactions[k]}]
      <4>1. Becomes(w, m) /\ UNCHANGED <<cache, row>>
        BY <3>2 DEF ListComments, settings
      <4>2. m.pc = "sweep"
        BY <1>0 DEF Mem
      <4> HIDE DEF m
      <4> QED
        BY <3>1, <4>1, <4>2
    <3>3. CASE NextComment(w)
      <4>1. mem[w].pc = "sweep" /\ UNCHANGED <<cache, row>>
        BY <3>3 DEF NextComment, At, settings
      <4>2. PICK k \in mem[w].todo :
              LET next == [mem[w] EXCEPT !.todo = @ \ {k}, !.seen = @ + 1] IN
              \/ \E P \in Page(reactions[k]) :
                   Becomes(w, [next EXCEPT !.votes = {k} \X Counted(P),
                                           !.whole = @ /\ P = reactions[k]])
              \/ Becomes(w, [next EXCEPT !.whole = FALSE])
        BY <3>3 DEF NextComment
      <4> DEFINE next == [mem[w] EXCEPT !.todo = @ \ {k}, !.seen = @ + 1]
      <4>3. /\ \A P : [next EXCEPT !.votes = {k} \X Counted(P),
                                   !.whole = @ /\ P = reactions[k]].pc = "sweep"
            /\ [next EXCEPT !.whole = FALSE].pc = "sweep"
        BY <1>0, <4>1 DEF Mem
      <4> HIDE DEF next
      <4> QED
        BY <3>1, <4>1, <4>2, <4>3 DEF next
    <3>4. CASE Learn(w) \/ LearnFails(w)
      <4>1. mem[w].pc = "sweep" /\ UNCHANGED <<cache, row>>
        BY <3>4 DEF Learn, LearnFails, At, settings
      <4>2. PICK v \in mem[w].votes :
              \/ Becomes(w, [mem[w] EXCEPT !.votes = @ \ {v}])
              \/ Becomes(w, [mem[w] EXCEPT !.votes = @ \ {v}, !.whole = FALSE])
        BY <3>4 DEF Learn, LearnFails
      <4>3. /\ [mem[w] EXCEPT !.votes = @ \ {v}].pc = "sweep"
            /\ [mem[w] EXCEPT !.votes = @ \ {v}, !.whole = FALSE].pc = "sweep"
        BY <1>0, <4>1 DEF Mem
      <4> QED
        BY <3>1, <4>1, <4>2, <4>3
    <3>5. CASE EndSweep(w)
      <4>1. Becomes(w, [mem[w] EXCEPT !.pc = "swept"]) /\ UNCHANGED <<cache, row>>
        BY <3>5 DEF EndSweep, GoTo, settings
      <4>2. [mem[w] EXCEPT !.pc = "swept"].pc = "swept"
        BY <1>0 DEF Mem
      <4> QED
        BY <3>1, <4>1, <4>2
    <3> QED
      BY <1>7, <3>2, <3>3, <3>4, <3>5
  <2> QED
    BY <1>1, <2>1, <2>2
<1> QED
  BY <1>3, <1>4, <1>5, <1>6, <1>7 DEF Sweep

\* Time makes everything one older, the lives of jobs and entries one shorter.
LEMMA TickSettings ==
  ASSUME TypeOK, SettingsInv, Tick
  PROVE  SettingsInv'
<1>1. /\ cache.left \in 0 .. TTL /\ cache.age \in Ages /\ row \in Ages
      /\ Older(cache.age) <= cache.age + 1 /\ Older(row) <= row + 1
      /\ Older(cache.age) \in Ages /\ Older(row) \in Ages
  BY OlderType DEF TypeOK
<1>2. (cache.left > 0 => cache.age <= JobTTL + TTL - cache.left)'
  <2>1. cache' = [left |-> IF cache.left > 0 THEN cache.left - 1 ELSE 0, age |-> Older(cache.age)]
    BY DEF Tick
  <2> QED
    BY <1>1, <2>1, RepoMemoryAssumption DEF SettingsInv, Ages, Limit
<1>3. ASSUME NEW w \in Workers PROVE InUse(mem[w])'
  <2>0. mem[w] \in Mem /\ InUse(mem[w]) /\ row' = Older(row)
    BY MemType DEF SettingsInv, Tick
  <2>1. CASE At(w, "idle")
    BY <2>1 DEF Tick, InUse, Idle
  <2>2. CASE ~ At(w, "idle")
    <3> DEFINE m == [mem[w] EXCEPT !.left = @ - 1,
                                   !.age = IF mem[w].pc \in InHand THEN Older(@) ELSE @]
    <3>1. mem'[w] = m
      BY <2>2 DEF Tick
    <3>2. /\ m.pc = mem[w].pc /\ m.own = mem[w].own /\ m.left = mem[w].left - 1
          /\ m.age = IF mem[w].pc \in InHand THEN Older(mem[w].age) ELSE mem[w].age
      BY <2>0 DEF Mem
    <3> HIDE DEF m
    <3>3. /\ mem[w].left \in 0 .. JobTTL /\ mem[w].age \in Ages
          /\ Older(mem[w].age) \in Ages /\ Older(mem[w].age) <= mem[w].age + 1
      BY <2>0, OlderType DEF Mem
    <3>4. m.age \in Ages /\ m.age <= mem[w].age + 1
      BY <3>2, <3>3, RepoMemoryAssumption DEF Ages, Limit
    <3>5. m.pc \notin InHand => m.age = mem[w].age
      BY <3>2
    <3>6. m.pc = "store" => m.age <= JobTTL - m.left
      BY <2>0, <3>2, <3>3, <3>4, RepoMemoryAssumption DEF InUse, Ages, Limit
    <3>7. m.pc = "persist" => m.age <= 2 * JobTTL + TTL - 1 - m.left
      BY <2>0, <3>2, <3>3, <3>4, RepoMemoryAssumption DEF InUse, Ages, Limit
    <3>8. m.pc = "gate" /\ m.own => row' <= 3 * JobTTL + TTL - 1 - m.left
      BY <1>1, <2>0, <3>2, <3>3, RepoMemoryAssumption DEF InUse, Ages, Limit
    <3>9. m.pc = "suppress" /\ m.own => m.age <= 3 * JobTTL + TTL - 1
      BY <2>0, <3>2, <3>5 DEF InUse, InHand
    <3>10. m.pc \in {"check", "fetch", "store", "persist"} => ~ m.own
      BY <2>0, <3>2 DEF InUse
    <3> QED
      BY <3>1, <3>6, <3>7, <3>8, <3>9, <3>10 DEF InUse
  <2> QED
    BY <2>1, <2>2
<1> QED
  BY <1>2, <1>3 DEF SettingsInv

\* Every step keeps the ages in bounds.
LEMMA NextSettings ==
  ASSUME TypeOK, SettingsInv, [Next]_vars
  PROVE  SettingsInv'
<1>1. CASE \E w \in Workers : Review(w) \/ Sweep(w) \/ Fail(w)
  BY <1>1, RefreshSettings, GateSettings, OtherSettings DEF Review
<1>2. ASSUME NEW k \in Keys, NEW r \in Reactions, React(k, r) PROVE SettingsInv'
  <2>1. UNCHANGED <<cache, row>>
    BY <1>2 DEF React, settings
  <2>2. ASSUME NEW w \in Workers
        PROVE  /\ mem'[w].pc = mem[w].pc /\ mem'[w].own = mem[w].own
               /\ mem'[w].age = mem[w].age /\ mem'[w].left = mem[w].left
    BY <1>2, MemType DEF React, Mem
  <2> QED
    BY <2>1, <2>2 DEF SettingsInv, InUse
<1>3. CASE Tick
  BY <1>3, TickSettings
<1>4. CASE UNCHANGED vars
  BY <1>4 DEF vars, settings, SettingsInv, InUse
<1> QED
  BY <1>1, <1>2, <1>3, <1>4 DEF Next

\* A review whose own refresh succeeded never goes by settings that were read
\* from the repository a cache life and three job lives ago, or earlier.
THEOREM SettingsStayRecent == Spec => []SettingsRecent
<1>1. Init => SettingsInv
  BY DEF Init, SettingsInv, InUse, Idle
<1>2. TypeOK /\ SettingsInv => SettingsRecent
  <2> SUFFICES ASSUME TypeOK, SettingsInv, NEW w \in Workers, At(w, "suppress"), mem[w].own
               PROVE  mem[w].age < Limit
    BY DEF SettingsRecent
  <2>1. mem[w].age \in Ages /\ mem[w].age <= 3 * JobTTL + TTL - 1
    BY MemType DEF SettingsInv, InUse, At, Mem
  <2> QED
    BY <2>1, RepoMemoryAssumption DEF Ages, Limit
<1> QED
  BY <1>1, <1>2, InitTypeOK, NextTypeOK, NextSettings, PTL DEF Spec

-----------------------------------------------------------------------------
(* Weights and votes *)

\* The votes that a sweep has read are people's, and those against a finding
\* make somebody blame it.
Honest(m) == \A v \in m.votes : v[2][1] # "bot" /\ (v[2] = Against => v[1] \in blamed)

\* The rows of a finding only ever go one way, and down only by such votes.
VotesInv ==
  /\ \A k \in Keys :
       /\ weight[k]["up"] >= 0 /\ weight[k]["down"] <= 0
       /\ weight[k]["down"] < 0 => k \in blamed
       /\ Against \in reactions[k] => k \in blamed
  /\ \A w \in Workers : Honest(mem[w])

\* A step of one worker that leaves the rows and reactions alone only has to
\* answer for the votes it has read.
LEMMA VotesKept ==
  ASSUME TypeOK, VotesInv, NEW w \in Workers, NEW m, Becomes(w, m), Honest(m),
         UNCHANGED <<reactions, weight, blamed>>
  PROVE  VotesInv'
<1>1. mem'[w] = m /\ \A v \in Workers : v # w => mem'[v] = mem[v]
  BY DEF TypeOK, Becomes
<1>2. ASSUME NEW v \in Workers PROVE Honest(mem[v])'
  <2>1. Honest(mem'[v])
    BY <1>1 DEF VotesInv
  <2> QED
    BY <2>1 DEF Honest
<1> QED
  BY <1>2 DEF VotesInv

\* Most steps read no votes.
LEMMA FewerVotes ==
  ASSUME TypeOK, VotesInv, NEW w \in Workers, NEW m, m.votes \subseteq mem[w].votes
  PROVE  Honest(m)
BY DEF VotesInv, Honest

\* The steps of a review and the ends of a job.
LEMMA ReviewVotes ==
  ASSUME TypeOK, VotesInv, NEW w \in Workers, Review(w) \/ Start(w, "list") \/ Fail(w)
  PROVE  VotesInv'
<1>0. mem[w] \in Mem /\ Idle.votes = {}
  BY MemType DEF Idle
<1>1. ASSUME NEW m, Becomes(w, m), m.votes = mem[w].votes \/ m.votes = {},
             UNCHANGED <<reactions, weight, blamed>>
      PROVE  VotesInv'
  <2>1. m.votes \subseteq mem[w].votes
    BY <1>1
  <2> QED
    BY <1>1, <2>1, FewerVotes, VotesKept
<1>2. CASE Start(w, "check") \/ Start(w, "list")
  <2>1. /\ [Idle EXCEPT !.pc = "check", !.left = JobTTL].votes = {}
        /\ [Idle EXCEPT !.pc = "list", !.left = JobTTL].votes = {}
    BY DEF Idle
  <2> QED
    BY <1>1, <1>2, <2>1 DEF Start, learning
<1>3. CASE Fail(w) \/ PostComments(w)
  BY <1>0, <1>1, <1>3 DEF Fail, PostComments, learning
<1>4. CASE CheckCache(w)
  <2>1. /\ [mem[w] EXCEPT !.pc = "persist", !.age = cache.age].votes = mem[w].votes
        /\ [mem[w] EXCEPT !.pc = "fetch"].votes = mem[w].votes
    BY <1>0 DEF Mem
  <2> QED
    BY <1>1, <1>4, <2>1 DEF CheckCache, learning
<1>5. CASE Fetch(w)
  <2>1. /\ [mem[w] EXCEPT !.pc = "store", !.age = 0].votes = mem[w].votes
        /\ [mem[w] EXCEPT !.pc = "gate"].votes = mem[w].votes
    BY <1>0 DEF Mem
  <2> QED
    BY <1>1, <1>5, <2>1 DEF Fetch, Either, learning
<1>6. CASE StoreCache(w) \/ PersistFails(w)
  <2>1. /\ [mem[w] EXCEPT !.pc = "persist"].votes = mem[w].votes
        /\ [mem[w] EXCEPT !.pc = "gate"].votes = mem[w].votes
    BY <1>0 DEF Mem
  <2> QED
    BY <1>1, <1>6, <2>1 DEF StoreCache, PersistFails, GoTo, learning
<1>7. CASE PersistRow(w)
  <2>1. [mem[w] EXCEPT !.pc = "gate", !.own = TRUE].votes = mem[w].votes
    BY <1>0 DEF Mem
  <2> QED
    BY <1>1, <1>7, <2>1 DEF PersistRow, learning
<1>8. CASE Gate(w)
  <2>1. [mem[w] EXCEPT !.pc = "suppress", !.age = row].votes = mem[w].votes
    BY <1>0 DEF Mem
  <2> QED
    BY <1>0, <1>1, <1>8, <2>1 DEF Gate, learning
<1>9. CASE ReadSuppressed(w)
  <2>1. /\ [mem[w] EXCEPT !.pc = "post", !.suppressed = SuppressedKeys].votes = mem[w].votes
        /\ [mem[w] EXCEPT !.pc = "post"].votes = mem[w].votes
    BY <1>0 DEF Mem
  <2> QED
    BY <1>1, <1>9, <2>1 DEF ReadSuppressed, Either, learning
<1> QED
  BY <1>2, <1>3, <1>4, <1>5, <1>6, <1>7, <1>8, <1>9 DEF Review

\* A sweep reads people's reactions and adds them to the rows.
LEMMA SweepVotes ==
  ASSUME TypeOK, VotesInv, NEW w \in Workers,
         ListComments(w) \/ NextComment(w) \/ Learn(w) \/ LearnFails(w) \/ EndSweep(w) \/ Return(w)
  PROVE  VotesInv'
<1>0. mem[w] \in Mem
  BY MemType
<1>1. CASE ListComments(w)
  <2>1. [mem[w] EXCEPT !.pc = "sweep", !.todo = comments,
           !.whole = Cardinality(comments) <= MaxComments,
           !.standing = {k \in comments : Against \in reactions[k]}].votes = mem[w].votes
    BY <1>0 DEF Mem
  <2> QED
    BY <1>1, <2>1, FewerVotes, VotesKept DEF ListComments, learning
<1>2. CASE NextComment(w)
  <2>1. PICK k \in mem[w].todo :
          LET next == [mem[w] EXCEPT !.todo = @ \ {k}, !.seen = @ + 1] IN
          \/ \E P \in Page(reactions[k]) :
               Becomes(w, [next EXCEPT !.votes = {k} \X Counted(P),
                                       !.whole = @ /\ P = reactions[k]])
          \/ Becomes(w, [next EXCEPT !.whole = FALSE])
    BY <1>2 DEF NextComment
  <2> DEFINE next == [mem[w] EXCEPT !.todo = @ \ {k}, !.seen = @ + 1]
             nextOf(P) == [next EXCEPT !.votes = {k} \X Counted(P),
                                       !.whole = @ /\ P = reactions[k]]
  <2>2. /\ \A P : nextOf(P).votes = {k} \X Counted(P)
        /\ [next EXCEPT !.whole = FALSE].votes = mem[w].votes
    BY <1>0 DEF Mem
  <2>3. k \in Keys
    BY <1>0 DEF Mem
  <2>4. ASSUME NEW P \in Page(reactions[k]) PROVE Honest(nextOf(P))
    <3>1. ASSUME NEW v \in {k} \X Counted(P)
          PROVE  v[2][1] # "bot" /\ (v[2] = Against => v[1] \in blamed)
      <4>1. v[1] = k /\ v[2] \in Counted(P)
        OBVIOUS
      <4>2. v[2][1] # "bot" /\ v[2] \in reactions[k]
        BY <4>1 DEF Counted, Page
      <4> QED
        BY <2>3, <4>1, <4>2 DEF VotesInv
    <3> HIDE DEF nextOf
    <3> QED
      BY <2>2, <3>1 DEF Honest
  <2>5. UNCHANGED <<reactions, weight, blamed>>
    BY <1>2 DEF NextComment, learning
  <2>6. Honest([next EXCEPT !.whole = FALSE])
    BY <2>2, FewerVotes
  <2>7. (\E P \in Page(reactions[k]) : Becomes(w, nextOf(P))) \/ Becomes(w, [next EXCEPT !.whole = FALSE])
    BY <2>1
  <2> HIDE DEF next, nextOf
  <2> QED
    BY <2>4, <2>5, <2>6, <2>7, VotesKept
<1>3. CASE Learn(w)
  <2>1. PICK v \in mem[w].votes :
          LET signal == IF v[2][2] = "-1" THEN "down" ELSE "up" IN
          /\ weight' = [weight EXCEPT ![v[1]][signal] = Clamp(@ + Delta(signal))]
          /\ Becomes(w, [mem[w] EXCEPT !.votes = @ \ {v}])
    BY <1>3 DEF Learn
  <2>2. v[1] \in Keys /\ v[2] \in Reactions
    BY <1>0 DEF Mem
  <2>3. v[2][1] # "bot" /\ (v[2] = Against => v[1] \in blamed)
    BY DEF VotesInv, Honest
  <2>4. v[2][2] = "-1" => v[1] \in blamed
    BY <2>2, <2>3 DEF Reactions, Against
  <2>5. [mem[w] EXCEPT !.votes = @ \ {v}].votes \subseteq mem[w].votes
    BY <1>0 DEF Mem
  <2>6. UNCHANGED <<reactions, blamed>>
    BY <1>3 DEF Learn
  <2>7. ASSUME NEW k \in Keys
        PROVE  /\ weight'[k]["up"] >= 0 /\ weight'[k]["down"] <= 0
               /\ weight'[k]["down"] < 0 => k \in blamed
    <3>1. /\ weight[k]["up"] >= 0 /\ weight[k]["down"] <= 0
          /\ weight[k]["down"] < 0 => k \in blamed
      BY DEF VotesInv
    <3>2. /\ weight \in [Keys -> [Signals -> Int]]
          /\ weight[k]["up"] \in Int /\ weight[k]["down"] \in Int
      BY DEF TypeOK, Signals
    <3>3. CASE k # v[1]
      BY <2>1, <3>1, <3>2, <3>3
    <3>4. CASE k = v[1] /\ v[2][2] = "-1"
      <4>1. weight'[k]["up"] = weight[k]["up"] /\ weight'[k]["down"] = Clamp(weight[k]["down"] + Delta("down"))
        BY <2>1, <3>2, <3>4 DEF Signals
      <4>2. weight'[k]["down"] <= 0
        BY <3>1, <3>2, <4>1, ClampType DEF Delta
      <4> QED
        BY <2>4, <3>1, <3>4, <4>1, <4>2
    <3>5. CASE k = v[1] /\ v[2][2] # "-1"
      <4>1. weight'[k]["down"] = weight[k]["down"] /\ weight'[k]["up"] = Clamp(weight[k]["up"] + Delta("up"))
        BY <2>1, <3>2, <3>5 DEF Signals
      <4>2. weight'[k]["up"] >= 0
        BY <3>1, <3>2, <4>1, ClampType DEF Delta
      <4> QED
        BY <3>1, <4>1, <4>2
    <3> QED
      BY <3>3, <3>4, <3>5
  <2>8. ASSUME NEW u \in Workers PROVE Honest(mem[u])'
    <3>1. mem'[u].votes \subseteq mem[u].votes
      BY <2>1, <2>5 DEF Becomes, TypeOK
    <3> QED
      BY <2>6, <3>1 DEF VotesInv, Honest
  <2> QED
    BY <2>6, <2>7, <2>8 DEF VotesInv
<1>4. CASE LearnFails(w)
  <2>1. PICK v \in mem[w].votes : Becomes(w, [mem[w] EXCEPT !.votes = @ \ {v}, !.whole = FALSE])
    BY <1>4 DEF LearnFails
  <2>2. [mem[w] EXCEPT !.votes = @ \ {v}, !.whole = FALSE].votes \subseteq mem[w].votes
    BY <1>0 DEF Mem
  <2> QED
    BY <1>4, <2>1, <2>2, FewerVotes, VotesKept DEF LearnFails, learning
<1>5. CASE EndSweep(w)
  <2>1. [mem[w] EXCEPT !.pc = "swept"].votes = mem[w].votes
    BY <1>0 DEF Mem
  <2> QED
    BY <1>5, <2>1, FewerVotes, VotesKept DEF EndSweep, GoTo, learning
<1>6. CASE Return(w)
  <2>1. Idle.votes \subseteq mem[w].votes
    BY DEF Idle
  <2> QED
    BY <1>6, <2>1, FewerVotes, VotesKept DEF Return, learning
<1> QED
  BY <1>1, <1>2, <1>3, <1>4, <1>5, <1>6

\* Every step keeps rows and votes honest.
LEMMA NextVotes ==
  ASSUME TypeOK, VotesInv, [Next]_vars
  PROVE  VotesInv'
<1>1. CASE \E w \in Workers : Review(w) \/ Sweep(w) \/ Fail(w)
  BY <1>1, ReviewVotes, SweepVotes DEF Sweep
<1>2. ASSUME NEW k \in Keys, NEW r \in Reactions, React(k, r) PROVE VotesInv'
  <2>1. blamed \subseteq blamed' /\ weight' = weight
    BY <1>2 DEF React
  <2>2. ASSUME NEW j \in Keys, Against \in reactions'[j] PROVE j \in blamed'
    BY <1>2, <2>2 DEF React, TypeOK, VotesInv
  <2>3. ASSUME NEW w \in Workers PROVE mem'[w].votes = mem[w].votes
    BY <1>2, MemType DEF React, Mem
  <2>4. ASSUME NEW w \in Workers PROVE Honest(mem[w])'
    BY <2>1, <2>3 DEF VotesInv, Honest
  <2> QED
    BY <2>1, <2>2, <2>4 DEF VotesInv
<1>3. CASE Tick
  <2>1. UNCHANGED <<reactions, weight, blamed>>
    BY <1>3 DEF Tick, learning
  <2>2. ASSUME NEW w \in Workers PROVE mem'[w].votes \subseteq mem[w].votes
    <3>1. CASE At(w, "idle")
      BY <1>3, <3>1 DEF Tick, Idle
    <3>2. CASE ~ At(w, "idle")
      <4>1. mem'[w] = [mem[w] EXCEPT !.left = @ - 1,
                         !.age = IF mem[w].pc \in InHand THEN Older(@) ELSE @]
        BY <1>3, <3>2 DEF Tick
      <4> QED
        BY <4>1, MemType DEF Mem
    <3> QED
      BY <3>1, <3>2
  <2>3. ASSUME NEW w \in Workers PROVE Honest(mem[w])'
    BY <2>1, <2>2 DEF VotesInv, Honest
  <2> QED
    BY <2>1, <2>3 DEF VotesInv
<1>4. CASE UNCHANGED vars
  BY <1>4 DEF vars, learning, VotesInv, Honest
<1> QED
  BY <1>1, <1>2, <1>3, <1>4 DEF Next

\* The empty tables hold no votes.
LEMMA InitVotes == Init => VotesInv
BY DEF Init, VotesInv, Honest, Idle, Signals

\* No finding is ever suppressed that no person voted against.
THEOREM SuppressionTakesVote == Spec => []SuppressionNeedsVote
<1>1. TypeOK /\ VotesInv => SuppressionNeedsVote
  <2> SUFFICES ASSUME TypeOK, VotesInv, NEW k \in Keys, NEW s \in Signals, weight[k][s] <= -2
               PROVE  k \in blamed
    BY DEF SuppressionNeedsVote, SuppressedKeys
  <2>1. weight[k]["up"] \in Int /\ weight[k]["down"] \in Int
    BY DEF TypeOK, Signals
  <2> QED
    BY <2>1 DEF VotesInv, Signals
<1> QED
  BY <1>1, InitTypeOK, InitVotes, NextTypeOK, NextVotes, PTL DEF Spec

-----------------------------------------------------------------------------
(* Complete sweeps *)

\* A vote that stands is still to be read, has been read, or counts.
Pending(m) ==
  \A k \in m.standing : k \in m.todo \/ <<k, Against>> \in m.votes \/ weight[k]["down"] <= -2

\* A sweep that is whole so far may still look at everything it has to; and
\* the votes that stand are on GitHub.
Sound(m) ==
  /\ m.pc = "list" => m.seen = 0
  /\ m.pc = "sweep" => \A k \in m.standing : Against \in reactions[k]
  /\ m.pc = "sweep" /\ m.whole => Cardinality(m.todo) <= MaxComments - m.seen /\ Pending(m)
  /\ m.pc = "swept" /\ m.whole => \A k \in m.standing : weight[k]["down"] <= -2

SweepInv == \A w \in Workers : Sound(mem[w])

\* A step of one worker that leaves the rows and reactions alone only has to
\* answer for that worker.
LEMMA SweepKept ==
  ASSUME TypeOK, SweepInv, NEW w \in Workers, NEW m, Becomes(w, m), Sound(m),
         UNCHANGED <<reactions, weight>>
  PROVE  SweepInv'
<1>1. mem'[w] = m /\ \A v \in Workers : v # w => mem'[v] = mem[v]
  BY DEF TypeOK, Becomes
<1>2. ASSUME NEW v \in Workers PROVE Sound(mem[v])'
  <2>1. Sound(mem'[v])
    BY <1>1 DEF SweepInv
  <2> QED
    BY <2>1 DEF Sound, Pending
<1> QED
  BY <1>2 DEF SweepInv

\* A review is none of a sweep's business.
LEMMA ReviewSweep ==
  ASSUME TypeOK, SweepInv, NEW w \in Workers, Review(w) \/ Start(w, "list") \/ Fail(w)
  PROVE  SweepInv'
<1>0. mem[w] \in Mem /\ Idle.pc = "idle"
  BY MemType DEF Idle
<1>1. ASSUME NEW m, Becomes(w, m), m.pc \notin {"list", "sweep", "swept"},
             UNCHANGED <<reactions, weight>>
      PROVE  SweepInv'
  <2>1. Sound(m)
    BY <1>1 DEF Sound
  <2> QED
    BY <1>1, <2>1, SweepKept
<1>2. CASE Start(w, "check")
  <2>1. [Idle EXCEPT !.pc = "check", !.left = JobTTL].pc = "check"
    BY DEF Idle
  <2> QED
    BY <1>1, <1>2, <2>1 DEF Start, learning
<1>3. CASE Start(w, "list")
  <2> DEFINE m == [Idle EXCEPT !.pc = "list", !.left = JobTTL]
  <2>1. m.pc = "list" /\ m.seen = 0
    BY DEF Idle
  <2>2. Becomes(w, m) /\ UNCHANGED <<reactions, weight>>
    BY <1>3 DEF Start, learning
  <2> HIDE DEF m
  <2>3. Sound(m)
    BY <2>1 DEF Sound
  <2> QED
    BY <2>2, <2>3, SweepKept
<1>4. CASE Fail(w) \/ PostComments(w)
  BY <1>0, <1>1, <1>4 DEF Fail, PostComments, learning
<1>5. CASE CheckCache(w)
  <2>1. /\ [mem[w] EXCEPT !.pc = "persist", !.age = cache.age].pc = "persist"
        /\ [mem[w] EXCEPT !.pc = "fetch"].pc = "fetch"
    BY <1>0 DEF Mem
  <2> QED
    BY <1>1, <1>5, <2>1 DEF CheckCache, learning
<1>6. CASE Fetch(w)
  <2>1. /\ [mem[w] EXCEPT !.pc = "store", !.age = 0].pc = "store"
        /\ [mem[w] EXCEPT !.pc = "gate"].pc = "gate"
    BY <1>0 DEF Mem
  <2> QED
    BY <1>1, <1>6, <2>1 DEF Fetch, Either, learning
<1>7. CASE StoreCache(w) \/ PersistFails(w)
  <2>1. /\ [mem[w] EXCEPT !.pc = "persist"].pc = "persist"
        /\ [mem[w] EXCEPT !.pc = "gate"].pc = "gate"
    BY <1>0 DEF Mem
  <2> QED
    BY <1>1, <1>7, <2>1 DEF StoreCache, PersistFails, GoTo, learning
<1>8. CASE PersistRow(w)
  <2>1. [mem[w] EXCEPT !.pc = "gate", !.own = TRUE].pc = "gate"
    BY <1>0 DEF Mem
  <2> QED
    BY <1>1, <1>8, <2>1 DEF PersistRow, learning
<1>9. CASE Gate(w)
  <2>1. [mem[w] EXCEPT !.pc = "suppress", !.age = row].pc = "suppress"
    BY <1>0 DEF Mem
  <2> QED
    BY <1>0, <1>1, <1>9, <2>1 DEF Gate, learning
<1>10. CASE ReadSuppressed(w)
  <2>1. /\ [mem[w] EXCEPT !.pc = "post", !.suppressed = SuppressedKeys].pc = "post"
        /\ [mem[w] EXCEPT !.pc = "post"].pc = "post"
    BY <1>0 DEF Mem
  <2> QED
    BY <1>1, <1>10, <2>1 DEF ReadSuppressed, Either, learning
<1> QED
  BY <1>2, <1>3, <1>4, <1>5, <1>6, <1>7, <1>8, <1>9, <1>10 DEF Review

\* Reading the comments and their reactions.
LEMMA ReadingSweep ==
  ASSUME TypeOK, SweepInv, NEW w \in Workers, ListComments(w) \/ NextComment(w)
  PROVE  SweepInv'
<1>0. mem[w] \in Mem /\ Sound(mem[w])
  BY MemType DEF SweepInv
<1>1. CASE ListComments(w)
  <2> DEFINE m == [mem[w] EXCEPT !.pc = "sweep", !.todo = comments,
                     !.whole = Cardinality(comments) <= MaxComments,
                     !.standing = {k \in comments : Against \in reactions[k]}]
  <2>1. Becomes(w, m) /\ UNCHANGED <<reactions, weight>> /\ mem[w].seen = 0
    BY <1>0, <1>1 DEF ListComments, learning, At, Sound
  <2>2. /\ m.pc = "sweep" /\ m.todo = comments /\ m.seen = mem[w].seen
        /\ m.whole = (Cardinality(comments) <= MaxComments)
        /\ m.standing = {k \in comments : Against \in reactions[k]}
    BY <1>0 DEF Mem
  <2> HIDE DEF m
  <2>3. m.whole => Cardinality(m.todo) <= MaxComments - m.seen
    <3>1. comments \subseteq Keys /\ IsFiniteSet(comments)
      BY RepoMemoryAssumption, FS_Subset DEF TypeOK
    <3>2. Cardinality(comments) \in Nat
      BY <3>1, FS_CardinalityType
    <3>3. m.whole => Cardinality(comments) <= MaxComments
      BY <2>2
    <3> QED
      BY <2>1, <2>2, <3>2, <3>3, RepoMemoryAssumption
  <2>4. Pending(m) /\ \A k \in m.standing : Against \in reactions[k]
    BY <2>2 DEF Pending
  <2>5. Sound(m)
    BY <2>2, <2>3, <2>4 DEF Sound
  <2> QED
    BY <2>1, <2>5, SweepKept
<1>2. CASE NextComment(w)
  <2>1. PICK k \in mem[w].todo :
          LET next == [mem[w] EXCEPT !.todo = @ \ {k}, !.seen = @ + 1] IN
          \/ \E P \in Page(reactions[k]) :
               Becomes(w, [next EXCEPT !.votes = {k} \X Counted(P),
                                       !.whole = @ /\ P = reactions[k]])
          \/ Becomes(w, [next EXCEPT !.whole = FALSE])
    BY <1>2 DEF NextComment
  <2> DEFINE next == [mem[w] EXCEPT !.todo = @ \ {k}, !.seen = @ + 1]
             nextOf(P) == [next EXCEPT !.votes = {k} \X Counted(P),
                                       !.whole = @ /\ P = reactions[k]]
             failed == [next EXCEPT !.whole = FALSE]
  <2>2. /\ mem[w].pc = "sweep" /\ mem[w].votes = {}
        /\ UNCHANGED <<reactions, weight>>
    BY <1>2 DEF NextComment, At, learning
  <2>3. (\E P \in Page(reactions[k]) : Becomes(w, nextOf(P))) \/ Becomes(w, failed)
    BY <2>1
  <2>4. /\ \A P : /\ nextOf(P).pc = mem[w].pc /\ nextOf(P).standing = mem[w].standing
                  /\ nextOf(P).todo = mem[w].todo \ {k} /\ nextOf(P).seen = mem[w].seen + 1
                  /\ nextOf(P).votes = {k} \X Counted(P)
                  /\ nextOf(P).whole = (mem[w].whole /\ P = reactions[k])
        /\ failed.pc = mem[w].pc /\ failed.standing = mem[w].standing /\ ~ failed.whole
    BY <1>0 DEF Mem
  <2> HIDE DEF next, nextOf, failed
  <2>5. \A j \in mem[w].standing : Against \in reactions[j]
    BY <1>0, <2>2 DEF Sound
  <2>6. Sound(failed)
    BY <2>2, <2>4, <2>5 DEF Sound
  <2>7. ASSUME NEW P \in Page(reactions[k]) PROVE Sound(nextOf(P))
    <3>1. CASE ~ nextOf(P).whole
      BY <2>2, <2>4, <2>5, <3>1 DEF Sound
    <3>2. CASE nextOf(P).whole
      <4>1. mem[w].whole /\ P = reactions[k]
        BY <2>4, <3>2
      <4>2. Cardinality(mem[w].todo) <= MaxComments - mem[w].seen /\ Pending(mem[w])
        BY <1>0, <2>2, <4>1 DEF Sound
      <4>3. Cardinality(mem[w].todo \ {k}) <= MaxComments - (mem[w].seen + 1)
        <5>1. mem[w].todo \subseteq Keys /\ mem[w].seen \in Nat
          BY <1>0 DEF Mem
        <5>2. IsFiniteSet(mem[w].todo)
          BY <5>1, RepoMemoryAssumption, FS_Subset
        <5>3. Cardinality(mem[w].todo \ {k}) = Cardinality(mem[w].todo) - 1
          BY <5>2, FS_RemoveElement
        <5>4. Cardinality(mem[w].todo) \in Nat
          BY <5>2, FS_CardinalityType
        <5> QED
          BY <4>2, <5>1, <5>3, <5>4, RepoMemoryAssumption
      <4>4. ASSUME NEW j \in mem[w].standing
            PROVE  j \in mem[w].todo \ {k} \/ <<j, Against>> \in {k} \X Counted(P)
                                           \/ weight[j]["down"] <= -2
        <5>1. CASE j = k
          <6>1. Against \in Counted(P)
            BY <2>5, <4>1, <5>1 DEF Counted, Against
          <6> QED
            BY <5>1, <6>1
        <5>2. CASE j # k
          BY <2>2, <4>2, <5>2 DEF Pending
        <5> QED
          BY <5>1, <5>2
      <4>5. Pending(nextOf(P))
        BY <2>4, <4>4 DEF Pending
      <4> QED
        BY <2>2, <2>4, <2>5, <4>3, <4>5 DEF Sound
    <3> QED
      BY <3>1, <3>2
  <2> QED
    BY <2>2, <2>3, <2>6, <2>7, SweepKept
<1> QED
  BY <1>1, <1>2

\* A row that suppresses its finding goes on doing so.
LEMMA LearningSweep ==
  ASSUME TypeOK, VotesInv, SweepInv, NEW w \in Workers, Learn(w)
  PROVE  SweepInv'
<1>0. mem[w] \in Mem /\ Sound(mem[w]) /\ mem[w].pc = "sweep" /\ reactions' = reactions
  BY MemType DEF SweepInv, Learn, At
<1>1. PICK v \in mem[w].votes :
        LET signal == IF v[2][2] = "-1" THEN "down" ELSE "up" IN
        /\ weight' = [weight EXCEPT ![v[1]][signal] = Clamp(@ + Delta(signal))]
        /\ Becomes(w, [mem[w] EXCEPT !.votes = @ \ {v}])
  BY DEF Learn
<1>2. v[1] \in Keys
  BY <1>0 DEF Mem
<1>3. ASSUME NEW k \in Keys
      PROVE  /\ weight[k]["down"] <= -2 => weight'[k]["down"] <= -2
             /\ v = <<k, Against>> => weight'[k]["down"] <= -2
  <2>1. /\ weight \in [Keys -> [Signals -> Int]] /\ weight[k]["down"] \in Int
        /\ weight[k]["down"] <= 0
    BY DEF TypeOK, Signals, VotesInv
  <2>2. CASE v[2][2] = "-1" /\ k = v[1]
    <3>1. weight'[k]["down"] = Clamp(weight[k]["down"] + Delta("down"))
      BY <1>1, <2>1, <2>2 DEF Signals
    <3>2. weight[k]["down"] + Delta("down") \in Int /\ weight[k]["down"] + Delta("down") <= -2
      BY <2>1 DEF Delta
    <3> QED
      BY <3>1, <3>2, ClampType
  <2>3. CASE ~ (v[2][2] = "-1" /\ k = v[1])
    <3>1. weight'[k]["down"] = weight[k]["down"]
      BY <1>1, <2>1, <2>3 DEF Signals
    <3>2. v # <<k, Against>>
      BY <2>3 DEF Against
    <3> QED
      BY <3>1, <3>2
  <2> QED
    BY <2>2, <2>3
<1> DEFINE m == [mem[w] EXCEPT !.votes = @ \ {v}]
<1>4. /\ m.pc = "sweep" /\ m.whole = mem[w].whole /\ m.standing = mem[w].standing
      /\ m.todo = mem[w].todo /\ m.seen = mem[w].seen /\ m.votes = mem[w].votes \ {v}
      /\ m.standing \subseteq Keys
  BY <1>0 DEF Mem
<1>5. mem'[w] = m /\ \A u \in Workers : u # w => mem'[u] = mem[u]
  BY <1>1 DEF Becomes, TypeOK
<1> HIDE DEF m
<1>6. ASSUME NEW u \in Workers PROVE Sound(mem[u])'
  <2>0. mem[u].standing \subseteq Keys /\ Sound(mem[u])
    BY MemType DEF Mem, SweepInv
  <2>1. CASE u = w
    <3>1. \A k \in m.standing : Against \in reactions'[k]
      BY <1>0, <1>4 DEF Sound
    <3>2. CASE ~ m.whole
      BY <1>4, <1>5, <2>1, <3>1, <3>2 DEF Sound
    <3>3. CASE m.whole
      <4>1. Cardinality(m.todo) <= MaxComments - m.seen /\ Pending(mem[w])
        BY <1>0, <1>4, <3>3 DEF Sound
      <4>2. ASSUME NEW k \in m.standing
            PROVE  k \in m.todo \/ <<k, Against>> \in m.votes \/ weight'[k]["down"] <= -2
        <5>1. k \in Keys
          BY <1>4
        <5>2. k \in mem[w].todo \/ <<k, Against>> \in mem[w].votes \/ weight[k]["down"] <= -2
          BY <1>4, <4>1 DEF Pending
        <5> QED
          BY <1>3, <1>4, <5>1, <5>2
      <4>3. Pending(mem[u])'
        BY <1>5, <2>1, <4>2 DEF Pending
      <4> QED
        BY <1>4, <1>5, <2>1, <3>1, <4>1, <4>3 DEF Sound
    <3> QED
      BY <3>2, <3>3
  <2>2. CASE u # w
    <3>1. mem'[u] = mem[u]
      BY <1>5, <2>2
    <3>2. \A k \in mem[u].standing : weight[k]["down"] <= -2 => weight'[k]["down"] <= -2
      BY <1>3, <2>0
    <3>3. Pending(mem[u]) => Pending(mem[u])'
      BY <3>1, <3>2 DEF Pending
    <3> QED
      BY <1>0, <2>0, <3>1, <3>2, <3>3 DEF Sound
  <2> QED
    BY <2>1, <2>2
<1> QED
  BY <1>6 DEF SweepInv

\* A sweep in which something failed is not whole; one that ends whole has
\* nothing left to read.
LEMMA EndingSweep ==
  ASSUME TypeOK, SweepInv, NEW w \in Workers, LearnFails(w) \/ EndSweep(w) \/ Return(w)
  PROVE  SweepInv'
<1>0. mem[w] \in Mem /\ Sound(mem[w])
  BY MemType DEF SweepInv
<1>1. CASE LearnFails(w)
  <2>1. PICK v \in mem[w].votes : Becomes(w, [mem[w] EXCEPT !.votes = @ \ {v}, !.whole = FALSE])
    BY <1>1 DEF LearnFails
  <2> DEFINE m == [mem[w] EXCEPT !.votes = @ \ {v}, !.whole = FALSE]
  <2>2. m.pc = mem[w].pc /\ m.standing = mem[w].standing /\ ~ m.whole
    BY <1>0 DEF Mem
  <2>3. Becomes(w, m) /\ UNCHANGED <<reactions, weight>> /\ mem[w].pc = "sweep"
    BY <1>1, <2>1 DEF LearnFails, learning, At
  <2> HIDE DEF m
  <2>4. Sound(m)
    BY <1>0, <2>2, <2>3 DEF Sound
  <2> QED
    BY <2>3, <2>4, SweepKept
<1>2. CASE EndSweep(w)
  <2> DEFINE m == [mem[w] EXCEPT !.pc = "swept"]
  <2>1. /\ mem[w].pc = "sweep" /\ mem[w].votes = {}
        /\ mem[w].todo = {} \/ ~ (mem[w].seen < MaxComments)
        /\ Becomes(w, m) /\ UNCHANGED <<reactions, weight>>
    BY <1>2 DEF EndSweep, At, MayLook, GoTo, learning
  <2>2. m.pc = "swept" /\ m.standing = mem[w].standing /\ m.whole = mem[w].whole
    BY <1>0 DEF Mem
  <2> HIDE DEF m
  <2>3. ASSUME mem[w].whole, NEW k \in mem[w].standing PROVE weight[k]["down"] <= -2
    <3>1. Cardinality(mem[w].todo) <= MaxComments - mem[w].seen /\ Pending(mem[w])
      BY <1>0, <2>1, <2>3 DEF Sound
    <3>2. mem[w].todo = {}
      <4>1. mem[w].todo \subseteq Keys /\ mem[w].seen \in 0 .. MaxComments
        BY <1>0 DEF Mem
      <4>2. IsFiniteSet(mem[w].todo)
        BY <4>1, RepoMemoryAssumption, FS_Subset
      <4>3. Cardinality(mem[w].todo) \in Nat
        BY <4>2, FS_CardinalityType
      <4>4. mem[w].todo = {} \/ Cardinality(mem[w].todo) = 0
        BY <2>1, <3>1, <4>1, <4>3, RepoMemoryAssumption
      <4> QED
        BY <4>2, <4>4, FS_EmptySet
    <3> QED
      BY <2>1, <3>1, <3>2 DEF Pending
  <2>4. Sound(m)
    BY <2>2, <2>3 DEF Sound
  <2> QED
    BY <2>1, <2>4, SweepKept
<1>3. CASE Return(w)
  <2>1. Sound(Idle)
    BY DEF Sound, Idle
  <2> QED
    BY <1>3, <2>1, SweepKept DEF Return, learning
<1> QED
  BY <1>1, <1>2, <1>3

\* Every step keeps sweeps sound.
LEMMA NextSweep ==
  ASSUME TypeOK, VotesInv, SweepInv, [Next]_vars
  PROVE  SweepInv'
<1>1. CASE \E w \in Workers : Review(w) \/ Sweep(w) \/ Fail(w)
  BY <1>1, ReviewSweep, ReadingSweep, LearningSweep, EndingSweep DEF Sweep
<1>2. ASSUME NEW k \in Keys, NEW r \in Reactions, React(k, r) PROVE SweepInv'
  <2>1. weight' = weight
    BY <1>2 DEF React
  <2>2. ASSUME NEW w \in Workers
        PROVE  /\ mem'[w].pc = mem[w].pc /\ mem'[w].whole = mem[w].whole
               /\ mem'[w].todo = mem[w].todo /\ mem'[w].seen = mem[w].seen
               /\ mem'[w].votes = mem[w].votes
               /\ mem'[w].standing = IF r = Against THEN mem[w].standing \ {k} ELSE mem[w].standing
    BY <1>2, MemType DEF React, Mem
  <2>3. ASSUME NEW j \in Keys, ~ (j = k /\ r = Against), Against \in reactions[j]
        PROVE  Against \in reactions'[j]
    BY <1>2, <2>3 DEF React, TypeOK
  <2>4. ASSUME NEW w \in Workers PROVE Sound(mem[w])'
    <3>1. Sound(mem[w]) /\ mem[w].standing \subseteq Keys
      BY MemType DEF SweepInv, Mem
    <3>2. mem[w].pc = "sweep" => \A j \in mem'[w].standing : Against \in reactions'[j]
      BY <2>2, <2>3, <3>1 DEF Sound
    <3>3. Pending(mem[w]) => Pending(mem[w])'
      BY <2>1, <2>2 DEF Pending
    <3>4. mem'[w].standing \subseteq mem[w].standing
      BY <2>2
    <3> QED
      BY <2>1, <2>2, <3>1, <3>2, <3>3, <3>4 DEF Sound
  <2> QED
    BY <2>4 DEF SweepInv
<1>3. CASE Tick
  <2>1. UNCHANGED <<reactions, weight>>
    BY <1>3 DEF Tick, learning
  <2>2. ASSUME NEW w \in Workers PROVE Sound(mem[w])'
    <3>1. CASE At(w, "idle")
      BY <1>3, <3>1 DEF Tick, Sound, Idle
    <3>2. CASE ~ At(w, "idle")
      <4>1. mem'[w] = [mem[w] EXCEPT !.left = @ - 1,
                         !.age = IF mem[w].pc \in InHand THEN Older(@) ELSE @]
        BY <1>3, <3>2 DEF Tick
      <4>2. /\ mem'[w].pc = mem[w].pc /\ mem'[w].whole = mem[w].whole
            /\ mem'[w].todo = mem[w].todo /\ mem'[w].seen = mem[w].seen
            /\ mem'[w].votes = mem[w].votes /\ mem'[w].standing = mem[w].standing
        BY <4>1, MemType DEF Mem
      <4>3. Pending(mem[w]) => Pending(mem[w])'
        BY <2>1, <4>2 DEF Pending
      <4> QED
        BY <2>1, <4>2, <4>3 DEF SweepInv, Sound
    <3> QED
      BY <3>1, <3>2
  <2> QED
    BY <2>2 DEF SweepInv
<1>4. CASE UNCHANGED vars
  BY <1>4 DEF vars, learning, SweepInv, Sound, Pending
<1> QED
  BY <1>1, <1>2, <1>3, <1>4 DEF Next

\* A sweep that ends, in which no call failed and nothing was left out, always
\* has a vote on record against every finding that a person voted against all
\* along.
THEOREM WholeSweepsCount == Spec => []SweepCounts
<1>1. Init => SweepInv
  BY DEF Init, SweepInv, Sound, Idle
<1>2. TypeOK /\ SweepInv => SweepCounts
  <2> SUFFICES ASSUME TypeOK, SweepInv, NEW w \in Workers, At(w, "swept"), mem[w].whole,
                      NEW k \in mem[w].standing
               PROVE  weight[k]["down"] < 0
    BY DEF SweepCounts
  <2>1. k \in Keys
    BY MemType DEF Mem
  <2>2. weight[k]["down"] <= -2
    BY DEF SweepInv, Sound, At
  <2>3. weight[k]["down"] \in Int
    BY <2>1 DEF TypeOK, Signals
  <2> QED
    BY <2>2, <2>3
<1> QED
  BY <1>1, <1>2, InitTypeOK, InitVotes, NextTypeOK, NextVotes, NextSweep, PTL DEF Spec

=============================================================================
