------------------------------ MODULE RepoMemory ------------------------------
(***************************************************************************)
(* What one job leaves for the next ones of a repository: the settings of  *)
(* .codepeer.yml, which travel from the repository through RepoConfigCache *)
(* (internal/config/codepeer.go) and the repos table to the gates of a     *)
(* review, and the reactions to review comments, which a feedback sweep    *)
(* (LearnSweep) turns into rows of the learnings table and finish reads as *)
(* suppressed keys.  Workers run reviews and sweeps side by side; no lock  *)
(* is held across two of these steps.                                      *)
(*                                                                         *)
(* Settings are abstracted to their age, the time since they were read     *)
(* from the repository; a comment to the dedupe hash of its finding.       *)
(***************************************************************************)
EXTENDS Integers, FiniteSets

CONSTANTS
  Workers,
  Keys,        \* dedupe hashes of findings
  TTL,         \* life of a cache entry
  JobTTL,      \* time a job's context lasts
  MaxComments, \* comments a sweep looks at (maxLearnComments)
  PerPage,     \* reactions on the one page that GetReactions reads
  MaxWeight,   \* bound: weights are counted to this, and down to its negative
  MaxEvents    \* bound: ticks of the clock, votes and failed calls

ASSUME RepoMemoryAssumption ==
  /\ IsFiniteSet(Keys)
  /\ TTL \in Nat \ {0} /\ JobTTL \in Nat \ {0}
  /\ MaxComments \in Nat /\ PerPage \in Nat /\ MaxEvents \in Nat
  /\ MaxWeight \in Nat \ {0, 1}

VARIABLES
  cache,     \* life left and age of the cached settings
  row,       \* age of the settings in the repos table
  comments,  \* findings with a recorded comment (findings.comment_id)
  reactions, \* reactions[k]: reactions to the comment on finding k
  weight,    \* weight[k]: the two learnings rows of finding k
  mem,       \* mem[w]: the job of worker w
  blamed,    \* history: findings a person ever voted down
  events     \* events so far

settings == <<cache, row>>
learning == <<comments, reactions, weight, blamed>>
vars == <<settings, learning, mem, events>>

\* Who reacts how: a person, or the app itself or another bot.
Against == <<"person", "-1">>
Reactions == {<<"person", "+1">>, Against, <<"bot", "-1">>}
Signals == {"up", "down"}

\* The age from which settings count as ancient; so do the defaults.
Limit == TTL + 3 * JobTTL
Ages == 0 .. Limit
Ancient == Limit

PCs == {"idle", "check", "fetch", "store", "persist", "gate", "suppress", "post",
        "list", "sweep", "swept"}

\* own: the job's own refreshConfig succeeded.  seen, todo and votes are the
\* loops of a sweep; whole: nothing failed in it and nothing was left out;
\* standing: comments voted down by a person since before it began.
Mem == [pc : PCs, left : 0 .. JobTTL, age : Ages, own : BOOLEAN,
        seen : 0 .. MaxComments, todo : SUBSET Keys,
        votes : SUBSET (Keys \X Reactions), whole : BOOLEAN, standing : SUBSET Keys, suppressed : SUBSET Keys]

Idle == [pc |-> "idle", left |-> 0, age |-> Ancient, own |-> FALSE,
         seen |-> 0, todo |-> {}, votes |-> {},
         whole |-> FALSE, standing |-> {}, suppressed |-> {}]

Init ==
  /\ cache = [left |-> 0, age |-> Ancient]
  /\ row = Ancient
  /\ comments = {}
  /\ reactions = [k \in Keys |-> {}]
  /\ weight = [k \in Keys |-> [s \in Signals |-> 0]]
  /\ mem = [w \in Workers |-> Idle]
  /\ blamed = {}
  /\ events = 0

At(w, pc) == mem[w].pc = pc
MayHappen == events < MaxEvents /\ events' = events + 1
Becomes(w, m) == mem' = [mem EXCEPT ![w] = m]
GoTo(w, pc) == Becomes(w, [mem[w] EXCEPT !.pc = pc])

\* A call succeeds and leads to m, or it fails and leads to n.
Either(w, m, n) ==
  \/ Becomes(w, m) /\ UNCHANGED events
  \/ Becomes(w, n) /\ MayHappen

-----------------------------------------------------------------------------
(* Time and jobs *)

Older(age) == IF age < Ancient THEN age + 1 ELSE age

\* Settings in the hands of a job that is past its gate are not used again.
InHand == {"store", "persist"}

\* No job outlasts its context.
Tick ==
  /\ MayHappen
  /\ \A w \in Workers : At(w, "idle") \/ mem[w].left > 0
  /\ cache' = [left |-> IF cache.left > 0 THEN cache.left - 1 ELSE 0, age |-> Older(cache.age)]
  /\ row' = Older(row)
  /\ mem' = [w \in Workers |->
               IF At(w, "idle") THEN Idle
               ELSE [mem[w] EXCEPT !.left = @ - 1,
                                   !.age = IF mem[w].pc \in InHand THEN Older(@) ELSE @]]
  /\ UNCHANGED learning

Start(w, pc) ==
  /\ At(w, "idle")
  /\ Becomes(w, [Idle EXCEPT !.pc = pc, !.left = JobTTL])
  /\ UNCHANGED <<settings, learning, events>>

\* The context ends, the process dies, or the job returns an error.
Fail(w) ==
  /\ ~ At(w, "idle")
  /\ \/ mem[w].left = 0 /\ UNCHANGED events
     \/ MayHappen
  /\ Becomes(w, Idle)
  /\ UNCHANGED <<settings, learning>>

-----------------------------------------------------------------------------
(* refreshConfig: RepoConfigCache.Get, then SetRepoConfig *)

\* Mutant: an entry does not expire.
MutCached == cache.age < Ancient

\* There is an entry that has not expired.
Cached == cache.left > 0

CheckCache(w) ==
  /\ At(w, "check")
  /\ Becomes(w, IF Cached THEN [mem[w] EXCEPT !.pc = "persist", !.age = cache.age]
                          ELSE [mem[w] EXCEPT !.pc = "fetch"])
  /\ UNCHANGED <<settings, learning, events>>

\* GetFile at the job's head commit, and Parse.  An error is only logged, and
\* the review goes by the settings that are there.
Fetch(w) ==
  /\ At(w, "fetch")
  /\ Either(w, [mem[w] EXCEPT !.pc = "store", !.age = 0], [mem[w] EXCEPT !.pc = "gate"])
  /\ UNCHANGED <<settings, learning>>

\* The entry's life begins here, not when its content was read.
StoreCache(w) ==
  /\ At(w, "store")
  /\ cache' = [left |-> TTL, age |-> mem[w].age]
  /\ GoTo(w, "persist")
  /\ UNCHANGED <<row, learning, events>>

PersistRow(w) ==
  /\ At(w, "persist")
  /\ row' = mem[w].age
  /\ Becomes(w, [mem[w] EXCEPT !.pc = "gate", !.own = TRUE])
  /\ UNCHANGED <<cache, learning, events>>

\* Its error is only logged as well.
PersistFails(w) ==
  /\ At(w, "persist")
  /\ GoTo(w, "gate") /\ MayHappen
  /\ UNCHANGED <<settings, learning>>

-----------------------------------------------------------------------------
(* A review, as far as it reads or writes what others left *)

\* AnalyzePR and AnalyzePush read the row, whoever wrote it last, and skip or
\* go on.
Gate(w) ==
  /\ At(w, "gate")
  /\ \/ Becomes(w, Idle)
     \/ Becomes(w, [mem[w] EXCEPT !.pc = "suppress", !.age = row])
  /\ UNCHANGED <<settings, learning, events>>

\* SELECT key FROM learnings WHERE weight <= -2
SuppressedKeys == {k \in Keys : \E s \in Signals : weight[k][s] <= -2}

\* finish: a failed query suppresses nothing.
ReadSuppressed(w) ==
  /\ At(w, "suppress")
  /\ Either(w, [mem[w] EXCEPT !.pc = "post", !.suppressed = SuppressedKeys],
               [mem[w] EXCEPT !.pc = "post"])
  /\ UNCHANGED <<settings, learning>>

\* CreateComment and SetFindingComment for some findings that are left; others
\* were not reported, or one of the two failed.  Reactions to a comment whose
\* id is not recorded never reach a sweep.
PostComments(w) ==
  /\ At(w, "post")
  /\ \E K \in SUBSET (Keys \ mem[w].suppressed) : comments' = comments \cup K
  /\ Becomes(w, Idle)
  /\ UNCHANGED <<settings, reactions, weight, blamed, events>>

-----------------------------------------------------------------------------
(* LearnSweep *)

\* GitHub: somebody reacts to a comment, or takes a reaction back.
React(k, r) ==
  /\ k \in comments
  /\ MayHappen
  /\ LET given == r \notin reactions[k] IN
     /\ reactions' = [reactions EXCEPT ![k] = IF given THEN @ \cup {r} ELSE @ \ {r}]
     /\ blamed' = IF given /\ r = Against THEN blamed \cup {k} ELSE blamed
     /\ mem' = IF r = Against THEN [w \in Workers |-> [mem[w] EXCEPT !.standing = @ \ {k}]] ELSE mem
  /\ UNCHANGED <<settings, comments, weight>>

\* LearningKeysForComments; its error fails the job.
ListComments(w) ==
  /\ At(w, "list")
  /\ Becomes(w, [mem[w] EXCEPT !.pc = "sweep", !.todo = comments,
                   !.whole = Cardinality(comments) <= MaxComments,
                   !.standing = {k \in comments : Against \in reactions[k]}])
  /\ UNCHANGED <<settings, learning, events>>

\* Mutant: the app's own reactions and those of other bots count.
MutCounted(R) == R

\* Reactions of people; a name that is empty, SelfLogin or ends in [bot] is none.
Counted(R) == {r \in R : r[1] # "bot"}

\* Mutants: one comment too many, and one too few.
MutMayLook(w) == mem[w].seen <= MaxComments
MutLookLess(w) == mem[w].seen + 1 < MaxComments

MayLook(w) == mem[w].seen < MaxComments

\* What one page may hold of the reactions R.
Page(R) ==
  {P \in SUBSET R : Cardinality(P) = IF Cardinality(R) < PerPage THEN Cardinality(R) ELSE PerPage}

\* One turn of the loop over a Go map, in any order: GetReactions, whose error
\* skips the comment.
NextComment(w) ==
  /\ At(w, "sweep") /\ mem[w].votes = {} /\ MayLook(w)
  /\ \E k \in mem[w].todo :
       LET next == [mem[w] EXCEPT !.todo = @ \ {k}, !.seen = @ + 1] IN
       \/ \E P \in Page(reactions[k]) :
            /\ Becomes(w, [next EXCEPT !.votes = {k} \X Counted(P),
                                       !.whole = @ /\ P = reactions[k]])
            /\ UNCHANGED events
       \/ Becomes(w, [next EXCEPT !.whole = FALSE]) /\ MayHappen
  /\ UNCHANGED <<settings, learning>>

Clamp(n) == IF n < -MaxWeight THEN -MaxWeight ELSE IF n > MaxWeight THEN MaxWeight ELSE n

\* What a vote adds to its row.
Delta(signal) == IF signal = "up" THEN 1 ELSE -2

\* UpsertLearning, for one of the reactions.
Learn(w) ==
  /\ At(w, "sweep")
  /\ \E v \in mem[w].votes :
       LET signal == IF v[2][2] = "-1" THEN "down" ELSE "up" IN
       /\ weight' = [weight EXCEPT ![v[1]][signal] = Clamp(@ + Delta(signal))]
       /\ Becomes(w, [mem[w] EXCEPT !.votes = @ \ {v}])
  /\ UNCHANGED <<settings, comments, reactions, blamed, events>>

\* Its error is only logged.
LearnFails(w) ==
  /\ At(w, "sweep")
  /\ \E v \in mem[w].votes :
       Becomes(w, [mem[w] EXCEPT !.votes = @ \ {v}, !.whole = FALSE])
  /\ MayHappen
  /\ UNCHANGED <<settings, learning>>

EndSweep(w) ==
  /\ At(w, "sweep") /\ mem[w].votes = {}
  /\ mem[w].todo = {} \/ ~ MayLook(w)
  /\ GoTo(w, "swept")
  /\ UNCHANGED <<settings, learning, events>>

Return(w) ==
  /\ At(w, "swept")
  /\ Becomes(w, Idle)
  /\ UNCHANGED <<settings, learning, events>>

-----------------------------------------------------------------------------

Review(w) ==
  \/ Start(w, "check")
  \/ CheckCache(w) \/ Fetch(w) \/ StoreCache(w) \/ PersistRow(w) \/ PersistFails(w)
  \/ Gate(w) \/ ReadSuppressed(w) \/ PostComments(w)

Sweep(w) ==
  \/ Start(w, "list")
  \/ ListComments(w) \/ NextComment(w) \/ Learn(w) \/ LearnFails(w)
  \/ EndSweep(w) \/ Return(w)

Next ==
  \/ \E w \in Workers : Review(w) \/ Sweep(w) \/ Fail(w)
  \/ \E k \in Keys, r \in Reactions : React(k, r)
  \/ Tick

Spec == Init /\ [][Next]_vars

-----------------------------------------------------------------------------
(* Properties *)

\* Every row and local variable keeps its type; the loop of a sweep stops at
\* maxLearnComments.
TypeOK ==
  /\ cache \in [left : 0 .. TTL, age : Ages]
  /\ row \in Ages
  /\ comments \subseteq Keys
  /\ reactions \in [Keys -> SUBSET Reactions]
  /\ weight \in [Keys -> [Signals -> -MaxWeight .. MaxWeight]]
  /\ mem \in [Workers -> Mem]
  /\ blamed \subseteq Keys
  /\ events \in 0 .. MaxEvents

\* A review whose own refresh succeeded goes by settings that were read from
\* the repository less than a cache life and three job lives ago, although the
\* entry's life begins late, a slow job may put old settings over newer ones,
\* and the row is read after yet another job wrote it (codepeer.go:138-171,
\* main.go:335-346, pipeline.go:79-90).
SettingsRecent ==
  \A w \in Workers : At(w, "suppress") /\ mem[w].own => mem[w].age < Limit

\* A finding is suppressed only if a person voted against it, however many
\* sweeps, retried ones and bots' reactions there were (poster.go:288-307,
\* store.go:563-579).
SuppressionNeedsVote == SuppressedKeys \subseteq blamed

\* A sweep that ends, in which no call failed and no comment or page was left
\* out, has a vote on record against every finding that a person voted against
\* before it began and has not forgiven since: neither the order of the map, nor
\* other sweeps, nor the limit on comments lose it (poster.go:277-311).  How many
\* votes it takes to suppress a finding is not claimed.
SweepCounts ==
  \A w \in Workers :
    At(w, "swept") /\ mem[w].whole => \A k \in mem[w].standing : weight[k]["down"] < 0

=============================================================================
