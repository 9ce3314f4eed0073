----------------------------- MODULE AgentReview -----------------------------
(***************************************************************************)
(* The inside of one analysis run (internal/analysis/pipeline.go): the     *)
(* changed files are listed (ListPRFiles, or the comparison of a push) and *)
(* grouped into chunks (ChunkFiles), every agent reviews                   *)
(* every chunk in a goroutine of its own behind a semaphore (runAgents, or *)
(* runChunks when no agent is selected), their findings are merged in the  *)
(* order in which the goroutines end, and finish dedupes, validates,       *)
(* suppresses and caps them before the run is completed.                   *)
(*                                                                         *)
(* ReviewRun has all this as the steps AgentsReturn and AgentsCutShort.    *)
(***************************************************************************)
EXTENDS Naturals, SequencesExt, FiniteSetsExt

CONSTANTS
  Specialists,  \* the specialist agents
  Changes,      \* what may have changed: sequences of [path, additions, lines]
  PerPage,      \* files of a full page of ListPRFiles
  IgnoredPaths, \* what ignore_paths or a built-in pattern matches
  MaxLines,     \* changed lines of a chunk (maxLinesPerChunk)
  AgentSlots,   \* reviews at once in runAgents
  ChunkSlots,   \* reviews at once in runChunks
  Answers,      \* what one review may report: sequences of findings
  Compiled,     \* what the lead agent may make of the candidates
  NewLines,     \* NewLines[p]: new lines in the hunks of path p, {} without hunks
  Downvoted,    \* keys of the findings users voted down
  PerFileCap, MaxFindings, IncludeNits

Severities == {"critical", "high", "medium", "low", "nit"}

ChangedFile == [path : Nat, additions : Nat, lines : Nat]

Finding == [file : Nat, line : Nat, title : STRING, severity : Severities]

ASSUME AgentReviewAssumption ==
  /\ Changes \subseteq Seq(ChangedFile) /\ IsFiniteSet(Specialists)
  /\ \A c \in Changes : \A i, j \in DOMAIN c : c[i].path = c[j].path => i = j
  /\ PerPage \in Nat \ {0} /\ IgnoredPaths \subseteq Nat
  /\ MaxLines \in Nat /\ AgentSlots \in Nat \ {0} /\ ChunkSlots \in Nat \ {0}
  /\ Answers \cup Compiled \subseteq Seq(Finding)
  /\ PerFileCap \in Nat /\ MaxFindings \in Nat /\ IncludeNits \in BOOLEAN

VARIABLES
  stage,     \* how far the run has come
  live,      \* whether the job's context has not ended
  agents,    \* the selected agents; {} is the general pass over the chunks
  changed,   \* the changed files
  change,    \* those that were listed for review, the largest additions first
  next,      \* index of the file ChunkFiles is at
  cur,       \* the chunk it is filling ...
  curLines,  \* ... and that chunk's lines
  chunks,    \* the finished chunks
  task,      \* task[t]: the goroutine of an (agent, chunk) pair
  compiled,  \* whether the lead agent's answer is used
  merged,    \* the findings finish starts from
  muted,     \* what SuppressedKeys returned
  final      \* the findings the run is completed with

chunking == <<changed, change, next, cur, curLines, chunks>>
merging  == <<compiled, merged, muted, final>>
vars == <<stage, live, agents, chunking, task, merging>>

-----------------------------------------------------------------------------
(* Selections and stable sorts *)

\* The elements of fs at some indices, by how many of these come before them.
Arranged(fs, before) ==
  [n \in 1 .. Cardinality(DOMAIN before) |->
    fs[CHOOSE i \in DOMAIN before : Cardinality(before[i]) + 1 = n]]

\* The elements at the chosen indices, in their order.
Pick(fs, chosen) == Arranged(fs, [i \in chosen |-> {j \in chosen : j < i}])

-----------------------------------------------------------------------------
(* ListPRFiles, FilterFiles and ChunkFiles *)

\* The loop asks for page 0, which is page 1, and if it is full for page 1.
ListPRFiles(c) == IF Len(c) < PerPage THEN c ELSE SubSeq(c, 1, PerPage) \o c

\* The files of a push come with its comparison.
Listings(c) == {c, ListPRFiles(c)}

\* FilterFiles
Reviewable(c) == Pick(c, {i \in DOMAIN c : c[i].path \notin IgnoredPaths})

\* A stable sort by additions.
MoreAdded(c, i, j) ==
  \/ c[i].additions > c[j].additions
  \/ c[i].additions = c[j].additions /\ i < j

ByAdditions(c) == Arranged(c, [i \in DOMAIN c |-> {j \in DOMAIN c : MoreAdded(c, j, i)}])

Init ==
  /\ stage = "chunk" /\ live = TRUE
  /\ agents \in {{}, Specialists}
  /\ changed \in Changes
  /\ change \in {ByAdditions(Reviewable(l)) : l \in Listings(changed)}
  /\ change # << >>
  /\ next = 1 /\ cur = << >> /\ curLines = 0 /\ chunks = << >>
  /\ task = << >>
  /\ compiled = FALSE /\ merged = << >> /\ muted = {} /\ final = << >>

\* Mutant: a chunk of one file is taken for an empty one.
MutFlushed == IF Len(cur) <= 1 THEN chunks ELSE Append(chunks, cur)

\* flush
Flushed == IF cur = << >> THEN chunks ELSE Append(chunks, cur)

\* Mutant: a chunk may hold one line too many.
MutOverflows(f) == curLines + f.lines > MaxLines + 1

Overflows(f) == curLines + f.lines > MaxLines

NextFile ==
  LET f == change[next] IN
  /\ stage = "chunk" /\ next <= Len(change)
  /\ next' = next + 1
  /\ \/ /\ f.lines > MaxLines
        /\ chunks' = Append(Flushed, <<f>>)
        /\ cur' = << >> /\ curLines' = 0
     \/ /\ f.lines <= MaxLines
        /\ cur # << >> /\ Overflows(f)
        /\ chunks' = Flushed
        /\ cur' = <<f>> /\ curLines' = f.lines
     \/ /\ f.lines <= MaxLines
        /\ cur = << >> \/ ~ Overflows(f)
        /\ cur' = Append(cur, f) /\ curLines' = curLines + f.lines
        /\ UNCHANGED chunks
  /\ UNCHANGED <<stage, live, agents, changed, change, task, merging>>

\* The (agent, chunk) pairs; the general pass has no category of its own.
TasksOver(cs) == (IF agents = {} THEN {"general"} ELSE agents) \X (DOMAIN cs)

Spawn ==
  /\ stage = "chunk" /\ next > Len(change)
  /\ chunks' = Flushed
  /\ task' = [t \in TasksOver(chunks') |-> [pc |-> "waiting", found |-> << >>]]
  /\ stage' = "review"
  /\ UNCHANGED <<live, agents, changed, change, next, cur, curLines, merging>>

-----------------------------------------------------------------------------
(* The goroutines of runAgents and runChunks *)

Tasks == DOMAIN task
With(pc) == {t \in Tasks : task[t].pc = pc}

Slots == IF agents = {} THEN ChunkSlots ELSE AgentSlots

\* Mutant: a review that failed keeps its slot.
MutHolding == With("first") \cup With("again") \cup With("failed")

\* The goroutines that hold a slot of the semaphore.
Holding == With("first") \cup With("again")

SlotFree == Cardinality(Holding) < Slots

\* select takes a free slot, also when the context has ended ...
Acquire(t) ==
  /\ task[t].pc = "waiting" /\ SlotFree
  /\ task' = [task EXCEPT ![t].pc = "first"]
  /\ UNCHANGED <<stage, live, agents, chunking, merging>>

\* ... or the end of the context: no result and no error is left behind.
GiveUp(t) ==
  /\ task[t].pc = "waiting" /\ ~ live
  /\ task' = [task EXCEPT ![t].pc = "dropped"]
  /\ UNCHANGED <<stage, live, agents, chunking, merging>>

Review(t) ==
  /\ task[t].pc \in {"first", "again"} /\ live
  /\ \E a \in Answers : task' = [task EXCEPT ![t] = [pc |-> "ok", found |-> a]]
  /\ UNCHANGED <<stage, live, agents, chunking, merging>>

\* A review that fails is repeated once.
ReviewFails(t) ==
  /\ \/ task[t].pc = "first" /\ task' = [task EXCEPT ![t].pc = "again"]
     \/ task[t].pc = "again" /\ task' = [task EXCEPT ![t].pc = "failed"]
  /\ UNCHANGED <<stage, live, agents, chunking, merging>>

\* JobTTL is over, or the process is shutting down.
Expire ==
  /\ live /\ stage \in {"review", "finish", "complete"}
  /\ live' = FALSE
  /\ UNCHANGED <<stage, agents, chunking, task, merging>>

-----------------------------------------------------------------------------
(* wg.Wait and the merge *)

Returned == Tasks = With("ok") \cup With("failed") \cup With("dropped")

\* The results in some order of their goroutines' ends.
InOrder(order) == FlattenSeq([n \in DOMAIN order |-> task[order[n]].found])
Merges == {InOrder(order) : order \in SetToSeqs(With("ok"))}

NoResult ==
  /\ stage = "review" /\ Returned
  /\ With("ok") = {}
  /\ stage' = IF With("failed") # {} THEN "failed" ELSE "finish"
  /\ UNCHANGED <<live, agents, chunking, task, merging>>

\* The results as they are: no lead agent, or it failed.
Merge ==
  /\ stage = "review" /\ Returned
  /\ With("ok") # {}
  /\ merged' \in Merges
  /\ stage' = "finish"
  /\ UNCHANGED <<live, agents, chunking, task, compiled, muted, final>>

\* The lead agent answers with findings of its own making.
Compile ==
  /\ stage = "review" /\ Returned
  /\ With("ok") # {} /\ agents # {} /\ live
  /\ compiled' = TRUE
  /\ merged' \in Compiled
  /\ stage' = "finish"
  /\ UNCHANGED <<live, agents, chunking, task, muted, final>>

-----------------------------------------------------------------------------
(* finish *)

\* SeverityRank
Rank(s) == CASE s = "critical" -> 5 [] s = "high" -> 4 [] s = "medium" -> 3
             [] s = "low" -> 2 [] s = "nit" -> 1

\* DedupeHash
Key(f) == <<f.file, f.line, f.title>>

\* Mutant: the first report of a finding stays.
MutReplaces(f, g) == FALSE

\* Of two reports of one finding the severer one counts.
Replaces(f, g) == Rank(f.severity) > Rank(g.severity)

\* The reports of the finding at i, and the severest of them, the first such.
Same(fs, i) == {h \in DOMAIN fs : Key(fs[h]) = Key(fs[i])}

Best(fs, i) ==
  CHOOSE j \in Same(fs, i) :
    /\ \A h \in Same(fs, i) : h < j => Replaces(fs[j], fs[h])
    /\ \A h \in Same(fs, i) : h > j => ~ Replaces(fs[h], fs[j])

\* dedupeFindings: the best report takes the first one's place.
Deduped(fs) ==
  Pick([i \in DOMAIN fs |-> fs[Best(fs, i)]],
       {i \in DOMAIN fs : \A h \in Same(fs, i) : i <= h})

\* The finding's file is in the diff, and so is its line if that can be told.
Anchored(f) ==
  /\ f.file \in DOMAIN NewLines
  /\ f.line > 0 /\ NewLines[f.file] # {} => f.line \in NewLines[f.file]

\* Mutant: the caps keep what comes first in the diff.
MutBefore(fs, i, j) ==
  \/ fs[i].file < fs[j].file
  \/ fs[i].file = fs[j].file /\ fs[i].line < fs[j].line
  \/ fs[i].file = fs[j].file /\ fs[i].line = fs[j].line /\ i < j

\* The order of applyCaps, a stable sort.
Before(fs, i, j) ==
  LET f == fs[i]  g == fs[j] IN
  \/ Rank(f.severity) > Rank(g.severity)
  \/ /\ f.severity = g.severity
     /\ \/ f.file < g.file
        \/ f.file = g.file /\ f.line < g.line
        \/ f.file = g.file /\ f.line = g.line /\ i < j

InFile(fs, p) == Cardinality({i \in DOMAIN fs : fs[i].file = p})

\* Whether n findings are enough for a file.
FileFull(n) == PerFileCap > 0 /\ n >= PerFileCap

Wanted(f) == IncludeNits \/ f.severity # "nit"

\* applyCaps: its sort, its selections by severity and by file, its cut.
Sorted(fs) == Arranged(fs, [i \in DOMAIN fs |-> {j \in DOMAIN fs : Before(fs, j, i)}])

AllWanted(fs) == Pick(fs, {i \in DOMAIN fs : Wanted(fs[i])})

FirstOfFile(fs) ==
  Pick(fs, {i \in DOMAIN fs : ~ FileFull(Cardinality({j \in 1 .. i - 1 : fs[j].file = fs[i].file}))})

Cut(fs) ==
  IF MaxFindings > 0 /\ Len(fs) > MaxFindings THEN SubSeq(fs, 1, MaxFindings) ELSE fs

Capped(fs) == Cut(FirstOfFile(AllWanted(Sorted(fs))))

Valid(fs, keys) == Pick(fs, {i \in DOMAIN fs : Anchored(fs[i]) /\ Key(fs[i]) \notin keys})

Kept(fs, keys) == Capped(Valid(Deduped(fs), keys))

\* An error of SuppressedKeys means that nothing is suppressed.
Finish ==
  /\ stage = "finish"
  /\ \E keys \in {{}} \cup (IF live THEN {Downvoted} ELSE {}) :
       muted' = keys /\ final' = Kept(merged, keys)
  /\ stage' = "complete"
  /\ UNCHANGED <<live, agents, chunking, task, compiled, merged>>

\* Mutant: the run is completed with a context that is never cancelled.
MutMayComplete == TRUE

\* CompleteRun takes the job's context.
MayComplete == live

CompleteRun ==
  /\ stage = "complete"
  /\ \/ MayComplete /\ stage' = "done"
     \/ stage' = "error"
  /\ UNCHANGED <<live, agents, chunking, task, merging>>

-----------------------------------------------------------------------------

TaskStep(t) == Acquire(t) \/ GiveUp(t) \/ Review(t) \/ ReviewFails(t)

Reviews == \E t \in Tasks : TaskStep(t)

Next ==
  \/ NextFile \/ Spawn
  \/ Reviews
  \/ NoResult \/ Merge \/ Compile
  \/ Finish \/ CompleteRun
  \/ Expire

Spec == Init /\ [][Next]_vars

\* Goroutines that can run do, and every request comes back.
FairSpec == Spec /\ WF_vars(NextFile \/ Spawn) /\ WF_vars(Reviews)

-----------------------------------------------------------------------------
(* Properties *)

\* The places of a file in the chunks.
PlacesOf(f) == {n \in DOMAIN FlattenSeq(chunks) : FlattenSeq(chunks)[n] = f}

\* Every changed file that is not ignored is in a chunk, no other one is, and it
\* is in one place, so that no agent reviews it twice; except that the files of
\* the first page may be in two places when that page is full, because
\* ListPRFiles reads it twice (client.go:54-70).  A chunk exceeds the limit only
\* if it is one file that does (chunk.go:17-55).
ChunksPartition ==
  stage # "chunk" =>
    /\ ToSet(FlattenSeq(chunks)) = {f \in ToSet(changed) : f.path \notin IgnoredPaths}
    /\ \A i \in DOMAIN changed :
         Cardinality(PlacesOf(changed[i])) <= IF i <= PerPage /\ PerPage <= Len(changed) THEN 2 ELSE 1
    /\ \A n \in DOMAIN chunks :
         \/ Len(chunks[n]) = 1
         \/ SumFunction([m \in DOMAIN chunks[n] |-> chunks[n][m].lines]) <= MaxLines

\* A run that is completed speaks of every chunk for every agent: the review
\* succeeded, or its files are named in the partial-review warning.  The
\* goroutines that give up waiting leave neither, and nothing but the ended
\* context keeps their run from being completed (pipeline.go:364, 637).
CompletedIsWhole == stage = "done" => With("dropped") = {}

Admissible(f) == Anchored(f) /\ Wanted(f) /\ Key(f) \notin muted

\* What is shown respects the caps and has no finding twice; and what was
\* reported and may be shown is shown, unless a cap is used up by findings that
\* are at least as severe: no interplay of dedupe, validation, suppression and
\* caps loses a finding to a lesser one (pipeline.go:584-635).
SeverestKept ==
  stage \in {"complete", "done"} =>
    /\ MaxFindings > 0 => Len(final) <= MaxFindings
    /\ PerFileCap > 0 => \A n \in DOMAIN final : InFile(final, final[n].file) <= PerFileCap
    /\ Cardinality({Key(final[n]) : n \in DOMAIN final}) = Len(final)
    /\ \A i \in DOMAIN merged :
        LET f == merged[i]
            shown == {n \in DOMAIN final : Rank(final[n].severity) >= Rank(f.severity)} IN
        Admissible(f) =>
          \/ \E n \in shown : Key(final[n]) = Key(f)
          \/ PerFileCap > 0 /\ Cardinality({n \in shown : final[n].file = f.file}) = PerFileCap
          \/ MaxFindings > 0 /\ Cardinality(shown) = MaxFindings

Shape(fs) == [n \in DOMAIN fs |-> <<fs[n].severity, fs[n].file, fs[n].line>>]

\* In whatever order the goroutines end, a review shows findings of the same
\* severities at the same places as in any fixed order; only between several findings of a severity
\* in one line may the order decide.
OrderIrrelevant ==
  stage = "complete" /\ ~ compiled =>
    Shape(final) = Shape(Kept(InOrder(SetToSeq(With("ok"))), muted))

\* No goroutine waits for a slot for ever, whatever reviews fail and whenever
\* the context ends: wg.Wait returns (pipeline.go:361-418).
ReviewsReturn == stage = "chunk" ~> stage # "chunk" /\ Returned

=============================================================================
