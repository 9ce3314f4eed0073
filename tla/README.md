# CodePeer in TLA+

Models, model-checking runs and machine-checked proofs for CodePeer, the
GitHub App under `src/`: a webhook receiver, a Postgres job queue, a pool of
worker goroutines, a multi-agent review pipeline and a poster that turns its
results into check runs, reviews, comments, issues and fix pull requests.

The server is one Go process (`cmd/codepeer`), one Postgres database and two
services it calls, GitHub and a language model. What makes it hard is that
nothing is atomic across these four: every handler is a chain of SQL statements
and HTTP calls, each of which may fail before or after its effect, on a job
that may be retried, delivered twice, timed out or cut off by a crash, while
other workers and people change the same pull request. The models keep that
control flow, statement by statement, and abstract the data.

All paths below are relative to `src/`.

## 1. Inventory

| Component | State | Operations | Interacts with |
|---|---|---|---|
| Job queue, `internal/queue/queue.go` | table `jobs`: status, attempts, run_at, lease_expires | Enqueue, Dequeue (`FOR UPDATE SKIP LOCKED`), Complete, Fail (three statements), ReapExpired | handlers enqueue; workers claim and settle; the reaper's ticker reaps |
| Worker pool, `cmd/codepeer/main.go` | one goroutine per worker, a context with a deadline per job, the process itself | loop, process, dispatch, shutdown, restart | queue, pipeline, poster |
| Webhook receiver, `internal/httpapi/handler.go` | table `webhook_deliveries`; `installations`, `repos` | handleWebhook, one handler per event, syncRepos goroutine | GitHub, queue, store |
| Analysis pipeline, `internal/analysis/pipeline.go` | tables `analysis_runs`, `findings`; goroutines, two semaphores and a mutex per run | AnalyzePR, AnalyzePush, recoverRun, runAgents, runChunks, finish | GitHub (diff), LLM, store |
| Chunking, `internal/analysis/chunk.go` | none (pure) | ChunkFiles | pipeline |
| Diffs, `internal/analysis/diff.go`, `skip.go` | none (pure) | SplitDiffByFile, ParseHunks, NewLineInDiff, FilterFiles | pipeline |
| Poster, `internal/posting/poster.go` | table `issues`, `findings.comment_id`, `findings.issue_number`; objects on GitHub | PostPRReview, PostPush, ClosePRIssues, LearnSweep | GitHub, store |
| Issue commands, `internal/posting/approve.go`, `internal/githubx/gitdata.go` | table `issues`; branches, commits and pull requests on GitHub | HandleIssueCommand: approve, deny | GitHub, store |
| Learning, `internal/store/store.go` | table `learnings` | UpsertLearning, LearningKeysForComments, SuppressedKeys | poster (sweep), pipeline (finish) |
| GitHub client, `internal/githubx` | cached JWT, token cache, self login | InstallationToken, appJWT, doWithRetry, listing loops, ResolveSelfLogin, API wrappers | everything |
| Repository settings, `internal/config/codepeer.go` | a cache with a TTL, `repos.config` | Get, Parse; refreshConfig and SetRepoConfig around them | workers write, the pipeline's gates read |
| LLM client, `internal/llm` | none across calls | Review, Compile, chat, decodeResult, validateResult | pipeline |
| Environment, markdown, subcommands, evaluation | none shared | start-up, formatting, one-shot programs | |

How a pull request travels: GitHub delivers an event; the receiver records the
delivery id, drops the bot's own events and enqueues `analyze_pr` (and
`feedback_sweep` after a push); a worker claims the job under a lease and a
deadline, inserts or recovers the run row of `(repo, kind, sha)`, runs the
agents, completes the run, saves the findings, then posts a check run, a
review, comments and issues one by one; it deletes the job, or fails it into a
backoff. A comment `approve` or `deny` on an issue, or the merge of the pull
request, becomes another job. A push to the default branch becomes an
`analyze_push` job: the same kind of run, whose findings are announced in one
comment on the repository's open rolling issue, opened when there is none.

What makes each part correct:

* **Queue**: a job is worked on by one worker at a time; it is given up only
  when its attempts are used up; a job whose worker vanished comes back; every
  accepted job settles.
* **Receiver**: a delivery becomes each of its jobs once at most, however often
  it is sent; 202 means that the jobs exist; the bot does not trigger itself, as
  far as the process knows its login.
* **Runs and reviews**: a commit is reviewed, and a second time only if two of
  its jobs were in flight at once or a request was sent again that had taken
  effect; a review is posted on the head its job was sent for, and speaks of the
  diff the pull request had then or later, never of an earlier one; a finding
  gets a second issue only from overlapping jobs or from a fault.
* **Inside a run**: every changed file that is not ignored is in one chunk (in
  two places, if it is listed twice), every chunk is reviewed by every agent or
  reported as not analysed, nothing severe is cut in favour of something lesser,
  the severities and places in a review do not depend on the order in which
  goroutines end (the wording of a finding reported twice may), and no goroutine
  waits for ever.
* **Diffs**: in a pull request a finding on the diff is kept and one outside it is
  dropped, but for the files whose headers or lines the parser misreads; a
  push's finding is held to its file only.
* **Push mode**: a finding is announced once, on one rolling issue, or more often
  only by a request sent again, and is not taken for announced where no comment
  was written for it.
* **Issue commands**: the table and GitHub agree on what is closed; one fix
  pull request per issue; a fix reverts nobody's work; an approval is answered.
* **Service calls**: a credential outlasts the calls made with it; a retry
  repeats what took effect only if an error answer hid that; nothing incomplete
  (a listing cut short, an answer cut off) becomes a review; a call always
  returns.
* **Memory between jobs**: the settings a review goes by are recent; a finding
  is suppressed only if a person voted it down, and a complete sweep leaves no
  such vote unrecorded.

The hazards (what a test would hardly reach, each at its line) are listed in
`PROJECT.json` with the properties that cover them.

## 2. Modules

| Module | Models | Proved about in |
|---|---|---|
| `ExclusiveQueue` | the abstract queue: what the other components expect | |
| `JobQueue` | `queue.go`, the worker loop, the reaper, crashes and a clock | `JobQueue_proofs` |
| `JobQueueProgress` | `JobQueue` under the tickers of `main.go`, for liveness | |
| `ReviewRun` | AnalyzePR and PostPRReview on one pull request, over `ExclusiveQueue` | `ReviewRun_proofs` |
| `PushReview` | AnalyzePush and PostPush on several workers, over `ExclusiveQueue` | `PushReview_proofs` |
| `AgentReview` | the inside of one run: chunks, goroutines, merge, dedupe, caps | `AgentReview_proofs` |
| `DiffAnchors` | cutting and parsing a diff, and judging a finding by it | `AgentReview_proofs` |
| `WebhookIngest` | the receiver, concurrent and repeated deliveries, start-up | `WebhookIngest_proofs` |
| `IssueCommands` | approve, deny, ClosePRIssues, over `ExclusiveQueue` | `IssueCommands_proofs` |
| `GitHubClient` | one call to GitHub per goroutine: credentials, doWithRetry, pages | `ServiceCalls_proofs` |
| `LLMClient` | one review or compilation per goroutine: chat, prompts, decoding | `ServiceCalls_proofs` |
| `ServiceCalls` | jobs that go through both clients, beside the receiver's goroutines | `ServiceCalls_proofs` |
| `RepoMemory` | settings from repository to gate, reactions to suppressed findings | `RepoMemory_proofs` |

`MC*` modules give TLC its constants, sample inputs and symmetry sets.
`PROJECT.json` maps every definition to the lines it translates. Operators
named `Mut...` are small bugs put beside the definition they would replace;
they are used by nothing, and serve to show that each property notices.

### ExclusiveQueue and JobQueue

`JobQueue` has the `jobs` table as a function from ids to rows (`status`,
`attempts`, `runAt`, `lease`) and every worker goroutine as a program counter
with the job it claimed, the attempts it read and its deadline. One action is
one SQL statement: `Fail` is `FailRead`, `FailReschedule` and `FailBury`, with
whatever other workers, the reaper and the clock do in between. A worker never
re-checks whether it still owns the row, as in the code. Faults are a crash or
shutdown (`Stop`), a claim whose answer is lost (`DequeueLost`), and an outcome
that cannot be recorded (`OutcomeLost`). Backoff is `2^attempts` up to a cap
with 20 % jitter, in clock ticks.

`ExclusiveQueue` is the same without leases, clock or SQL: a job is waiting,
taken, done or failed; only its holder settles it; a vanished holder's job can
be recovered. `JobQueue` implements it (`ImplementsExclusiveQueue`, checked by
TLC and proved), under the condition `LeaseOutlivesJob`:

    JobTTL + Grace <= LeaseTTL

The defaults satisfy it with five minutes to spare (`LLM_TIMEOUT` + 5 minutes
against `QUEUE_LEASE_TTL`), but nothing in the code enforces it. Without it the
reaper hands a job to a second worker while the first is busy; `Complete` then
deletes, and `FailBury` buries, a row that somebody else works on.

`ReviewRun`, `PushReview` and `IssueCommands` take their jobs from
`ExclusiveQueue` by INSTANCE, so that what is shown there holds for jobs of the
real table.

### ReviewRun

One pull request whose head is pushed from any of the commits `1..MaxHead` to
any other, back to an earlier one too (`heads` is the sequence of them), the
jobs that `opened`, `reopened`, `ready_for_review` and `synchronize` enqueue,
and per worker the local variables of AnalyzePR and PostPRReview. The actions
follow the code: policy gates, the diff (read from the pull request, not from
the job's commit), CreateRun / recoverRun / RestartRun, the agents, FailRun, and
in `finish` first CompleteRun, then SaveFindings, then FindingsForRun; then the
poster's calls in order. Any call may fail without its effect (`CallFails`) or
after it (`Proceed`), a context may expire (`Expire`), the process may crash. A
post is one call of doWithRetry, which sends the request again after an answer
that hid its effect, up to `MaxRetries` times: `Sent` makes each such repetition
a fault, of which the object on GitHub is the second, third, ... one. The agents
are one step here (`AgentsReturn`, `AgentsCutShort`); `AgentReview` opens it up.

Four histories serve the properties only: `overlap` has the pairs of commits
whose jobs were ever in flight at the same time, `skipped` the jobs that the
repository's policy ended, `resent` the requests repeated after their effect,
and `about` the job and the diff of every review.

### AgentReview

`Listings` are the answers of ListPRFiles to a change, `Reviewable` drops the
files that `IgnoredPaths` matches, and `NextFile` is one turn of the loop in
ChunkFiles. Then one goroutine per (agent, chunk) pair waits for a slot, reviews,
fails or gives up when the context ends; `Merge` appends the results in the order
in which the goroutines end (any permutation) or takes the lead agent's answer;
`Finish` dedupes, validates against the diff, drops suppressed findings and applies the caps, with
the code's sort orders and tie-breaks; `CompleteRun` needs a living context.
Findings are records of file, line, title and severity, the fields that the
code's keys and sorts read.

A listing repeats files: ListPRFiles asks for page 0 and then for page 1, which
GitHub answers with the same first page, so a pull request of `PerPage` files or
more (100) has its first page listed, and reviewed, twice. `ChunksPartition`
compares the chunks with the change itself and has those files in two places.

What a chunk's text comes to in a prompt is left out: buildInput cuts it after
300000 characters (llm/client.go:321) without a word, so that files behind the
cut are in a chunk and in no agent's sight.

### PushReview

The pushes of a default branch, forced ones back to an earlier commit included,
and per worker the local variables of AnalyzePush and PostPush. The run protocol
is that of ReviewRun without the context's end; the diff is that of the job's
own commits and so not a step. The rolling issue takes the calls of the code:
`LookUp` (the oldest open row), `OpenRolling` on GitHub, `StoreRolling`,
`ReadBack`, then `Comment` and one `Link` per finding, whose errors are only
logged. A comment is written for all `new` findings of the push and tells of
those it is `about`: BuildPushCommentBody cuts its text after 30000 characters,
so that only sets of findings in `Fits` are told in full, while the poster links
them all. Like the posts of ReviewRun it may be sent again after an answer that
hid it (`resent`). In between, other workers do the same and people deny the
issue. Two workers may both open an issue; as both read back the oldest row they
comment on the same one, and the other stays open and unused (`OneIssueInUse`).
Row ids are taken to become visible in their order.

### DiffAnchors

The diff is a sequence of line kinds: the `diff --git` header, `---`, `+++`,
`@@` with start and count, and the lines of hunks, of which only those that read
like a header are told apart, with the name such a header would give: the file's
own, another one's, or none. A path is a sequence of words, because
pathFromDiffHeader takes the text behind the first `" b/"` of the line, up to
the next blank; that text may begin within the old name, which after a rename
is another one. A quoted path is not recognised. SplitDiffByFile and ParseHunks
are recursive functions over the lines: `after[n]` is the Go loop's
variables behind line n, the hunks as a set. `Validated` is the test of `finish`
for one finding, and the properties compare it with `ShownLines`, computed from
the hunks' contents without any header. They hold for *readable* files; the
others are named by `Ordinary`, `Clobbered` and `Misnamed`, and for them the
code does otherwise: findings of files with quoted names, blanks or `" b/"` are
dropped, a later `a b.go` or `x b/a` takes the section of `a`, findings that
name what is left of a misread name are kept, and an added line that starts with
`++ ` hides the hunks after it unless it happens to name its own file. In push
mode GitHub's patches begin with `@@`: ParseHunks knows no file at that point
and skips the hunks up to an added line that names the file itself, so that
otherwise no finding is dropped for its line. Of such findings `StrayDropped`
promises a changed file and no more, although ARCHITECTURE.md:54 has every
finding's line exist in the real diff. In pull requests, ignored files keep
their section and may have findings. Names that are quoted and contain `" b/"`
as well are left out.

### WebhookIngest

HTTP requests in flight are goroutines with a program counter; deliveries may
be sent several times and at once. Recording the id, filtering, each INSERT of
a job, the installation upsert and the `syncRepos` goroutine are steps of their
own, each may fail with or without its effect, and the process may crash.
Whether `BOT_LOGIN` is set is a variable that no action changes; if it is not,
`Start` asks GitHub, which knows the login once the app is installed. `blind`
remembers that some start did not find it. The signature check, the body limit
and the health endpoints keep no state and are left out: requests in the model are those that passed.

### IssueCommands

The `issues` rows, the issues, branches, commits and pull requests on GitHub,
and workers that run approve (read, base commit, one file per suggestion,
tree/commit/branch, pull request, comment, row), deny (comment, issue, row) and
ClosePRIssues (list, then comment, issue, row for each). Meanwhile people push,
merge or close fix pull requests and close issues. A file at a commit is the
revision it was last changed at and the snippets it contains.

### GitHubClient, LLMClient and ServiceCalls

`GitHubClient` has one call per goroutine: `CheckToken`, `SignJwt`,
`CreateToken` and `StoreToken` are InstallationToken with its two locks, neither
of which is held while a request is under way; then requests in doWithRetry,
for a post or for the pages of a listing. The cached JWT, the cached tokens
and the credential of a call are the *life they have left*, and one action
`Tick` shortens all of them: time needs no bound. GitHub throttles, refuses,
serves, answers 5xx although a post took effect, or does not answer.

`LLMClient` has one Review or Compile per goroutine: the waits of `chat`, the
second prompt for an empty answer, the concise one for a truncated answer, and
the one repetition that runAgents grants a review. An answer is what the code
tells apart: complete or not, its body, its status, and for each kind of
finding that validateResult drops whether it has one.

`ServiceCalls` composes the two by INSTANCE: the jobs of workers list, have
reviewed, have compiled and post, or only post; goroutines of the receiver list
repositories (`syncRepos`) through the same GitHub client.

### RepoMemory

What outlives a job. Settings are their *age*: `Fetch` reads them fresh,
`StoreCache` and `PersistRow` put them into the cache and the `repos` row,
`Gate` reads whatever is in the row by then; a job lives `JobTTL`, a cache entry
`TTL` from when it was stored. LearnSweep lists the comments, takes some of them
in any order (a Go map) up to `maxLearnComments`, reads one page of
each one's reactions and adds to one of two rows per finding; `ReadSuppressed`
is the query of `finish`. `blamed` and a sweep's `whole` and `standing` are
histories for the properties.

## 3. Runs

| Run | Question | Bounds |
|---|---|---|
| `queue_safe` | Is a job exclusive, buried only when exhausted, and does the table implement the abstract queue? | 2 jobs, 2 workers, 2 attempts, clock to 7, 2 faults |
| `queue_progress` | Does every accepted job settle? | 2 jobs, 1 worker, 2 attempts, 2 faults, clock to 24 |
| `review_run` | What does it take to post or open something twice, what diff is a review about, and do jobs end with a review when nothing fails? | 2 jobs, a head that moves between 2 commits, 2 workers, 2 findings, 2 retries of a request, 1 fault (0.7 million states) |
| `push_review` | Is a push announced, once, on one issue, and only then taken for announced? | 2 jobs, 2 workers, 2 heads, 2 findings and 1 per push, comments that are cut, 2 retries of a request, 1 denial, 1 fault |
| `agent_review` | Chunks, slots, merge, dedupe and caps of one run | up to 4 files in pages of 3, 1 ignored, 2 agents, 4 kinds of answers (0.6 million states) |
| `diff_anchors` | Are findings on the diff kept and the others dropped? | diffs of up to 2 files, renames among them, with up to 2 hunks of a few lines, findings on lines 0 to 7 (0.4 million states) |
| `webhook_all` | Enqueuing at most once, acknowledgement, own events, registration | 2 deliveries sent up to twice, 2 requests at once, 2 faults, with and without `BOT_LOGIN` |
| `issue_commands` | Approve, deny and close, raced and retried | 2 jobs, 2 workers, 1 issue with two suggestions for a file, 2 commits, 1 fault |
| `service_calls` | Do credentials last, posts stay single, answers arrive whole, and calls return? | 1 worker, 1 syncRepos, 1 retry of everything, lives of 3 with margins of 1, 4 answers (0.3 million states) |
| `repo_memory` | How old are the settings in use, and what do votes do? | 2 workers, 2 findings, 1 comment per sweep, 1 reaction per page, lives of 1, 4 events (2.7 million states) |

Two more runs, `review_lost` and `webhook_own`, refute statements of the
repository's documentation; see section 6.

Why the bounds are enough to be interesting:

* *queue*: two workers and two jobs are the least in which a lease can expire
  under a worker, a reaped job can be claimed by another and the reaper's single
  UPDATE can touch two rows. The lease of 2 ticks equals JobTTL + Grace, the
  tightest case the condition allows. Seven ticks let both attempts of a job,
  their backoffs and a stranded lease pass. In `queue_progress` the clock must
  not stop before everything settles: 24 ticks cover two jobs with 2 + 2
  attempts each (`AttemptsBounded`) at lease and backoff of 2 ticks each, when
  no job arrives after tick 2.
* *review_run*: two jobs are for one commit or for two, on one worker after
  the other or on two at once, and the head moves on or back while they wait and
  run; the one fault is a failure and its retry, or one repeated request; the
  proofs cover any number of them. With one severe finding and one that is not,
  of which one is kept, a retry may report another finding than the first
  attempt did.
* *webhook_all*: two deliveries of any two events, each possibly on both request
  goroutines at once, are the least in which dedupe, order and crashes meet.
  `BOT_LOGIN` is set or empty, as RAILWAY.md:46-55 and :95 leave it. If it is
  empty, the login is resolved once at start and stays unknown if the app is
  installed later (RAILWAY.md:64), or if that call fails: `EnqueuedOnce` says
  that it takes this for the bot's own events to become jobs, `webhook_own`
  shows that it happens without any fault.
* *agent_review*: chunk limit 2 with files of 0 to 3 lines covers empty, exact,
  overfull and oversized chunks; two slots for up to four reviews (one for the
  general pass) make goroutines wait; with pages of three files, changes of three
  and four have theirs listed twice, with and without an ignored file among them;
  a cap of 1 per file and 2 in total makes
  both caps bite; one answer repeats a finding with another severity, one points
  outside the diff, one finding is suppressed.
* *push_review*: two jobs on two workers are for one commit (a shared run) or
  for two (a race for the rolling issue); reports are clean or exceed the one
  announced finding; one fault or one denial can fall between any two calls; a
  comment on one of the findings fits, any other may be cut.
* *diff_anchors*: two files are the least in which one section ends where
  another begins or takes its place; names that are plain, quoted, ignored, have a
  blank behind another file's name or `" b/"` in front of it, and renames from
  such a name; hunk lists that are empty, of an emptied file, one or two hunks
  with and without lines at their ends that look like headers of the file itself,
  of another one or of none; lines before, in, between and after the hunks. Each
  excuse in the two properties is needed: TLC refutes them without it.
* *issue_commands*: two workers race on one issue with two suggestions for the
  same file and room for one entry; one push or merge can fall between any two
  reads.
* *service_calls*: two goroutines are the least that refresh one token at the
  same time; lives of 3 with margins of 1 let a credential be found good, found
  stale, refreshed twice and outlive its margin. One full page makes the listing
  ask for page 0, 1 and 2. The four answers are an empty one, one with raw
  control characters and a finding to drop, one of unknown status, and a
  truncated one that would decode.
* *repo_memory*: of the four events three ticks carry settings to the oldest age
  there is, and one more is a failed call; or they are votes of persons and bots
  given and taken back between the steps of two sweeps. One comment per sweep
  and one reaction per page make both limits bite.

Runs have `CHECK_DEADLOCK FALSE` because the bounded systems do stop: when all
jobs are settled and the bounds on time, faults and events are used up.

Every property has a mutant in `PROJECT.json`: a plausible slip in one mapped
definition under which TLC finds it violated.

### Fairness

* *Workers* (`WF` of each goroutine's step): a goroutine that can run does run;
  an idle worker polls again after its ticker (`QUEUE_POLL_INTERVAL`).
* *Reaper* (`WF` of ReapExpired, Reap): its ticker fires every minute for as
  long as the process runs.
* *Restart, Start*: the platform restarts a stopped process (RAILWAY.md,
  docker-compose.yml).
* *Clock* (`TimelyTick`): a tick stands for at least a poll interval and a
  minute, so time does not pass while a poll or a reap is overdue.
* *Service calls* (`WF` of each goroutine's step): a request ends, at the latest
  with the deadline of the context that every call takes.
* *GitHub* sends every event once (`WF` of the first Deliver); it is not assumed
  to redeliver.
* Nothing is fair about faults, people or arriving events. Where a fault may
  excuse an outcome, the property says so: EventuallyReviewed,
  EventuallyAnnounced (which a denial excuses as well), EventuallyEnqueued,
  EventuallyRegistered, ApprovalAnswered. What the first two do not excuse is a
  job that never settles. Settles, ReviewsReturn and CallsReturn hold in spite
  of faults.

`ReviewsReturn` ends where `wg.Wait` returns; what follows is straight-line code
with no waiting.

## 4. Proofs

Eight modules hold proofs, one for each component with state; those about
`DiffAnchors` are in `AgentReview_proofs`, because they need the same lemmas on
concatenations and ranks. What they prove holds for every number of jobs,
workers, requests, findings, repetitions and faults, from the named assumption
on the constants that each model declares and TLC evaluates on its run. Each
follows the same argument: the properties are not inductive as they stand, so
`IInv` adds what else is true of every reachable state, mostly by where a
goroutine stands in the code; it holds initially, every action preserves it, and
it implies the properties.

### JobQueue_proofs

For any sets of jobs and workers and any values of
the constants that satisfy `JobQueueAssumption`, and under `LeaseOutlivesJob`:

| Theorem | Statement |
|---|---|
| `Invariance` | `Spec => []IInv` |
| `TypeCorrectness` | `Spec => []TypeOK` |
| `NoOverlap` | `Spec => []OneRunner` |
| `FailsOnlyExhausted` | `Spec => []FailedOnlyWhenExhausted` |
| `FaultsPayForAttempts` | `Spec => []AttemptsBounded` |
| `Refinement` | `Spec => ImplementsExclusiveQueue` |

None of the four safety properties is inductive. The strengthening is:

* `OwnsItsJob`: a busy worker's row is running, and its lease reaches at least
  to the worker's deadline plus Grace, which is not over yet. This is where
  `LeaseOutlivesJob` enters (at `Dequeue`), and what makes the reaper harmless:
  an expired row is held by nobody (`ExpiredNotHeld`). OneRunner follows,
  because a claimed row was pending and a held row is running.
* `BuriesExhausted`: a worker between the second and the third statement of Fail
  has a job without attempts left; it stays so because nobody else may change
  the row meanwhile.
* `AttemptToSpare`: a job that waits, or is stranded, has an attempt left within
  MaxAttempts + faults; a running row is stranded only by a fault
  (`LosingRunningJob`), which pays for the next attempt.

The refinement maps row status to phase and the worker's job to `holds`. The
outcome statements are the only ones whose abstract step needs more than the
shape of the action: `Complete`, `FailReschedule` and `FailBury` are the
holder's decisions only because of `OwnsItsJob`, and `ReapExpired` is `Recover`
only because expired rows have no holder.

### ReviewRun_proofs

For any constants that satisfy `ReviewRunAssumption`:

| Theorem | Statement |
|---|---|
| `TypeCorrectness` | `Spec => []TypeOK` |
| `DiffsNotEarlier` | `Spec => []DiffNotEarlier` |
| `RepeatsTakeOverlap` | `Spec => []RepeatsNeedOverlap` |

The first two follow from `Base`: a worker is busy exactly when it holds a job,
a job that was sent has its place in the history of heads (`Linked`), and a diff
in use is one of the heads from that place on (`Diffs`): what matters is the
order in which commits were the head, not their own, so pushes back to an
earlier commit are covered. `RepeatsNeedOverlap` needs more:

* `Pairs`: two busy workers' commits are in `overlap`; so where a commit is not
  paired with itself, one worker at most is busy with it.
* `Once`, for such a commit: nothing is posted unless its run is done, each kind
  of post is there once and as many times more as its request was sent again
  (`Posted`), and where its worker stands tells which posts are still to come
  (`AtStage`). A retry of the job therefore finds a run that is not done, with
  nothing posted, or one that is done, and skips. This is why, apart from
  repeated requests, only a run in progress that is taken for a stalled one
  leads to a second post.
* `Paid`, as long as there was no overlap at all: a finding without a row has no
  more issues than there were faults, repeated requests included, one with a row
  one more; a worker opens an issue only for a finding whose row it did not read.

### WebhookIngest_proofs

| Theorem | Statement |
|---|---|
| `Accepted` | `Spec => []AcceptedIsEnqueued` |
| `Once` | `Spec => []EnqueuedOnce` |

A handler past the recording step is the only one of its delivery (`Order`:
whoever finds the id recorded goes no further), so what is enqueued for an event
follows from where that handler is (`Stage`): nothing before the first INSERT,
then one of each of the jobs before its `next`. Hence no job twice, and all of
them when it answers 202. For `Once`, `Known` adds that a running process knows
the bot unless it is blind, which takes an empty `BOT_LOGIN`; so only then does a
handler of the bot's own events reach an INSERT.

### RepoMemory_proofs

For finite `Keys`, positive `TTL` and `JobTTL`, and `MaxWeight` of at least 2:

| Theorem | Statement |
|---|---|
| `TypeCorrectness` | `Spec => []TypeOK` |
| `SettingsStayRecent` | `Spec => []SettingsRecent` |
| `SuppressionTakesVote` | `Spec => []SuppressionNeedsVote` |
| `WholeSweepsCount` | `Spec => []SweepCounts` |

* `SettingsInv` bounds ages by what is left of lives: settings that a job
  fetched are no older than the time it has run, `JobTTL - left`; so a cache
  entry was at most `JobTTL` old when it was stored and is at most
  `2 * JobTTL + TTL - 1 - left` old later; whoever persists it adds at most
  another job's life, and a job that persisted finds in the row something at
  most `3 * JobTTL + TTL - 1 - left` old, whoever wrote it.
* `VotesInv`: a row of up-votes is never negative, one of down-votes never
  positive, and negative only for a finding that a person voted down.
* `SweepInv`: as long as a sweep is whole, every finding voted down since before
  it began is still to be looked at, or in hand, or in the table with a down-vote.

### PushReview_proofs

| Theorem | Statement |
|---|---|
| `NothingLinkedUntold` | `Spec => []LinkedMeansAnnounced` |
| `RacersAgree` | `Spec => []OneIssueInUse` |
| `OnePushOneComment` | `Spec => []AnnouncedOnce` |

* `Told`: a comment on its issue was written for the findings that a worker is
  about to link, and tells of them all if they fit; it stays there whatever
  happens to the worker. That a cut comment tells of every finding linked to it is
  not so, and not claimed.
* `UsesFirst`: the issue in use is that of a row before which no row is open.
  Rows are only appended, and closed for good, so it stays true under every
  other worker's insert; two such rows that are both open are the same row,
  which is why racing workers agree although each may have opened an issue.
* `Once`, for a commit that one job alone carries: a comment exists only if the
  run is done; before that its worker is in a stage that finds it not done, and
  from CompleteRun to the comment it is the one that has not commented. When it
  does, every comment but the first is one that doWithRetry sent again.

### IssueCommands_proofs

For finite `Issues` and the rest of `IssueCommandsAssumption`:

| Theorem | Statement |
|---|---|
| `TypeCorrect` | `Spec => []TypeOK` |
| `RowFollowsIssue` | `Spec => []ClosedRowClosedIssue` |
| `ApprovalsShareAPR` | `Spec => []OneOpenFixPR` |
| `FixesKeepPushes` | `Spec => []FixRevertsNothing` |
| `MergeResolves` | `Spec => []MergedMeansResolved` |

* `Commits` and `Fixing`: what a worker has read, and what branches and pull
  requests hold, has the revisions of its base commit; pushes append to `main`
  and change no earlier commit.
* `Heads`: a pull request is for the branch that is named after its issue, so
  GitHub's refusal of a second one for a head is a refusal of a second one for
  the issue.
* `Resolving`: from the listing on, every issue of the pull request is closed in
  its row or still in the worker's list, and what was closed and what is left
  never exceed them together; hence the limit of ClosePRIssues bites only if
  there are more issues than the limit, the case the property excepts. A row is
  written only by a worker whose issue is closed on GitHub, and nobody reopens.

### ServiceCalls_proofs

For any `Installations` but none at all, and the assumptions of the two clients:

| Theorem | Statement |
|---|---|
| `TypeCorrect` | `Spec => []TypeOK` |
| `CredentialsOutlastCalls` | `Spec => []CredentialsLast` |
| `OnlyHiddenRepeats` | `Spec => []RepeatsOnlyHidden` |
| `WholeAnswersPosted` | `Spec => []PostedOnWholeAnswers` |

The invariant is about one goroutine at a time, as neither client keeps a lock
over a request; shared are the cached tokens and JWT only, of which a goroutine
takes a copy.

* `Credential`: the life a credential has left and the time since it was found
  good exceed the margin together. `Tick` moves one unit from the one to the
  other, so a call that ends within the margin ends within the life.
* `Effects`: while a post is being sent, it took effect as often as an answer
  was hidden, and no more often than it was tried.
* `Pages`: at page p a listing has the pages before it.
* `JobOK` ties the stage of a job to the two calls it makes: it posts only after
  a listing that went to its end and answers that were complete.

### AgentReview_proofs

For any files in any number with any additions and lines, any finite set of
agents, and any answers, votes, slots, limits and caps:

| Theorem | Statement |
|---|---|
| `ChunksArePartition` | `Spec => []ChunksPartition` |
| `NoFileLost` | for some listing of the change, a bijection takes the places of the chunked files to those of the listed ones that are not ignored, and of two files the one with more additions comes first, or the earlier one if they have as many |
| `CompletedRunsAreWhole` | `Spec => []CompletedIsWhole` |
| `CompletedSpeaksOfAll` | a completed run has an outcome for every agent and chunk, and the chunks are the files of a listing that are not ignored |
| `SlotsHold` | `Spec => [](Cardinality(Holding) <= Slots)` |
| `SeverestShown` | `Spec => []SeverestKept` |
| `OrderDoesNotShow` | `Spec => []OrderIrrelevant` |

* `ChunksHold`: during the loop of ChunkFiles, the chunks made so far and the
  one being filled hold the files it is past, in order. `ChunksFit`: its counter
  is the number of lines in the chunk being filled, which is within the limit,
  and a finished chunk exceeds it only if it is a single file. That nothing is
  lost before the loop either is `NoFileLost`: the filter takes the files that are
  not ignored in their order (`ReviewablePicks`), and the sort is a permutation,
  for listings with repeated files too. A listing in turn has every changed file,
  once or, on a full first page, twice (`ListingHolds`, `ListedPlaces`); together
  this is what `ChunksPartition` says of chunks and change.
* `TasksKnown` and `DroppedLate`: goroutines are those of the chunks, and one
  that gave up did so after the context ended; so in a run that is completed,
  which takes a living context, each has reviewed or failed.
* `SlotsRespected`: a slot is taken only below the limit, and every other step
  of a goroutine keeps it or frees it.
* `Collected` and `Shown`: finish starts from the results in some order of their
  goroutines, or from the lead agent's findings, and what is shown is what it
  makes of them. So `SeverestKept` and `OrderIrrelevant` become facts about the
  operator `Kept`, for every sequence of findings.

The model writes the code's sorts and filters alike: the element at place n is
the one with n - 1 elements before it (`Arranged`). If "before" is a strict
total order on a finite set, these ranks are a bijection, and places are ordered
as it says (`RankBijective`, `PlacesPick`); a filter takes the order of the
indices for it. What finish does is then a chain of lemmas, one per pass:

* `DedupedKeeps`, `DedupedHas`: one report is left for every key, the severest
  of the reports with the key.
* `SortedSelects`: the sort permutes, and nothing stands before something that
  belongs ahead of it (`Orderly`): severity first, then file, then line.
* `CapOfFile`, `CutKeeps`: a finding that a cap drops has as many findings before
  it as the cap allows, and by the sort those are at least as severe. Together,
  `KeptIsSeverest`.
* `FlattenHas`, `InOrderHas`: two merges have the same findings (`Alike`), and
  `DedupedAlike`: so do the lists dedupe leaves of them. Two sorted lists with
  the same findings agree at every place in severity, file and line
  (`SortedLook`), by counting: else n findings of one would have to stand before
  place n in the other. The filters that follow read no more than that and take
  the same places (`CapsLook`). Together, `KeptLook`.

Sums over the lines of a chunk and concatenations of chunks are recursive
functions in the community modules. What is needed of them, that a sum does not
depend on the order in which it is taken and that concatenation appends, is
proved by the least counterexample: a set of numbers has a least element
(`LeastExists`), from the library's theorem that finite sets are well-founded.

About `DiffAnchors`, for any number of files with any hunks of any lines, any
names and renames, also with blanks and `" b/"`, any ignored and quoted paths (the
latter without `" b/"`), and findings on any line:

| Theorem | Statement |
|---|---|
| `AnchoredFindingsKept` | `DiffSpec => []AnchoredKept` |
| `StrayFindingsDropped` | `DiffSpec => []StrayDropped` |

The invariant of the steps is small (`DiffInv`: the diff by path is what
SplitDiffByFile or the comparison makes of the files, and a judged finding is
kept if and only if it is `Validated`). What takes an argument is what the two
loops compute of every diff. A state after each line exists because the recursive
functions do (`SplitsExists`, `ParsesExists`), and everything said of all lines is
said of a least line for which it would fail.

* `FlattenPlaces`: in a concatenation, every place is a place in one of the
  parts, behind the lengths of those before it (`Offsets`). So a line of the raw
  diff belongs to a file's headers or to one of its hunks (`SectionLines`,
  `PatchLines`).
* `SplitSection`, `HeldStep`, `SplitFinds`: after the first i files, each name in
  the map is that of one of them, and holds the section of the last file that
  reads so (`Held`), behind nothing but the `diff --git` lines of files whose
  name is not found (`Blind`): those stay in the loop's buffer for want of a
  name.
* `RangesAreRead`, `RangesStay`, `NameStays`: a range comes from an `@@` line
  under a name, stays, and the name leaves the file only at a line that looks
  like the header of another one. So the ranges of a readable file are those of
  its hunks (`OwnRangesOnly`), its first hunk is read under its name, and every
  later one too if no added line before it names another file
  (`OwnRangesRead`). Of a push's patch none is read under the file's name unless
  an added line before it gives that name (`PatchUnread`, `PatchBefore`,
  `NamedBefore`).
* `ShownIsRange`: the new-side lines of a hunk are the range that its header
  gives; the lines before one are counted, and the ranks are a bijection
  (`RankBijective`).

### Model-checked only

Liveness (Settles, EventuallyReviewed, EventuallyEnqueued, EventuallyRegistered,
EventuallyAnnounced, ApprovalAnswered, ReviewsReturn, CallsReturn), which is out
of the prover's reach. Every other property of a passing run is a theorem.

## 5. Assumptions about the environment

* Time: a job's context ends at its deadline, and its outcome is recorded at
  most Grace later (`Punctual`). The database clock is the only clock.
* GitHub: refuses a second open pull request for a head branch and one for a
  branch without new commits; nobody reopens issues; a deleted commit never
  comes back. One request has its whole effect or none; a call may be several
  requests, since doWithRetry sends one again whose effect an answer hid, which
  `GitHubClient`, `ReviewRun` and `PushReview` have. The comments of one review
  are counted as one batch. Of two tree entries for one path GitHub keeps the
  later one.
* GitHub and the process agree on when a credential ends.
* Diffs: git shows context around a change, so a hunk without lines on the new
  side is that of a file that is now empty, and says that it starts at line 0; a
  diff has each path once; no name that git quotes contains `" b/"`. ParseHunks
  gives such a hunk the range of line 0, which no finding's line is in.
* The LLM: answers anything or fails.
* The database executes one statement atomically; a statement whose answer is
  lost may or may not have been executed.

## 6. Findings

| Run | Property refuted | What happens |
|---|---|---|
| `review_lost` | `CompletedMeansReviewed` | a run is marked done (or failed) before anything is posted; the retry finds it "already analyzed" and the job completes without a review |
| `webhook_own` | `OwnEventsIgnored` | with `BOT_LOGIN` empty, a process that was started before the app was installed never learns its login (main.go:123), and enqueues jobs for the bot's own events, which README.md:18 says it ignores |

What the models show besides, without a run of its own:

* `IssueCommands`: two suggestions for one file are each applied to the file as
  of the base commit (approve.go:97) and become two tree entries for one path;
  the fix has the last one only, while ARCHITECTURE.md:62 says that approve
  "applies each stored suggestion". It takes no race and no failure: with
  `MaxFixFiles` = 2 and no fault, the first approval of the two suggestions of
  `OneFile` opens such a pull request.
* `WebhookIngest`: the delivery id is committed before the jobs (handler.go:73).
  After a failure in between GitHub's redelivery is answered 200 as a duplicate,
  and the job never exists; `EventuallyEnqueued` excuses faults, and
  `AcceptedIsEnqueued` speaks of 202 only.
* `ReviewRun`: a second job for a commit (a `reopened` after an `opened`) that
  starts while the first one runs takes the run in progress for a stalled one
  (pipeline.go:320), and both post. `RepeatsNeedOverlap` says that it takes this
  overlap, or doWithRetry, which repeats check runs, reviews, comments and issues
  after a 5xx or 429 that took effect (client.go:430-461). The diff is the one
  that the pull request has when it is read (pipeline.go:112), but the review is
  posted on the head the job was sent for: a push in between has it speak of
  other lines, and if that push is forced back to an earlier commit, of that
  commit's. `DiffNotEarlier` says that it is at least never a diff from before
  the job was sent.
* `PushReview`: a denial between the opening of the rolling issue and its
  reading back fails the job, and the retry skips the analyzed run: the push is
  never announced. A comment is cut after 30000 characters (markdown.go:158), but
  poster.go:237-240 links all new findings to its issue: those behind the cut
  count as announced for good, and nobody was told.
* `AgentReview`: the first page of 100 or more files is listed, reviewed and paid
  for twice; a prompt is cut after 300000 characters (llm/client.go:321), and the
  run completes as if the rest had been reviewed.
* `DiffAnchors`: the exceptions of section 2. ARCHITECTURE.md:54 has every finding
  dropped whose file and line are not in the real diff; a push's finding stays
  whatever its line, and a pull request's on any line of a file without hunks,
  or under what is left of a misread name.
* `RepoMemory`: README.md:120 has *repeated* downvotes suppress a finding; one
  is enough, as it weighs -2, and each sweep adds it again. store.go:563 speaks
  of the *net* weight, but up- and down-votes are two rows, each compared by
  itself: up-votes never outweigh a down-vote. With more than `maxLearnComments`
  comments the random map order decides which votes count, and only the first
  page of reactions is read.
* Settings: the cache is keyed by repository without the ref that the file was
  read from (codepeer.go:141). `enabled:` of `.codepeer.yml` (README.md:127) is
  parsed, but the gates read the `enabled` column of the row (pipeline.go:83,
  204). `max_findings` and `per_file_cap` are stored, but the prompt and
  applyCaps take the pipeline's own (pipeline.go:537, 635), as does `strictness`
  unless that is empty; `include_nits` relaxes the prompt only, and applyCaps
  drops the nits; `custom_instructions` are collected (pipeline.go:533) and
  enter no prompt.
* `GitHubClient`: a JWT is renewed two minutes before its end, which two waits
  of a minute in doWithRetry use up; GitHub then answers 401, which is not
  retried. `CredentialsLast` is stated for the margin.

## 7. Not modelled

* Glob patterns (the set of paths they match is a constant), YAML, JSON,
  prompts, markdown: pure conversions. The hunks of a diff enter `AgentReview`
  as a constant, the outcome of `DiffAnchors`.
* Suggestions: `finish` strips one whose old text is not in the file; only
  IssueCommands reads them.
* The fields of `.codepeer.yml` and their validation: `RepoMemory` follows the
  settings as a whole.
* GitHub's plain reads (GetPR, GetFile): they keep no state, and
  their callers' modules have them fail or return.
* Environment, subcommands, evaluation: read once or run once, no shared state.
* The audit log: written, never read.
* `jitterRand` is used by all workers without a lock; a race only changes the
  jitter drawn, and the model draws any.

## 8. Plan

Every component with state is modelled, and each of their models has proofs.
What TLC alone checks is liveness. Four hazards of `PROJECT.json` have no
property:

* a fix branch that exists already and is taken as it is (gitdata.go:168), which
  IssueCommands has too, as CreatePR takes the branch's commit, but no document
  says what the pull request's body must agree with;
* a denial while the rolling issue is being opened (poster.go:210), which
  PushReview has and `EventuallyAnnounced` excuses;
* the cut of a prompt (llm/client.go:321), since no model has the text of a chunk;
* settings cached without their ref (codepeer.go:141), since RepoMemory follows
  their age only.
