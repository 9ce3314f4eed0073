---------------------------- MODULE ServiceCalls ----------------------------
(***************************************************************************)
(* Jobs and the services they call: what reaches GitHub of a job whose     *)
(* calls may be throttled, refused, lost or answered in part.  A worker's  *)
(* job calls GitHub through GitHubClient and the model through LLMClient,  *)
(* with a context that ends at its deadline: a review lists the changed    *)
(* files, has them reviewed and compiled and posts the result (AnalyzePR   *)
(* with one agent and one chunk); other jobs only post.  Beside the        *)
(* workers, goroutines of the webhook receiver list an installation's      *)
(* repositories, with deadlines and through the client they all share.     *)
(***************************************************************************)
EXTENDS Naturals

CONSTANTS
  Workers,   \* the goroutines that process jobs
  Syncers,   \* the goroutines of syncRepos
  Installations,
  MaxRetries, FullPages, JwtTTL, JwtWindow, TokenTTL, Buffer, \* GitHubClient's
  Retries, Answers                                            \* LLMClient's

VARIABLES live, jwt, tokens, call, task, job

Callers == Workers \cup Syncers

G == INSTANCE GitHubClient
L == INSTANCE LLMClient

ASSUME ServiceCallsAssumption == G!GitHubClientAssumption /\ L!LLMClientAssumption

github == <<jwt, tokens, call>>
vars == <<live, jwt, tokens, call, task, job>>

\* job[c].answer is the model's answer that the job goes by.
Stages == {"idle", "list", "review", "compile", "post", "say", "sync"}
Job == [stage : Stages, inst : Installations,
        listed : SUBSET (1 .. FullPages + 1), answer : L!Answer, result : SUBSET L!FindingKinds]

Idle == [stage |-> "idle", inst |-> G!Idle.inst, listed |-> {}, answer |-> L!NoAnswer, result |-> {}]

Init ==
  /\ G!Init
  /\ L!Init
  /\ job = [c \in Callers |-> Idle]

In(c, stage) == job[c].stage = stage
Advance(c, becomes) == job' = [job EXCEPT ![c] = becomes]

-----------------------------------------------------------------------------

\* Goroutine c begins with a call of the given kind, for installation i.
Start(c, i, stage, kind) ==
  /\ In(c, "idle")
  /\ live' = [live EXCEPT ![c] = TRUE]
  /\ job' = [job EXCEPT ![c] = [Idle EXCEPT !.stage = stage, !.inst = i]]
  /\ G!Begin(c, i, kind)
  /\ UNCHANGED task

StartReview(w, i) == Start(w, i, "list", "list")
StartPost(w, i)   == Start(w, i, "say", "post")
StartSync(s, i)   == Start(s, i, "sync", "list")

\* The job's deadline passes.
Expire(c) ==
  /\ ~ In(c, "idle") /\ live[c]
  /\ live' = [live EXCEPT ![c] = FALSE]
  /\ UNCHANGED <<github, task, job>>

\* The clock moves.
Tick == G!Tick /\ UNCHANGED <<task, job>>

\* A client takes a step for c.
GitHubStep(c) == G!Step(c) /\ UNCHANGED <<task, job>>
LLMStep(c)    == L!Step(c) /\ UNCHANGED <<github, job>>

\* The job is over, well or not.
End(c) ==
  /\ live' = [live EXCEPT ![c] = FALSE]
  /\ job' = [job EXCEPT ![c] = Idle]

\* A listing or a post returned an error: so does the job, or syncRepos.
GitHubFails(c) ==
  /\ G!At(c, "err")
  /\ G!Return(c) /\ End(c)
  /\ UNCHANGED task

\* The files are listed and go to the agent.
Listed(c) ==
  /\ In(c, "list") /\ G!At(c, "ok")
  /\ Advance(c, [job[c] EXCEPT !.stage = "review", !.listed = call[c].got])
  /\ G!Return(c) /\ L!Begin(c, "review")
  /\ UNCHANGED live

\* The only review failed, and so does the job.
ReviewFails(c) ==
  /\ In(c, "review") /\ L!At(c, "err")
  /\ L!Return(c) /\ End(c)
  /\ UNCHANGED github

Reviewed(c) ==
  /\ In(c, "review") /\ L!At(c, "ok")
  /\ Advance(c, [job[c] EXCEPT !.stage = "compile", !.answer = task[c].resp,
                               !.result = task[c].result])
  /\ task' = [task EXCEPT ![c] = [L!Idle EXCEPT !.pc = "ask", !.kind = "compile"]]
  /\ UNCHANGED <<github, live>>

\* The compiled result, or the reviews' own if there is none.
Compiled(c) ==
  IF L!At(c, "ok")
    THEN [job[c] EXCEPT !.answer = task[c].resp, !.result = task[c].result]
    ELSE job[c]

PostReview(c) ==
  /\ In(c, "compile")
  /\ Advance(c, [Compiled(c) EXCEPT !.stage = "post"])
  /\ L!Return(c) /\ G!Begin(c, job[c].inst, "post")
  /\ UNCHANGED live

\* The last call returned.
Done(c) ==
  /\ job[c].stage \in {"post", "say", "sync"} /\ G!At(c, "ok")
  /\ G!Return(c) /\ End(c)
  /\ UNCHANGED task

-----------------------------------------------------------------------------

CallerStep(c) ==
  \/ GitHubStep(c) \/ LLMStep(c)
  \/ GitHubFails(c) \/ Listed(c) \/ ReviewFails(c) \/ Reviewed(c)
  \/ PostReview(c) \/ Done(c)

Next ==
  \/ \E i \in Installations :
       \/ \E w \in Workers : StartReview(w, i) \/ StartPost(w, i)
       \/ \E s \in Syncers : StartSync(s, i)
  \/ \E c \in Callers : Expire(c) \/ CallerStep(c)
  \/ Tick

Spec == Init /\ [][Next]_vars

\* Every request ends, at the latest with the deadline that both http clients
\* are given by the job's context; goroutines run.
FairSpec == Spec /\ \A c \in Callers : WF_vars(CallerStep(c))

-----------------------------------------------------------------------------
(* Properties *)

\* The clients' variables and the job's keep their types; no loop counts past
\* its bound.
TypeOK ==
  /\ G!TypeOK
  /\ L!TypeOK
  /\ job \in [Callers -> Job]

\* See GitHubClient (auth.go:137-171).
CredentialsLast == G!CredentialsLast

\* See GitHubClient (client.go:430-467).
RepeatsOnlyHidden == G!RepeatsOnlyHidden

\* Whatever mixture of refused, empty, truncated, broken and whole answers the
\* model gave and whatever failed since: a review reaches GitHub only when all
\* pages of changed files were listed, the answer it goes by is a whole one,
\* and each of its findings has what the poster needs (client.go:87-130,
\* compile.go:26-64, pipeline.go:411-444).
PostedOnWholeAnswers ==
  \A c \in Callers :
    In(c, "post") =>
      /\ job[c].listed = 1 .. FullPages + 1
      /\ L!Whole(job[c].answer)
      /\ job[c].result \subseteq {"sound"}

\* Every job comes to an end, however often the services refuse or shorten
\* their answers: no combination of the retries of requests, prompts, reviews
\* and pages goes on for ever.
CallsReturn == \A c \in Callers : ~ In(c, "idle") ~> In(c, "idle")

=============================================================================
