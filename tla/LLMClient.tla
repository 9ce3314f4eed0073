------------------------------ MODULE LLMClient ------------------------------
(***************************************************************************)
(* The reviewer behind the agents (internal/llm): Review and Compile ask   *)
(* the model, ask again when its answer is empty or truncated, decode and  *)
(* validate it; chat repeats a request that the service turned away; and   *)
(* an agent repeats a Review that failed (internal/analysis/pipeline.go).  *)
(*                                                                         *)
(* An answer is abstracted to what the code branches on.                   *)
(***************************************************************************)
EXTENDS Naturals

CONSTANTS
  Callers,   \* the goroutines
  Retries,   \* waits between the attempts of a chat (retryDelays)
  Answers    \* what the model may answer with status 200

\* A finding is valid, or lacks something that validateResult asks for.
FindingKinds == {"sound", "null", "notActionable", "noFile", "noText", "badSeverity", "badCategory"}

\* raw is JSON but for raw control characters in its strings.
Bodies   == {"empty", "garbage", "raw", "json"}
Statuses == {"", "approved", "changes_requested", "no_findings", "odd"}

Answer == [complete : BOOLEAN, body : Bodies, status : Statuses, findings : SUBSET FindingKinds]

LLMClientAssumption == Retries \in Nat /\ Answers \subseteq Answer

VARIABLES
  live,   \* live[c]: whether the context of c has not ended
  task    \* task[c]: local variables of the Review or Compile c is making

vars == <<live, task>>

\* round counts the agent's Reviews, stage tells the prompts apart, attempt
\* counts the requests of one chat.
PCs    == {"idle", "ask", "ok", "err"}
Stages == {"plain", "nonempty", "concise"}
Kinds  == {"review", "compile"}

NoAnswer == [complete |-> FALSE, body |-> "empty", status |-> "", findings |-> {}]
Idle == [pc |-> "idle", kind |-> "review", round |-> 1, stage |-> "plain",
         attempt |-> 0, resp |-> NoAnswer, result |-> {}]

Init ==
  /\ live = [c \in Callers |-> FALSE]
  /\ task = [c \in Callers |-> Idle]

At(c, pc) == task[c].pc = pc
Update(c, becomes) == task' = [task EXCEPT ![c] = becomes]

Begin(c, kind) ==
  /\ At(c, "idle")
  /\ task' = [task EXCEPT ![c] = [Idle EXCEPT !.pc = "ask", !.kind = kind]]

Return(c) ==
  /\ task[c].pc \in {"ok", "err"}
  /\ task' = [task EXCEPT ![c] = Idle]

-----------------------------------------------------------------------------
(* Failing *)

\* Mutant: an agent repeats a Review until it succeeds.
MutMayRepeat(c) == task[c].kind = "review"

\* An agent repeats a Review that failed once; Compile is not repeated.
MayRepeat(c) == task[c].kind = "review" /\ task[c].round = 1

Fail(c) ==
  Update(c, IF MayRepeat(c)
              THEN [task[c] EXCEPT !.round = 2, !.stage = "plain", !.attempt = 0]
              ELSE [task[c] EXCEPT !.pc = "err"])

\* No answer (the connection broke, the context ended), a status that is not
\* retried, or an answer with status "failed".
Rejected(c) ==
  /\ At(c, "ask")
  /\ Fail(c)
  /\ UNCHANGED live

\* Status 429 or 5xx: chat waits, unless the context ends, and asks again.
Overloaded(c) ==
  /\ At(c, "ask") /\ live[c]
  /\ IF task[c].attempt < Retries
       THEN Update(c, [task[c] EXCEPT !.attempt = @ + 1])
       ELSE Fail(c)
  /\ UNCHANGED live

-----------------------------------------------------------------------------
(* What Review and Compile do with an answer *)

\* A new chat with another prompt.
AskAgain(c, stage) == Update(c, [task[c] EXCEPT !.stage = stage, !.attempt = 0])

\* decodeResult repairs raw control characters.
Decodes(a) == a.body \in {"raw", "json"}

\* validateResult: an unknown status is an error, an empty one is inferred.
KnownStatus(s) == s # "odd"

\* The findings decodeResult and validateResult keep.
Valid(f) == f = "sound"

Accept(c, a) ==
  IF Decodes(a) /\ KnownStatus(a.status)
    THEN Update(c, [task[c] EXCEPT !.pc = "ok", !.resp = a,
                                   !.result = {f \in a.findings : Valid(f)}])
    ELSE Fail(c)

Empty(a) == a.body = "empty"

\* Mutant: a truncated answer that decodes is good enough.
MutTruncated(a) == ~ a.complete /\ ~ Decodes(a)

\* Status "incomplete".
Truncated(a) == ~ a.complete

\* In the order of the tests: an empty answer to the first prompt, a truncated one to any
\* but the concise prompt, which is not tested for emptiness again.
Answered(c) ==
  /\ At(c, "ask") /\ live[c]
  /\ \E a \in Answers :
       LET stage == task[c].stage IN
       \/ stage = "plain" /\ Empty(a) /\ AskAgain(c, "nonempty")
       \/ stage = "nonempty" /\ Empty(a) /\ Fail(c)
       \/ /\ stage # "concise" /\ ~ Empty(a) /\ Truncated(a)
          /\ AskAgain(c, "concise")
       \/ stage = "concise" /\ Truncated(a) /\ Fail(c)
       \/ /\ ~ Truncated(a)
          /\ Empty(a) => stage = "concise"
          /\ Accept(c, a)
  /\ UNCHANGED live

Step(c) == Rejected(c) \/ Overloaded(c) \/ Answered(c)

-----------------------------------------------------------------------------
(* Properties *)

TypeOK ==
  /\ live \in [Callers -> BOOLEAN]
  /\ task \in [Callers -> [pc : PCs, kind : Kinds, round : 1 .. 2, stage : Stages,
                           attempt : 0 .. Retries, resp : Answer,
                           result : SUBSET FindingKinds]]

\* Whatever mixture of empty, truncated, broken and refused answers comes
\* before: an answer that counts is a whole one.
Whole(a) == a.complete /\ Decodes(a) /\ KnownStatus(a.status)

=============================================================================
