---------------------------- MODULE MCAgentReview ----------------------------
(***************************************************************************)
(* AgentReview for TLC: a few changes, reports and answers.                *)
(***************************************************************************)
EXTENDS AgentReview

CONSTANTS a1, a2

\* Paths are numbers, ordered like the strings.
File(p, additions, deletions) ==
  [path |-> p, additions |-> additions, lines |-> additions + deletions]

\* With chunks of two lines and pages of three files: two files of every size
\* up to three lines; a full page, also with a file that is ignored; and one
\* file more than a page.
SomeChanges ==
  {<<File(1, m, 0), File(2, n, 1)>> : m, n \in 0 .. 2} \cup
  {<<File(1, 0, 1), File(2, 1, 0), File(3, 0, 0)>>,
   <<File(1, 0, 1), File(5, 2, 2), File(2, 1, 0)>>,
   <<File(1, 1, 0), File(2, 0, 0), File(3, 0, 0), File(4, 0, 1)>>}

Report(p, line, title, severity) ==
  [file |-> p, line |-> line, title |-> title, severity |-> severity]

\* Two reports of one finding, a second finding in its line, one in another
\* file, a nit that no line is given for, and one outside the diff.
Leak   == Report(1, 1, "leak", "low")
Leak2  == Report(1, 1, "leak", "high")
Race   == Report(1, 1, "race", "low")
Typo   == Report(2, 0, "typo", "nit")
Panic  == Report(2, 1, "panic", "critical")
Stray  == Report(1, 9, "stray", "critical")

SomeAnswers == {<< >>, <<Leak, Race>>, <<Stray, Leak2>>, <<Panic, Typo>>}

SomeCompiled == {<< >>, <<Race, Leak2, Leak>>, <<Typo, Panic>>, <<Stray, Leak, Leak2, Race, Panic>>}

SomeNewLines == [p \in 1 .. 3 |-> IF p = 3 THEN {} ELSE {1}]

SomeDownvoted == {Key(Race)}

=============================================================================
