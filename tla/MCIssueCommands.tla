--------------------------- MODULE MCIssueCommands ---------------------------
(***************************************************************************)
(* IssueCommands for TLC: the stored suggestions of small instances.       *)
(***************************************************************************)
EXTENDS IssueCommands, TLC

CONSTANT f1

\* Two suggestions for one file, as several findings of a rolling issue have.
OneFile == {[id |-> 1, issue |-> 1, file |-> f1], [id |-> 2, issue |-> 1, file |-> f1]}

=============================================================================
