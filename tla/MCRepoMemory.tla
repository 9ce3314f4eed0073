---------------------------- MODULE MCRepoMemory ----------------------------
(***************************************************************************)
(* RepoMemory for TLC.                                                     *)
(***************************************************************************)
EXTENDS RepoMemory, TLC

\* Workers are interchangeable, and so are findings.
Interchangeable == Permutations(Workers) \cup Permutations(Keys)

=============================================================================
