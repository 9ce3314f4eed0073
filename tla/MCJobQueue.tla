----------------------------- MODULE MCJobQueue -----------------------------
(***************************************************************************)
(* JobQueue for TLC: interchangeable workers, integers for the job ids.    *)
(***************************************************************************)
EXTENDS JobQueue, TLC

\* No action or property tells one worker from another.
WorkerSymmetry == Permutations(Workers)

=============================================================================
