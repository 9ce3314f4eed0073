---------------------------- MODULE MCReviewRun ----------------------------
(***************************************************************************)
(* ReviewRun for TLC.  Liveness is checked together with the invariants,   *)
(* so there is no symmetry set.                                            *)
(***************************************************************************)
EXTENDS ReviewRun, TLC

=============================================================================
