--------------------------- MODULE MCServiceCalls ---------------------------
(***************************************************************************)
(* ServiceCalls for TLC.                                                   *)
(***************************************************************************)
EXTENDS ServiceCalls

MCAnswer(complete, body, status, findings) ==
  [complete |-> complete, body |-> body, status |-> status, findings |-> findings]

\* One answer for every way an answer is treated.
MCAnswers ==
  { MCAnswer(TRUE, "empty", "", {}),
    MCAnswer(TRUE, "raw", "", {"sound", "noFile"}),
    MCAnswer(TRUE, "json", "odd", {"sound"}),
    MCAnswer(FALSE, "json", "approved", {"sound"}) }

=============================================================================
