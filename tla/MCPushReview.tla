---------------------------- MODULE MCPushReview ----------------------------
(***************************************************************************)
(* PushReview for TLC: reports that are clean or exceed the cap, and two   *)
(* findings of which one is too long for a comment.                        *)
(***************************************************************************)
EXTENDS PushReview

CONSTANTS f1, f2

CleanOrFull == {{}, {f1, f2}}
Short == {{}, {f1}}

=============================================================================
