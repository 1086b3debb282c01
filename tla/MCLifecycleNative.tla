------------------------- MODULE MCLifecycleNative -------------------------
(* The life cycle service without a VM manager: constants for TLC. *)
EXTENDS CbcLifecycleClaims

\* Off, leave with S5 preferred, and an ordinary wakeup reason.
OffS5Alive == {{}, {22, 23}, {0}}

\* Nobody but handle_stop answers.
NoAnswers == {}
=============================================================================
