-------------------------- MODULE MCLifecycleAcrn --------------------------
(* The life cycle service with a VM manager: constants for TLC. *)
EXTENDS CbcLifecycleClaims

\* Off, leave, and an ordinary wakeup reason.
OffLeaveAlive == {{}, {23}, {0}}

\* Any answer; all refusals are handled in the same way.
AllAnswers == Requests \X {FALSE} \cup {<<"suspend", TRUE>>}

\* An agreement and a refusal.
SuspendAnswers == {"suspend"} \X BOOLEAN
=============================================================================
