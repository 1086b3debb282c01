------------------------ MODULE CbcLifecycleClaims ------------------------
(***************************************************************************)
(* What comments of cbc_lifecycle.c say of the program and the program     *)
(* does not do: each of these is violated by the run that checks it.       *)
(***************************************************************************)
EXTENDS CbcLifecycle

\* cbc_lifecycle.c:317, "no one handle our stop request, assume suspend": suspend
\* is assumed only of a request that is still waiting for its answer.  The code
\* does not look at the state again after the last send_acrnd_stop failed: when
\* acrnd has refused meanwhile and the IOC keeps the machine alive, or asks
\* again, suspend is assumed all the same.
AssumeOnlyInDelay ==
    [][hb.pc = "assume" /\ hb.pc' = "top" /\ state' # state
          => state = S_SHUTDOWN_DELAY]_vars

\* cbc_lifecycle.c:397, "bit 22 ... indicate a S5 is preferred": when the IOC
\* prefers S5, handle_stop does not ask for a suspend.  force_s5 is written after
\* state_transit, so the STOP may be handled in between.
S5Honoured ==
    [][forwarded'["suspend"] > forwarded["suspend"] =>
          22 \notin wakeup_reason]_vars

\* cbc_lifecycle.c:607, "for non vm manager (acrnd) case, we handle the stop
\* request by ourselves": without acrnd every request to leave concludes.
\* handle_stop acknowledges first; a request it then drops is not sent again.
NativeStopHandled == Leaving ~> (~Leaving \/ Stopped)
=============================================================================
