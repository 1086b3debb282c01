------------------------- MODULE LifecycleRequests -------------------------
(***************************************************************************)
(* The requests of VMs that the server of "sos-lcs" serves on data of the  *)
(* heartbeat loop, with no lock: handle_rtc stores a frame and a flag that *)
(* the loop sends and clears, handle_wakeup_reason answers what the loop   *)
(* keeps in up_wakeup_reason.                                              *)
(*                                                                         *)
(* Each action is one of CbcLifecycle with more detail, or takes place     *)
(* within one of its steps: where that module has the loop write and clear *)
(* in one step, here other threads come between.                           *)
(***************************************************************************)
EXTENDS CbcLifecycle, CbcTimer, Sequences

CONSTANT Times  \* how many seconds ahead VMs may set timers

ASSUME TimesAssumption == Times \subseteq Nat

VARIABLES
    rtc,               \* cbc_heartbeat_rtc, and the request being handled; history:
                       \* the one before, is it still owed, did they overlap
    up_wakeup_reason,
    due                \* what the loop does next within its step

reqVars == <<rtc, up_wakeup_reason, due>>

----------------------------------------------------------------------------
(* handle_rtc: what it stores for a timer.  Nothing orders the stores for   *)
(* the loop, which may see them in any order.  (Two slips: the unit is      *)
(* forgotten; the flag is.)                                                 *)

Bytes == {"lo", "hi", "gran"}

StoresWithoutGran == {"lo", "hi", "flag"}
StoresWithoutFlag == Bytes
Stores            == Bytes \cup {"flag"}

NoTimer == [lo |-> 0, hi |-> 0, gran |-> 0]

\* The frame of a request for a timer t; 0, which is not supported, is for none yet.
Made(t) == IF t = 0 THEN NoTimer ELSE Frame(ToInt(t))

\* The server is busy until the last of them is done.
HandlerIdle == rtc.todo = {}

\* A request for a timer; what is not supported is refused.
AskRtc ==
    /\ LcsReady /\ HandlerIdle /\ rtc.left # <<>>
    /\ LET t == Head(rtc.left)
       IN  rtc' = IF Supported(ToInt(t))
                  THEN [rtc EXCEPT !.todo = Stores, !.left = Tail(rtc.left),
                          !.asked = t, !.before = rtc.asked,
                          !.owed = FALSE, !.overlap = FALSE]
                  ELSE [rtc EXCEPT !.left = Tail(rtc.left)]
    /\ UNCHANGED <<vars, up_wakeup_reason, due>>

Stored(x) == [rtc EXCEPT !.todo = rtc.todo \ {x}, !.owed = rtc.todo = {x},
                         !.overlap = rtc.overlap \/ due = "clear"]

StoreByte ==
    /\ Running
    /\ \E x \in rtc.todo \cap Bytes :
         rtc' = [Stored(x) EXCEPT !.frame = [rtc.frame EXCEPT ![x] = Made(rtc.asked)[x]]]
    /\ UNCHANGED <<vars, up_wakeup_reason, due>>

StoreFlag ==
    /\ "flag" \in rtc.todo
    /\ HandleRtc
    /\ rtc' = Stored("flag")
    /\ UNCHANGED <<up_wakeup_reason, due>>

\* Other requests wait until the server is done.
OtherRequests ==
    /\ HandlerIdle
    /\ RequestFromAcrnd \/ RequestFromSelf
    /\ UNCHANGED reqVars

----------------------------------------------------------------------------
(* The heartbeat loop *)

\* The frame goes to the IOC before the flag is cleared.
WriteRtc ==
    /\ At("rtc") /\ due = "none"
    /\ due' = "clear"
    /\ rtc' = [rtc EXCEPT !.owed = FALSE, !.overlap = ~HandlerIdle]
    /\ UNCHANGED <<vars, up_wakeup_reason>>

ClearRtc ==
    /\ due = "clear"
    /\ RtcSent
    /\ due' = "none"
    /\ rtc' = [rtc EXCEPT !.overlap = rtc.overlap \/ ~HandlerIdle]
    /\ UNCHANGED up_wakeup_reason

\* case S_ALIVE: entered from another state.  (A slip: only after a start.)
EntersAliveAtStart == /\ hb.pc = "top" /\ hb'.cur_state = S_ALIVE
                      /\ hb.last_state = S_DEFAULT
EntersAlive        == /\ hb.pc = "top" /\ hb'.cur_state = S_ALIVE
                      /\ hb.last_state # S_ALIVE

\* The loop that waited for systemd goes on.
LeavesOff == hb.pc \in {"poll", "jobs"} /\ hb'.pc = "send"

\* Any other step of the loop; two of them have something left to do.
LoopStep ==
    /\ due = "none" /\ ~At("rtc")
    /\ HeartbeatLoop
    /\ due' = IF EntersAlive THEN "copy" ELSE IF LeavesOff THEN "reset" ELSE "none"
    /\ UNCHANGED <<rtc, up_wakeup_reason>>

CopyReason ==
    /\ Running /\ due = "copy"
    /\ up_wakeup_reason' = wakeup_reason
    /\ due' = "none"
    /\ UNCHANGED <<vars, rtc>>

\* (A slip: it is not reset.)
ResetForgotten ==
    /\ Running /\ due = "reset"
    /\ due' = "none"
    /\ UNCHANGED <<vars, rtc, up_wakeup_reason>>

ResetReason ==
    /\ Running /\ due = "reset"
    /\ up_wakeup_reason' = {}
    /\ due' = "none"
    /\ UNCHANGED <<vars, rtc>>

RefinedLoop == WriteRtc \/ ClearRtc \/ LoopStep \/ CopyReason \/ ResetReason

\* The threads that touch none of this.
OtherThreads == (WakeupThread \/ PostRequest \/ HandleStop \/ ReadReason \/ Sigterm)
                /\ UNCHANGED reqVars

\* handle_wakeup_reason: what a VM that asks is told.
WakeupAnswer == up_wakeup_reason

RequestsInit(asks) ==
    /\ Init
    /\ rtc = [frame |-> NoTimer, todo |-> {}, left |-> asks, asked |-> 0,
              before |-> 0, owed |-> FALSE, overlap |-> FALSE]
    /\ up_wakeup_reason = {}
    /\ due = "none"

----------------------------------------------------------------------------
(* Properties *)

Frames == [lo : 0..(Byte - 1), hi : 0..(Byte - 1), gran : Grans]

RequestsTypeOK ==
    /\ TypeOK
    /\ rtc \in [frame : Frames, todo : SUBSET Stores, left : Seq(Times), asked : Nat,
                before : Nat, owed : BOOLEAN, overlap : BOOLEAN]
    /\ up_wakeup_reason \in Reasons \cup {{}}
    /\ due \in {"none", "clear", "copy", "reset"}

\* f wakes the machine when a VM that set timer t wants it, less than a unit
\* earlier and never later; beyond the range of an int, after what an int keeps of t.
InTime(f, t) == Wakes(f, IF IsInt(t) THEN t ELSE ToInt(t))

\* What the loop is about to send, also while the server stores a request: with all
\* bytes stored, with or without the flag, it is in time for that request; with none
\* stored, for the one before; in between the frame is torn, but never older than
\* that: each byte is of the one or of the other, whichever order the stores have.
TimerAsAsked ==
    At("rtc") /\ due = "none" =>
        /\ Bytes \cap rtc.todo = {} => InTime(rtc.frame, rtc.asked)
        /\ Bytes \subseteq rtc.todo => InTime(rtc.frame, rtc.before)
        /\ \A x \in Bytes :
             rtc.frame[x] = Made(IF x \in rtc.todo THEN rtc.before ELSE rtc.asked)[x]

\* A timer that was accepted and not sent waits to be sent, unless it was stored
\* while the loop was sending the one before.
TimersNotLost == rtc.owed => cbc_rtc_set \/ rtc.overlap
=============================================================================
