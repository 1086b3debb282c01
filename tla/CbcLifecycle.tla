--------------------------- MODULE CbcLifecycle ---------------------------
(***************************************************************************)
(* The life cycle service, cbc_lifecycle/cbc_lifecycle.c.                  *)
(*                                                                         *)
(* Threads of the process:                                                 *)
(*   - the main thread, cbc_heartbeat_loop: sends a heartbeat to the IOC   *)
(*     every second (or on an event), asks the VM manager to stop or to    *)
(*     resume, and carries out the power action when the IOC goes off;     *)
(*   - cbc_wakeup_reason_thread: reads wakeup reasons from the IOC;        *)
(*   - the server of the "sos-lcs" socket: handle_shutdown, handle_suspend,*)
(*     handle_reboot, handle_rtc, handle_wakeup_reason;                    *)
(*   - without acrnd, also the server of the "acrnd" socket: handle_stop.  *)
(* The shared variable state is read and written under state_mutex, so one *)
(* get_state or state_transit is one step; everything between two of them  *)
(* may interleave with the other threads.                                  *)
(*                                                                         *)
(* The IOC, the VM manager acrnd and systemd are the environment.          *)
(***************************************************************************)
EXTENDS Integers, FiniteSets

CONSTANTS
    IsAcrn,      \* check_acrnd(): is there a VM manager "acrnd"?
    RetryCnt,    \* RETRY_CNT, 5 in the code (more than 1, see AssumeSuspend)
    Reasons,     \* the wakeup reasons that may be read, as sets of bits
    Answers,     \* what acrnd may send: <<request, does it refuse?>>
    SemMax,      \* the greatest value of event_sema (SEM_VALUE_MAX)
    RtcTimers,   \* do VMs set RTC timers?
    TermBeats,   \* the last heartbeats of a run ended by SIGTERM, if it may be
    MaxStops     \* without acrnd: bound on the STOP requests in flight

\* The requests of the VM manager.
Requests == {"shutdown", "reboot", "suspend"}

ASSUME IsAcrnAssumption   == IsAcrn \in BOOLEAN
ASSUME RetryCntAssumption == RetryCnt \in Nat \ {0, 1}
ASSUME ReasonsAssumption  == Reasons \subseteq SUBSET (0..23)
ASSUME AnswersAssumption  == /\ Answers \subseteq Requests \X BOOLEAN
                             /\ ~IsAcrn => Answers = {}
ASSUME SemMaxAssumption   == SemMax \in Nat \ {0}
ASSUME RtcTimersAssumption == RtcTimers \in BOOLEAN
ASSUME TermBeatsAssumption == TermBeats \subseteq {"none", "reboot", "shutdown"}
ASSUME MaxStopsAssumption == MaxStops \in Nat \ {0}

VARIABLES
    state,              \* the state machine shared by all threads
    event_sema,         \* wakes the heartbeat loop before its second is over
    wakeup_reason,      \* the last reason received from the IOC
    force_s5,           \* bit 22 of the last request to leave
    cbc_rtc_set,        \* an RTC timer waits to be sent to the IOC
    hb,                 \* the heartbeat loop: its next step and its locals
    wk_pc,              \* next step of cbc_wakeup_reason_thread
    lcs_pc,             \* next step of the server of "sos-lcs"
    stops,              \* without acrnd: STOP requests queued for handle_stop
    forwarded,          \* without acrnd: the requests handle_stop has sent
    suspend_job,        \* systemd has a job for suspend.target
    \* history, read by the properties only
    granted,            \* actions agreed to (or assumed) since the loop last
                        \* read a state that is neither agreed nor off
    stop_log,           \* STOPs since the loop entered shutdown_delay: how
                        \* many failed, did one succeed, was one dropped
    start_log,          \* RESUMEs since the loop found keep_alive: how many
                        \* failed, did one succeed
    told                \* the action the last heartbeat told the IOC of, unless
                        \* it is settled or the loop has read since a state
                        \* that is neither agreed nor off

wkVars   == <<wk_pc, wakeup_reason, force_s5>>
hist     == <<granted, stop_log, start_log, told>>
\* What the heartbeat loop never writes.
notLoop  == <<wkVars, lcs_pc, forwarded>>
\* What the other threads never write.
loopOnly == <<hb, start_log, told>>
notHb    == <<state, event_sema, cbc_rtc_set, stops,
              suspend_job, hist, notLoop>>
vars     == <<hb, notHb>>

----------------------------------------------------------------------------
(* States, heartbeats and requests *)

S_DEFAULT        == "default"
S_ALIVE          == "keep_alive"
S_SHUTDOWN       == "shutdown"
S_SHUTDOWN_DELAY == "shutdown_delay"
S_ACRND_SHUTDOWN == "acrnd_shutdown"
S_IOC_SHUTDOWN   == "ioc_shutdown"
S_ACRND_REBOOT   == "acrnd_reboot"
S_ACRND_SUSPEND  == "acrnd_suspend"

States == {S_DEFAULT, S_ALIVE, S_SHUTDOWN, S_SHUTDOWN_DELAY, S_ACRND_SHUTDOWN,
           S_IOC_SHUTDOWN, S_ACRND_REBOOT, S_ACRND_SUSPEND}

\* The state each request of the VM manager leads to.
AcrndState(k) == CASE k = "shutdown" -> S_ACRND_SHUTDOWN
                   [] k = "reboot"   -> S_ACRND_REBOOT
                   [] k = "suspend"  -> S_ACRND_SUSPEND

\* The heartbeat sent in the state of request k.
AcrndBeat(k) == CASE k = "shutdown" -> "shutdown"
                  [] k = "reboot"   -> "reboot"
                  [] k = "suspend"  -> "s3"
Heartbeats == {"none", "init", "active", "shutdown_delay", "shutdown",
               "reboot", "s3"}

\* Two tables a slip of the pen would give, to see the properties fail.
ValidMapLoose ==
    [s \in States |-> IF s = S_IOC_SHUTDOWN THEN {S_DEFAULT, S_IOC_SHUTDOWN}
                                           ELSE States]
ValidMapDelayStuck ==
    [s \in States |->
      CASE s = S_DEFAULT        -> {S_DEFAULT, S_ALIVE, S_SHUTDOWN}
        [] s \in {S_ALIVE, S_SHUTDOWN} -> States \ {S_DEFAULT, S_ALIVE}
        [] OTHER                -> {s, S_DEFAULT, S_IOC_SHUTDOWN}]

\* valid_map, one row per state: where it may go.
valid_map ==
    [s \in States |->
      CASE s = S_DEFAULT        -> {S_DEFAULT, S_ALIVE, S_SHUTDOWN}
        [] s = S_ALIVE          -> {S_ALIVE, S_SHUTDOWN, S_ACRND_SHUTDOWN,
                                    S_ACRND_REBOOT, S_ACRND_SUSPEND}
        [] s = S_SHUTDOWN       -> {S_SHUTDOWN, S_SHUTDOWN_DELAY,
                                    S_ACRND_SHUTDOWN, S_IOC_SHUTDOWN,
                                    S_ACRND_REBOOT, S_ACRND_SUSPEND}
        [] s = S_SHUTDOWN_DELAY -> {S_DEFAULT, S_SHUTDOWN_DELAY,
                                    S_ACRND_SHUTDOWN, S_IOC_SHUTDOWN,
                                    S_ACRND_REBOOT, S_ACRND_SUSPEND}
        [] s = S_ACRND_SHUTDOWN -> {S_ACRND_SHUTDOWN, S_IOC_SHUTDOWN}
        [] s = S_IOC_SHUTDOWN   -> {S_DEFAULT, S_IOC_SHUTDOWN}
        [] s = S_ACRND_REBOOT   -> {S_ACRND_REBOOT, S_IOC_SHUTDOWN}
        [] s = S_ACRND_SUSPEND  -> {S_ACRND_SUSPEND, S_IOC_SHUTDOWN}]

\* state_transit: go to new if the table allows it, else stay.
Transit(new) == state' = IF new \in valid_map[state] THEN new ELSE state

\* sem_post, which fails when the semaphore is at its greatest value.
SemPost == event_sema' = IF event_sema < SemMax THEN event_sema + 1
                                                ELSE event_sema

\* The grants that state s' gives: used by the history variable only.
Effective(s) == {k \in Requests : AcrndState(k) = s}

Running == hb.pc # "exited"

----------------------------------------------------------------------------
(* The heartbeat loop, cbc_heartbeat_loop.  A pass goes from step "top",    *)
(* get_state, to step "wait", sem_timedwait.                                *)

At(p) == hb.pc = p

\* A step that touches nothing but the loop's own variables.
Local(new) == hb' = new /\ UNCHANGED notHb

NoStops  == [fails |-> 0, acked |-> FALSE, lost |-> FALSE]
NoStarts == [fails |-> 0, acked |-> FALSE]

\* get_state at the start of a pass found s: go to step p with heartbeat b.
\* The history of what is over with this state lapses.
Read(s, p, b) ==
    /\ At("top") /\ state = s
    /\ hb' = [hb EXCEPT !.pc = p, !.cur_state = s, !.heartbeat = b,
             !.default_cnt = IF s = S_DEFAULT THEN 1 ELSE hb.default_cnt,
             !.start_retry = IF s = S_DEFAULT THEN 0 ELSE hb.start_retry]
    /\ IF Effective(s) # {} \/ s = S_IOC_SHUTDOWN
       THEN UNCHANGED <<granted, told>>
       ELSE granted' = {} /\ told' = {}
    /\ stop_log' = IF s = S_SHUTDOWN_DELAY THEN stop_log ELSE NoStops
    /\ start_log' = IF s = S_ALIVE /\ hb.last_state = S_ALIVE THEN start_log
                                                             ELSE NoStarts
    /\ UNCHANGED <<state, event_sema, cbc_rtc_set, stops,
                   suspend_job, notLoop>>

\* main has registered the handlers; the loop sends its first beat.
LoopStart == At("start") /\ Local([hb EXCEPT !.pc = "top"])

\* case S_DEFAULT: no beat the first time, then beats of type init.
LoopDefault ==
    Read(S_DEFAULT, "send",
         IF hb.last_state = S_DEFAULT /\ hb.default_cnt > 0 THEN "init" ELSE "none")

\* case S_ALIVE: resume the VMs on entry, and again while retries are left.
LoopAlive ==
    Read(S_ALIVE, IF hb.last_state # S_ALIVE \/ hb.start_retry > 0
                  THEN "resume" ELSE "send", "active")

\* start_retry after an attempt, and two slips: the first failure does not set
\* the counter, a success does.
StartRetryUnset(ok) == IF ok THEN 0 ELSE hb.start_retry - 1
StartRetryAgain(ok) == IF ok \/ hb.start_retry = 0 THEN RetryCnt
                                                   ELSE hb.start_retry - 1
StartRetry(ok) == IF ok THEN 0
                  ELSE IF hb.start_retry = 0 THEN RetryCnt
                  ELSE hb.start_retry - 1

\* send_acrnd_start: opening the socket, writing, or waiting may fail.
SendStart ==
    /\ At("resume")
    /\ \E ok \in BOOLEAN :
         /\ hb' = [hb EXCEPT !.pc = "send", !.start_retry = StartRetry(ok)]
         /\ start_log' = IF ok THEN [start_log EXCEPT !.acked = TRUE]
                         ELSE [start_log EXCEPT !.fails = start_log.fails + 1]
    /\ UNCHANGED <<state, event_sema, cbc_rtc_set, stops,
                   suspend_job, granted, stop_log, told, notLoop>>

\* case S_SHUTDOWN: the loop read shutdown; it has yet to enter the delay.
LoopShutdown == Read(S_SHUTDOWN, "delay", "none")

\* Another thread may have changed the state since: then this pass is over.
EnterDelay ==
    /\ At("delay")
    /\ Transit(S_SHUTDOWN_DELAY)
    /\ LET entered == state' = S_SHUTDOWN_DELAY
       IN  /\ hb' = [hb EXCEPT !.pc = IF entered THEN "stop_first" ELSE "send",
                               !.cur_state = state']
           /\ stop_log' = IF entered THEN NoStops ELSE stop_log
    /\ UNCHANGED <<event_sema, cbc_rtc_set, stops,
                   suspend_job, granted, start_log, told, notLoop>>

\* case S_SHUTDOWN_DELAY: acrnd has not answered yet.
LoopDelay == Read(S_SHUTDOWN_DELAY, IF hb.stop_retry > 0 THEN "stop" ELSE "send",
                  "shutdown_delay")

\* send_acrnd_stop.  Without acrnd the request goes to handle_stop, which may
\* get it although the sender saw an error (no answer in 2 s).
StopOutcome(ok) ==
    /\ \/ stops' = stops /\ (ok => IsAcrn)
       \/ /\ ~IsAcrn
          /\ stops + forwarded["shutdown"] + forwarded["suspend"] < MaxStops
          /\ stops' = stops + 1
    /\ stop_log' = IF ok THEN [stop_log EXCEPT !.acked = TRUE]
                   ELSE [stop_log EXCEPT !.fails = stop_log.fails + 1]

\* stop_retry after the STOP sent on entering the delay, and a slip: success
\* does not clear what an earlier delay left.
FirstStopRetryStale(ok) == IF ok THEN hb.stop_retry ELSE RetryCnt
FirstStopRetry(ok)      == IF ok THEN 0 ELSE RetryCnt

\* The STOP sent on entering the delay; a failure is retried in the same pass.
SendFirstStop ==
    /\ At("stop_first")
    /\ \E ok \in BOOLEAN :
         /\ StopOutcome(ok)
         /\ hb' = [hb EXCEPT !.pc = IF FirstStopRetry(ok) > 0 THEN "stop" ELSE "send",
                             !.stop_retry = FirstStopRetry(ok),
                             !.heartbeat = "shutdown_delay"]
    /\ UNCHANGED <<state, event_sema, cbc_rtc_set, suspend_job, granted,
                   start_log, told, notLoop>>

\* stop_retry after another attempt, and a slip: success does not end
\* the retries.
StopRetryGoesOn(ok) == hb.stop_retry - 1
StopRetry(ok) == IF ok THEN 0 ELSE hb.stop_retry - 1

\* A STOP sent again; after the last failure suspend is assumed.
SendStop ==
    /\ At("stop")
    /\ \E ok \in BOOLEAN :
         /\ StopOutcome(ok)
         /\ hb' = [hb EXCEPT !.pc = IF ~ok /\ StopRetry(ok) = 0 THEN "assume"
                                                               ELSE "send",
                             !.stop_retry = StopRetry(ok)]
    /\ UNCHANGED <<state, event_sema, cbc_rtc_set, suspend_job, granted,
                   start_log, told, notLoop>>

\* "no one handle our stop request, assume suspend", and the next pass at once.
AssumeSuspend ==
    /\ At("assume")
    /\ Transit(S_ACRND_SUSPEND)
    /\ hb' = [hb EXCEPT !.pc = "top", !.heartbeat = "none"]
    /\ granted' = granted \cup Effective(state')
    /\ UNCHANGED <<event_sema, cbc_rtc_set, stops,
                   suspend_job, stop_log, start_log, told, notLoop>>

\* case S_ACRND_*: tell the IOC what was agreed.  (A slip: no beat is chosen in one
\* of the cases.)
LoopAcrndSilent ==
    \E k \in Requests :
        Read(AcrndState(k), "send", IF k = "suspend" THEN "none" ELSE AcrndBeat(k))

LoopAcrnd == \E k \in Requests : Read(AcrndState(k), "send", AcrndBeat(k))

\* case S_IOC_SHUTDOWN: what to do is decided by the state of the last pass.
LoopOff == Read(S_IOC_SHUTDOWN, "off", "none")

AgreedBefore == Effective(hb.last_state)

\* The timer goes to the IOC only before a suspend.
Decide ==
    /\ At("off")
    /\ Local([hb EXCEPT !.pc = IF AgreedBefore = {} THEN "back"
                               ELSE IF AgreedBefore = {"suspend"} /\ cbc_rtc_set
                               THEN "rtc" ELSE "exec"])

\* The timer has been written to the IOC: forget it.
RtcSent ==
    /\ At("rtc")
    /\ cbc_rtc_set' = FALSE
    /\ hb' = [hb EXCEPT !.pc = "exec"]
    /\ UNCHANGED <<state, event_sema, stops, suspend_job,
                   hist, notLoop>>

\* system("shutdown 0") or system("reboot"), then sleep for ever.
ExecFinal ==
    /\ At("exec") /\ hb.last_state # S_ACRND_SUSPEND
    /\ Local([hb EXCEPT !.pc = "halted"])

\* system("systemctl suspend"), which queues a job or fails.
ExecSuspend ==
    /\ At("exec") /\ hb.last_state = S_ACRND_SUSPEND
    /\ hb' = [hb EXCEPT !.pc = "back"]
    /\ suspend_job' \in {suspend_job, TRUE}
    /\ UNCHANGED <<state, event_sema, cbc_rtc_set, stops,
                   hist, notLoop>>

\* The off pass is over: grants lapse, but for one given since.  (BackStays
\* forgets the transition.)
BackStays ==
    /\ At("back")
    /\ hb' = [hb EXCEPT !.pc = "poll"]
    /\ granted' = Effective(state) /\ told' = {}
    /\ UNCHANGED <<state, event_sema, cbc_rtc_set, stops,
                   suspend_job, stop_log, start_log, notLoop>>

Back ==
    /\ At("back")
    /\ Transit(S_DEFAULT)
    /\ hb' = [hb EXCEPT !.pc = "poll"]
    /\ granted' = Effective(state') /\ told' = {}
    /\ UNCHANGED <<event_sema, cbc_rtc_set, stops,
                   suspend_job, stop_log, start_log, notLoop>>

\* Wait until something woke the machine or systemd has no suspend job; or until
\* the command that asks systemd fails, which looks the same.
PollState ==
    /\ At("poll")
    /\ Local([hb EXCEPT !.pc = IF state = S_DEFAULT THEN "jobs" ELSE "send"])

PollJobs ==
    /\ At("jobs")
    /\ \/ suspend_job /\ Local([hb EXCEPT !.pc = "poll"])
       \/ Local([hb EXCEPT !.pc = "send"])

\* Write the heartbeat, if there is one, and keep last as the state it was for;
\* whether the write fails is ignored.
Beat(last) ==
    /\ At("send")
    /\ hb' = [hb EXCEPT !.pc = "wait", !.last_state = last, !.heartbeat = "none"]
    /\ told' = IF hb.heartbeat = "none" THEN told
               ELSE {k \in Requests : hb.heartbeat = AcrndBeat(k)}
    /\ UNCHANGED <<state, event_sema, cbc_rtc_set, stops, suspend_job,
                   granted, stop_log, start_log, notLoop>>

\* (Two slips: the state is kept only when a beat is sent; the state kept is the
\* shared one, which may have changed since get_state.)
SendHeartbeatOnly   == Beat(IF hb.heartbeat = "none" THEN hb.last_state
                                                     ELSE hb.cur_state)
SendHeartbeatReread == Beat(state)
SendHeartbeat       == Beat(hb.cur_state)

\* sem_timedwait: an event was posted, or the second is over.
Wait ==
    /\ At("wait")
    /\ hb' = [hb EXCEPT !.pc = "top"]
    /\ event_sema' = IF event_sema > 0 THEN event_sema - 1 ELSE 0
    /\ UNCHANGED <<state, cbc_rtc_set, stops, suspend_job,
                   hist, notLoop>>

HeartbeatLoop ==
    \/ LoopStart \/ LoopDefault \/ LoopAlive \/ SendStart
    \/ LoopShutdown \/ EnterDelay \/ LoopDelay \/ SendFirstStop \/ SendStop
    \/ AssumeSuspend \/ LoopAcrnd \/ LoopOff \/ Decide \/ RtcSent
    \/ ExecFinal \/ ExecSuspend \/ Back \/ PollState \/ PollJobs
    \/ SendHeartbeat \/ Wait

\* sigterm_suppress runs on top of the main thread, wherever it is, and ends
\* the process: heartbeats are suppressed, and the IOC is told of a reboot or
\* a poweroff if systemd has such a job.
Sigterm ==
    /\ Running
    /\ \E beat \in TermBeats :
         Local([hb EXCEPT !.pc = "exited", !.heartbeat = beat])

----------------------------------------------------------------------------
(* cbc_wakeup_reason_thread.  Frames of another type change nothing.        *)

\* A frame from the IOC.  One too short to hold all bits is completed with what
\* data held before: one more of Reasons.
ReadReason ==
    /\ Running /\ wk_pc = "read"
    /\ wakeup_reason' \in Reasons
    /\ wk_pc' = "transit"
    /\ UNCHANGED <<loopOnly, state, event_sema, force_s5, cbc_rtc_set, lcs_pc,
                   stops, forwarded, suspend_job, granted, stop_log>>

\* No bit: the IOC is off.  Only bits 22 and 23: leave.  Else: stay alive.
ReasonState(r) == IF r = {} THEN S_IOC_SHUTDOWN
                  ELSE IF r \subseteq {22, 23} THEN S_SHUTDOWN
                  ELSE S_ALIVE

TransitReason ==
    /\ Running /\ wk_pc = "transit"
    /\ Transit(ReasonState(wakeup_reason))
    /\ wk_pc' = CASE ReasonState(wakeup_reason) = S_IOC_SHUTDOWN -> "post"
                  [] ReasonState(wakeup_reason) = S_SHUTDOWN     -> "force"
                  [] OTHER                                       -> "read"
    /\ UNCHANGED <<loopOnly, event_sema, wakeup_reason, force_s5, cbc_rtc_set,
                   lcs_pc, stops, forwarded, suspend_job, granted, stop_log>>

PostReason ==
    /\ Running /\ wk_pc = "post"
    /\ SemPost
    /\ wk_pc' = "read"
    /\ UNCHANGED <<loopOnly, state, wakeup_reason, force_s5, cbc_rtc_set,
                   lcs_pc, stops, forwarded, suspend_job, granted, stop_log>>

\* Bit 22 says that S5 is preferred.
SetForceS5 ==
    /\ Running /\ wk_pc = "force"
    /\ force_s5' = (22 \in wakeup_reason)
    /\ wk_pc' = "read"
    /\ UNCHANGED <<loopOnly, state, event_sema, wakeup_reason, cbc_rtc_set,
                   lcs_pc, stops, forwarded, suspend_job, granted, stop_log>>

----------------------------------------------------------------------------
(* The server of "sos-lcs": one request at a time, none before main has     *)
(* registered the handlers.                                                 *)

LcsReady == Running /\ hb.pc # "start" /\ lcs_pc = "idle"

\* handle_shutdown, handle_reboot, handle_suspend: agreement or refusal.  (Two
\* slips: a refusal is taken for an agreement, or for a demand to wait.)
HandleIgnoringErr(k, err) ==
    /\ Transit(AcrndState(k))
    /\ granted' = IF err THEN granted ELSE granted \cup Effective(state')
    /\ lcs_pc' = "post"

HandleRefusalWaits(k, err) ==
    /\ Transit(IF err THEN S_SHUTDOWN_DELAY ELSE AcrndState(k))
    /\ granted' = IF err THEN granted ELSE granted \cup Effective(state')
    /\ lcs_pc' = "post"

Handle(k, err) ==
    /\ Transit(IF err THEN S_DEFAULT ELSE AcrndState(k))
    /\ granted' = IF err THEN granted ELSE granted \cup Effective(state')
    /\ lcs_pc' = "post"

\* acrnd may send any request at any time.
RequestFromAcrnd ==
    /\ LcsReady
    /\ \E a \in Answers : Handle(a[1], a[2])
    /\ UNCHANGED <<loopOnly, event_sema, wkVars, cbc_rtc_set, stops, forwarded,
                   suspend_job, stop_log>>

\* Without acrnd the requests are those of handle_stop, and agree.
RequestFromSelf ==
    /\ LcsReady
    /\ \E k \in {"shutdown", "suspend"} :
         /\ forwarded[k] > 0
         /\ forwarded' = [forwarded EXCEPT ![k] = forwarded[k] - 1]
         /\ Handle(k, FALSE)
    /\ UNCHANGED <<loopOnly, event_sema, wkVars, cbc_rtc_set, stops,
                   suspend_job, stop_log>>

\* The handler wakes the loop; its acknowledgement changes nothing here.
PostRequest ==
    /\ Running /\ lcs_pc = "post"
    /\ SemPost
    /\ lcs_pc' = "idle"
    /\ UNCHANGED <<loopOnly, state, wkVars, cbc_rtc_set, stops, forwarded,
                   suspend_job, granted, stop_log>>

\* handle_rtc for a time the IOC can be told.
HandleRtc ==
    /\ RtcTimers /\ LcsReady
    /\ cbc_rtc_set' = TRUE
    /\ UNCHANGED <<loopOnly, state, event_sema, wkVars, lcs_pc, stops,
                   forwarded, suspend_job, granted, stop_log>>

----------------------------------------------------------------------------
(* The server of "acrnd", without a VM manager.                             *)

\* handle_stop: the sender has its answer; forward the request to "sos-lcs",
\* or drop it when the socket cannot be opened.
HandleStop ==
    /\ Running /\ stops > 0
    /\ stops' = stops - 1
    /\ \/ /\ forwarded' = [forwarded EXCEPT
                             ![IF force_s5 THEN "shutdown" ELSE "suspend"] = @ + 1]
          /\ UNCHANGED stop_log
       \/ /\ stop_log' = [stop_log EXCEPT !.lost = TRUE]
          /\ UNCHANGED forwarded
    /\ UNCHANGED <<loopOnly, state, event_sema, wkVars, cbc_rtc_set, lcs_pc,
                   suspend_job, granted>>

----------------------------------------------------------------------------
(* systemd: the suspend job ends, after the machine slept or failed to.     *)

SuspendJobEnds ==
    /\ Running /\ suspend_job
    /\ suspend_job' = FALSE
    /\ UNCHANGED <<loopOnly, state, event_sema, wkVars, cbc_rtc_set, lcs_pc,
                   stops, forwarded, granted, stop_log>>

----------------------------------------------------------------------------
Init ==
    /\ state = S_DEFAULT
    /\ event_sema = 0
    /\ wakeup_reason = {}
    /\ force_s5 = FALSE /\ cbc_rtc_set = FALSE
    /\ hb = [pc |-> "start", cur_state |-> S_DEFAULT, last_state |-> S_DEFAULT,
             heartbeat |-> "none", start_retry |-> 0, stop_retry |-> 0,
             default_cnt |-> 0]
    /\ wk_pc = "read" /\ lcs_pc = "idle"
    /\ stops = 0
    /\ forwarded = [k \in {"shutdown", "suspend"} |-> 0]
    /\ suspend_job = FALSE
    /\ granted = {}
    /\ stop_log = NoStops /\ start_log = NoStarts /\ told = {}

WakeupThread == TransitReason \/ PostReason \/ SetForceS5
LcsServer    == PostRequest \/ RequestFromSelf
Environment  == ReadReason \/ RequestFromAcrnd \/ HandleRtc \/ Sigterm

Next == HeartbeatLoop \/ WakeupThread \/ LcsServer \/ HandleStop
        \/ SuspendJobEnds \/ Environment

\* Threads are scheduled and every blocking call of the loop is bounded: one
\* second for sem_timedwait, two for an answer; a systemd job ends.  Nothing is
\* assumed of the IOC, of acrnd or of SIGTERM.
Fairness == /\ WF_vars(HeartbeatLoop)
            /\ WF_vars(WakeupThread)
            /\ WF_vars(LcsServer)
            /\ WF_vars(HandleStop)
            /\ WF_vars(SuspendJobEnds)

Spec == Init /\ [][Next]_vars /\ Fairness

----------------------------------------------------------------------------
(* Properties *)

LoopSteps == {"start", "top", "send", "wait", "resume", "delay", "stop_first",
              "stop", "assume", "off", "rtc", "exec", "back", "poll", "jobs",
              "halted", "exited"}

LoopLocals == [pc : LoopSteps, cur_state : States, last_state : States,
               heartbeat : Heartbeats, start_retry : 0..RetryCnt,
               stop_retry : 0..RetryCnt, default_cnt : {0, 1}]
StopLogs   == [fails : Nat, acked : BOOLEAN, lost : BOOLEAN]
StartLogs  == [fails : Nat, acked : BOOLEAN]

\* Every variable has a value the program can represent; the retry counters
\* stay within 0..RetryCnt although they are decremented in several places.
TypeOK ==
    /\ state \in States
    /\ event_sema \in 0..SemMax
    /\ wakeup_reason \in Reasons \cup {{}}
    /\ force_s5 \in BOOLEAN /\ cbc_rtc_set \in BOOLEAN
    /\ hb \in LoopLocals
    /\ wk_pc \in {"read", "transit", "post", "force"}
    /\ lcs_pc \in {"idle", "post"}
    /\ stops \in Nat
    /\ forwarded \in [{"shutdown", "suspend"} -> Nat]
    /\ suspend_job \in BOOLEAN
    /\ granted \in SUBSET Requests
    /\ stop_log \in StopLogs
    /\ start_log \in StartLogs
    /\ told \in SUBSET Requests

\* The machine is powered off, rebooted or suspended only when that very action
\* was agreed to (or suspend was assumed) and the loop has read no other state
\* since: last_state, a local variable the other threads cannot see, is never a
\* leftover of an agreement that has lapsed.
PowerActionGranted ==
    hb.pc \in {"exec", "halted"} =>
        AgreedBefore # {} /\ AgreedBefore \subseteq granted

\* The IOC is told of a shutdown, a reboot or a suspend only when that action
\* was agreed to, whatever happened between get_state and the write.
HeartbeatGranted ==
    hb.pc = "send" =>
        \A k \in Requests : hb.heartbeat = AcrndBeat(k) => k \in granted

\* What the IOC was told last is done, and not dropped, when the IOC goes off:
\* last_state, by which the loop decides a pass later, is the state that was told
\* of, although the state changes between get_state and the write and although
\* passes that assume suspend, or lose the race to the delay, tell nothing.
ToldIsDone ==
    hb.pc \in {"exec", "halted", "back"} => told \subseteq AgreedBefore

\* The IOC is asked for a delay only while acrnd has taken the STOP, or while
\* retries are left and none of the attempts counted so far is forgotten.
DelayJustified ==
    hb.pc = "send" /\ hb.heartbeat = "shutdown_delay" =>
        \/ stop_log.acked /\ hb.stop_retry = 0
        \/ /\ ~stop_log.acked /\ hb.stop_retry > 0
           /\ stop_log.fails + hb.stop_retry = RetryCnt + 1

\* Suspend is assumed only after RETRY_CNT + 1 failures and no success since
\* the loop entered shutdown_delay: stop_retry is never a leftover.
AssumeAfterAllRetries ==
    hb.pc = "assume" => ~stop_log.acked /\ stop_log.fails = RetryCnt + 1

\* acrnd is not flooded: after a successful RESUME none is sent again before
\* the loop has left keep_alive, and at most RETRY_CNT + 1 are tried.
ResumeBounded ==
    hb.pc = "resume" => ~start_log.acked /\ start_log.fails <= RetryCnt

\* Only the loop enters shutdown_delay, and it never loses track of it: whenever
\* the shared state is shutdown_delay the loop handles this very delay, so that
\* stop_retry counts the attempts made for it.
DelayOwned ==
    state = S_SHUTDOWN_DELAY =>
        \/ hb.pc \in {"top", "wait"} /\ hb.last_state = S_SHUTDOWN_DELAY
        \/ /\ hb.pc \in {"stop_first", "stop", "assume", "send"}
           /\ hb.cur_state = S_SHUTDOWN_DELAY
        \/ hb.pc = "exited"

\* The service keeps the promise of PowerProtocol.
Phase == CASE state \in {S_DEFAULT, S_ALIVE}           -> "up"
           [] state \in {S_SHUTDOWN, S_SHUTDOWN_DELAY} -> "leaving"
           [] state = S_IOC_SHUTDOWN                   -> "off"
           [] OTHER                                    -> "agreed"

Doing == IF hb.pc = "exited" THEN "exited"
         ELSE IF hb.pc \in {"exec", "halted"}
         THEN CHOOSE k \in Requests : AcrndState(k) = hb.last_state
         ELSE "none"

Promise == INSTANCE PowerProtocol
             WITH Actions <- Requests, phase <- Phase, doing <- Doing

ImplementsPowerProtocol == Promise!Spec

\* After poweroff or reboot the loop sleeps for ever; SIGTERM ends the process.
Stopped == hb.pc \in {"halted", "exited"}

Leaving == state \in {S_SHUTDOWN, S_SHUTDOWN_DELAY}

\* A request of the IOC to leave is concluded (agreed, refused, assumed or
\* overtaken by the IOC going off) unless acrnd took the STOP, and then it is
\* for acrnd to answer.
LeaveConcludes == Leaving ~> (~Leaving \/ stop_log.acked \/ Stopped)

\* The off pass ends, although it waits for systemd's job and other threads
\* change the state meanwhile.
OffConcludes == (state = S_IOC_SHUTDOWN) ~> (state # S_IOC_SHUTDOWN \/ Stopped)

\* An agreement the service took reaches the IOC, unless the IOC goes off first:
\* whatever the loop was busy with when it came (RESUMEs, STOPs, the beat of an older
\* state, the wait for systemd), and although the post that wakes it may be lost.
AgreementTold ==
    Effective(state) # {} ~> (Effective(state) \subseteq told \/ Stopped)

\* Without acrnd the service answers its own STOP, through two sockets: the
\* leaving concludes unless handle_stop dropped a request.
NativeLeaveConcludes == Leaving ~> (~Leaving \/ stop_log.lost \/ Stopped)
=============================================================================
