---------------------------- MODULE ReasonProofs ----------------------------
(***************************************************************************)
(* What VMs are told of why the machine is up: the reason the loop kept    *)
(* when it entered keep_alive, never one from before the machine slept.    *)
(***************************************************************************)
EXTENDS SuspendProofs

OffPass == {"off", "rtc", "exec", "back", "poll", "jobs"}

\* Where in the loop something is left to do.
DuePlace ==
    /\ due \in {"none", "clear", "copy", "reset"}
    /\ due = "copy" => hb.pc \in {"resume", "exited"}
    /\ due = "clear" => hb.pc \in {"rtc", "exited"}
    /\ due = "reset" => hb.pc = "exited" \/ (hb.pc = "send" /\ hb.cur_state = S_IOC_SHUTDOWN)
    /\ due = "reset" \/ hb.pc \in OffPass => start_log = NoStarts
    /\ hb.pc \in OffPass => hb.cur_state = S_IOC_SHUTDOWN

ToldWhy == age.told => Waking(up_wakeup_reason) \/ age.overtaken

\* The steps of a pass at which last_state says what the pass before found.
LastSteps == {"start", "top", "wait", "delay", "stop_first", "stop", "assume", "resume"}

\* Wherever the loop knows that it is in keep_alive, the reason has been kept.
WhyKnown ==
    /\ start_log # NoStarts => ToldWhy
    /\ hb.pc \in LastSteps /\ hb.last_state = S_ALIVE => ToldWhy
    /\ hb.pc = "resume" /\ due = "none" => ToldWhy
    /\ hb.pc = "send" /\ hb.cur_state = S_ALIVE => ToldWhy

LoopReads == LoopDefault \/ LoopAlive \/ LoopShutdown \/ LoopDelay \/ LoopAcrnd \/ LoopOff

\* get_state at the start of a pass.
LEMMA ReadKeepsWhy ==
  ASSUME hb \in LoopLocals, DuePlace, WhyKnown, ToldWhy => ToldWhy',
         LoopStep, NEW s \in States, NEW p, NEW b, Read(s, p, b),
         s = S_ALIVE => p = "resume" \/ (p = "send" /\ hb.last_state = S_ALIVE),
         s # S_ALIVE => p \in {"send", "delay", "stop", "off"},
         p = "off" <=> s = S_IOC_SHUTDOWN
  PROVE  DuePlace' /\ WhyKnown'
<1>1. /\ hb.pc = "top" /\ hb'.pc = p /\ hb'.cur_state = s /\ hb'.last_state = hb.last_state
      /\ start_log' = IF s = S_ALIVE /\ hb.last_state = S_ALIVE THEN start_log ELSE NoStarts
  BY DEF Read, At, LoopLocals
<1>2. due' = IF s = S_ALIVE /\ hb.last_state # S_ALIVE THEN "copy" ELSE "none"
  BY <1>1 DEF LoopStep, EntersAlive, LeavesOff
<1>3. CASE s = S_ALIVE
  BY <1>1, <1>2, <1>3, StatesDiffer DEF DuePlace, WhyKnown, OffPass, LastSteps
<1>4. CASE s # S_ALIVE
  BY <1>1, <1>2, <1>4, StatesDiffer DEF DuePlace, WhyKnown, OffPass, LastSteps
<1> QED
  BY <1>3, <1>4

LEMMA ReadsKeepWhy ==
  ASSUME hb \in LoopLocals, DuePlace, WhyKnown, ToldWhy => ToldWhy', LoopStep, LoopReads
  PROVE  DuePlace' /\ WhyKnown'
<1> USE ReadKeepsWhy, StateNames, StatesDiffer
<1>1. CASE LoopDefault
  <2>1. S_DEFAULT # S_ALIVE /\ S_DEFAULT # S_IOC_SHUTDOWN
    BY DEF S_DEFAULT, S_ALIVE, S_IOC_SHUTDOWN
  <2> QED
    BY <1>1, <2>1 DEF LoopDefault
<1>2. CASE LoopAlive
  <2>1. S_ALIVE # S_IOC_SHUTDOWN
    BY DEF S_ALIVE, S_IOC_SHUTDOWN
  <2> QED
    BY <1>2, <2>1 DEF LoopAlive
<1>3. CASE LoopShutdown
  <2>1. S_SHUTDOWN # S_ALIVE /\ S_SHUTDOWN # S_IOC_SHUTDOWN
    BY DEF S_SHUTDOWN, S_ALIVE, S_IOC_SHUTDOWN
  <2> QED
    BY <1>3, <2>1 DEF LoopShutdown
<1>4. CASE LoopDelay
  BY <1>4 DEF LoopDelay
<1>5. CASE LoopAcrnd
  <2>1. PICK k \in Requests : Read(AcrndState(k), "send", AcrndBeat(k))
    BY <1>5 DEF LoopAcrnd
  <2>2. AcrndState(k) \in States \ {S_ALIVE, S_IOC_SHUTDOWN}
    BY RequestStates
  <2> QED
    BY <2>1, <2>2
<1>6. CASE LoopOff
  <2>1. S_ALIVE # S_IOC_SHUTDOWN
    BY DEF S_ALIVE, S_IOC_SHUTDOWN
  <2> QED
    BY <1>6, <2>1 DEF LoopOff
<1> QED
  BY <1>1, <1>2, <1>3, <1>4, <1>5, <1>6 DEF LoopReads

\* The other steps of the loop.
LEMMA MovesKeepWhy ==
  ASSUME hb \in LoopLocals, DuePlace, WhyKnown, PassState, ToldWhy => ToldWhy',
         SkipsCopy => ToldWhy', LoopStep, ~LoopReads
  PROVE  DuePlace' /\ WhyKnown'
<1>0. S_IOC_SHUTDOWN # S_ALIVE /\ S_SHUTDOWN_DELAY # S_ALIVE /\ due = "none" /\ ~At("rtc")
  BY DEF S_IOC_SHUTDOWN, S_ALIVE, S_SHUTDOWN_DELAY, LoopStep
<1> USE <1>0 DEF LoopLocals, At, Local, DuePlace, WhyKnown, OffPass, LastSteps
<1>1. hb.pc # "top" => due' = IF LeavesOff THEN "reset" ELSE "none"
  BY DEF LoopStep, EntersAlive
<1>2. CASE LoopStart
  BY <1>1, <1>2 DEF LoopStart, notHb, hist, LeavesOff
<1>3. CASE SendStart
  <2>1. hb.pc = "resume" /\ hb'.pc = "send" /\ hb'.cur_state = S_ALIVE
    BY <1>3 DEF SendStart, PassState
  <2>2. due' = "none" /\ ToldWhy'
    BY <1>1, <2>1 DEF LeavesOff
  <2> QED
    BY <2>1, <2>2
<1>4. CASE EnterDelay
  BY <1>1, <1>4 DEF EnterDelay, LeavesOff, SkipsCopy
<1>5. CASE SendFirstStop \/ SendStop
  BY <1>1, <1>5 DEF SendFirstStop, SendStop, LeavesOff, PassState
<1>6. CASE AssumeSuspend
  BY <1>1, <1>6 DEF AssumeSuspend, LeavesOff
<1>7. CASE Decide \/ ExecFinal
  BY <1>1, <1>7 DEF Decide, ExecFinal, LeavesOff, notHb, hist
<1>8. CASE ExecSuspend \/ Back
  BY <1>1, <1>8 DEF ExecSuspend, Back, LeavesOff, hist
<1>9. CASE PollState \/ PollJobs
  BY <1>1, <1>9 DEF PollState, PollJobs, LeavesOff, notHb, hist
<1>10. CASE SendHeartbeat
  BY <1>1, <1>10 DEF SendHeartbeat, Beat, LeavesOff, notHb, hist
<1>11. CASE Wait
  BY <1>1, <1>11 DEF Wait, LeavesOff, hist
<1>12. ~RtcSent
  BY DEF RtcSent
<1> QED
  BY <1>2, <1>3, <1>4, <1>5, <1>6, <1>7, <1>8, <1>9, <1>10, <1>11, <1>12
     DEF LoopStep, HeartbeatLoop, LoopReads

\* The history of ages is kept from the start, or never.
AgeTyped == age \in [told : BOOLEAN, reason : BOOLEAN, answer : BOOLEAN,
                     early : BOOLEAN, overtaken : BOOLEAN]

LEMMA AgingTyped ==
  ASSUME AgeTyped, Aging
  PROVE  /\ AgeTyped' /\ age'.told = age.told
         /\ age.told => age'.overtaken = IF Copies THEN ~Waking(wakeup_reason)
                                        ELSE age.overtaken \/ SkipsCopy
         /\ age.told =>
              /\ age'.reason = (age.reason /\ ~(wk_pc = "read" /\ wk_pc' = "transit"))
              /\ age'.answer = ((IF Copies THEN age.reason ELSE age.answer)
                                /\ up_wakeup_reason' # {})
              /\ age'.early = \/ age.early /\ ~Suspends
                              \/ /\ Suspends \/ (suspend_job /\ BeforeSleep)
                                 /\ state' = S_ALIVE \/ Waking(wakeup_reason')
<1>1. CASE ~age.told
  BY <1>1 DEF Aging, AgeTyped
<1>2. CASE age.told
  <2> DEFINE r == age.reason /\ ~(wk_pc = "read" /\ wk_pc' = "transit")
             a == (IF Copies THEN age.reason ELSE age.answer) /\ up_wakeup_reason' # {}
             e == \/ age.early /\ ~Suspends
                  \/ /\ Suspends \/ (suspend_job /\ BeforeSleep)
                     /\ state' = S_ALIVE \/ Waking(wakeup_reason')
             o == IF Copies THEN ~Waking(wakeup_reason) ELSE age.overtaken \/ SkipsCopy
  <2>1. r \in BOOLEAN /\ a \in BOOLEAN /\ e \in BOOLEAN /\ o \in BOOLEAN
    BY DEF AgeTyped
  <2>2. age' = [age EXCEPT !.reason = r, !.answer = a, !.early = e, !.overtaken = o]
    BY <1>2 DEF Aging
  <2>3. age' = [age EXCEPT !.reason = r, !.answer = a, !.early = e, !.overtaken = o]
        => /\ AgeTyped' /\ age'.told = age.told /\ age'.overtaken = o
           /\ age'.reason = r /\ age'.answer = a /\ age'.early = e
    <3> HIDE DEF r, a, e, o
    <3> QED
      BY <2>1 DEF AgeTyped
  <2> QED
    BY <2>2, <2>3
<1> QED
  BY <1>1, <1>2 DEF AgeTyped

WhyInv == AgeTyped /\ DuePlace /\ WhyKnown

\* A step that leaves the loop and the reason alone.
LEMMA SameKeepsWhy ==
  ASSUME DuePlace, WhyKnown, ToldWhy => ToldWhy', due' = due, start_log' = start_log,
         hb' = hb
  PROVE  DuePlace' /\ WhyKnown'
BY DEF DuePlace, WhyKnown

LEMMA LifecycleKeepsWhy ==
  ASSUME TypeInv, PassState, WhyInv, Lifecycle
  PROVE  WhyInv'
<1>0. hb \in LoopLocals
  BY DEF TypeInv, TypeOK
<1>1. /\ AgeTyped' /\ age'.told = age.told
      /\ age.told => age'.overtaken = IF Copies THEN ~Waking(wakeup_reason)
                                     ELSE age.overtaken \/ SkipsCopy
  BY AgingTyped DEF Lifecycle, WhyInv
<1>2. ~Copies /\ up_wakeup_reason' = up_wakeup_reason => (ToldWhy => ToldWhy')
  BY <1>1 DEF ToldWhy
<1> USE DEF WhyInv
<1>3. CASE LoopStep
  <2>1. ~Copies /\ up_wakeup_reason' = up_wakeup_reason
    BY <1>3 DEF LoopStep, Copies
  <2>2. SkipsCopy => ToldWhy'
    BY <1>1, <2>1 DEF ToldWhy
  <2> QED
    BY <1>0, <1>1, <1>2, <1>3, <2>1, <2>2, ReadsKeepWhy, MovesKeepWhy
<1>4. CASE CopyReason
  <2>1. /\ Running /\ due = "copy" /\ due' = "none" /\ up_wakeup_reason' = wakeup_reason
        /\ hb' = hb /\ start_log' = start_log
    BY <1>4 DEF CopyReason, vars, notHb, hist
  <2>2. ToldWhy'
    BY <1>1, <2>1 DEF ToldWhy, Copies
  <2> QED
    BY <1>1, <2>1, <2>2 DEF DuePlace, WhyKnown
<1>5. CASE ResetReason
  <2>1. /\ Running /\ due = "reset" /\ due' = "none" /\ hb' = hb /\ start_log' = start_log
    BY <1>5 DEF ResetReason, vars, notHb, hist
  <2>2. S_IOC_SHUTDOWN # S_ALIVE
    BY DEF S_IOC_SHUTDOWN, S_ALIVE
  <2> QED
    BY <1>1, <2>1, <2>2 DEF DuePlace, WhyKnown, Running, OffPass, LastSteps
<1>6. CASE WriteRtc
  <2>1. /\ hb.pc = "rtc" /\ due = "none" /\ due' = "clear" /\ hb' = hb /\ start_log' = start_log
        /\ up_wakeup_reason' = up_wakeup_reason
    BY <1>6 DEF WriteRtc, At, vars, notHb, hist
  <2>2. ToldWhy => ToldWhy'
    BY <1>2, <2>1 DEF Copies
  <2> QED
    BY <1>1, <2>1, <2>2 DEF DuePlace, WhyKnown, OffPass
<1>7. CASE ClearRtc
  <2>1. /\ hb.pc = "rtc" /\ hb'.pc = "exec" /\ hb'.cur_state = hb.cur_state
        /\ due = "clear" /\ due' = "none" /\ start_log' = start_log
        /\ up_wakeup_reason' = up_wakeup_reason
    BY <1>0, <1>7 DEF ClearRtc, RtcSent, At, hist, LoopLocals
  <2>2. ToldWhy => ToldWhy'
    BY <1>2, <2>1 DEF Copies
  <2> QED
    BY <1>1, <2>1, <2>2 DEF DuePlace, WhyKnown, OffPass, LastSteps
<1>8. CASE AskRtc \/ StoreByte \/ StoreFlag \/ OtherRequests \/ (OtherThreads /\ ~Sigterm)
  <2>1. /\ hb' = hb /\ start_log' = start_log /\ due' = due
        /\ up_wakeup_reason' = up_wakeup_reason
    BY <1>8 DEF AskRtc, StoreByte, StoreFlag, HandleRtc, OtherRequests, RequestFromAcrnd,
                RequestFromSelf, OtherThreads, WakeupThread, TransitReason, PostReason,
                SetForceS5, PostRequest, HandleStop, ReadReason, loopOnly, vars, notHb, hist,
                reqVars
  <2>2. ToldWhy => ToldWhy'
    BY <1>2, <2>1 DEF Copies
  <2> QED
    BY <1>1, <2>1, <2>2, SameKeepsWhy
<1>9. CASE OtherThreads /\ Sigterm
  <2>1. /\ hb'.pc = "exited" /\ start_log' = start_log /\ due' = due
        /\ up_wakeup_reason' = up_wakeup_reason
    BY <1>0, <1>9 DEF OtherThreads, Sigterm, Local, notHb, hist, reqVars, LoopLocals
  <2>2. ToldWhy => ToldWhy'
    BY <1>2, <2>1 DEF Copies
  <2> QED
    BY <1>1, <2>1, <2>2 DEF DuePlace, WhyKnown, OffPass, LastSteps
<1> QED
  BY <1>3, <1>4, <1>5, <1>6, <1>7, <1>8, <1>9 DEF Lifecycle, RefinedLoop

LEMMA CycleKeepsWhy ==
  ASSUME TypeInv, PassState, WhyInv, [CycleNext]_cycleVars
  PROVE  WhyInv'
<1> USE DEF WhyInv
<1>1. CASE Lifecycle
  BY <1>1, LifecycleKeepsWhy
<1>2. CASE Sleep
  <2>1. hb' = hb /\ start_log' = start_log /\ due' = due /\ up_wakeup_reason' = up_wakeup_reason
    BY <1>2 DEF Sleep, vars, notHb, hist, reqVars
  <2>2. AgeTyped' /\ age'.told = age.told /\ age'.overtaken = age.overtaken
    <3> DEFINE a == age.told /\ up_wakeup_reason # {}
    <3>1. a \in BOOLEAN
      BY DEF AgeTyped
    <3>2. age' = [age EXCEPT !.reason = age.told, !.answer = a]
      BY <1>2 DEF Sleep
    <3> HIDE DEF a
    <3> QED
      BY <3>1, <3>2 DEF AgeTyped
  <2>3. ToldWhy => ToldWhy'
    BY <2>1, <2>2 DEF ToldWhy
  <2> QED
    BY <2>1, <2>2, <2>3, SameKeepsWhy
<1>3. CASE JobStarts \/ HookStep \/ JobEnds \/ ThermaldRuns \/ User \/ UNCHANGED cycleVars
  <2>1. /\ hb' = hb /\ start_log' = start_log /\ due' = due /\ age' = age
        /\ up_wakeup_reason' = up_wakeup_reason
    BY <1>3 DEF JobStarts, HookStep, JobEnds, SuspendJobEnds, ThermaldRuns, User, cycleVars,
                vars, notHb, hist, reqVars, loopOnly
  <2>2. (ToldWhy => ToldWhy') /\ (AgeTyped => AgeTyped')
    BY <2>1 DEF ToldWhy, AgeTyped
  <2> QED
    BY <2>1, <2>2, SameKeepsWhy
<1> QED
  BY <1>1, <1>2, <1>3 DEF CycleNext

LEMMA InitWhy == CycleInit => WhyInv
<1> SUFFICES ASSUME CycleInit PROVE WhyInv
  OBVIOUS
<1>1. PICK s \in Setups :
        /\ RequestsInit(s.asks)
        /\ age = [told |-> s.ages, reason |-> FALSE, answer |-> FALSE,
                  early |-> FALSE, overtaken |-> FALSE]
  BY DEF CycleInit
<1>2. AgeTyped
  BY <1>1, SetupsAssumption DEF AgeTyped
<1>3. hb.pc = "start" /\ hb.last_state = S_DEFAULT /\ due = "none" /\ start_log = NoStarts
  BY <1>1 DEF RequestsInit, Init
<1>4. S_DEFAULT # S_ALIVE
  BY DEF S_DEFAULT, S_ALIVE
<1> QED
  BY <1>2, <1>3, <1>4 DEF WhyInv, DuePlace, WhyKnown, OffPass, LastSteps

LEMMA WhyInvariant == CycleSpec => []WhyInv
<1>1. TypeInv /\ GrantInv /\ WhyInv /\ [CycleNext]_cycleVars => WhyInv'
  BY CycleKeepsWhy DEF GrantInv
<1> QED
  BY <1>1, InitWhy, LifecycleInvariants, PTL DEF CycleSpec

\* A VM that was told to resume and asks why is told a reason to be awake, but for
\* the two races of the loop with the other threads that age.overtaken names.
THEOREM ResumedAreTold == CycleSpec => []ResumedKnowWhy
<1>1. WhyInv => ResumedKnowWhy
  BY DEF WhyInv, WhyKnown, ToldWhy, ResumedKnowWhy, Resumed, WakeupAnswer
<1> QED
  BY <1>1, WhyInvariant, PTL

----------------------------------------------------------------------------
(* No reason from before the machine slept *)

\* What the steps of the loop do to what the age of a reason depends on.
LEMMA LoopFacts ==
  ASSUME TypeInv, DuePlace, LoopStep
  PROVE  /\ state' = S_ALIVE => state = S_ALIVE
         /\ wakeup_reason' = wakeup_reason
         /\ suspend_job' = suspend_job \/ (Suspends /\ suspend_job')
         /\ due' = "copy" => state = S_ALIVE /\ state' = S_ALIVE /\ ~Suspends
         /\ AfterSuspend => AfterSuspend'
<1>0. hb \in LoopLocals /\ state \in States /\ due = "none" /\ ~At("rtc")
  BY DEF TypeInv, TypeOK, LoopStep
<1>1. due' = IF EntersAlive THEN "copy" ELSE IF LeavesOff THEN "reset" ELSE "none"
  BY DEF LoopStep
<1>2. CASE LoopReads
  <2>1. PICK s \in States : \E p, b : Read(s, p, b)
    BY <1>2, StateNames, RequestStates
       DEF LoopReads, LoopDefault, LoopAlive, LoopShutdown, LoopDelay, LoopAcrnd, LoopOff
  <2>2. /\ hb.pc = "top" /\ state = s /\ hb'.cur_state = s /\ state' = state
        /\ suspend_job' = suspend_job /\ wakeup_reason' = wakeup_reason
    BY <1>0, <2>1 DEF Read, At, LoopLocals, notLoop, wkVars
  <2> QED
    BY <1>0, <1>1, <2>2 DEF EntersAlive, LeavesOff, AfterSuspend, Suspends
<1>3. CASE ~LoopReads
  <2>1. hb.pc # "top" /\ (state' = S_ALIVE => state = S_ALIVE)
    <3>1. S_SHUTDOWN_DELAY # S_ALIVE /\ S_ACRND_SUSPEND # S_ALIVE /\ S_DEFAULT # S_ALIVE
      BY DEF S_SHUTDOWN_DELAY, S_ACRND_SUSPEND, S_DEFAULT, S_ALIVE
    <3> QED
      BY <1>0, <1>3, <3>1, TransitTyped, StateNames
         DEF LoopStep, HeartbeatLoop, LoopReads, LoopStart, SendStart, EnterDelay,
             SendFirstStop, SendStop, AssumeSuspend, Decide, RtcSent, ExecFinal,
             ExecSuspend, Back, PollState, PollJobs, SendHeartbeat, Beat, Wait, At, Local, notHb
  <2>2. wakeup_reason' = wakeup_reason
    BY <1>0, <1>3
       DEF LoopStep, HeartbeatLoop, LoopReads, LoopStart, SendStart, EnterDelay,
           SendFirstStop, SendStop, AssumeSuspend, Decide, RtcSent, ExecFinal,
           ExecSuspend, Back, PollState, PollJobs, SendHeartbeat, Beat, Wait, At, Local, notHb,
           notLoop, wkVars
  <2>3. suspend_job' = suspend_job \/ (Suspends /\ suspend_job')
    BY <1>0, <1>3
       DEF LoopStep, HeartbeatLoop, LoopReads, LoopStart, SendStart, EnterDelay,
           SendFirstStop, SendStop, AssumeSuspend, Decide, RtcSent, ExecFinal,
           ExecSuspend, Back, PollState, PollJobs, SendHeartbeat, Beat, Wait, At, Local, notHb,
           Suspends, LoopLocals
  <2>4. AfterSuspend => AfterSuspend'
    <3>1. hb.pc \in {"back", "poll", "jobs"} => hb'.pc \in {"send", "poll", "jobs"}
      BY <1>0, <1>3
         DEF LoopStep, HeartbeatLoop, LoopReads, LoopStart, SendStart, EnterDelay,
             SendFirstStop, SendStop, AssumeSuspend, Decide, RtcSent, ExecFinal,
             ExecSuspend, Back, PollState, PollJobs, SendHeartbeat, Beat, Wait, At, Local,
             LoopLocals
    <3>2. hb.pc = "back" => hb'.pc = "poll"
      BY <1>0, <1>3
         DEF LoopStep, HeartbeatLoop, LoopReads, LoopStart, SendStart, EnterDelay,
             SendFirstStop, SendStop, AssumeSuspend, Decide, RtcSent, ExecFinal,
             ExecSuspend, Back, PollState, PollJobs, SendHeartbeat, Beat, Wait, At, Local,
             LoopLocals
    <3> QED
      BY <1>0, <1>1, <2>1, <3>1, <3>2 DEF EntersAlive, LeavesOff, AfterSuspend
  <2> QED
    BY <1>1, <2>1, <2>2, <2>3, <2>4 DEF EntersAlive
<1> QED
  BY <1>2, <1>3

\* And what all steps of the service do.
LifecycleFacts ==
    /\ state' = S_ALIVE => state = S_ALIVE \/ Waking(wakeup_reason)
    /\ wakeup_reason' = wakeup_reason \/ (wk_pc = "read" /\ wk_pc' = "transit")
    /\ suspend_job' = suspend_job \/ (Suspends /\ suspend_job')
    /\ due' = "copy" => ~Suspends /\ (due = "copy" \/ (state = S_ALIVE /\ state' = S_ALIVE))
    /\ \/ up_wakeup_reason' = up_wakeup_reason /\ ~Copies
       \/ up_wakeup_reason' = {} /\ ~Copies
       \/ Copies /\ (Running' => Running)
    /\ Running' /\ AfterSuspend /\ ~AfterSuspend' => up_wakeup_reason' = {}
    /\ Running' => Running

LEMMA LifecycleStep ==
  ASSUME TypeInv, DuePlace, Lifecycle
  PROVE  LifecycleFacts
<1>0. hb \in LoopLocals /\ state \in States
  BY DEF TypeInv, TypeOK
<1>1. CASE LoopStep
  <2>1. /\ up_wakeup_reason' = up_wakeup_reason /\ ~Copies
    BY <1>1 DEF LoopStep, Copies
  <2>2. Running
    BY <1>0, <1>1 DEF LoopStep, HeartbeatLoop, LoopStart, LoopDefault, LoopAlive, SendStart,
       LoopShutdown, EnterDelay, LoopDelay, SendFirstStop, SendStop, AssumeSuspend,
       LoopAcrnd, LoopOff, Decide, RtcSent, ExecFinal, ExecSuspend, Back, PollState,
       PollJobs, SendHeartbeat, Beat, Wait, At, Read, Running
  <2> QED
    BY <1>1, <2>1, <2>2, LoopFacts DEF LifecycleFacts
<1>2. CASE CopyReason
  BY <1>2 DEF CopyReason, LifecycleFacts, DuePlace, Copies, AfterSuspend, Running, vars,
              notHb, notLoop, wkVars, Suspends
<1>3. CASE ResetReason
  BY <1>3 DEF ResetReason, LifecycleFacts, Copies, Running, vars, notHb, notLoop, wkVars,
              Suspends
<1>4. CASE WriteRtc \/ AskRtc \/ StoreByte
  <2>1. UNCHANGED <<vars, up_wakeup_reason>> /\ (due' = due \/ (due = "none" /\ due' = "clear"))
    BY <1>4 DEF WriteRtc, AskRtc, StoreByte
  <2> QED
    BY <2>1 DEF LifecycleFacts, Copies, AfterSuspend, Running, vars, notHb, notLoop, wkVars,
                Suspends
<1>5. CASE ClearRtc
  BY <1>0, <1>5 DEF ClearRtc, RtcSent, At, LifecycleFacts, Copies, AfterSuspend, Running,
                    notLoop, wkVars, Suspends, LoopLocals
<1>6. CASE StoreFlag
  BY <1>6 DEF StoreFlag, HandleRtc, LifecycleFacts, Copies, AfterSuspend, Running, loopOnly,
              wkVars, Suspends
<1>7. CASE OtherRequests
  <2>1. state' = S_ALIVE => state = S_ALIVE
    <3>1. ASSUME NEW k \in Requests, NEW err \in BOOLEAN, Handle(k, err), state' = S_ALIVE
          PROVE  state = S_ALIVE
      <4>1. (IF err THEN S_DEFAULT ELSE AcrndState(k)) \in States \ {S_ALIVE}
        <5>1. S_DEFAULT # S_ALIVE
          BY DEF S_DEFAULT, S_ALIVE
        <5> QED
          BY <5>1, RequestStates, StateNames
      <4> QED
        BY <1>0, <3>1, <4>1, TransitTyped DEF Handle
    <3>2. CASE RequestFromAcrnd
      <4>1. PICK a \in Answers : Handle(a[1], a[2])
        BY <3>2 DEF RequestFromAcrnd
      <4>2. a[1] \in Requests /\ a[2] \in BOOLEAN
        BY AnswersAssumption
      <4> QED
        BY <3>1, <4>1, <4>2
    <3>3. CASE RequestFromSelf
      BY <3>1, <3>3 DEF RequestFromSelf, Requests
    <3> QED
      BY <1>7, <3>2, <3>3 DEF OtherRequests
  <2>2. /\ hb' = hb /\ due' = due /\ up_wakeup_reason' = up_wakeup_reason
        /\ wakeup_reason' = wakeup_reason /\ suspend_job' = suspend_job
    BY <1>7 DEF OtherRequests, RequestFromAcrnd, RequestFromSelf, loopOnly, wkVars, reqVars
  <2> QED
    BY <2>1, <2>2 DEF LifecycleFacts, Copies, AfterSuspend, Running, Suspends
<1>8. CASE OtherThreads
  <2>1. due' = due /\ up_wakeup_reason' = up_wakeup_reason
    BY <1>8 DEF OtherThreads, reqVars
  <2>2. CASE TransitReason
    <3>1. state' = S_ALIVE => state = S_ALIVE \/ Waking(wakeup_reason)
      BY <1>0, <2>2, TransitTyped, StateNames DEF TransitReason, ReasonState, Waking
    <3> QED
      BY <2>1, <2>2, <3>1 DEF TransitReason, LifecycleFacts, Copies, AfterSuspend, Running,
                              loopOnly, Suspends
  <2>3. CASE PostReason \/ SetForceS5 \/ PostRequest \/ HandleStop
    BY <2>1, <2>3 DEF PostReason, SetForceS5, PostRequest, HandleStop, LifecycleFacts, Copies,
                      AfterSuspend, Running, loopOnly, wkVars, Suspends
  <2>4. CASE ReadReason
    BY <2>1, <2>4 DEF ReadReason, LifecycleFacts, Copies, AfterSuspend, Running, loopOnly,
                      Suspends
  <2>5. CASE Sigterm
    BY <1>0, <2>1, <2>5 DEF Sigterm, Local, notHb, notLoop, wkVars, LifecycleFacts, Copies,
                            AfterSuspend, Running, Suspends, LoopLocals
  <2> QED
    BY <1>8, <2>2, <2>3, <2>4, <2>5 DEF OtherThreads, WakeupThread
<1> QED
  BY <1>1, <1>2, <1>3, <1>4, <1>5, <1>6, <1>7, <1>8 DEF Lifecycle, RefinedLoop

\* The script runs for systemd's job only.
JobKnown == hook.pc # "idle" => suspend_job

SleepIsDue == suspend_job /\ (BeforeSleep \/ Asleep)

\* What may become an old answer once the machine has slept is known to be early.
OldKnown ==
    age.told =>
      /\ NoOldAnswer
      /\ age.reason /\ (state = S_ALIVE \/ Waking(wakeup_reason) \/ due = "copy")
           => age.early
      /\ SleepIsDue /\ (state = S_ALIVE \/ Waking(wakeup_reason) \/ due = "copy")
           => age.early
      /\ SleepIsDue /\ Running /\ ~AfterSuspend => up_wakeup_reason = {} \/ age.early

OldInv == JobKnown /\ OldKnown

LEMMA LifecycleKeepsOld ==
  ASSUME TypeInv, WhyInv, OldInv, Lifecycle
  PROVE  OldInv'
<1>1. LifecycleFacts /\ UNCHANGED hookVars /\ ~Asleep
  BY LifecycleStep DEF WhyInv, Lifecycle
<1>2. JobKnown'
  BY <1>1 DEF OldInv, JobKnown, LifecycleFacts, hookVars
<1>3. CASE ~age.told
  BY <1>2, <1>3, AgingTyped DEF OldInv, OldKnown, WhyInv, Lifecycle
<1>4. CASE age.told
  <2>1. /\ age'.told
        /\ age'.reason = (age.reason /\ ~(wk_pc = "read" /\ wk_pc' = "transit"))
        /\ age'.answer = ((IF Copies THEN age.reason ELSE age.answer)
                          /\ up_wakeup_reason' # {})
        /\ age'.early = \/ age.early /\ ~Suspends
                        \/ /\ Suspends \/ (suspend_job /\ BeforeSleep)
                           /\ state' = S_ALIVE \/ Waking(wakeup_reason')
    BY <1>4, AgingTyped DEF WhyInv, Lifecycle
  <2>2. Suspends => AfterSuspend'
    BY DEF Suspends, AfterSuspend
  <2>3. Copies => ~Suspends /\ due = "copy"
    BY DEF WhyInv, DuePlace, Copies, Suspends
  <2>4. SleepIsDue' => (SleepIsDue \/ Suspends) /\ BeforeSleep
    BY <1>1 DEF SleepIsDue, LifecycleFacts, hookVars, Asleep, BeforeSleep, HookAt
  <2>5. NoOldAnswer'
    BY <1>1, <1>4, <2>1, <2>2, <2>3 DEF OldInv, OldKnown, NoOldAnswer, LifecycleFacts
  <2>6. age'.reason /\ (state' = S_ALIVE \/ Waking(wakeup_reason') \/ due' = "copy")
          => age'.early
    <3>1. SUFFICES ASSUME age'.reason,
                          state' = S_ALIVE \/ Waking(wakeup_reason') \/ due' = "copy"
                   PROVE  age'.early
      OBVIOUS
    <3>2. age.reason /\ wakeup_reason' = wakeup_reason
      BY <1>1, <2>1, <3>1 DEF LifecycleFacts
    <3>3. age.early
      BY <1>1, <1>4, <3>1, <3>2 DEF OldInv, OldKnown, LifecycleFacts
    <3>4. Suspends => state' = S_ALIVE \/ Waking(wakeup_reason')
      BY <1>1, <3>1 DEF LifecycleFacts
    <3> QED
      BY <2>1, <3>3, <3>4
  <2>7. SleepIsDue' /\ (state' = S_ALIVE \/ Waking(wakeup_reason') \/ due' = "copy")
          => age'.early
    BY <1>1, <1>4, <2>1, <2>4 DEF OldInv, OldKnown, LifecycleFacts, SleepIsDue
  <2>8. SleepIsDue' /\ Running' /\ ~AfterSuspend' => up_wakeup_reason' = {} \/ age'.early
    BY <1>1, <1>4, <2>1, <2>2, <2>3, <2>4 DEF OldInv, OldKnown, LifecycleFacts
  <2>9. Waking(wakeup_reason)' = Waking(wakeup_reason')
    BY DEF Waking, ReasonState
  <2> QED
    BY <1>2, <2>5, <2>6, <2>7, <2>8, <2>9 DEF OldInv, OldKnown
<1> QED
  BY <1>3, <1>4

LEMMA CycleKeepsOld ==
  ASSUME TypeInv, HookInv, WhyInv, OldInv, [CycleNext]_cycleVars
  PROVE  OldInv'
<1>0. hook \in [pc : {"idle", "check", "stop", "touch", "remove", "asleep", "post", "over"},
                active_file : BOOLEAN,
                before : {"active", "inactive", "queued", "failed"}]
  BY DEF HookInv, HookTypeOK
<1>1. CASE Lifecycle
  BY <1>1, LifecycleKeepsOld
<1>2. CASE Sleep
  <2>1. /\ UNCHANGED <<vars, reqVars>> /\ Asleep /\ hook'.pc \in {"post", "over"}
    BY <1>0, <1>2 DEF Sleep, WakeUp, Asleep, HookAt
  <2>2. hook.pc = "asleep"
    BY <2>1 DEF Asleep, HookAt
  <2>3. suspend_job /\ SleepIsDue /\ ~SleepIsDue'
    BY <2>1, <2>2 DEF OldInv, JobKnown, SleepIsDue, Asleep, HookAt, BeforeSleep
  <2>4. age' = [age EXCEPT !.reason = age.told,
                           !.answer = age.told /\ up_wakeup_reason # {}]
    BY <1>2 DEF Sleep
  <2>5. age'.told = age.told /\ age'.early = age.early
        /\ (age'.answer => age.told /\ up_wakeup_reason # {})
    BY <2>4 DEF WhyInv, AgeTyped
  <2>6. JobKnown'
    BY <2>1, <2>3 DEF JobKnown, vars, notHb
  <2>7. OldKnown'
    BY <2>1, <2>3, <2>5
       DEF OldInv, OldKnown, NoOldAnswer, Running, AfterSuspend, vars, notHb, notLoop, wkVars,
           reqVars, Waking, ReasonState
  <2> QED
    BY <2>6, <2>7 DEF OldInv
<1>3. CASE JobStarts \/ HookStep \/ ThermaldRuns \/ User \/ UNCHANGED cycleVars
  <2>1. /\ UNCHANGED <<vars, reqVars, age>>
        /\ hook'.pc # "idle" => suspend_job
        /\ SleepIsDue' => SleepIsDue
    <3>1. CASE JobStarts
      BY <1>0, <3>1 DEF JobStarts, GoToSleep, SleepIsDue, BeforeSleep, Asleep, HookAt, vars, notHb
    <3>2. CASE HookStep
      <4>1. /\ hook.pc \in {"check", "stop", "touch", "remove", "post"}
            /\ hook.pc = "post" => hook'.pc = "over"
        BY <1>0, <3>2 DEF HookStep, Hook, HookCheck, HookStop, HookTouch, HookRemove, HookPost,
                          Fails, HookAt
      <4>2. suspend_job
        BY <4>1 DEF OldInv, JobKnown
      <4> QED
        BY <3>2, <4>1, <4>2 DEF HookStep, SleepIsDue, BeforeSleep, Asleep, HookAt, vars, notHb
    <3>3. CASE ThermaldRuns \/ User \/ UNCHANGED cycleVars
      <4>1. UNCHANGED <<vars, reqVars, age>> /\ hook'.pc = hook.pc
        BY <1>0, <3>3 DEF ThermaldRuns, Thermald, StartThermald, StartConfig,
                         StartWait, StartEnds, Failed, User, UserThermald, cycleVars
      <4> QED
        BY <4>1 DEF OldInv, JobKnown, SleepIsDue, BeforeSleep, Asleep, HookAt, vars, notHb
    <3> QED
      BY <1>3, <3>1, <3>2, <3>3
  <2> QED
    BY <2>1
       DEF OldInv, JobKnown, OldKnown, NoOldAnswer, Running, AfterSuspend, vars, notHb, notLoop,
           wkVars, reqVars, Waking, ReasonState
<1>4. CASE JobEnds
  <2>1. /\ hb' = hb /\ due' = due /\ age' = age /\ up_wakeup_reason' = up_wakeup_reason
        /\ state' = state /\ wakeup_reason' = wakeup_reason /\ suspend_job' = FALSE
    BY <1>4 DEF JobEnds, SuspendJobEnds, loopOnly, wkVars, reqVars
  <2>2. hook'.pc = "idle"
    BY <1>0, <1>4 DEF JobEnds
  <2> QED
    BY <2>1, <2>2
       DEF OldInv, JobKnown, OldKnown, NoOldAnswer, Running, AfterSuspend, SleepIsDue, Waking,
           ReasonState
<1> QED
  BY <1>1, <1>2, <1>3, <1>4 DEF CycleNext

LEMMA OldInvariant == CycleSpec => []OldInv
<1>1. CycleInit => OldInv
  <2> SUFFICES ASSUME CycleInit PROVE OldInv
    OBVIOUS
  <2>1. PICK s \in Setups :
          /\ RequestsInit(s.asks) /\ HookInit(s.thermald)
          /\ age = [told |-> s.ages, reason |-> FALSE, answer |-> FALSE,
                    early |-> FALSE, overtaken |-> FALSE]
    BY DEF CycleInit
  <2>2. hook.pc = "idle" /\ ~suspend_job /\ ~age.reason /\ ~age.answer
    BY <2>1 DEF RequestsInit, Init, HookInit
  <2> QED
    BY <2>2 DEF OldInv, JobKnown, OldKnown, NoOldAnswer, SleepIsDue
<1>2. TypeInv /\ HookInv /\ WhyInv /\ OldInv /\ [CycleNext]_cycleVars => OldInv'
  BY CycleKeepsOld
<1> QED
  BY <1>1, <1>2, LifecycleInvariants, HookInvariant, WhyInvariant, PTL DEF CycleSpec

\* After a suspend no VM is told why the machine was up before it, unless the IOC
\* had sent a reason to be awake before the machine slept.
THEOREM OldAnswersAreForgotten == CycleSpec => []NoOldAnswer
<1>1. OldInv => NoOldAnswer
  BY DEF OldInv, OldKnown, NoOldAnswer
<1> QED
  BY <1>1, OldInvariant, PTL

----------------------------------------------------------------------------
(* Types *)

ReasonTyped == up_wakeup_reason \in Reasons \cup {{}}

LEMMA ReasonTypedInvariant == CycleSpec => []ReasonTyped
<1>1. CycleInit => ReasonTyped
  BY DEF CycleInit, RequestsInit, ReasonTyped
<1>2. TypeInv /\ WhyInv /\ ReasonTyped /\ [CycleNext]_cycleVars => ReasonTyped'
  <2> SUFFICES ASSUME TypeInv, WhyInv, ReasonTyped, [CycleNext]_cycleVars
               PROVE  up_wakeup_reason' \in {up_wakeup_reason, wakeup_reason, {}}
    BY DEF ReasonTyped, TypeInv, TypeOK
  <2>1. CASE Lifecycle
    BY <2>1 DEF Lifecycle, RefinedLoop, WriteRtc, ClearRtc, LoopStep, CopyReason, ResetReason,
                AskRtc, StoreByte, StoreFlag, OtherRequests, OtherThreads, reqVars
  <2>2. CASE ~Lifecycle
    BY <2>2 DEF CycleNext, JobStarts, HookStep, Sleep, JobEnds, ThermaldRuns, User, cycleVars,
                reqVars
  <2> QED
    BY <2>1, <2>2
<1> QED
  BY <1>1, <1>2, LifecycleInvariants, WhyInvariant, PTL DEF CycleSpec

\* Type correctness of the cycle: every byte of the frame is a byte, whatever time
\* a VM asks for.
THEOREM CycleTyped == CycleSpec => []CycleTypeOK
<1>1. TypeInv /\ TimerInv /\ HookInv /\ WhyInv /\ ReasonTyped => CycleTypeOK
  BY DEF TypeInv, TimerInv, RtcTyped, HookInv, WhyInv, AgeTyped, DuePlace, ReasonTyped,
         CycleTypeOK, RequestsTypeOK
<1> QED
  BY <1>1, LifecycleInvariants, TimerInvariant, HookInvariant, WhyInvariant,
     ReasonTypedInvariant, PTL
=============================================================================
