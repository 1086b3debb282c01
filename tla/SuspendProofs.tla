--------------------------- MODULE SuspendProofs ---------------------------
(***************************************************************************)
(* The theorems of CbcLifecycle hold of the service with the requests of   *)
(* VMs, the sleep and the script in all their detail; what the frames of   *)
(* timers are made of, and when a timer is lost; thermald is as it was.    *)
(***************************************************************************)
EXTENDS SuspendCycle, PowerProtocolProofs, CbcTimerProofs

----------------------------------------------------------------------------
(* The refinement *)

LEMMA InitIsInit == CycleInit => Init
BY DEF CycleInit, RequestsInit

\* Every step of the cycle is a step of the service, or none.
LEMMA StepIsStep == CycleNext => [Next]_vars
<1> SUFFICES ASSUME CycleNext PROVE [Next]_vars
  OBVIOUS
<1>1. CASE Lifecycle
  <2>1. CASE WriteRtc \/ AskRtc \/ StoreByte \/ CopyReason \/ ResetReason
    <3>1. UNCHANGED vars
      BY <2>1 DEF WriteRtc, AskRtc, StoreByte, CopyReason, ResetReason
    <3> QED
      BY <3>1
  <2>2. CASE ClearRtc
    BY <2>2 DEF ClearRtc, Next, HeartbeatLoop
  <2>3. CASE LoopStep
    BY <2>3 DEF LoopStep, Next
  <2>4. CASE StoreFlag
    BY <2>4 DEF StoreFlag, Next, Environment
  <2>5. CASE OtherRequests
    BY <2>5 DEF OtherRequests, Next, Environment, LcsServer
  <2>6. CASE OtherThreads
    BY <2>6 DEF OtherThreads, Next, Environment, LcsServer
  <2> QED
    BY <1>1, <2>1, <2>2, <2>3, <2>4, <2>5, <2>6 DEF Lifecycle, RefinedLoop
<1>2. CASE JobEnds
  BY <1>2 DEF JobEnds, Next
<1>3. CASE JobStarts \/ HookStep \/ Sleep \/ ThermaldRuns \/ User
  <2>1. UNCHANGED vars
    BY <1>3 DEF JobStarts, HookStep, Sleep, ThermaldRuns, User
  <2> QED
    BY <2>1
<1> QED
  BY <1>1, <1>2, <1>3 DEF CycleNext

LEMMA StutterIsStutter == UNCHANGED cycleVars => [Next]_vars
BY DEF cycleVars

\* So what is proved of every behaviour of the service holds of it here.  That is how
\* the actions are composed, and no claim about the code.
LEMMA CycleIsLifecycle == CycleSpec => Init /\ [][Next]_vars
<1>1. [CycleNext]_cycleVars => [Next]_vars
  BY StepIsStep, StutterIsStutter
<1> QED
  BY <1>1, InitIsInit, PTL DEF CycleSpec

LEMMA LifecycleInvariants == CycleSpec => [](TypeInv /\ GrantInv)
BY CycleIsLifecycle, InitTyped, NextTyped, InitGrants, NextKeepsGrants, PTL

\* So it suspends the machine, with or without a timer, only when that was agreed
\* to or assumed, and no request of a VM, nor the sleep, changes that.
THEOREM CycleActionsAreGranted == CycleSpec => []PowerActionGranted
BY GrantsMean, LifecycleInvariants, PTL

\* And so it keeps the abstract protocol over any number of suspends.
THEOREM CycleKeepsPromise == CycleSpec => ImplementsPowerProtocol
BY CycleIsLifecycle, LifecycleInvariants, InitPromised, NextPromised, PTL
   DEF ImplementsPowerProtocol, Promise!Spec

\* So are all the other invariants of the service: what it tells the IOC is agreed and
\* done, its attempts are counted, the delay is its own.  The steps of the requests and
\* the sleep, which take place within those of the loop, disturb none of them.
ServiceInvariants == /\ HeartbeatGranted /\ ToldIsDone /\ DelayOwned
                     /\ DelayJustified /\ AssumeAfterAllRetries /\ ResumeBounded

THEOREM CycleKeepsInvariants == CycleSpec => []ServiceInvariants
<1>1. TypeInv /\ GrantInv /\ RetryInv /\ ToldKnown => ServiceInvariants
  <2> SUFFICES ASSUME TypeInv, GrantInv, RetryInv, ToldKnown PROVE ServiceInvariants
    OBVIOUS
  <2>1. HeartbeatGranted /\ DelayOwned
    BY GrantsMean
  <2>2. ToldIsDone
    BY DEF ToldKnown, ToldIsDone
  <2> QED
    BY <2>1, <2>2, CountsMean DEF ServiceInvariants
<1> QED
  BY <1>1, CycleIsLifecycle, InitTyped, NextTyped, InitGrants, NextKeepsGrants, InitRetries,
     NextKeepsRetries, InitTold, NextKeepsTold, PTL

\* A grant is earned in the same ways.
THEOREM CycleGrantsAreEarned == CycleSpec => GrantsEarned
<1>1. TypeInv /\ GrantInv /\ RetryInv /\ SelfAnswer /\ [Next]_vars
        => [\A k \in granted' \ granted : Earned(k)]_vars
  BY OnlyThreeGrant
<1> QED
  BY <1>1, CycleIsLifecycle, InitTyped, NextTyped, InitGrants, NextKeepsGrants, InitRetries,
     NextKeepsRetries, InitSelfAnswer, SelfAnswerKept, PTL DEF GrantsEarned

----------------------------------------------------------------------------
(* The script and thermald *)

\* Thermald was neither running nor about to when the machine slept, unless a
\* start was queued when the script looked.
SleepsQuietly == Active \/ thermald.queued <=> hook.before = "queued"

\* What the script knows at each of its steps, unless a command failed; the file
\* is this suspend's own from the moment the machine sleeps.
HookKnown ==
    /\ ~Installed => ~thermald.queued /\ hook.pc \in {"idle", "asleep", "over"}
    /\ HookAt("idle") => hook.before = "inactive"
    /\ HookAt("stop") => hook.before \in {"active", "failed"}
    /\ HookAt("touch") => /\ hook.before \in {"active", "failed"}
                          /\ ~Active /\ ~thermald.queued
    /\ HookAt("remove") /\ hook.before # "failed" =>
         hook.before # "active" /\ SleepsQuietly
    /\ hook.pc \in {"asleep", "post"} /\ hook.before # "failed" =>
         /\ SleepsQuietly
         /\ IF Installed THEN hook.active_file <=> hook.before = "active"
                         ELSE hook.before = "inactive"
    /\ ThermaldAsBefore

HookInv == HookTypeOK /\ HookKnown

LEMMA HookInitInv == CycleInit => HookInv
<1> SUFFICES ASSUME CycleInit PROVE HookInv
  OBVIOUS
<1>1. PICK u \in Units : HookInit(u)
  BY SetupsAssumption DEF CycleInit
<1>2. HookTypeOK
  BY <1>1 DEF HookInit, HookTypeOK
<1>3. HookKnown
  BY <1>1 DEF HookInit, HookKnown, HookAt, ThermaldAsBefore, Installed
<1> QED
  BY <1>2, <1>3 DEF HookInv

\* Whatever else runs, the script and systemd keep it.
LEMMA HookStepInv ==
  ASSUME HookInv,
         \/ Hook \/ GoToSleep \/ WakeUp \/ Thermald \/ UserThermald
         \/ /\ HookAt("over")
            /\ hook' = [hook EXCEPT !.pc = "idle", !.before = "inactive"]
            /\ UNCHANGED thermald
         \/ UNCHANGED hookVars
  PROVE  HookInv'
<1> USE DEF HookInv
<1>1. CASE HookCheck
  BY <1>1 DEF HookCheck, HookTypeOK, HookKnown, HookAt, ThermaldAsBefore, Installed,
              Active, StartSteps, SleepsQuietly, Units
<1>2. CASE HookStop
  BY <1>2 DEF HookStop, Fails, HookTypeOK, HookKnown, HookAt, ThermaldAsBefore,
              Installed, Active, StartSteps, SleepsQuietly, Units
<1>3. CASE HookTouch
  BY <1>3 DEF HookTouch, Fails, HookTypeOK, HookKnown, HookAt, ThermaldAsBefore,
              Installed, Active, StartSteps, SleepsQuietly, Units
<1>4. CASE HookRemove
  BY <1>4 DEF HookRemove, Fails, HookTypeOK, HookKnown, HookAt, ThermaldAsBefore,
              Installed, Active, StartSteps, SleepsQuietly, Units
<1>5. CASE HookPost
  BY <1>5 DEF HookPost, Fails, HookTypeOK, HookKnown, HookAt, ThermaldAsBefore,
              Installed, Active, StartSteps, SleepsQuietly, Units
<1>6. CASE GoToSleep
  BY <1>6 DEF GoToSleep, HookTypeOK, HookKnown, HookAt, ThermaldAsBefore, Installed,
              Active, StartSteps, SleepsQuietly, Units
<1>7. CASE WakeUp
  BY <1>7 DEF WakeUp, HookTypeOK, HookKnown, HookAt, ThermaldAsBefore, Installed,
              Active, StartSteps, SleepsQuietly, Units
<1>8. CASE StartThermald
  BY <1>8 DEF StartThermald, Failed, HookTypeOK, HookKnown, HookAt, ThermaldAsBefore,
              Installed, Active, StartSteps, SleepsQuietly, Units
<1>9. CASE UserThermald
  BY <1>9 DEF UserThermald, HookTypeOK, HookKnown, HookAt, ThermaldAsBefore,
              Installed, Active, StartSteps, SleepsQuietly, Units
<1>10. CASE /\ HookAt("over")
            /\ hook' = [hook EXCEPT !.pc = "idle", !.before = "inactive"]
            /\ UNCHANGED thermald
  BY <1>10 DEF HookTypeOK, HookKnown, HookAt, ThermaldAsBefore, Installed, Active,
               StartSteps, SleepsQuietly, Units
<1>11. CASE UNCHANGED hookVars
  BY <1>11 DEF hookVars, HookTypeOK, HookKnown, HookAt, ThermaldAsBefore, Installed,
               Active, StartSteps, SleepsQuietly, Units
<1>12. CASE StartConfig \/ StartWait
  BY <1>12 DEF StartConfig, StartWait, HookTypeOK, HookKnown, HookAt, ThermaldAsBefore,
               Installed, Active, StartSteps, SleepsQuietly, Units
<1>13. CASE StartEnds
  BY <1>13 DEF StartEnds, Failed, HookTypeOK, HookKnown, HookAt, ThermaldAsBefore,
               Installed, Active, StartSteps, SleepsQuietly, Units
<1> QED
  BY <1>1, <1>2, <1>3, <1>4, <1>5, <1>6, <1>7, <1>8, <1>9, <1>10, <1>11, <1>12, <1>13
     DEF Hook, Thermald

LEMMA HookInvariant == CycleSpec => []HookInv
<1>1. HookInv /\ [CycleNext]_cycleVars => HookInv'
  <2> SUFFICES ASSUME HookInv, [CycleNext]_cycleVars PROVE HookInv'
    OBVIOUS
  <2>1. CASE Lifecycle
    BY <2>1, HookStepInv DEF Lifecycle
  <2>2. CASE JobStarts \/ HookStep \/ Sleep \/ ThermaldRuns \/ User
    BY <2>2, HookStepInv DEF JobStarts, HookStep, Sleep, ThermaldRuns, User
  <2>3. CASE JobEnds
    BY <2>3, HookStepInv DEF JobEnds
  <2>4. CASE UNCHANGED cycleVars
    BY <2>4, HookStepInv DEF cycleVars, hookVars
  <2> QED
    BY <2>1, <2>2, <2>3, <2>4 DEF CycleNext
<1> QED
  BY <1>1, HookInitInv, PTL DEF CycleSpec

\* Thermald runs, or is started, after a suspend if and only if it was before it,
\* through any number of suspends and failures of earlier ones.
THEOREM ThermaldIsAsBefore == CycleSpec => []ThermaldAsBefore
<1>1. HookInv => ThermaldAsBefore
  BY DEF HookInv, HookKnown
<1> QED
  BY <1>1, HookInvariant, PTL

\* The machine does not sleep with thermald running unless something failed or a
\* start was queued.
THEOREM SleepIsWithoutThermald == CycleSpec => []SleepsWithoutThermald
<1>1. HookInv => SleepsWithoutThermald
  BY DEF HookInv, HookKnown, HookAt, SleepsQuietly, SleepsWithoutThermald
<1> QED
  BY <1>1, HookInvariant, PTL

----------------------------------------------------------------------------
(* Timers *)

\* The last request; 0 is for none yet.
IsTimer(t) == t = 0 \/ (t \in Times /\ Supported(ToInt(t)))

\* Each byte is that of the last request once it is stored, of the one before until
\* then; the flag is stored, or still to be, or to be lost while the loop sends.
TimerKnown ==
    /\ \A x \in Bytes :
         rtc.frame[x] = Made(IF x \in rtc.todo THEN rtc.before ELSE rtc.asked)[x]
    /\ IsTimer(rtc.asked) /\ IsTimer(rtc.before)
    /\ due = "clear" /\ rtc.owed => rtc.overlap
    /\ rtc.todo # {} /\ "flag" \notin rtc.todo => cbc_rtc_set \/ rtc.overlap
    /\ due = "clear" /\ rtc.todo # {} /\ "flag" \notin rtc.todo => rtc.overlap
    /\ TimersNotLost

RtcTyped == rtc \in [frame : Frames, todo : SUBSET Stores, left : Seq(Times),
                     asked : Nat, before : Nat, owed : BOOLEAN, overlap : BOOLEAN]

TimerInv == RtcTyped /\ TimerKnown

LEMMA CountTyped ==
  ASSUME NEW t \in Times, Supported(ToInt(t))
  PROVE  ToInt(t) \in Nat
<1>1. t \in Nat /\ IntWidth \in Nat \ {0}
  BY TimesAssumption, IntWidthAssumption
<1>2. ToInt(t) \in Int
  BY <1>1 DEF ToInt
<1> QED
  BY <1>2 DEF Supported

LEMMA MadeTyped ==
  ASSUME NEW t, IsTimer(t)
  PROVE  t \in Nat /\ Made(t) \in Frames
<1>1. CASE t = 0
  BY <1>1, ByteAssumption DEF Made, NoTimer, Frames, Grans
<1>2. CASE t # 0
  <2>1. t \in Times /\ Supported(ToInt(t))
    BY <1>2 DEF IsTimer
  <2>2. ToInt(t) \in Nat
    BY <2>1, CountTyped
  <2>3. Frame(ToInt(t)) \in Frames
    BY <2>1, <2>2, FrameHoldsCount DEF Frames
  <2> QED
    BY <1>2, <2>1, <2>3, TimesAssumption DEF Made
<1> QED
  BY <1>1, <1>2

\* The steps of the service that do not touch the timer.
LEMMA OthersLeaveTimer ==
  ASSUME \/ HeartbeatLoop /\ ~At("rtc")
         \/ OtherRequests \/ OtherThreads \/ SuspendJobEnds,
         hb \in LoopLocals
  PROVE  cbc_rtc_set' = cbc_rtc_set
<1>1. CASE HeartbeatLoop /\ ~At("rtc")
  <2>1. ASSUME NEW s, NEW p, NEW b, Read(s, p, b), p # "rtc"
        PROVE  cbc_rtc_set' = cbc_rtc_set /\ ~At("rtc")'
    BY <2>1 DEF Read, LoopLocals, At
  <2>2. ASSUME NEW h, Local(h), h.pc = "rtc" => cbc_rtc_set
        PROVE  cbc_rtc_set' = cbc_rtc_set /\ (At("rtc")' => cbc_rtc_set)
    BY <2>2 DEF Local, notHb, At
  <2>3. CASE LoopDefault \/ LoopAlive \/ LoopShutdown \/ LoopDelay \/ LoopAcrnd \/ LoopOff
    BY <2>1, <2>3 DEF LoopDefault, LoopAlive, LoopShutdown, LoopDelay, LoopAcrnd, LoopOff
  <2>4. CASE LoopStart \/ ExecFinal \/ PollState \/ PollJobs
    BY <2>2, <2>4 DEF LoopStart, ExecFinal, PollState, PollJobs, LoopLocals
  <2>5. CASE Decide
    BY <2>2, <2>5 DEF Decide, LoopLocals
  <2>6. CASE SendStart \/ EnterDelay \/ SendFirstStop \/ SendStop \/ AssumeSuspend
             \/ ExecSuspend \/ Back \/ SendHeartbeat \/ Wait
    BY <2>6 DEF SendStart, EnterDelay, SendFirstStop, SendStop, AssumeSuspend,
                ExecSuspend, Back, SendHeartbeat, Beat, Wait, At, LoopLocals
  <2>7. ~RtcSent
    BY <1>1 DEF RtcSent
  <2> QED
    BY <1>1, <2>3, <2>4, <2>5, <2>6, <2>7 DEF HeartbeatLoop
<1>2. CASE OtherRequests \/ SuspendJobEnds
  BY <1>2 DEF OtherRequests, RequestFromAcrnd, RequestFromSelf, SuspendJobEnds,
              loopOnly, At
<1>3. CASE OtherThreads
  <2>1. CASE Sigterm
    BY <2>1 DEF Sigterm, Local, notHb, At, LoopLocals
  <2> QED
    BY <1>3, <2>1 DEF OtherThreads, WakeupThread, TransitReason, PostReason, SetForceS5,
                      PostRequest, HandleStop, ReadReason, loopOnly, At
<1> QED
  BY <1>1, <1>2, <1>3

LEMMA TimerInitInv == CycleInit => TimerInv
<1> SUFFICES ASSUME CycleInit PROVE TimerInv
  OBVIOUS
<1>1. PICK asks \in Seq(Times) : RequestsInit(asks)
  BY SetupsAssumption DEF CycleInit
<1>2. NoTimer \in Frames
  BY ByteAssumption DEF NoTimer, Frames, Grans
<1>3. RtcTyped
  BY <1>1, <1>2 DEF RequestsInit, RtcTyped
<1>4. TimerKnown
  BY <1>1 DEF RequestsInit, TimerKnown, TimersNotLost, IsTimer, Made, NoTimer, Bytes
<1> QED
  BY <1>3, <1>4 DEF TimerInv

LEMMA TimerStepInv ==
  ASSUME TimerInv, hb \in LoopLocals, CycleNext \/ UNCHANGED cycleVars
  PROVE  TimerInv'
<1> USE DEF TimerInv
<1>1. CASE AskRtc
  <2> DEFINE t == Head(rtc.left)
             n == Tail(rtc.left)
  <2>1. t \in Times /\ n \in Seq(Times)
    BY <1>1 DEF AskRtc, RtcTyped
  <2>2. UNCHANGED <<vars, due>> /\ rtc.todo = {}
    BY <1>1 DEF AskRtc, HandlerIdle
  <2>3. rtc' = IF Supported(ToInt(t))
               THEN [rtc EXCEPT !.todo = Stores, !.left = n, !.asked = t,
                                !.before = rtc.asked, !.owed = FALSE, !.overlap = FALSE]
               ELSE [rtc EXCEPT !.left = n]
    BY <1>1 DEF AskRtc
  <2> HIDE DEF t, n
  <2>4. CASE ~Supported(ToInt(t))
    <3>1. /\ rtc'.todo = rtc.todo /\ rtc'.owed = rtc.owed /\ rtc'.overlap = rtc.overlap
          /\ rtc'.frame = rtc.frame /\ rtc'.asked = rtc.asked /\ rtc'.before = rtc.before
          /\ RtcTyped'
      BY <2>1, <2>3, <2>4 DEF RtcTyped
    <3> QED
      BY <2>2, <3>1 DEF TimerKnown, TimersNotLost, vars, notHb
  <2>5. CASE Supported(ToInt(t))
    <3>1. t \in Nat /\ IsTimer(t)
      BY <2>1, <2>5, TimesAssumption DEF IsTimer
    <3>2. /\ rtc'.todo = Stores /\ ~rtc'.owed /\ Bytes \subseteq Stores /\ "flag" \in Stores
          /\ rtc'.frame = rtc.frame /\ rtc'.asked = t /\ rtc'.before = rtc.asked
      BY <2>3, <2>5 DEF RtcTyped, Bytes, Stores
    <3>3. RtcTyped'
      <4>1. rtc.asked \in Nat /\ Stores \in SUBSET Stores
        BY DEF RtcTyped
      <4> QED
        BY <2>1, <2>3, <2>5, <3>1, <4>1 DEF RtcTyped
    <3>4. \A x \in Bytes : rtc.frame[x] = Made(rtc.asked)[x]
      BY <2>2 DEF TimerKnown
    <3>5. IsTimer(rtc.asked)
      BY DEF TimerKnown
    <3> QED
      BY <2>2, <3>1, <3>2, <3>3, <3>4, <3>5 DEF TimerKnown, TimersNotLost
  <2> QED
    BY <2>4, <2>5
<1>2. CASE StoreByte
  <2>1. PICK x \in rtc.todo \cap Bytes :
          rtc' = [Stored(x) EXCEPT !.frame = [rtc.frame EXCEPT ![x] = Made(rtc.asked)[x]]]
    BY <1>2 DEF StoreByte
  <2>2. UNCHANGED <<vars, due>>
    BY <1>2 DEF StoreByte
  <2> DEFINE f == [rtc.frame EXCEPT ![x] = Made(rtc.asked)[x]]
  <2>3. IsTimer(rtc.asked) /\ IsTimer(rtc.before) /\ Made(rtc.asked) \in Frames
    BY MadeTyped DEF TimerKnown
  <2>4. f \in Frames
    BY <2>1, <2>3 DEF RtcTyped, Frames, Bytes
  <2>5. rtc' = [Stored(x) EXCEPT !.frame = f]
    BY <2>1
  <2>6. \A y \in Bytes : f[y] = IF y = x THEN Made(rtc.asked)[y] ELSE rtc.frame[y]
    BY <2>1 DEF RtcTyped, Frames, Bytes
  <2> HIDE DEF f
  <2>7. /\ rtc'.frame = f /\ rtc'.todo = rtc.todo \ {x}
        /\ rtc'.asked = rtc.asked /\ rtc'.before = rtc.before
        /\ rtc'.owed = (rtc.todo = {x}) /\ rtc'.overlap = (rtc.overlap \/ due = "clear")
    BY <2>5 DEF Stored, RtcTyped
  <2>8. RtcTyped'
    BY <2>4, <2>5 DEF Stored, RtcTyped
  <2>9. \A y \in Bytes :
          rtc'.frame[y] = Made(IF y \in rtc'.todo THEN rtc'.before ELSE rtc'.asked)[y]
    <3> SUFFICES ASSUME NEW y \in Bytes
                 PROVE  f[y] = Made(IF y \in rtc.todo \ {x} THEN rtc.before
                                    ELSE rtc.asked)[y]
      BY <2>7
    <3>1. CASE y = x
      BY <2>6, <3>1
    <3>2. CASE y # x
      BY <2>6, <3>2 DEF TimerKnown
    <3> QED
      BY <3>1, <3>2
  <2>10. "flag" \in rtc.todo <=> "flag" \in rtc'.todo
    BY <2>1, <2>7 DEF Bytes
  <2> QED
    BY <2>1, <2>2, <2>3, <2>7, <2>8, <2>9, <2>10 DEF TimerKnown, TimersNotLost, vars, notHb
<1>3. CASE StoreFlag
  <2>1. "flag" \in rtc.todo /\ cbc_rtc_set' = TRUE /\ due' = due /\ rtc' = Stored("flag")
    BY <1>3 DEF StoreFlag, HandleRtc
  <2>2. /\ rtc'.frame = rtc.frame /\ rtc'.todo = rtc.todo \ {"flag"}
        /\ rtc'.asked = rtc.asked /\ rtc'.before = rtc.before
        /\ rtc'.overlap = (rtc.overlap \/ due = "clear")
    BY <2>1 DEF Stored, RtcTyped
  <2>3. RtcTyped'
    BY <2>1, <2>2 DEF Stored, RtcTyped
  <2>4. \A y \in Bytes : y \in rtc'.todo <=> y \in rtc.todo
    BY <2>2 DEF Bytes
  <2> QED
    BY <2>1, <2>2, <2>3, <2>4 DEF TimerKnown, TimersNotLost
<1>4. CASE WriteRtc
  BY <1>4 DEF WriteRtc, HandlerIdle, RtcTyped, TimerKnown, TimersNotLost, vars, notHb
<1>5. CASE ClearRtc
  <2>1. /\ due = "clear" /\ due' = "none" /\ cbc_rtc_set' = FALSE
        /\ rtc' = [rtc EXCEPT !.overlap = rtc.overlap \/ ~HandlerIdle]
    BY <1>5 DEF ClearRtc, RtcSent
  <2> QED
    BY <2>1 DEF HandlerIdle, RtcTyped, TimerKnown, TimersNotLost
<1>6. CASE LoopStep \/ OtherRequests \/ OtherThreads \/ JobEnds
  <2>1. /\ cbc_rtc_set' = cbc_rtc_set
        /\ rtc' = rtc /\ (due' = "clear" => due = "clear")
    BY <1>6, OthersLeaveTimer DEF LoopStep, OtherRequests, OtherThreads, JobEnds, reqVars
  <2> QED
    BY <2>1 DEF RtcTyped, TimerKnown, TimersNotLost
<1>7. CASE \/ CopyReason \/ ResetReason \/ JobStarts \/ HookStep \/ Sleep
           \/ ThermaldRuns \/ User \/ UNCHANGED cycleVars
  <2>1. cbc_rtc_set' = cbc_rtc_set /\ rtc' = rtc /\ (due' = "clear" => due = "clear")
    BY <1>7 DEF CopyReason, ResetReason, JobStarts, HookStep, Sleep, ThermaldRuns, User,
                cycleVars, reqVars, vars, notHb
  <2> QED
    BY <2>1 DEF RtcTyped, TimerKnown, TimersNotLost
<1> QED
  BY <1>1, <1>2, <1>3, <1>4, <1>5, <1>6, <1>7 DEF CycleNext, Lifecycle, RefinedLoop

LEMMA TimerInvariant == CycleSpec => []TimerInv
<1>1. TimerInv /\ TypeInv /\ [CycleNext]_cycleVars => TimerInv'
  BY TimerStepInv DEF TypeInv, TypeOK
<1> QED
  BY <1>1, TimerInitInv, LifecycleInvariants, PTL DEF CycleSpec

\* A timer a VM was told is accepted waits for the loop, unless its stores met the
\* loop sending the one before.
THEOREM TimersAreNotLost == CycleSpec => []TimersNotLost
<1>1. TimerInv => TimersNotLost
  BY DEF TimerInv, TimerKnown
<1> QED
  BY <1>1, TimerInvariant, PTL

\* The frame of a request is in time for it, whatever an int keeps of its seconds.
LEMMA MadeInTime ==
  ASSUME NEW t, IsTimer(t)
  PROVE  InTime(Made(t), t)
<1>1. CASE t = 0
  <2>1. IsInt(0)
    BY IntWidthAssumption DEF IsInt
  <2>2. Made(0) = NoTimer /\ FrameCount(NoTimer) = 0 /\ NoTimer.gran = 0
    BY ByteAssumption DEF Made, NoTimer, FrameCount
  <2>3. Unit(0) = 1
    BY DEF Unit
  <2> QED
    BY <1>1, <2>1, <2>2, <2>3 DEF InTime, Wakes
<1>2. CASE t # 0
  <2>1. t \in Times /\ Supported(ToInt(t)) /\ Made(t) = Frame(ToInt(t))
    BY <1>2 DEF IsTimer, Made
  <2>2. Wakes(Frame(ToInt(t)), ToInt(t))
    BY <2>1, CountTyped, TimersRoundDown
  <2>3. IsInt(t) => ToInt(t) = t
    BY <2>1, ToIntKeeps, TimesAssumption
  <2> QED
    BY <2>1, <2>2, <2>3 DEF InTime
<1> QED
  BY <1>1, <1>2

\* Only the bytes of a frame matter to the IOC.
LEMMA SameBytesInTime ==
  ASSUME NEW f, NEW g, NEW t, InTime(g, t), \A x \in Bytes : f[x] = g[x]
  PROVE  InTime(f, t)
<1>1. f.lo = g.lo /\ f.hi = g.hi /\ f.gran = g.gran
  BY DEF Bytes
<1> QED
  BY <1>1 DEF InTime, Wakes, FrameCount

\* Whatever the loop is about to send, at whatever point of a request and whichever
\* order its stores have, is made of the request and the one before alone, byte by
\* byte; with none or all of the bytes stored it is the frame of one of them, and in
\* time for it, for every limit, every scale and every width of an int.
THEOREM TimersAreAsAsked == CycleSpec => []TimerAsAsked
<1>1. TimerInv => TimerAsAsked
  <2> SUFFICES ASSUME TimerInv PROVE TimerAsAsked
    OBVIOUS
  <2>1. \A x \in Bytes :
          rtc.frame[x] = Made(IF x \in rtc.todo THEN rtc.before ELSE rtc.asked)[x]
    BY DEF TimerInv, TimerKnown
  <2>2. InTime(Made(rtc.asked), rtc.asked) /\ InTime(Made(rtc.before), rtc.before)
    BY MadeInTime DEF TimerInv, TimerKnown
  <2>3. Bytes \cap rtc.todo = {} => InTime(rtc.frame, rtc.asked)
    <3> SUFFICES ASSUME Bytes \cap rtc.todo = {} PROVE InTime(rtc.frame, rtc.asked)
      OBVIOUS
    <3>1. \A x \in Bytes : rtc.frame[x] = Made(rtc.asked)[x]
      BY <2>1
    <3> QED
      BY <2>2, <3>1, SameBytesInTime
  <2>4. Bytes \subseteq rtc.todo => InTime(rtc.frame, rtc.before)
    <3> SUFFICES ASSUME Bytes \subseteq rtc.todo PROVE InTime(rtc.frame, rtc.before)
      OBVIOUS
    <3>1. \A x \in Bytes : rtc.frame[x] = Made(rtc.before)[x]
      BY <2>1
    <3> QED
      BY <2>2, <3>1, SameBytesInTime
  <2> QED
    BY <2>1, <2>3, <2>4 DEF TimerAsAsked
<1> QED
  BY <1>1, TimerInvariant, PTL
=============================================================================
