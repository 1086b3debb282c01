------------------------ MODULE CbcLifecycleProofs ------------------------
(***************************************************************************)
(* Type correctness of the life cycle service, that it carries out, and    *)
(* announces, only power actions that were granted, and does what it told  *)
(* the IOC, for every number of retries greater than one and whatever the  *)
(* IOC and acrnd send; where the grants come from; and what holds in the   *)
(* place of two comments the code does not keep.                           *)
(***************************************************************************)
EXTENDS CbcLifecycleClaims, TLAPS

Assumptions == /\ IsAcrn \in BOOLEAN
               /\ RetryCnt \in Nat /\ RetryCnt > 1
               /\ Reasons \subseteq SUBSET (0..23)
               /\ Answers \subseteq Requests \X BOOLEAN
               /\ SemMax \in Nat /\ SemMax > 0
               /\ TermBeats \subseteq {"none", "reboot", "shutdown"}

LEMMA ConstantsTyped == Assumptions
BY IsAcrnAssumption, RetryCntAssumption, ReasonsAssumption, AnswersAssumption,
   SemMaxAssumption, TermBeatsAssumption DEF Assumptions

\* state_transit leads to a state, the old one or the one asked for.
LEMMA TransitTyped ==
  ASSUME NEW new \in States, state \in States, Transit(new)
  PROVE  state' \in States /\ state' \in {state, new}
BY DEF Transit

LEMMA RequestStates ==
  ASSUME NEW k \in Requests
  PROVE  /\ AcrndState(k) \in States \ {S_DEFAULT, S_ALIVE, S_SHUTDOWN,
                                        S_SHUTDOWN_DELAY, S_IOC_SHUTDOWN}
         /\ AcrndBeat(k) \in Heartbeats \ {"none", "init", "active", "shutdown_delay"}
         /\ \A j \in Requests : AcrndState(j) = AcrndState(k) => j = k
         /\ \A j \in Requests : AcrndBeat(j) = AcrndBeat(k) => j = k
BY DEF Requests, AcrndState, AcrndBeat, States, Heartbeats, S_DEFAULT, S_ALIVE,
       S_SHUTDOWN, S_SHUTDOWN_DELAY, S_ACRND_SHUTDOWN, S_IOC_SHUTDOWN,
       S_ACRND_REBOOT, S_ACRND_SUSPEND

\* The states are distinct members of States.
LEMMA StateNames ==
  /\ S_DEFAULT \in States /\ S_ALIVE \in States /\ S_SHUTDOWN \in States
  /\ S_SHUTDOWN_DELAY \in States /\ S_IOC_SHUTDOWN \in States
  /\ S_ACRND_SHUTDOWN \in States /\ S_ACRND_REBOOT \in States
  /\ S_ACRND_SUSPEND \in States
BY DEF States

\* A log stays a log when an attempt succeeds or fails.
LEMMA LogsTyped ==
  ASSUME NEW a \in StopLogs, NEW b \in StartLogs
  PROVE  /\ [a EXCEPT !.acked = TRUE] \in StopLogs
         /\ [a EXCEPT !.lost = TRUE] \in StopLogs
         /\ [a EXCEPT !.fails = a.fails + 1] \in StopLogs
         /\ [b EXCEPT !.acked = TRUE] \in StartLogs
         /\ [b EXCEPT !.fails = b.fails + 1] \in StartLogs
         /\ NoStops \in StopLogs /\ NoStarts \in StartLogs
<1>1. [a EXCEPT !.acked = TRUE] \in StopLogs
  BY DEF StopLogs
<1>2. [a EXCEPT !.lost = TRUE] \in StopLogs
  BY DEF StopLogs
<1>3. [a EXCEPT !.fails = a.fails + 1] \in StopLogs
  BY DEF StopLogs
<1>4. [b EXCEPT !.acked = TRUE] \in StartLogs
  BY DEF StartLogs
<1>5. [b EXCEPT !.fails = b.fails + 1] \in StartLogs
  BY DEF StartLogs
<1>6. NoStops \in StopLogs /\ NoStarts \in StartLogs
  BY DEF StopLogs, StartLogs, NoStops, NoStarts
<1> QED
  BY <1>1, <1>2, <1>3, <1>4, <1>5, <1>6

(***************************************************************************)
(* TypeOK alone is not inductive: SendStop decrements stop_retry, so it is *)
(* a number between 0 and RetryCnt only because the loop comes to step     *)
(* "stop" with retries left.                                               *)
(***************************************************************************)
RetriesLeft == hb.pc = "stop" => hb.stop_retry > 0
TypeInv     == TypeOK /\ RetriesLeft

\* get_state at the start of a pass keeps the types.
LEMMA ReadTyped ==
  ASSUME TypeOK, NEW s \in States, NEW p \in LoopSteps, NEW b \in Heartbeats,
         Read(s, p, b), p = "stop" => hb.stop_retry > 0
  PROVE  TypeInv'
<1>1. hb' \in LoopLocals
  <2> DEFINE cnt   == IF s = S_DEFAULT THEN 1 ELSE hb.default_cnt
             retry == IF s = S_DEFAULT THEN 0 ELSE hb.start_retry
  <2>1. hb \in LoopLocals
    BY DEF TypeOK
  <2>2. cnt \in {0, 1} /\ retry \in 0..RetryCnt
    BY <2>1, ConstantsTyped DEF Assumptions, LoopLocals
  <2>3. hb' = [hb EXCEPT !.pc = p, !.cur_state = s, !.heartbeat = b,
                        !.default_cnt = cnt, !.start_retry = retry]
    BY DEF Read
  <2> HIDE DEF cnt, retry
  <2> QED
    BY <2>1, <2>2, <2>3 DEF LoopLocals
<1>0. RetriesLeft'
  BY DEF TypeOK, Read, LoopLocals, RetriesLeft
<1>2. granted' \in SUBSET Requests /\ told' \in SUBSET Requests
  BY DEF TypeOK, Read
<1>3. stop_log' \in StopLogs /\ start_log' \in StartLogs
  BY LogsTyped DEF TypeOK, Read
<1> QED
  BY <1>0, <1>1, <1>2, <1>3 DEF TypeInv, TypeOK, Read, notLoop, wkVars

\* So does a step that only changes the loop's variables.
LEMMA LocalTyped ==
  ASSUME TypeOK, NEW h \in LoopLocals, Local(h), h.pc # "stop"
  PROVE  TypeInv'
BY DEF TypeInv, TypeOK, RetriesLeft, Local, notHb, notLoop, wkVars, hist

\* So does the outcome of a STOP.
LEMMA StopTyped ==
  ASSUME TypeOK, NEW ok \in BOOLEAN, StopOutcome(ok)
  PROVE  stops' \in Nat /\ stop_log' \in StopLogs
<1>1. stops' \in Nat
  BY DEF TypeOK, StopOutcome
<1>2. stop_log' \in StopLogs
  BY LogsTyped DEF TypeOK, StopOutcome
<1> QED
  BY <1>1, <1>2

\* Every step of the heartbeat loop keeps the types.
LEMMA LoopTyped == TypeInv /\ HeartbeatLoop => TypeInv'
<1> SUFFICES ASSUME TypeOK, RetriesLeft, HeartbeatLoop PROVE TypeInv'
  BY DEF TypeInv
<1> USE ConstantsTyped, StateNames DEF Assumptions
<1>1. CASE LoopStart
  BY <1>1, LocalTyped DEF LoopStart, TypeInv, TypeOK, RetriesLeft, LoopLocals, LoopSteps
<1>2. CASE LoopDefault
  BY <1>2, ReadTyped DEF LoopDefault, LoopSteps, Heartbeats
<1>3. CASE LoopAlive
  BY <1>3, ReadTyped DEF LoopAlive, LoopSteps, Heartbeats
<1>4. CASE SendStart
  <2> PICK ok \in BOOLEAN :
         /\ hb' = [hb EXCEPT !.pc = "send", !.start_retry = StartRetry(ok)]
         /\ start_log' = IF ok THEN [start_log EXCEPT !.acked = TRUE]
                         ELSE [start_log EXCEPT !.fails = start_log.fails + 1]
    BY <1>4 DEF SendStart
  <2>1. StartRetry(ok) \in 0..RetryCnt
    BY DEF StartRetry, TypeOK, LoopLocals
  <2>2. hb' \in LoopLocals /\ RetriesLeft'
    BY <2>1 DEF TypeOK, RetriesLeft, LoopLocals, LoopSteps
  <2>3. start_log' \in StartLogs
    BY LogsTyped DEF TypeOK
  <2> QED
    BY <1>4, <2>2, <2>3 DEF SendStart, TypeInv, TypeOK, RetriesLeft, LoopLocals,
                            notLoop, wkVars
<1>5. CASE LoopShutdown
  BY <1>5, ReadTyped DEF LoopShutdown, LoopSteps, Heartbeats
<1>6. CASE EnterDelay
  <2>1. state' \in States
    BY <1>6, TransitTyped DEF EnterDelay, TypeOK
  <2>2. hb' \in LoopLocals /\ RetriesLeft'
    BY <1>6, <2>1 DEF EnterDelay, TypeOK, RetriesLeft, LoopLocals, LoopSteps
  <2>3. stop_log' \in StopLogs
    BY <1>6, LogsTyped DEF EnterDelay, TypeOK
  <2> QED
    BY <1>6, <2>1, <2>2, <2>3 DEF EnterDelay, TypeInv, TypeOK, notLoop, wkVars
<1>7. CASE LoopDelay
  BY <1>7, ReadTyped DEF LoopDelay, TypeOK, LoopSteps, Heartbeats
<1>8. CASE SendFirstStop
  <2> PICK ok \in BOOLEAN :
         /\ StopOutcome(ok)
         /\ hb' = [hb EXCEPT !.pc = IF FirstStopRetry(ok) > 0 THEN "stop" ELSE "send",
                             !.stop_retry = FirstStopRetry(ok),
                             !.heartbeat = "shutdown_delay"]
    BY <1>8 DEF SendFirstStop
  <2>1. FirstStopRetry(ok) \in 0..RetryCnt
    BY DEF FirstStopRetry
  <2>2. hb' \in LoopLocals /\ RetriesLeft'
    BY <2>1 DEF FirstStopRetry, TypeOK, RetriesLeft, LoopLocals, LoopSteps, Heartbeats
  <2> QED
    BY <1>8, <2>2, StopTyped DEF SendFirstStop, TypeInv, TypeOK, RetriesLeft, notLoop, wkVars
<1>9. CASE SendStop
  <2> PICK ok \in BOOLEAN :
         /\ StopOutcome(ok)
         /\ hb' = [hb EXCEPT !.pc = IF ~ok /\ StopRetry(ok) = 0 THEN "assume"
                                                               ELSE "send",
                             !.stop_retry = StopRetry(ok)]
    BY <1>9 DEF SendStop
  <2>0. hb.stop_retry > 0
    BY <1>9 DEF SendStop, At, RetriesLeft
  <2>1. StopRetry(ok) \in 0..RetryCnt
    BY <2>0 DEF StopRetry, TypeOK, LoopLocals
  <2>2. hb' \in LoopLocals /\ RetriesLeft'
    BY <2>1 DEF TypeOK, RetriesLeft, LoopLocals, LoopSteps
  <2> QED
    BY <1>9, <2>2, StopTyped DEF SendStop, TypeInv, TypeOK, RetriesLeft, notLoop, wkVars
<1>10. CASE AssumeSuspend
  BY <1>10, TransitTyped DEF AssumeSuspend, Effective, TypeInv, TypeOK, RetriesLeft, LoopLocals, LoopSteps,
                             Heartbeats, notLoop, wkVars
<1>11. CASE LoopAcrnd
  BY <1>11, ReadTyped, RequestStates DEF LoopAcrnd, LoopSteps
<1>12. CASE LoopOff
  BY <1>12, ReadTyped DEF LoopOff, LoopSteps, Heartbeats
<1>13. CASE Decide
  BY <1>13, LocalTyped DEF Decide, TypeInv, TypeOK, RetriesLeft, LoopLocals, LoopSteps
<1>14. CASE RtcSent
  BY <1>14 DEF RtcSent, TypeInv, TypeOK, RetriesLeft, LoopLocals, LoopSteps, hist, notLoop, wkVars
<1>15. CASE ExecFinal
  BY <1>15, LocalTyped DEF ExecFinal, TypeInv, TypeOK, RetriesLeft, LoopLocals, LoopSteps
<1>16. CASE ExecSuspend
  BY <1>16 DEF ExecSuspend, TypeInv, TypeOK, RetriesLeft, LoopLocals, LoopSteps, hist, notLoop, wkVars
<1>17. CASE Back
  BY <1>17, TransitTyped DEF Back, Effective, TypeInv, TypeOK, RetriesLeft, LoopLocals, LoopSteps, notLoop, wkVars
<1>18. CASE PollState
  BY <1>18, LocalTyped DEF PollState, TypeInv, TypeOK, RetriesLeft, LoopLocals, LoopSteps
<1>19. CASE PollJobs
  BY <1>19, LocalTyped DEF PollJobs, TypeInv, TypeOK, RetriesLeft, LoopLocals, LoopSteps
<1>20. CASE SendHeartbeat
  <2>1. hb' \in LoopLocals /\ RetriesLeft'
    BY <1>20 DEF SendHeartbeat, Beat, TypeOK, RetriesLeft, LoopLocals, LoopSteps, Heartbeats
  <2>2. told' \in SUBSET Requests
    BY <1>20 DEF SendHeartbeat, Beat, TypeOK
  <2> QED
    BY <1>20, <2>1, <2>2 DEF SendHeartbeat, Beat, TypeInv, TypeOK, notLoop, wkVars
<1>21. CASE Wait
  BY <1>21 DEF Wait, TypeInv, TypeOK, RetriesLeft, LoopLocals, LoopSteps, hist, notLoop, wkVars
<1> QED
  BY <1>1, <1>2, <1>3, <1>4, <1>5, <1>6, <1>7, <1>8, <1>9, <1>10, <1>11, <1>12,
     <1>13, <1>14, <1>15, <1>16, <1>17, <1>18, <1>19, <1>20, <1>21
     DEF HeartbeatLoop

\* Every step of another thread, and of the environment, keeps the types.
LEMMA OthersTyped ==
  ASSUME TypeInv,
         WakeupThread \/ LcsServer \/ HandleStop \/ SuspendJobEnds \/ Environment
  PROVE  TypeInv'
<1> USE ConstantsTyped, StateNames DEF Assumptions, TypeInv
<1>1. CASE TransitReason
  <2>1. ReasonState(wakeup_reason) \in States
    BY DEF ReasonState
  <2>2. state' \in States
    BY <1>1, <2>1, TransitTyped DEF TransitReason, TypeOK
  <2>3. wk_pc' \in {"read", "transit", "post", "force"}
    BY <1>1 DEF TransitReason, ReasonState
  <2> QED
    BY <1>1, <2>2, <2>3 DEF TransitReason, TypeOK, RetriesLeft, loopOnly
<1>2. CASE PostReason
  BY <1>2 DEF PostReason, SemPost, TypeOK, RetriesLeft, loopOnly
<1>3. CASE SetForceS5
  BY <1>3 DEF SetForceS5, TypeOK, RetriesLeft, loopOnly
<1>4. ASSUME NEW k \in Requests, NEW err \in BOOLEAN, Handle(k, err)
      PROVE  /\ state' \in States /\ granted' \in SUBSET Requests
             /\ lcs_pc' \in {"idle", "post"}
  <2>1. (IF err THEN S_DEFAULT ELSE AcrndState(k)) \in States
    BY RequestStates
  <2> QED
    BY <1>4, <2>1, TransitTyped DEF Handle, Effective, TypeOK
<1>5. CASE RequestFromAcrnd
  <2>1. PICK a \in Answers : Handle(a[1], a[2])
    BY <1>5 DEF RequestFromAcrnd
  <2>2. a[1] \in Requests /\ a[2] \in BOOLEAN
    OBVIOUS
  <2> QED
    BY <1>4, <1>5, <2>1, <2>2 DEF RequestFromAcrnd, TypeOK, RetriesLeft, loopOnly, wkVars
<1>6. CASE RequestFromSelf
  <2>1. PICK k \in {"shutdown", "suspend"} :
           /\ forwarded[k] > 0
           /\ forwarded' = [forwarded EXCEPT ![k] = forwarded[k] - 1]
           /\ Handle(k, FALSE)
    BY <1>6 DEF RequestFromSelf
  <2>2. forwarded' \in [{"shutdown", "suspend"} -> Nat]
    BY <2>1 DEF TypeOK
  <2>3. k \in Requests
    BY DEF Requests
  <2> QED
    BY <1>4, <1>6, <2>1, <2>2, <2>3
       DEF RequestFromSelf, TypeOK, RetriesLeft, loopOnly, wkVars
<1>7. CASE PostRequest
  BY <1>7 DEF PostRequest, SemPost, TypeOK, RetriesLeft, loopOnly, wkVars
<1>8. CASE HandleStop
  <2>1. stops' \in Nat
    BY <1>8 DEF HandleStop, TypeOK
  <2>2. forwarded' \in [{"shutdown", "suspend"} -> Nat]
    BY <1>8 DEF HandleStop, TypeOK
  <2>3. stop_log' \in StopLogs
    BY <1>8, LogsTyped DEF HandleStop, TypeOK
  <2> QED
    BY <1>8, <2>1, <2>2, <2>3 DEF HandleStop, TypeOK, RetriesLeft, loopOnly, wkVars
<1>9. CASE SuspendJobEnds
  BY <1>9 DEF SuspendJobEnds, TypeOK, RetriesLeft, loopOnly, wkVars
<1>10. CASE ReadReason
  BY <1>10 DEF ReadReason, TypeOK, RetriesLeft, loopOnly
<1>11. CASE HandleRtc
  BY <1>11 DEF HandleRtc, TypeOK, RetriesLeft, loopOnly, wkVars
<1>12. CASE Sigterm
  <2>1. PICK beat \in TermBeats :
           Local([hb EXCEPT !.pc = "exited", !.heartbeat = beat])
    BY <1>12 DEF Sigterm
  <2>2. [hb EXCEPT !.pc = "exited", !.heartbeat = beat] \in LoopLocals
    BY DEF TypeOK, LoopLocals, LoopSteps, Heartbeats
  <2>3. [hb EXCEPT !.pc = "exited", !.heartbeat = beat].pc # "stop"
    BY DEF TypeOK, LoopLocals
  <2> QED
    BY <2>1, <2>2, <2>3, LocalTyped
<1> QED
  BY <1>1, <1>2, <1>3, <1>5, <1>6, <1>7, <1>8, <1>9, <1>10, <1>11, <1>12
     DEF WakeupThread, LcsServer, Environment

LEMMA InitTyped == Init => TypeInv
<1> USE ConstantsTyped, StateNames DEF Assumptions
<1> SUFFICES ASSUME Init PROVE TypeInv
  OBVIOUS
<1>1. hb \in LoopLocals
  BY DEF Init, LoopLocals, LoopSteps, Heartbeats
<1>2. stop_log \in StopLogs /\ start_log \in StartLogs
  BY LogsTyped DEF Init, NoStops, NoStarts, StopLogs, StartLogs
<1>3. RetriesLeft
  BY DEF Init, RetriesLeft
<1>4. forwarded \in [{"shutdown", "suspend"} -> Nat]
  BY DEF Init
<1>5. /\ state \in States /\ event_sema \in 0..SemMax
      /\ wakeup_reason \in Reasons \cup {{}}
  BY DEF Init
<1>6. /\ wk_pc \in {"read", "transit", "post", "force"}
      /\ lcs_pc \in {"idle", "post"}
  BY DEF Init
<1>7. force_s5 \in BOOLEAN /\ cbc_rtc_set \in BOOLEAN /\ suspend_job \in BOOLEAN
  BY DEF Init
<1>8. stops \in Nat /\ granted \in SUBSET Requests /\ told \in SUBSET Requests
  BY DEF Init
<1> QED
  BY <1>1, <1>2, <1>3, <1>4, <1>5, <1>6, <1>7, <1>8 DEF TypeInv, TypeOK

LEMMA NextTyped == TypeInv /\ [Next]_vars => TypeInv'
<1> SUFFICES ASSUME TypeInv, [Next]_vars PROVE TypeInv'
  OBVIOUS
<1>1. CASE UNCHANGED vars
  BY <1>1 DEF TypeInv, TypeOK, RetriesLeft, vars, notHb, notLoop, wkVars, hist
<1> QED
  BY <1>1, LoopTyped, OthersTyped DEF Next

\* Type correctness: in particular stop_retry and start_retry, decremented in
\* several places, stay between 0 and RETRY_CNT.
THEOREM TypeCorrect == Spec => []TypeOK
<1>1. TypeInv => TypeOK
  BY DEF TypeInv
<1> QED
  BY <1>1, InitTyped, NextTyped, PTL DEF Spec

----------------------------------------------------------------------------
(***************************************************************************)
(* Power actions are granted.  What the loop acts on at "exec" is          *)
(* last_state, read one pass before, so the invariant follows the state    *)
(* from the shared variable (StateGranted) through cur_state (CurGranted)  *)
(* to last_state (LastGranted).  AssumeSuspend starts a pass without       *)
(* updating last_state; that is harmless because with more than one retry  *)
(* the pass before it has stored shutdown_delay there (StopsKnown).        *)
(***************************************************************************)
StateGranted == Effective(state) \subseteq granted

CurGranted == hb.pc = "send" => Effective(hb.cur_state) \subseteq granted

LastGranted == hb.pc \in {"start", "top", "wait", "off", "rtc", "exec", "halted"} =>
                 Effective(hb.last_state) \subseteq granted

ExecAgreed == hb.pc \in {"rtc", "exec", "halted"} => AgreedBefore # {}

\* A heartbeat that tells of a power action is that of the state read.
BeatOfState == hb.pc # "exited" =>
  \A k \in Requests : hb.heartbeat = AcrndBeat(k) =>
     hb.pc = "send" /\ hb.cur_state = AcrndState(k)

\* In the middle of a pass cur_state is the state the branch was taken for.
PassState == /\ hb.pc = "resume" => hb.cur_state = S_ALIVE
             /\ hb.pc \in {"stop_first", "stop"} => hb.cur_state = S_SHUTDOWN_DELAY
             /\ hb.pc \in {"off", "rtc", "exec", "back", "poll", "jobs"} =>
                  hb.cur_state = S_IOC_SHUTDOWN

StopsKnown == /\ hb.pc = "stop" => \/ hb.last_state = S_SHUTDOWN_DELAY
                                   \/ hb.stop_retry = RetryCnt
              /\ hb.pc = "assume" => hb.last_state = S_SHUTDOWN_DELAY

GrantInv == /\ StateGranted /\ CurGranted /\ LastGranted /\ ExecAgreed
            /\ BeatOfState /\ PassState /\ StopsKnown /\ DelayOwned

LEMMA EffectiveOfRequest ==
  ASSUME NEW k \in Requests
  PROVE  Effective(AcrndState(k)) = {k}
BY RequestStates DEF Effective

LEMMA EffectiveOfOthers ==
  ASSUME NEW s \in {S_DEFAULT, S_ALIVE, S_SHUTDOWN, S_SHUTDOWN_DELAY, S_IOC_SHUTDOWN}
  PROVE  Effective(s) = {}
BY RequestStates DEF Effective

LEMMA StatesDiffer ==
  /\ S_DEFAULT # S_SHUTDOWN_DELAY /\ S_ALIVE # S_SHUTDOWN_DELAY
  /\ S_SHUTDOWN # S_SHUTDOWN_DELAY /\ S_IOC_SHUTDOWN # S_SHUTDOWN_DELAY
  /\ S_ACRND_SUSPEND # S_SHUTDOWN_DELAY
  /\ S_ACRND_SUSPEND \in valid_map[S_SHUTDOWN_DELAY]
BY DEF S_DEFAULT, S_ALIVE, S_SHUTDOWN, S_SHUTDOWN_DELAY, S_IOC_SHUTDOWN,
       S_ACRND_SUSPEND, S_ACRND_SHUTDOWN, S_ACRND_REBOOT, valid_map, States

\* The beats that do not tell of a power action.
LEMMA PlainBeats ==
  ASSUME NEW k \in Requests
  PROVE  AcrndBeat(k) \notin {"none", "init", "active", "shutdown_delay"}
BY RequestStates

\* A step of another thread keeps the invariant when it gives the grants of the
\* state it leads to and takes none away: none of them enters shutdown_delay.
LEMMA OtherKeepsGrants ==
  ASSUME GrantInv, hb' = hb, granted \subseteq granted', StateGranted',
         state' = S_SHUTDOWN_DELAY => state = S_SHUTDOWN_DELAY
  PROVE  GrantInv'
BY DEF GrantInv, CurGranted, LastGranted, ExecAgreed, AgreedBefore, BeatOfState,
       PassState, StopsKnown, DelayOwned, Effective

\* A pass starts: what it read decides where it goes.
LEMMA ReadKeepsGrants ==
  ASSUME TypeOK, GrantInv, NEW s \in States, NEW p \in LoopSteps,
         NEW b \in Heartbeats, Read(s, p, b),
         \/ /\ p = "send"
            /\ \A k \in Requests : b = AcrndBeat(k) => s = AcrndState(k)
         \/ /\ \A k \in Requests : b # AcrndBeat(k)
            /\ \/ s = S_ALIVE /\ p = "resume"
               \/ s = S_SHUTDOWN /\ p = "delay"
               \/ s = S_SHUTDOWN_DELAY /\ p = "stop"
               \/ s = S_IOC_SHUTDOWN /\ p = "off"
  PROVE  GrantInv'
<1>1. /\ hb.pc = "top" /\ state = s /\ state' = s
      /\ hb'.pc = p /\ hb'.cur_state = s /\ hb'.heartbeat = b
      /\ hb'.last_state = hb.last_state
  BY DEF Read, At, TypeOK, LoopLocals
<1>2. Effective(s) \subseteq granted'
  BY <1>1 DEF GrantInv, StateGranted, Read
<1>3. StateGranted' /\ CurGranted'
  BY <1>1, <1>2 DEF StateGranted, CurGranted, Effective
<1>4. LastGranted' /\ ExecAgreed'
  BY <1>1, StatesDiffer DEF GrantInv, LastGranted, ExecAgreed, Read, Effective
<1>5. BeatOfState' /\ PassState'
  BY <1>1 DEF BeatOfState, PassState
<1>6. StopsKnown' /\ DelayOwned'
  BY <1>1, StatesDiffer DEF GrantInv, StopsKnown, DelayOwned
<1> QED
  BY <1>3, <1>4, <1>5, <1>6 DEF GrantInv

\* Every start of a pass keeps the invariant.
LEMMA PassStartKeepsGrants ==
  ASSUME TypeOK, GrantInv,
         \/ LoopDefault \/ LoopAlive \/ LoopShutdown \/ LoopDelay
         \/ LoopAcrnd \/ LoopOff
  PROVE  GrantInv'
<1> USE StateNames, ReadKeepsGrants, PlainBeats, RequestStates DEF LoopSteps, Heartbeats
<1>1. CASE LoopDefault
  BY <1>1 DEF LoopDefault
<1>2. CASE LoopAlive
  BY <1>2 DEF LoopAlive
<1>3. CASE LoopShutdown
  BY <1>3 DEF LoopShutdown
<1>4. CASE LoopDelay
  BY <1>4 DEF LoopDelay
<1>5. CASE LoopAcrnd
  BY <1>5 DEF LoopAcrnd
<1>6. CASE LoopOff
  BY <1>6 DEF LoopOff
<1> QED
  BY <1>1, <1>2, <1>3, <1>4, <1>5, <1>6

\* Every step of the loop that changes neither state nor granted keeps it.
LEMMA MoveKeepsGrants ==
  ASSUME TypeInv, GrantInv,
         \/ LoopStart \/ SendStart \/ SendFirstStop \/ SendStop \/ Decide
         \/ RtcSent \/ ExecFinal \/ ExecSuspend \/ PollState \/ PollJobs
         \/ SendHeartbeat \/ Wait
  PROVE  GrantInv'
<1>0. hb \in LoopLocals
  BY DEF TypeInv, TypeOK
<1> USE <1>0, PlainBeats, EffectiveOfOthers, StatesDiffer
    DEF GrantInv, StateGranted, CurGranted, LastGranted, ExecAgreed, AgreedBefore,
        BeatOfState, PassState, StopsKnown, DelayOwned, At, Local, LoopLocals, notHb,
        hist
<1>1. CASE LoopStart
  BY <1>1 DEF LoopStart, Effective
<1>2. CASE SendStart
  BY <1>2 DEF SendStart, Effective
<1>3. CASE SendFirstStop
  <2>1. PICK ok \in BOOLEAN :
           hb' = [hb EXCEPT !.pc = IF FirstStopRetry(ok) > 0 THEN "stop" ELSE "send",
                           !.stop_retry = FirstStopRetry(ok),
                           !.heartbeat = "shutdown_delay"]
    BY <1>3 DEF SendFirstStop
  <2>2. /\ hb.pc = "stop_first" /\ state' = state /\ granted' = granted
        /\ hb'.cur_state = S_SHUTDOWN_DELAY /\ hb'.last_state = hb.last_state
        /\ hb'.heartbeat = "shutdown_delay" /\ hb'.pc \in {"stop", "send"}
    BY <1>3, <2>1 DEF SendFirstStop
  <2>3. hb'.pc = "stop" => hb'.stop_retry = RetryCnt
    BY <2>1 DEF FirstStopRetry
  <2> QED
    BY <2>2, <2>3 DEF Effective
<1>4. CASE SendStop
  <2>1. PICK ok \in BOOLEAN :
           hb' = [hb EXCEPT !.pc = IF ~ok /\ StopRetry(ok) = 0 THEN "assume"
                                                             ELSE "send",
                           !.stop_retry = StopRetry(ok)]
    BY <1>4 DEF SendStop
  <2>2. /\ hb.pc = "stop" /\ state' = state /\ granted' = granted
        /\ hb'.cur_state = S_SHUTDOWN_DELAY /\ hb'.last_state = hb.last_state
        /\ hb'.heartbeat = hb.heartbeat /\ hb'.pc \in {"assume", "send"}
    BY <1>4, <2>1 DEF SendStop
  <2>3. hb'.pc = "assume" => hb.last_state = S_SHUTDOWN_DELAY
    <3>1. hb'.pc = "assume" => ~ok /\ hb.stop_retry = 1
      BY <2>1 DEF StopRetry
    <3> QED
      BY <2>2, <3>1, ConstantsTyped DEF Assumptions
  <2> QED
    BY <2>2, <2>3 DEF Effective
<1>5. CASE Decide
  <2>1. /\ hb.pc = "off" /\ state' = state /\ granted' = granted
        /\ hb'.cur_state = hb.cur_state /\ hb'.last_state = hb.last_state
        /\ hb'.heartbeat = hb.heartbeat
        /\ \/ hb'.pc = "back"
           \/ hb'.pc \in {"rtc", "exec"} /\ AgreedBefore # {}
    BY <1>5 DEF Decide
  <2> QED
    BY <2>1 DEF Effective
<1>6. CASE RtcSent
  BY <1>6 DEF RtcSent, Effective
<1>7. CASE ExecFinal
  BY <1>7 DEF ExecFinal, Effective
<1>8. CASE ExecSuspend
  BY <1>8 DEF ExecSuspend, Effective
<1>9. CASE PollState
  BY <1>9 DEF PollState, Effective
<1>10. CASE PollJobs
  BY <1>10 DEF PollJobs, Effective
<1>11. CASE SendHeartbeat
  BY <1>11 DEF SendHeartbeat, Beat, Effective
<1>12. CASE Wait
  BY <1>12 DEF Wait, Effective
<1> QED
  BY <1>1, <1>2, <1>3, <1>4, <1>5, <1>6, <1>7, <1>8, <1>9, <1>10, <1>11, <1>12

\* The three steps of the loop that call state_transit keep it.
LEMMA TransitKeepsGrants ==
  ASSUME TypeInv, GrantInv, EnterDelay \/ AssumeSuspend \/ Back
  PROVE  GrantInv'
<1>0. hb \in LoopLocals /\ state \in States
  BY DEF TypeInv, TypeOK
<1> USE <1>0, PlainBeats, EffectiveOfOthers, StatesDiffer, StateNames
    DEF GrantInv, StateGranted, CurGranted, LastGranted, ExecAgreed, AgreedBefore,
        BeatOfState, PassState, StopsKnown, DelayOwned, At, LoopLocals
<1>1. CASE EnterDelay
  <2>1. /\ hb.pc = "delay" /\ granted' = granted
        /\ state' \in {state, S_SHUTDOWN_DELAY}
        /\ hb'.cur_state = state' /\ hb'.heartbeat = hb.heartbeat
        /\ hb'.pc = IF state' = S_SHUTDOWN_DELAY THEN "stop_first" ELSE "send"
    BY <1>1, TransitTyped DEF EnterDelay
  <2>2. Effective(state') \subseteq granted
    BY <2>1
  <2> QED
    BY <2>1, <2>2 DEF Effective
<1>2. CASE AssumeSuspend
  <2>1. /\ hb.pc = "assume" /\ granted' = granted \cup Effective(state')
        /\ state' \in {state, S_ACRND_SUSPEND}
        /\ hb'.pc = "top" /\ hb'.last_state = S_SHUTDOWN_DELAY
        /\ hb'.heartbeat = "none"
    BY <1>2, TransitTyped DEF AssumeSuspend
  <2>2. state' # S_SHUTDOWN_DELAY
    BY <1>2, <2>1 DEF AssumeSuspend, Transit
  <2> QED
    BY <2>1, <2>2 DEF Effective
<1>3. CASE Back
  <2>1. /\ hb.pc = "back" /\ granted' = Effective(state')
        /\ state' \in {state, S_DEFAULT}
        /\ hb'.pc = "poll" /\ hb'.cur_state = S_IOC_SHUTDOWN
        /\ hb'.heartbeat = hb.heartbeat
    BY <1>3, TransitTyped DEF Back
  <2> QED
    BY <2>1 DEF Effective
<1> QED
  BY <1>1, <1>2, <1>3

\* A request gives the grant of the state it leads to.
LEMMA HandleKeepsGrants ==
  ASSUME TypeOK, GrantInv, NEW k \in Requests, NEW err \in BOOLEAN,
         Handle(k, err), hb' = hb
  PROVE  GrantInv'
<1> DEFINE new == IF err THEN S_DEFAULT ELSE AcrndState(k)
<1>1. new \in States /\ new # S_SHUTDOWN_DELAY
  BY RequestStates, StateNames, StatesDiffer
<1>2. state' \in {state, new} /\ granted \subseteq granted'
  BY <1>1, TransitTyped DEF Handle, TypeOK
<1>3. StateGranted'
  <2>1. CASE err
    BY <1>2, <2>1, EffectiveOfOthers DEF Handle, GrantInv, StateGranted
  <2>2. CASE ~err
    BY <2>2 DEF Handle, StateGranted, Effective
  <2> QED
    BY <2>1, <2>2
<1> QED
  BY <1>1, <1>2, <1>3, OtherKeepsGrants

\* Every step of another thread, and of the environment, keeps it.
LEMMA OthersKeepGrants ==
  ASSUME TypeInv, GrantInv,
         WakeupThread \/ LcsServer \/ HandleStop \/ SuspendJobEnds \/ Environment
  PROVE  GrantInv'
<1>0. TypeOK /\ hb \in LoopLocals
  BY DEF TypeInv, TypeOK
<1>1. CASE TransitReason
  <2>1. ReasonState(wakeup_reason) \in {S_IOC_SHUTDOWN, S_SHUTDOWN, S_ALIVE}
    BY DEF ReasonState
  <2>2. /\ hb' = hb /\ granted' = granted
        /\ state' \in {state, ReasonState(wakeup_reason)}
    BY <1>0, <1>1, <2>1, TransitTyped, StateNames DEF TransitReason, TypeOK, loopOnly
  <2>3. StateGranted'
    BY <2>1, <2>2, EffectiveOfOthers DEF GrantInv, StateGranted
  <2> QED
    BY <2>1, <2>2, <2>3, StatesDiffer, OtherKeepsGrants
<1>2. ASSUME hb' = hb, granted' = granted, state' = state
      PROVE  GrantInv'
  BY <1>2, OtherKeepsGrants DEF GrantInv, StateGranted, Effective
<1>3. CASE RequestFromAcrnd
  <2>1. PICK a \in Answers : Handle(a[1], a[2])
    BY <1>3 DEF RequestFromAcrnd
  <2>2. a[1] \in Requests /\ a[2] \in BOOLEAN
    BY ConstantsTyped DEF Assumptions
  <2> QED
    BY <1>0, <1>3, <2>1, <2>2, HandleKeepsGrants DEF RequestFromAcrnd, loopOnly
<1>4. CASE RequestFromSelf
  <2>1. PICK k \in {"shutdown", "suspend"} : Handle(k, FALSE)
    BY <1>4 DEF RequestFromSelf
  <2> QED
    BY <1>0, <1>4, <2>1, HandleKeepsGrants DEF RequestFromSelf, loopOnly, Requests
<1>5. CASE PostReason \/ SetForceS5 \/ PostRequest \/ HandleStop \/ SuspendJobEnds
           \/ ReadReason \/ HandleRtc
  BY <1>2, <1>5 DEF PostReason, SetForceS5, PostRequest, HandleStop, SuspendJobEnds,
                    ReadReason, HandleRtc, loopOnly
<1>6. CASE Sigterm
  <2>1. hb'.pc = "exited" /\ state' = state /\ granted' = granted
    BY <1>0, <1>6 DEF Sigterm, Local, notHb, hist, LoopLocals
  <2> QED
    BY <2>1 DEF GrantInv, StateGranted, CurGranted, LastGranted, ExecAgreed,
                BeatOfState, PassState, StopsKnown, DelayOwned, Effective
<1> QED
  BY <1>1, <1>3, <1>4, <1>5, <1>6 DEF WakeupThread, LcsServer, Environment

LEMMA InitGrants == Init => GrantInv
<1> SUFFICES ASSUME Init PROVE GrantInv
  OBVIOUS
<1>1. /\ state = S_DEFAULT /\ hb.pc = "start" /\ hb.last_state = S_DEFAULT
      /\ hb.heartbeat = "none"
  BY DEF Init
<1> QED
  BY <1>1, EffectiveOfOthers, PlainBeats, StatesDiffer
     DEF GrantInv, StateGranted, CurGranted, LastGranted, ExecAgreed, BeatOfState,
         PassState, StopsKnown, DelayOwned

LEMMA NextKeepsGrants == TypeInv /\ GrantInv /\ [Next]_vars => GrantInv'
<1> SUFFICES ASSUME TypeInv, GrantInv, [Next]_vars PROVE GrantInv'
  OBVIOUS
<1>1. CASE UNCHANGED vars
  BY <1>1, OtherKeepsGrants DEF vars, notHb, hist, GrantInv, StateGranted, Effective
<1>2. CASE HeartbeatLoop
  BY <1>2, PassStartKeepsGrants, MoveKeepsGrants, TransitKeepsGrants
     DEF HeartbeatLoop, TypeInv
<1> QED
  BY <1>1, <1>2, OthersKeepGrants DEF Next

LEMMA GrantInvariant == Spec => [](TypeInv /\ GrantInv)
BY InitTyped, NextTyped, InitGrants, NextKeepsGrants, PTL DEF Spec

\* What the grants say.
LEMMA GrantsMean == GrantInv => PowerActionGranted /\ HeartbeatGranted /\ DelayOwned
<1>1. GrantInv => PowerActionGranted
  BY DEF GrantInv, ExecAgreed, LastGranted, PowerActionGranted, AgreedBefore
<1>2. GrantInv => HeartbeatGranted
  BY EffectiveOfRequest DEF GrantInv, BeatOfState, CurGranted, HeartbeatGranted
<1> QED
  BY <1>1, <1>2 DEF GrantInv

\* The machine is powered off, rebooted or suspended only when that action was
\* agreed to or assumed, and nothing the loop read since contradicts it.
THEOREM PowerActionsAreGranted == Spec => []PowerActionGranted
BY GrantsMean, GrantInvariant, PTL

\* The IOC is told of a power action only when it was agreed to or assumed.
THEOREM HeartbeatsAreGranted == Spec => []HeartbeatGranted
BY GrantsMean, GrantInvariant, PTL

\* shutdown_delay is the loop's own state.
THEOREM DelayIsOwned == Spec => []DelayOwned
BY GrantsMean, GrantInvariant, PTL

----------------------------------------------------------------------------
(* What the IOC was told.  Between two passes told follows last_state; in  *)
(* a pass the loop comes to "send" with nothing to tell only when nothing  *)
(* is left that it told before.                                            *)

ToldKnown ==
    /\ hb.pc \in {"start", "resume", "delay", "stop_first", "stop", "assume",
                  "poll", "jobs"} => told = {}
    /\ hb.pc = "send" /\ hb.heartbeat = "none" => told = {}
    /\ hb.pc \in {"top", "wait", "off", "rtc", "exec", "halted", "back"} =>
         told \subseteq AgreedBefore

\* A pass starts: what was told lapses, or stands as last_state does, or the
\* heartbeat about to be sent replaces it.
LEMMA ReadKeepsTold ==
  ASSUME TypeOK, ToldKnown, NEW s \in States, NEW p \in LoopSteps, NEW b, Read(s, p, b),
         \/ s = S_IOC_SHUTDOWN /\ p = "off"
         \/ s \in {S_DEFAULT, S_ALIVE, S_SHUTDOWN, S_SHUTDOWN_DELAY}
         \/ p = "send" /\ b # "none"
  PROVE  ToldKnown'
<1>1. /\ hb.pc = "top" /\ hb'.pc = p /\ hb'.heartbeat = b
      /\ hb'.last_state = hb.last_state
  BY DEF Read, At, TypeOK, LoopLocals
<1>2. CASE s = S_IOC_SHUTDOWN /\ p = "off"
  BY <1>1, <1>2 DEF Read, ToldKnown, AgreedBefore, Effective
<1>3. CASE s \in {S_DEFAULT, S_ALIVE, S_SHUTDOWN, S_SHUTDOWN_DELAY}
  <2>1. s # S_IOC_SHUTDOWN
    BY <1>3 DEF S_DEFAULT, S_ALIVE, S_SHUTDOWN, S_SHUTDOWN_DELAY, S_IOC_SHUTDOWN
  <2>2. told' = {}
    BY <1>3, <2>1, EffectiveOfOthers DEF Read
  <2> QED
    BY <2>2 DEF ToldKnown
<1>4. CASE p = "send" /\ b # "none"
  BY <1>1, <1>4 DEF ToldKnown
<1> QED
  BY <1>2, <1>3, <1>4

\* A heartbeat: the IOC is told of the state read, or of nothing to be done.
LEMMA BeatKeepsTold ==
  ASSUME TypeOK, GrantInv, ToldKnown, SendHeartbeat
  PROVE  ToldKnown'
<1>1. /\ hb.pc = "send" /\ hb'.pc = "wait" /\ hb'.last_state = hb.cur_state
      /\ told' = IF hb.heartbeat = "none" THEN told
                 ELSE {k \in Requests : hb.heartbeat = AcrndBeat(k)}
  BY DEF SendHeartbeat, Beat, At, TypeOK, LoopLocals
<1>2. \A k \in told' : hb.cur_state = AcrndState(k)
  BY <1>1 DEF GrantInv, BeatOfState, ToldKnown
<1>3. told' \subseteq Requests
  BY <1>1 DEF ToldKnown
<1> QED
  BY <1>1, <1>2, <1>3 DEF ToldKnown, AgreedBefore, Effective

\* Every step of the loop keeps it.
LEMMA LoopKeepsTold ==
  ASSUME TypeOK, GrantInv, ToldKnown, HeartbeatLoop
  PROVE  ToldKnown'
<1>0. hb \in LoopLocals
  BY DEF TypeOK
<1>1. CASE LoopDefault \/ LoopAlive \/ LoopShutdown \/ LoopDelay \/ LoopOff
  BY <1>1, StateNames, ReadKeepsTold
     DEF LoopDefault, LoopAlive, LoopShutdown, LoopDelay, LoopOff, LoopSteps
<1>2. CASE LoopAcrnd
  BY <1>2, RequestStates, ReadKeepsTold DEF LoopAcrnd, LoopSteps
<1>3. CASE LoopStart \/ SendStart \/ EnterDelay \/ SendFirstStop \/ SendStop
           \/ AssumeSuspend \/ PollState \/ PollJobs
  <2>1. told' = told
    BY <1>3 DEF LoopStart, SendStart, EnterDelay, SendFirstStop, SendStop, AssumeSuspend,
                PollState, PollJobs, Local, notHb, hist
  <2>2. hb.pc \in {"start", "resume", "delay", "stop_first", "stop", "assume",
                   "poll", "jobs"}
    BY <1>3 DEF LoopStart, SendStart, EnterDelay, SendFirstStop, SendStop, AssumeSuspend,
                PollState, PollJobs, At
  <2> QED
    BY <2>1, <2>2 DEF ToldKnown
<1>4. CASE Decide \/ RtcSent \/ ExecFinal \/ ExecSuspend \/ Wait
  <2>1. told' = told /\ hb'.last_state = hb.last_state
    BY <1>0, <1>4 DEF Decide, RtcSent, ExecFinal, ExecSuspend, Wait, Local, notHb, hist,
                      LoopLocals
  <2>2. /\ hb.pc \in {"off", "rtc", "exec", "wait"}
        /\ hb'.pc \in {"back", "rtc", "exec", "halted", "top"}
    BY <1>0, <1>4 DEF Decide, RtcSent, ExecFinal, ExecSuspend, Wait, At, Local, LoopLocals
  <2>3. told \subseteq Effective(hb.last_state)
    BY <2>2 DEF ToldKnown, AgreedBefore
  <2> QED
    BY <2>1, <2>2, <2>3 DEF ToldKnown, AgreedBefore
<1>5. CASE Back
  BY <1>5 DEF Back, ToldKnown
<1> QED
  BY <1>1, <1>2, <1>3, <1>4, <1>5, BeatKeepsTold DEF HeartbeatLoop

\* No other thread tells the IOC anything.
LEMMA OthersKeepTold ==
  ASSUME TypeOK, ToldKnown,
         WakeupThread \/ LcsServer \/ HandleStop \/ SuspendJobEnds \/ Environment
  PROVE  ToldKnown'
<1>1. CASE Sigterm
  <2>1. hb'.pc = "exited"
    BY <1>1 DEF Sigterm, Local, TypeOK, LoopLocals
  <2> QED
    BY <2>1 DEF ToldKnown
<1>2. CASE ~Sigterm
  <2>1. hb' = hb /\ told' = told
    BY <1>2 DEF WakeupThread, LcsServer, Environment, TransitReason, PostReason, SetForceS5,
                PostRequest, RequestFromSelf, HandleStop, SuspendJobEnds, ReadReason,
                RequestFromAcrnd, HandleRtc, loopOnly
  <2> QED
    BY <2>1 DEF ToldKnown, AgreedBefore, Effective
<1> QED
  BY <1>1, <1>2

LEMMA InitTold == Init => ToldKnown
BY DEF Init, ToldKnown

LEMMA NextKeepsTold == TypeInv /\ GrantInv /\ ToldKnown /\ [Next]_vars => ToldKnown'
<1> SUFFICES ASSUME TypeOK, GrantInv, ToldKnown, [Next]_vars PROVE ToldKnown'
  BY DEF TypeInv
<1>1. CASE UNCHANGED vars
  BY <1>1 DEF vars, notHb, hist, ToldKnown, AgreedBefore, Effective
<1> QED
  BY <1>1, LoopKeepsTold, OthersKeepTold DEF Next

\* When the IOC goes off the loop does what it told the IOC last, if it told it of a
\* power action: no interleaving makes it drop that action or do another one.
THEOREM WhatIsToldIsDone == Spec => []ToldIsDone
<1>1. ToldKnown => ToldIsDone
  BY DEF ToldKnown, ToldIsDone
<1> QED
  BY <1>1, InitTyped, NextTyped, InitGrants, NextKeepsGrants, InitTold, NextKeepsTold, PTL
     DEF Spec

----------------------------------------------------------------------------
(* Retries.  The counters are not reset where an attempt sequence starts   *)
(* but where it ends, so that what they hold then is what is left of the   *)
(* attempts the logs count: of this delay, of this keep_alive.             *)

\* The STOP was taken, or all but stop_retry of the attempts failed.
StopsCounted == \/ stop_log.acked /\ hb.stop_retry = 0
                \/ /\ ~stop_log.acked /\ hb.stop_retry > 0
                   /\ stop_log.fails + hb.stop_retry = RetryCnt + 1

DelayBeat == hb.heartbeat = "shutdown_delay" /\ hb.pc # "exited" =>
               hb.pc \in {"send", "stop", "assume"} /\
               (hb.pc = "send" => hb.cur_state = S_SHUTDOWN_DELAY)

StopsLogged ==
    /\ hb.pc = "stop_first" => stop_log.fails = 0 /\ ~stop_log.acked
    /\ hb.pc = "stop" => StopsCounted
    /\ hb.pc = "send" /\ hb.cur_state = S_SHUTDOWN_DELAY => StopsCounted
    /\ hb.pc \in {"top", "wait"} /\ state = S_SHUTDOWN_DELAY => StopsCounted
    /\ AssumeAfterAllRetries

StartsLogged ==
    /\ hb.start_retry > 0 => /\ ~start_log.acked
                             /\ start_log.fails + hb.start_retry <= RetryCnt + 1
    /\ hb.pc = "resume" => hb.start_retry > 0 \/ start_log = NoStarts

RetryInv == DelayBeat /\ StopsLogged /\ StartsLogged

LEMMA ReadKeepsRetries ==
  ASSUME TypeInv, GrantInv, RetryInv, NEW s \in States, NEW p, NEW b, Read(s, p, b),
         p \in {"send", "delay", "off", "resume", "stop"},
         p = "stop" => s = S_SHUTDOWN_DELAY /\ hb.stop_retry > 0,
         p = "resume" => s = S_ALIVE /\ (hb.last_state # S_ALIVE \/ hb.start_retry > 0),
         b = "shutdown_delay" => p \in {"send", "stop"} /\ s = S_SHUTDOWN_DELAY
  PROVE  RetryInv'
<1> DEFINE retry == IF s = S_DEFAULT THEN 0 ELSE hb.start_retry
<1>0. hb \in LoopLocals /\ start_log \in StartLogs /\ retry \in 0..RetryCnt
  BY ConstantsTyped DEF TypeInv, TypeOK, Assumptions, LoopLocals
<1>1. /\ hb.pc = "top" /\ state = s /\ state' = s
      /\ hb'.pc = p /\ hb'.cur_state = s /\ hb'.heartbeat = b
      /\ hb'.stop_retry = hb.stop_retry /\ hb'.start_retry = retry
  BY <1>0 DEF Read, At, LoopLocals
<1>2. /\ s = S_SHUTDOWN_DELAY => stop_log' = stop_log
      /\ start_log' = IF s = S_ALIVE /\ hb.last_state = S_ALIVE THEN start_log ELSE NoStarts
  BY DEF Read
<1>3. s = S_SHUTDOWN_DELAY => StopsCounted /\ StopsCounted'
  BY <1>1, <1>2 DEF RetryInv, StopsLogged, StopsCounted
<1>4. StartsLogged'
  <2>1. retry > 0 => /\ ~start_log'.acked /\ start_log'.fails + retry <= RetryCnt + 1
    <3>1. NoStarts.fails = 0 /\ ~NoStarts.acked
      BY DEF NoStarts
    <3> QED
      BY <1>0, <1>2, <3>1, ConstantsTyped
         DEF RetryInv, StartsLogged, Assumptions, StartLogs
  <2>2. p = "resume" => retry > 0 \/ start_log' = NoStarts
    <3>1. S_ALIVE # S_DEFAULT
      BY DEF S_ALIVE, S_DEFAULT
    <3> QED
      BY <1>2, <3>1
  <2> HIDE DEF retry
  <2> QED
    BY <1>1, <2>1, <2>2 DEF StartsLogged
<1>5. DelayBeat' /\ StopsLogged'
  BY <1>1, <1>3 DEF DelayBeat, StopsLogged, AssumeAfterAllRetries
<1> QED
  BY <1>4, <1>5 DEF RetryInv

\* Every start of a pass keeps the counts.
LEMMA PassStartKeepsRetries ==
  ASSUME TypeInv, GrantInv, RetryInv,
         \/ LoopDefault \/ LoopAlive \/ LoopShutdown \/ LoopDelay
         \/ LoopAcrnd \/ LoopOff
  PROVE  RetryInv'
<1> USE StateNames, ReadKeepsRetries
<1>0. hb.stop_retry \in Nat
  BY ConstantsTyped DEF Assumptions, TypeInv, TypeOK, LoopLocals
<1>1. CASE LoopDefault
  BY <1>1 DEF LoopDefault
<1>2. CASE LoopAlive
  BY <1>2 DEF LoopAlive
<1>3. CASE LoopShutdown
  BY <1>3 DEF LoopShutdown
<1>4. CASE LoopDelay
  BY <1>0, <1>4 DEF LoopDelay
<1>5. CASE LoopAcrnd
  BY <1>5, RequestStates, PlainBeats DEF LoopAcrnd
<1>6. CASE LoopOff
  BY <1>6 DEF LoopOff
<1> QED
  BY <1>1, <1>2, <1>3, <1>4, <1>5, <1>6

\* A step that only moves the loop on keeps them.
LEMMA MoveKeepsRetries ==
  ASSUME TypeInv, GrantInv, RetryInv,
         \/ LoopStart \/ Decide \/ RtcSent \/ ExecFinal \/ ExecSuspend
         \/ PollState \/ PollJobs \/ SendHeartbeat \/ Wait
  PROVE  RetryInv'
<1>0. hb \in LoopLocals
  BY DEF TypeInv, TypeOK
<1>1. /\ state' = state /\ stop_log' = stop_log /\ start_log' = start_log
      /\ hb'.stop_retry = hb.stop_retry /\ hb'.start_retry = hb.start_retry
      /\ hb'.cur_state = hb.cur_state
      /\ hb'.heartbeat \in {hb.heartbeat, "none"}
  BY <1>0 DEF LoopStart, Decide, RtcSent, ExecFinal, ExecSuspend, PollState, PollJobs,
              SendHeartbeat, Beat, Wait, Local, notHb, hist, LoopLocals
<1>2. \/ /\ hb.pc \in {"off", "rtc", "exec", "poll", "jobs"}
         /\ hb'.pc \in {"back", "rtc", "exec", "halted", "poll", "jobs", "send"}
         /\ hb'.heartbeat = hb.heartbeat
      \/ hb.pc = "start" /\ hb'.pc = "top" /\ hb'.heartbeat = hb.heartbeat
      \/ hb.pc = "send" /\ hb'.pc = "wait" /\ hb'.heartbeat = "none"
      \/ hb.pc = "wait" /\ hb'.pc = "top" /\ hb'.heartbeat = hb.heartbeat
  BY <1>0 DEF LoopStart, Decide, RtcSent, ExecFinal, ExecSuspend, PollState, PollJobs,
              SendHeartbeat, Beat, Wait, Local, At, LoopLocals
<1>3. StartsLogged'
  BY <1>1, <1>2 DEF RetryInv, StartsLogged
<1>4. DelayBeat'
  BY <1>1, <1>2 DEF RetryInv, DelayBeat
<1>5. StopsLogged'
  <2>1. StopsCounted <=> StopsCounted'
    BY <1>1 DEF StopsCounted
  <2>2. hb'.pc = "send" => hb.cur_state = S_IOC_SHUTDOWN
    BY <1>2 DEF GrantInv, PassState
  <2>3. hb.pc = "start" => state # S_SHUTDOWN_DELAY
    BY DEF GrantInv, DelayOwned
  <2>4. hb.pc = "send" /\ state = S_SHUTDOWN_DELAY => hb.cur_state = S_SHUTDOWN_DELAY
    BY DEF GrantInv, DelayOwned
  <2> QED
    BY <1>1, <1>2, <2>1, <2>2, <2>3, <2>4, StatesDiffer
       DEF RetryInv, StopsLogged, AssumeAfterAllRetries
<1> QED
  BY <1>3, <1>4, <1>5 DEF RetryInv

\* A RESUME is counted.
LEMMA StartKeepsRetries ==
  ASSUME TypeInv, GrantInv, RetryInv, SendStart
  PROVE  RetryInv'
<1>0. hb \in LoopLocals /\ start_log \in StartLogs
  BY DEF TypeInv, TypeOK
<1>1. PICK ok \in BOOLEAN :
         /\ hb' = [hb EXCEPT !.pc = "send", !.start_retry = StartRetry(ok)]
         /\ start_log' = IF ok THEN [start_log EXCEPT !.acked = TRUE]
                         ELSE [start_log EXCEPT !.fails = start_log.fails + 1]
  BY DEF SendStart
<1>2. /\ hb.pc = "resume" /\ hb'.pc = "send" /\ hb'.cur_state = S_ALIVE
      /\ hb'.heartbeat = hb.heartbeat /\ hb'.start_retry = StartRetry(ok)
  BY <1>0, <1>1 DEF SendStart, At, LoopLocals, GrantInv, PassState
<1>3. ~ok => /\ start_log'.fails = start_log.fails + 1
             /\ start_log'.acked = start_log.acked
  BY <1>0, <1>1 DEF StartLogs
<1>4. StartsLogged'
  <2>1. CASE ok
    BY <1>2, <2>1 DEF StartsLogged, StartRetry
  <2>2. CASE ~ok /\ hb.start_retry = 0
    <3>1. start_log.fails = 0 /\ ~start_log.acked
      BY <1>2, <2>2 DEF RetryInv, StartsLogged, NoStarts
    <3> QED
      BY <1>2, <1>3, <2>2, <3>1, ConstantsTyped DEF StartsLogged, StartRetry, Assumptions
  <2>3. CASE ~ok /\ hb.start_retry # 0
    <3>1. /\ hb.start_retry \in Nat /\ start_log.fails \in Nat
          /\ RetryCnt \in Nat
      BY <1>0, ConstantsTyped DEF LoopLocals, StartLogs, Assumptions
    <3>2. /\ ~start_log.acked
          /\ start_log.fails + hb.start_retry <= RetryCnt + 1
      BY <2>3, <3>1 DEF RetryInv, StartsLogged
    <3> QED
      BY <1>2, <1>3, <2>3, <3>1, <3>2 DEF StartsLogged, StartRetry
  <2> QED
    BY <2>1, <2>2, <2>3
<1>5. DelayBeat' /\ StopsLogged'
  BY <1>2, StatesDiffer DEF RetryInv, DelayBeat, StopsLogged, AssumeAfterAllRetries
<1> QED
  BY <1>4, <1>5 DEF RetryInv

\* A STOP is counted.
LEMMA StopKeepsRetries ==
  ASSUME TypeInv, GrantInv, RetryInv, SendFirstStop \/ SendStop
  PROVE  RetryInv'
<1>0. hb \in LoopLocals /\ stop_log \in StopLogs /\ RetryCnt \in Nat /\ RetryCnt > 1
  BY ConstantsTyped DEF TypeInv, TypeOK, Assumptions
<1>1. ASSUME NEW ok \in BOOLEAN, StopOutcome(ok)
      PROVE  /\ ok => stop_log'.acked
             /\ ~ok => /\ stop_log'.fails = stop_log.fails + 1
                       /\ stop_log'.acked = stop_log.acked
  BY <1>0, <1>1 DEF StopOutcome, StopLogs
<1>2. start_log' = start_log /\ state' = state
  BY DEF SendFirstStop, SendStop
<1>3. CASE SendFirstStop
  <2>1. PICK ok \in BOOLEAN :
           /\ StopOutcome(ok)
           /\ hb' = [hb EXCEPT !.pc = IF FirstStopRetry(ok) > 0 THEN "stop" ELSE "send",
                               !.stop_retry = FirstStopRetry(ok),
                               !.heartbeat = "shutdown_delay"]
    BY <1>3 DEF SendFirstStop
  <2>2. /\ hb.pc = "stop_first" /\ hb'.pc \in {"stop", "send"}
        /\ hb'.cur_state = S_SHUTDOWN_DELAY /\ hb'.start_retry = hb.start_retry
        /\ hb'.stop_retry = FirstStopRetry(ok)
    BY <1>0, <1>3, <2>1 DEF SendFirstStop, At, LoopLocals, GrantInv, PassState
  <2>3. StopsCounted'
    <3>1. stop_log.fails = 0 /\ ~stop_log.acked
      BY <2>2 DEF RetryInv, StopsLogged
    <3> QED
      BY <1>0, <1>1, <2>1, <2>2, <3>1 DEF StopsCounted, FirstStopRetry
  <2> QED
    BY <1>2, <2>2, <2>3
       DEF RetryInv, DelayBeat, StopsLogged, StartsLogged, AssumeAfterAllRetries
<1>4. CASE SendStop
  <2>1. PICK ok \in BOOLEAN :
           /\ StopOutcome(ok)
           /\ hb' = [hb EXCEPT !.pc = IF ~ok /\ StopRetry(ok) = 0 THEN "assume"
                                                                 ELSE "send",
                               !.stop_retry = StopRetry(ok)]
    BY <1>4 DEF SendStop
  <2>2. /\ hb.pc = "stop" /\ hb'.start_retry = hb.start_retry
        /\ hb'.cur_state = S_SHUTDOWN_DELAY
        /\ hb'.stop_retry = StopRetry(ok)
        /\ hb'.pc = IF ~ok /\ StopRetry(ok) = 0 THEN "assume" ELSE "send"
    BY <1>0, <1>4, <2>1 DEF SendStop, At, LoopLocals, GrantInv, PassState
  <2>3. /\ ~stop_log.acked /\ hb.stop_retry > 0
        /\ stop_log.fails + hb.stop_retry = RetryCnt + 1
        /\ hb.stop_retry \in Nat /\ stop_log.fails \in Nat
    <3>1. hb.stop_retry > 0 /\ hb.stop_retry \in Nat /\ stop_log.fails \in Nat
      BY <1>0, <2>2 DEF TypeInv, RetriesLeft, LoopLocals, StopLogs
    <3>2. StopsCounted
      BY <2>2 DEF RetryInv, StopsLogged
    <3> QED
      BY <3>1, <3>2 DEF StopsCounted
  <2>4. CASE ok
    <3>1. hb'.pc = "send" /\ StopsCounted'
      BY <1>1, <2>1, <2>2, <2>4 DEF StopsCounted, StopRetry
    <3> QED
      BY <1>2, <2>2, <3>1
         DEF RetryInv, DelayBeat, StopsLogged, StartsLogged, AssumeAfterAllRetries
  <2>5. CASE ~ok
    <3>1. /\ ~stop_log'.acked /\ stop_log'.fails = stop_log.fails + 1
          /\ hb'.stop_retry = hb.stop_retry - 1
      BY <1>1, <2>1, <2>2, <2>3, <2>5 DEF StopRetry
    <3>2. CASE hb.stop_retry = 1
      <4>1. hb'.pc = "assume" /\ stop_log'.fails = RetryCnt + 1
        BY <1>0, <2>2, <2>3, <2>5, <3>1, <3>2
      <4> QED
        BY <1>2, <2>2, <3>1, <4>1
           DEF RetryInv, DelayBeat, StopsLogged, StartsLogged, AssumeAfterAllRetries
    <3>3. CASE hb.stop_retry # 1
      <4>1. hb'.pc = "send" /\ StopsCounted'
        BY <1>0, <2>2, <2>3, <2>5, <3>1, <3>3 DEF StopsCounted
      <4> QED
        BY <1>2, <2>2, <4>1
           DEF RetryInv, DelayBeat, StopsLogged, StartsLogged, AssumeAfterAllRetries
    <3> QED
      BY <3>2, <3>3
  <2> QED
    BY <2>4, <2>5
<1> QED
  BY <1>3, <1>4

\* The steps of the loop that call state_transit keep the counts.
LEMMA TransitKeepsRetries ==
  ASSUME TypeInv, GrantInv, RetryInv, EnterDelay \/ AssumeSuspend \/ Back
  PROVE  RetryInv'
<1>0. hb \in LoopLocals /\ state \in States
  BY DEF TypeInv, TypeOK
<1>1. CASE EnterDelay
  <2>1. /\ hb.pc = "delay" /\ start_log' = start_log
        /\ hb'.cur_state = state' /\ hb'.heartbeat = hb.heartbeat
        /\ hb'.start_retry = hb.start_retry
        /\ hb'.pc = IF state' = S_SHUTDOWN_DELAY THEN "stop_first" ELSE "send"
        /\ state' = S_SHUTDOWN_DELAY => stop_log' = NoStops
    BY <1>0, <1>1 DEF EnterDelay, At, LoopLocals
  <2>2. NoStops.fails = 0 /\ ~NoStops.acked
    BY DEF NoStops
  <2> QED
    BY <2>1, <2>2
       DEF RetryInv, DelayBeat, StopsLogged, StartsLogged, AssumeAfterAllRetries
<1>2. CASE AssumeSuspend
  <2>1. /\ hb.pc = "assume" /\ hb'.pc = "top" /\ start_log' = start_log
        /\ hb'.heartbeat = "none" /\ hb'.start_retry = hb.start_retry
    BY <1>0, <1>2 DEF AssumeSuspend, At, LoopLocals
  <2>2. state' # S_SHUTDOWN_DELAY
    BY <1>0, <1>2, StatesDiffer DEF AssumeSuspend, Transit
  <2> QED
    BY <2>1, <2>2
       DEF RetryInv, DelayBeat, StopsLogged, StartsLogged, AssumeAfterAllRetries
<1>3. CASE Back
  <2>1. /\ hb.pc = "back" /\ hb'.pc = "poll" /\ start_log' = start_log
        /\ hb'.heartbeat = hb.heartbeat /\ hb'.start_retry = hb.start_retry
    BY <1>0, <1>3 DEF Back, At, LoopLocals
  <2> QED
    BY <2>1 DEF RetryInv, DelayBeat, StopsLogged, StartsLogged, AssumeAfterAllRetries
<1> QED
  BY <1>1, <1>2, <1>3

\* The other threads do not count, and none of them enters the delay.
LEMMA OthersKeepRetries ==
  ASSUME TypeInv, GrantInv, RetryInv,
         WakeupThread \/ LcsServer \/ HandleStop \/ SuspendJobEnds \/ Environment
  PROVE  RetryInv'
<1>0. hb \in LoopLocals /\ state \in States /\ stop_log \in StopLogs
  BY DEF TypeInv, TypeOK
<1>1. CASE Sigterm
  <2>1. PICK beat \in TermBeats :
           Local([hb EXCEPT !.pc = "exited", !.heartbeat = beat])
    BY <1>1 DEF Sigterm
  <2>2. /\ hb'.pc = "exited" /\ hb'.start_retry = hb.start_retry
        /\ start_log' = start_log
    BY <1>0, <2>1 DEF Local, notHb, hist, LoopLocals
  <2> QED
    BY <2>2 DEF RetryInv, DelayBeat, StopsLogged, StartsLogged, AssumeAfterAllRetries
<1>2. ASSUME hb' = hb, start_log' = start_log,
             stop_log'.fails = stop_log.fails, stop_log'.acked = stop_log.acked,
             state' = S_SHUTDOWN_DELAY => state = S_SHUTDOWN_DELAY
      PROVE  RetryInv'
  BY <1>2 DEF RetryInv, DelayBeat, StopsLogged, StopsCounted, StartsLogged,
              AssumeAfterAllRetries
<1>3. ASSUME NEW k \in Requests, NEW err \in BOOLEAN, Handle(k, err)
      PROVE  state' = S_SHUTDOWN_DELAY => state = S_SHUTDOWN_DELAY
  BY <1>0, <1>3, TransitTyped, RequestStates, StateNames, StatesDiffer DEF Handle
<1>4. CASE TransitReason
  <2>1. ReasonState(wakeup_reason) \in {S_IOC_SHUTDOWN, S_SHUTDOWN, S_ALIVE}
    BY DEF ReasonState
  <2>2. state' = S_SHUTDOWN_DELAY => state = S_SHUTDOWN_DELAY
    BY <1>0, <1>4, <2>1, TransitTyped, StateNames, StatesDiffer DEF TransitReason
  <2> QED
    BY <1>2, <1>4, <2>2 DEF TransitReason, loopOnly
<1>5. CASE RequestFromAcrnd
  <2>1. PICK a \in Answers : Handle(a[1], a[2])
    BY <1>5 DEF RequestFromAcrnd
  <2>2. a[1] \in Requests /\ a[2] \in BOOLEAN
    BY ConstantsTyped DEF Assumptions
  <2> QED
    BY <1>2, <1>3, <1>5, <2>1, <2>2 DEF RequestFromAcrnd, loopOnly
<1>6. CASE RequestFromSelf
  <2>1. PICK k \in {"shutdown", "suspend"} : Handle(k, FALSE)
    BY <1>6 DEF RequestFromSelf
  <2> QED
    BY <1>2, <1>3, <1>6, <2>1 DEF RequestFromSelf, loopOnly, Requests
<1>7. CASE HandleStop
  <2>1. stop_log'.fails = stop_log.fails /\ stop_log'.acked = stop_log.acked
    BY <1>0, <1>7 DEF HandleStop, StopLogs
  <2> QED
    BY <1>2, <1>7, <2>1 DEF HandleStop, loopOnly
<1>8. CASE PostReason \/ SetForceS5 \/ PostRequest \/ SuspendJobEnds
           \/ ReadReason \/ HandleRtc
  BY <1>2, <1>8 DEF PostReason, SetForceS5, PostRequest, SuspendJobEnds,
                    ReadReason, HandleRtc, loopOnly
<1> QED
  BY <1>1, <1>4, <1>5, <1>6, <1>7, <1>8 DEF WakeupThread, LcsServer, Environment

LEMMA InitRetries == Init => RetryInv
BY DEF Init, RetryInv, DelayBeat, StopsLogged, StartsLogged, AssumeAfterAllRetries,
       S_DEFAULT, S_SHUTDOWN_DELAY

LEMMA NextKeepsRetries ==
  TypeInv /\ GrantInv /\ RetryInv /\ [Next]_vars => RetryInv'
<1> SUFFICES ASSUME TypeInv, GrantInv, RetryInv, [Next]_vars PROVE RetryInv'
  OBVIOUS
<1>1. CASE UNCHANGED vars
  BY <1>1 DEF vars, notHb, hist, RetryInv, DelayBeat, StopsLogged, StopsCounted,
              StartsLogged, AssumeAfterAllRetries
<1>2. CASE HeartbeatLoop
  BY <1>2, PassStartKeepsRetries, MoveKeepsRetries, StartKeepsRetries,
     StopKeepsRetries, TransitKeepsRetries DEF HeartbeatLoop
<1> QED
  BY <1>1, <1>2, OthersKeepRetries DEF Next

LEMMA RetryInvariant == Spec => [](TypeInv /\ GrantInv /\ RetryInv)
BY InitTyped, NextTyped, InitGrants, NextKeepsGrants, InitRetries, NextKeepsRetries,
   PTL DEF Spec

\* What the counts say.
LEMMA CountsMean ==
  TypeInv /\ RetryInv => DelayJustified /\ AssumeAfterAllRetries /\ ResumeBounded
<1> SUFFICES ASSUME TypeInv, RetryInv
             PROVE  DelayJustified /\ AssumeAfterAllRetries /\ ResumeBounded
  OBVIOUS
<1>1. DelayJustified
  BY DEF RetryInv, DelayBeat, StopsLogged, StopsCounted, DelayJustified
<1>2. AssumeAfterAllRetries
  BY DEF RetryInv, StopsLogged
<1>3. ResumeBounded
  <2> SUFFICES ASSUME hb.pc = "resume"
               PROVE  ~start_log.acked /\ start_log.fails <= RetryCnt
    BY DEF ResumeBounded
  <2>1. hb.start_retry \in Nat /\ start_log.fails \in Nat /\ RetryCnt \in Nat
    BY ConstantsTyped DEF TypeInv, TypeOK, LoopLocals, StartLogs, Assumptions
  <2>2. NoStarts.fails = 0 /\ ~NoStarts.acked
    BY DEF NoStarts
  <2> QED
    BY <2>1, <2>2 DEF RetryInv, StartsLogged
<1> QED
  BY <1>1, <1>2, <1>3

\* The IOC is asked for a delay only while acrnd has the STOP or retries are left.
THEOREM DelayIsJustified == Spec => []DelayJustified
BY CountsMean, RetryInvariant, PTL

\* Suspend is assumed only after every attempt of this very delay has failed.
THEOREM SuspendIsAssumedLast == Spec => []AssumeAfterAllRetries
BY CountsMean, RetryInvariant, PTL

\* acrnd gets at most RETRY_CNT + 1 RESUMEs for one keep_alive, none after one
\* succeeded.
THEOREM ResumesAreBounded == Spec => []ResumeBounded
BY CountsMean, RetryInvariant, PTL

----------------------------------------------------------------------------
(* Where the grants come from.                                             *)

\* What gives action k: an answer of acrnd that agrees; without acrnd, a request
\* that handle_stop sent, never one to reboot; or every attempt of this delay failed.
Earned(k) ==
    \/ /\ IsAcrn /\ <<k, FALSE>> \in Answers
       /\ lcs_pc = "idle" /\ lcs_pc' = "post"
    \/ /\ ~IsAcrn /\ k # "reboot" /\ forwarded[k] > 0
       /\ forwarded' = [forwarded EXCEPT ![k] = forwarded[k] - 1]
    \/ /\ k = "suspend" /\ hb.pc = "assume"
       /\ ~stop_log.acked /\ stop_log.fails = RetryCnt + 1

GrantsEarned == [][\A k \in granted' \ granted : Earned(k)]_vars

\* With acrnd the service never answers its own STOP.
SelfAnswer == IsAcrn => stops = 0 /\ \A k \in DOMAIN forwarded : forwarded[k] = 0

LEMMA SelfAnswerKept == TypeInv /\ SelfAnswer /\ [Next]_vars => SelfAnswer'
<1> SUFFICES ASSUME TypeOK, SelfAnswer, [Next]_vars PROVE SelfAnswer'
  BY DEF TypeInv
<1>1. CASE SendFirstStop \/ SendStop
  BY <1>1 DEF SelfAnswer, SendFirstStop, SendStop, StopOutcome, notLoop
<1>2. CASE RequestFromSelf \/ HandleStop
  <2>1. stops > 0 \/ \E k \in {"shutdown", "suspend"} : forwarded[k] > 0
    BY <1>2 DEF RequestFromSelf, HandleStop
  <2>2. DOMAIN forwarded = {"shutdown", "suspend"}
    BY DEF TypeOK
  <2>3. ~IsAcrn
    BY <2>1, <2>2 DEF SelfAnswer
  <2> QED
    BY <2>3 DEF SelfAnswer
<1>3. CASE ~(SendFirstStop \/ SendStop \/ RequestFromSelf \/ HandleStop)
  <2>1. stops' = stops /\ forwarded' = forwarded
    BY <1>3 DEF Next, vars, notHb, notLoop, loopOnly, wkVars, HeartbeatLoop, WakeupThread,
         LcsServer, Environment, Read, Local, Beat, LoopStart, LoopDefault, LoopAlive,
         SendStart, LoopShutdown, EnterDelay, LoopDelay, AssumeSuspend, LoopAcrnd, LoopOff,
         Decide, RtcSent, ExecFinal, ExecSuspend, Back, PollState, PollJobs, SendHeartbeat,
         Wait, Sigterm, ReadReason, TransitReason, PostReason, SetForceS5, PostRequest,
         RequestFromAcrnd, HandleRtc, SuspendJobEnds
  <2> QED
    BY <2>1 DEF SelfAnswer
<1> QED
  BY <1>1, <1>2, <1>3

\* The steps that give a grant, each for its reason.
LEMMA OnlyThreeGrant ==
  ASSUME TypeInv, GrantInv, RetryInv, SelfAnswer, Next, NEW k \in granted', k \notin granted
  PROVE  Earned(k)
<1>0. TypeOK /\ hb \in LoopLocals /\ state \in States
  BY DEF TypeInv, TypeOK
<1>1. CASE RequestFromAcrnd
  <2>1. PICK a \in Answers : Handle(a[1], a[2])
    BY <1>1 DEF RequestFromAcrnd
  <2>2. /\ a = <<a[1], a[2]>> /\ a[1] \in Requests /\ a[2] \in BOOLEAN /\ IsAcrn
    BY AnswersAssumption, IsAcrnAssumption
  <2>3. ~a[2] /\ k \in Effective(state') /\ state' = AcrndState(a[1])
    BY <1>0, <2>1, <2>2, RequestStates DEF Handle, Transit, GrantInv, StateGranted, Effective
  <2>4. k = a[1] /\ lcs_pc = "idle" /\ lcs_pc' = "post"
    BY <1>1, <2>1, <2>2, <2>3, EffectiveOfRequest DEF Handle, RequestFromAcrnd, LcsReady
  <2> QED
    BY <2>2, <2>3, <2>4 DEF Earned
<1>2. CASE RequestFromSelf
  <2>1. PICK r \in {"shutdown", "suspend"} :
           /\ forwarded[r] > 0
           /\ forwarded' = [forwarded EXCEPT ![r] = forwarded[r] - 1]
           /\ Handle(r, FALSE)
    BY <1>2 DEF RequestFromSelf
  <2>2. r \in Requests /\ ~IsAcrn
    BY <1>0, <2>1, IsAcrnAssumption DEF Requests, SelfAnswer, TypeOK
  <2>3. k \in Effective(state') /\ state' = AcrndState(r)
    BY <1>0, <2>1, <2>2, RequestStates DEF Handle, Transit, GrantInv, StateGranted, Effective
  <2>4. k = r
    BY <2>2, <2>3, EffectiveOfRequest
  <2> QED
    BY <2>1, <2>2, <2>4 DEF Earned
<1>3. CASE AssumeSuspend
  <2>1. hb.pc = "assume" /\ ~stop_log.acked /\ stop_log.fails = RetryCnt + 1
    BY <1>3 DEF AssumeSuspend, At, RetryInv, StopsLogged, AssumeAfterAllRetries
  <2>2. k \in Effective(state') /\ state' = S_ACRND_SUSPEND
    BY <1>3 DEF AssumeSuspend, Transit, GrantInv, StateGranted
  <2>3. k = "suspend"
    BY <2>2, RequestStates, EffectiveOfRequest DEF Effective, AcrndState, Requests
  <2> QED
    BY <2>1, <2>3 DEF Earned
<1>4. CASE Back
  <2>1. k \in Effective(state') /\ state' \in {state, S_DEFAULT}
    BY <1>4 DEF Back, Transit
  <2>2. k \in Effective(state)
    BY <2>1, EffectiveOfOthers
  <2> QED
    BY <2>2 DEF GrantInv, StateGranted
<1>5. CASE ~(RequestFromAcrnd \/ RequestFromSelf \/ AssumeSuspend \/ Back)
  <2>1. granted' \subseteq granted
    BY <1>5 DEF Next, notHb, notLoop, loopOnly, hist, HeartbeatLoop, WakeupThread,
         LcsServer, Environment, Read, Local, Beat, LoopStart, LoopDefault, LoopAlive,
         SendStart, LoopShutdown, EnterDelay, LoopDelay, SendFirstStop, SendStop,
         LoopAcrnd, LoopOff, Decide, RtcSent, ExecFinal, ExecSuspend, PollState, PollJobs,
         SendHeartbeat, Wait, Sigterm, ReadReason, TransitReason, PostReason, SetForceS5,
         PostRequest, HandleRtc, HandleStop, SuspendJobEnds
  <2> QED
    BY <2>1
<1> QED
  BY <1>1, <1>2, <1>3, <1>4, <1>5

LEMMA InitSelfAnswer == Init => SelfAnswer
BY DEF Init, SelfAnswer

\* No power action is granted out of nothing: with a VM manager only by its agreement,
\* without one only by a request of handle_stop, which never asks to reboot, or else
\* suspend is assumed, when every STOP of this delay has failed.
THEOREM GrantsAreEarned == Spec => GrantsEarned
<1>1. TypeInv /\ GrantInv /\ RetryInv /\ SelfAnswer /\ [Next]_vars
        => [\A k \in granted' \ granted : Earned(k)]_vars
  BY OnlyThreeGrant
<1> QED
  BY <1>1, InitTyped, NextTyped, InitGrants, NextKeepsGrants, InitRetries, NextKeepsRetries,
     InitSelfAnswer, SelfAnswerKept, PTL DEF Spec, GrantsEarned

\* Without a VM manager the machine is never rebooted by the service, and the IOC is
\* never told of a reboot but by the signal handler.
NeverReboots == ~IsAcrn => /\ hb.pc \in {"exec", "halted"} => hb.last_state # S_ACRND_REBOOT
                           /\ hb.pc = "send" => hb.heartbeat # "reboot"

THEOREM NativeNeverReboots == Spec => []NeverReboots
<1> DEFINE NoReboot == ~IsAcrn => "reboot" \notin granted
<1>1. Init => NoReboot
  BY DEF Init
<1>2. NoReboot /\ [\A k \in granted' \ granted : Earned(k)]_vars => NoReboot'
  <2>1. "reboot" \in granted' /\ "reboot" \notin granted /\ ~IsAcrn => ~Earned("reboot")
    BY DEF Earned
  <2>2. UNCHANGED vars => granted' = granted
    BY DEF vars, notHb, hist
  <2> QED
    BY <2>1, <2>2
<1>3. NoReboot /\ PowerActionGranted /\ HeartbeatGranted => NeverReboots
  <2>1. "reboot" \in Requests /\ AcrndBeat("reboot") = "reboot"
        /\ AcrndState("reboot") = S_ACRND_REBOOT
    BY DEF Requests, AcrndBeat, AcrndState
  <2>2. Effective(S_ACRND_REBOOT) = {"reboot"}
    BY <2>1, EffectiveOfRequest
  <2> QED
    BY <2>1, <2>2 DEF NeverReboots, PowerActionGranted, HeartbeatGranted, AgreedBefore
<1> QED
  BY <1>1, <1>2, <1>3, GrantsAreEarned, PowerActionsAreGranted, HeartbeatsAreGranted, PTL
     DEF Spec, GrantsEarned

----------------------------------------------------------------------------
(* What holds in the place of two comments of the code that do not hold.   *)

\* While the loop sends STOPs for a delay, this delay may have been agreed to or the
\* IOC may be off, but nothing has ended it, if acrnd never refuses.
NotTakenBack ==
    (\A a \in Answers : ~a[2]) =>
      (hb.pc \in {"stop_first", "stop", "assume"} =>
         state \notin {S_DEFAULT, S_ALIVE, S_SHUTDOWN})

\* Only a refusal, or the end of the off pass, takes a state back to default; nothing
\* takes a state beyond shutdown back to shutdown or to keep_alive.
LEMMA TransitStays ==
  ASSUME state \in States, NEW new \in States, Transit(new), new # S_DEFAULT,
         state \notin {S_DEFAULT, S_ALIVE, S_SHUTDOWN}
  PROVE  state' \notin {S_DEFAULT, S_ALIVE, S_SHUTDOWN}
BY DEF Transit, valid_map, States, S_DEFAULT, S_ALIVE, S_SHUTDOWN, S_SHUTDOWN_DELAY,
       S_ACRND_SHUTDOWN, S_IOC_SHUTDOWN, S_ACRND_REBOOT, S_ACRND_SUSPEND

\* The steps of the loop that do not lead to a STOP.
LEMMA OtherSteps ==
  ASSUME hb \in LoopLocals, HeartbeatLoop,
         ~(LoopDelay \/ EnterDelay \/ SendFirstStop \/ SendStop)
  PROVE  hb'.pc \notin {"stop_first", "stop", "assume"}
BY DEF HeartbeatLoop, LoopStart, LoopDefault, LoopAlive, SendStart, LoopShutdown,
       AssumeSuspend, LoopAcrnd, LoopOff, Decide, RtcSent, ExecFinal, ExecSuspend, Back,
       PollState, PollJobs, SendHeartbeat, Beat, Wait, Read, Local, LoopLocals

LEMMA NotTakenBackKept == TypeInv /\ NotTakenBack /\ [Next]_vars => NotTakenBack'
<1> SUFFICES ASSUME TypeOK, NotTakenBack, [Next]_vars, \A a \in Answers : ~a[2],
                    hb'.pc \in {"stop_first", "stop", "assume"}
             PROVE  state' \notin {S_DEFAULT, S_ALIVE, S_SHUTDOWN}
  BY DEF NotTakenBack, TypeInv
<1>0. hb \in LoopLocals /\ state \in States
  BY DEF TypeOK
<1>1. CASE LoopDelay
  BY <1>1, StatesDiffer, StateNames
     DEF LoopDelay, Read, S_DEFAULT, S_ALIVE, S_SHUTDOWN, S_SHUTDOWN_DELAY
<1>2. CASE EnterDelay
  <2>1. state' = S_SHUTDOWN_DELAY
    BY <1>0, <1>2 DEF EnterDelay, LoopLocals
  <2> QED
    BY <2>1, StatesDiffer
<1>3. CASE SendFirstStop \/ SendStop
  <2>1. hb.pc \in {"stop_first", "stop", "assume"} /\ state' = state
    BY <1>3 DEF SendFirstStop, SendStop, At
  <2> QED
    BY <2>1 DEF NotTakenBack
<1>4. CASE HeartbeatLoop /\ ~(LoopDelay \/ EnterDelay \/ SendFirstStop \/ SendStop)
  <2>1. hb'.pc \notin {"stop_first", "stop", "assume"}
    BY <1>0, <1>4, OtherSteps
  <2> QED
    BY <2>1
<1>5. CASE WakeupThread \/ LcsServer \/ HandleStop \/ SuspendJobEnds \/ Environment
           \/ UNCHANGED vars
  <2>0. hb' = hb
    BY <1>0, <1>5 DEF WakeupThread, LcsServer, Environment, TransitReason, PostReason,
         SetForceS5, PostRequest, RequestFromSelf, HandleStop, SuspendJobEnds, ReadReason,
         RequestFromAcrnd, HandleRtc, loopOnly, Sigterm, Local, LoopLocals, vars
  <2>1. state \notin {S_DEFAULT, S_ALIVE, S_SHUTDOWN}
    BY <2>0 DEF NotTakenBack
  <2>2. state' = state \/ \E new \in States \ {S_DEFAULT} : Transit(new)
    <3>1. CASE RequestFromAcrnd
      <4>1. PICK a \in Answers : Handle(a[1], a[2])
        BY <3>1 DEF RequestFromAcrnd
      <4>2. ~a[2] /\ a[1] \in Requests
        BY AnswersAssumption
      <4> QED
        BY <4>1, <4>2, RequestStates DEF Handle
    <3>2. CASE RequestFromSelf
      <4>1. PICK k \in {"shutdown", "suspend"} : Handle(k, FALSE)
        BY <3>2 DEF RequestFromSelf
      <4>2. k \in Requests
        BY DEF Requests
      <4> QED
        BY <4>1, <4>2, RequestStates DEF Handle
    <3>3. CASE TransitReason
      <4>1. ReasonState(wakeup_reason) \in States \ {S_DEFAULT}
        BY DEF ReasonState, States, S_DEFAULT, S_ALIVE, S_SHUTDOWN, S_IOC_SHUTDOWN
      <4> QED
        BY <3>3, <4>1 DEF TransitReason
    <3>4. CASE ~(RequestFromAcrnd \/ RequestFromSelf \/ TransitReason)
      BY <1>5, <3>4 DEF WakeupThread, LcsServer, Environment, PostReason, SetForceS5,
           PostRequest, HandleStop, SuspendJobEnds, ReadReason, HandleRtc, Sigterm, Local,
           vars, notHb
    <3> QED
      BY <3>1, <3>2, <3>3, <3>4
  <2> QED
    BY <1>0, <2>1, <2>2, TransitStays
<1> QED
  BY <1>1, <1>2, <1>3, <1>4, <1>5 DEF Next

LEMMA InitNotTakenBack == Init => NotTakenBack
BY DEF Init, NotTakenBack

\* "no one handle our stop request, assume suspend": when acrnd never refuses, and so
\* in particular without acrnd, suspend is assumed only of a delay that still lasts.
THEOREM AssumedInDelay ==
  ASSUME \A a \in Answers : ~a[2]
  PROVE  Spec => AssumeOnlyInDelay
<1>1. TypeInv /\ NotTakenBack /\ [Next]_vars
        => [hb.pc = "assume" /\ hb.pc' = "top" /\ state' # state
              => state = S_SHUTDOWN_DELAY]_vars
  <2> SUFFICES ASSUME TypeOK, NotTakenBack, Next, hb.pc = "assume", hb.pc' = "top",
                      state' # state
               PROVE  state = S_SHUTDOWN_DELAY
    BY DEF TypeInv
  <2>0. hb \in LoopLocals /\ state \in States
    BY DEF TypeOK
  <2>1. hb' # hb
    BY <2>0
  <2>2. AssumeSuspend
    BY <2>0, <2>1 DEF Next, HeartbeatLoop, LoopStart, LoopDefault, LoopAlive, SendStart,
       LoopShutdown, EnterDelay, LoopDelay, SendFirstStop, SendStop, LoopAcrnd, LoopOff,
       Decide, RtcSent, ExecFinal, ExecSuspend, Back, PollState, PollJobs, SendHeartbeat,
       Beat, Wait, Read, At, WakeupThread, LcsServer, Environment, TransitReason, PostReason,
       SetForceS5, PostRequest, RequestFromSelf, HandleStop, SuspendJobEnds, ReadReason,
       RequestFromAcrnd, HandleRtc, loopOnly, Sigterm, Local, LoopLocals
  <2>3. S_ACRND_SUSPEND \in valid_map[state] /\ state # S_ACRND_SUSPEND
    BY <2>2 DEF AssumeSuspend, Transit
  <2>4. state \notin {S_DEFAULT, S_ALIVE, S_SHUTDOWN}
    BY DEF NotTakenBack
  <2> QED
    BY <2>0, <2>3, <2>4 DEF valid_map, States, S_DEFAULT, S_ALIVE, S_SHUTDOWN,
       S_SHUTDOWN_DELAY, S_ACRND_SHUTDOWN, S_IOC_SHUTDOWN, S_ACRND_REBOOT, S_ACRND_SUSPEND
<1> QED
  BY <1>1, InitTyped, NextTyped, InitNotTakenBack, NotTakenBackKept, PTL
     DEF Spec, AssumeOnlyInDelay

\* "bit 22 ... indicate a S5 is preferred": force_s5 is what the last request to leave
\* prefers, but for the moment in which the thread handles that request.
ForceKnown == /\ wk_pc = "read" /\ ReasonState(wakeup_reason) = S_SHUTDOWN
                   => force_s5 = (22 \in wakeup_reason)
              /\ wk_pc = "post" => ReasonState(wakeup_reason) = S_IOC_SHUTDOWN

S5HonouredWhenKnown ==
    [][forwarded'["suspend"] > forwarded["suspend"]
         /\ ReasonState(wakeup_reason) = S_SHUTDOWN /\ 22 \in wakeup_reason
         => wk_pc \in {"transit", "force"}]_vars

LEMMA ForceKnownKept == TypeInv /\ ForceKnown /\ [Next]_vars => ForceKnown'
<1> SUFFICES ASSUME TypeOK, ForceKnown, [Next]_vars PROVE ForceKnown'
  BY DEF TypeInv
<1> USE DEF ForceKnown
<1>1. CASE ReadReason
  BY <1>1 DEF ReadReason
<1>2. CASE TransitReason
  <2>1. wakeup_reason' = wakeup_reason
        /\ wk_pc' = CASE ReasonState(wakeup_reason) = S_IOC_SHUTDOWN -> "post"
                      [] ReasonState(wakeup_reason) = S_SHUTDOWN     -> "force"
                      [] OTHER                                       -> "read"
    BY <1>2 DEF TransitReason
  <2> QED
    BY <2>1 DEF S_IOC_SHUTDOWN, S_SHUTDOWN, S_ALIVE, ReasonState
<1>3. CASE PostReason
  BY <1>3 DEF PostReason, S_IOC_SHUTDOWN, S_SHUTDOWN, ReasonState
<1>4. CASE SetForceS5
  BY <1>4 DEF SetForceS5, ReasonState
<1>5. CASE ~(ReadReason \/ TransitReason \/ PostReason \/ SetForceS5)
  <2>1. UNCHANGED wkVars
    BY <1>5 DEF Next, vars, notHb, notLoop, loopOnly, HeartbeatLoop, WakeupThread,
         LcsServer, Environment, Read, Local, Beat, LoopStart, LoopDefault, LoopAlive,
         SendStart, LoopShutdown, EnterDelay, LoopDelay, SendFirstStop, SendStop,
         AssumeSuspend, LoopAcrnd, LoopOff, Decide, RtcSent, ExecFinal, ExecSuspend, Back,
         PollState, PollJobs, SendHeartbeat, Wait, Sigterm, PostRequest, RequestFromAcrnd,
         RequestFromSelf, HandleRtc, HandleStop, SuspendJobEnds
  <2> QED
    BY <2>1 DEF wkVars, ReasonState
<1> QED
  BY <1>1, <1>2, <1>3, <1>4, <1>5

LEMMA InitForceKnown == Init => ForceKnown
BY DEF Init, ForceKnown, ReasonState, S_IOC_SHUTDOWN, S_SHUTDOWN

\* handle_stop asks for a suspend against the preference of the IOC only while the
\* thread that reads the reasons is between taking the request and storing its bit 22.
THEOREM S5IsHonouredWhenKnown == Spec => S5HonouredWhenKnown
<1>1. TypeInv /\ ForceKnown /\ [Next]_vars
        => [forwarded'["suspend"] > forwarded["suspend"]
              /\ ReasonState(wakeup_reason) = S_SHUTDOWN /\ 22 \in wakeup_reason
              => wk_pc \in {"transit", "force"}]_vars
  <2> SUFFICES ASSUME TypeOK, ForceKnown, Next, forwarded'["suspend"] > forwarded["suspend"],
                      ReasonState(wakeup_reason) = S_SHUTDOWN, 22 \in wakeup_reason
               PROVE  wk_pc \in {"transit", "force"}
    BY DEF TypeInv
  <2>1. HandleStop
    <3>0. forwarded \in [{"shutdown", "suspend"} -> Nat]
      BY DEF TypeOK
    <3>1. forwarded' # forwarded
      BY <3>0
    <3>2. ASSUME NEW k \in {"shutdown", "suspend"},
                 forwarded' = [forwarded EXCEPT ![k] = forwarded[k] - 1]
          PROVE  FALSE
      BY <3>0, <3>2
    <3>3. ~RequestFromSelf
      BY <3>2 DEF RequestFromSelf
    <3> QED
      BY <3>1, <3>3 DEF Next, notHb, notLoop, loopOnly, HeartbeatLoop, WakeupThread,
         LcsServer, Environment, Read, Local, Beat, LoopStart, LoopDefault, LoopAlive,
         SendStart, LoopShutdown, EnterDelay, LoopDelay, SendFirstStop, SendStop,
         AssumeSuspend, LoopAcrnd, LoopOff, Decide, RtcSent, ExecFinal, ExecSuspend, Back,
         PollState, PollJobs, SendHeartbeat, Wait, Sigterm, ReadReason, TransitReason,
         PostReason, SetForceS5, PostRequest, RequestFromAcrnd, HandleRtc, SuspendJobEnds
  <2>2. ~force_s5
    BY <2>1 DEF HandleStop, TypeOK
  <2>3. wk_pc \notin {"read", "post"}
    BY <2>2 DEF ForceKnown, S_SHUTDOWN, S_IOC_SHUTDOWN
  <2> QED
    BY <2>3 DEF TypeOK
<1> QED
  BY <1>1, InitTyped, NextTyped, InitForceKnown, ForceKnownKept, PTL
     DEF Spec, S5HonouredWhenKnown
=============================================================================
