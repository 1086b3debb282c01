------------------------ MODULE PowerProtocolProofs ------------------------
(***************************************************************************)
(* The life cycle service implements PowerProtocol: each of its steps is a *)
(* step of the abstract specification or changes nothing there.  What      *)
(* follows from the promise then holds of the service.                     *)
(***************************************************************************)
EXTENDS CbcLifecycleProofs

PromiseStep == Promise!Next \/ UNCHANGED <<Phase, granted, Doing>>

\* The phase of a state.
PhaseOf(s) == CASE s \in {S_DEFAULT, S_ALIVE}           -> "up"
                [] s \in {S_SHUTDOWN, S_SHUTDOWN_DELAY} -> "leaving"
                [] s = S_IOC_SHUTDOWN                   -> "off"
                [] OTHER                                -> "agreed"

LEMMA PhaseIs == Phase = PhaseOf(state) /\ Phase' = PhaseOf(state')
BY DEF Phase, PhaseOf

\* The phase tells the states with an agreement from the others.
LEMMA PhaseOfState ==
  ASSUME NEW s \in States
  PROVE  /\ PhaseOf(s) = "up" <=> s \in {S_DEFAULT, S_ALIVE}
         /\ PhaseOf(s) = "leaving" <=> s \in {S_SHUTDOWN, S_SHUTDOWN_DELAY}
         /\ PhaseOf(s) = "off" <=> s = S_IOC_SHUTDOWN
         /\ PhaseOf(s) = "agreed" <=> Effective(s) # {}
         /\ PhaseOf(s) \in {"up", "leaving", "off", "agreed"}
BY DEF PhaseOf, Effective, AcrndState, Requests, States, S_DEFAULT, S_ALIVE,
       S_SHUTDOWN, S_SHUTDOWN_DELAY, S_ACRND_SHUTDOWN, S_IOC_SHUTDOWN,
       S_ACRND_REBOOT, S_ACRND_SUSPEND

\* What state_transit does to the phase.  An agreement is left by going off only.
LEMMA PhaseMoves ==
  ASSUME state \in States, NEW new \in States, Transit(new), state' # state
  PROVE  /\ state' = new /\ state' \in States
         /\ new = S_DEFAULT => state \in {S_SHUTDOWN_DELAY, S_IOC_SHUTDOWN}
         /\ new = S_ALIVE => state = S_DEFAULT
         /\ new = S_SHUTDOWN => state \in {S_DEFAULT, S_ALIVE}
         /\ new = S_SHUTDOWN_DELAY => state = S_SHUTDOWN
         /\ new = S_IOC_SHUTDOWN => Phase \in {"leaving", "agreed"}
         /\ Effective(new) # {} => Phase \in {"up", "leaving"}
<1>1. state' = new /\ new \in valid_map[state]
  BY DEF Transit
<1>2. \A s \in States : new \in valid_map[s] /\ new # s =>
        /\ new = S_DEFAULT => s \in {S_SHUTDOWN_DELAY, S_IOC_SHUTDOWN}
        /\ new = S_ALIVE => s = S_DEFAULT
        /\ new = S_SHUTDOWN => s \in {S_DEFAULT, S_ALIVE}
        /\ new = S_SHUTDOWN_DELAY => s = S_SHUTDOWN
        /\ new = S_IOC_SHUTDOWN => s \notin {S_DEFAULT, S_ALIVE, S_IOC_SHUTDOWN}
        /\ new \in {S_ACRND_SHUTDOWN, S_ACRND_REBOOT, S_ACRND_SUSPEND} =>
             s \in {S_ALIVE, S_SHUTDOWN, S_SHUTDOWN_DELAY}
  BY DEF valid_map, States, S_DEFAULT, S_ALIVE, S_SHUTDOWN, S_SHUTDOWN_DELAY,
         S_ACRND_SHUTDOWN, S_IOC_SHUTDOWN, S_ACRND_REBOOT, S_ACRND_SUSPEND
<1>3. Effective(new) # {} => new \in {S_ACRND_SHUTDOWN, S_ACRND_REBOOT, S_ACRND_SUSPEND}
  BY DEF Effective, AcrndState, Requests
<1> QED
  BY <1>1, <1>2, <1>3, PhaseIs, PhaseOfState

LEMMA SameStateSamePhase == state' = state => Phase' = Phase
BY DEF Phase

LEMMA SameLoopSameDoing == hb' = hb => Doing' = Doing
BY DEF Doing

\* The action the loop carries out is the one agreed to in the pass before.
LEMMA DoingAgreed ==
  ASSUME hb.pc \in {"exec", "halted"}, NEW k \in Requests,
         hb.last_state = AcrndState(k)
  PROVE  Doing = k
<1>1. \A j \in Requests : AcrndState(j) = hb.last_state => j = k
  BY RequestStates
<1>2. (CHOOSE j \in Requests : AcrndState(j) = hb.last_state) = k
  BY <1>1
<1> QED
  BY <1>2 DEF Doing

\* What another thread, or the loop while it does nothing, may do to the state.
LEMMA GrantStep ==
  ASSUME TypeOK, GrantInv, NEW new \in States, Transit(new), Doing' = Doing,
         granted' = granted \cup Effective(state')
  PROVE  PromiseStep
<1>0. state \in States
  BY DEF TypeOK
<1>1. CASE state' = state
  BY <1>1, SameStateSamePhase DEF GrantInv, StateGranted, Effective, PromiseStep
<1>2. CASE state' # state
  <2>1. state' = new /\ state' \in States
    BY <1>0, <1>2, PhaseMoves
  <2>2. CASE Effective(new) # {}
    <3>1. PICK k \in Requests : AcrndState(k) = new
      BY <2>2 DEF Effective
    <3>2. Effective(new) = {k}
      BY <3>1, EffectiveOfRequest
    <3>3. Phase \in {"up", "leaving"}
      BY <1>0, <1>2, <2>2, PhaseMoves
    <3>4. Phase' = "agreed"
      BY <2>1, <2>2, PhaseIs, PhaseOfState
    <3>5. Promise!Agree(k)
      BY <2>1, <3>2, <3>3, <3>4 DEF Promise!Agree
    <3> QED
      BY <3>5 DEF PromiseStep, Promise!Next
  <2>3. CASE Effective(new) = {}
    <3>1. granted' = granted
      BY <2>1, <2>3
    <3>2. \/ Phase' = Phase
          \/ Phase = "up" /\ Phase' = "leaving"
          \/ Phase \in {"leaving", "off"} /\ Phase' = "up"
          \/ Phase \in {"leaving", "agreed"} /\ Phase' = "off"
      BY <1>0, <1>2, <2>1, <2>3, PhaseMoves, PhaseIs, PhaseOfState
    <3> QED
      BY <3>1, <3>2
         DEF PromiseStep, Promise!Next, Promise!Leave, Promise!Return, Promise!Off
  <2> QED
    BY <2>2, <2>3
<1> QED
  BY <1>1, <1>2

----------------------------------------------------------------------------
(* The heartbeat loop *)

\* A pass starts.  Where there is no agreement to keep, the grants lapse.
LEMMA ReadPromised ==
  ASSUME TypeOK, GrantInv, NEW s \in States, NEW p \in LoopSteps \ {"exec", "halted", "exited"},
         NEW b, Read(s, p, b)
  PROVE  PromiseStep
<1>1. hb.pc = "top" /\ state = s /\ state' = state /\ hb'.pc = p
  BY DEF Read, At, TypeOK, LoopLocals
<1>2. Doing = "none" /\ Doing' = "none" /\ Phase' = Phase
  BY <1>1, SameStateSamePhase DEF Doing
<1>3. CASE granted' = granted
  BY <1>2, <1>3 DEF PromiseStep
<1>4. CASE granted' # granted
  <2>1. granted' = {} /\ Effective(s) = {}
    BY <1>4 DEF Read
  <2>2. Phase # "agreed"
    BY <1>1, <2>1, PhaseIs, PhaseOfState
  <2>3. Promise!Settle
    BY <1>2, <2>1, <2>2 DEF Promise!Settle
  <2> QED
    BY <2>3 DEF PromiseStep, Promise!Next
<1> QED
  BY <1>3, <1>4

\* The loop begins to carry out an action: one that was granted.
LEMMA PerformPromised ==
  ASSUME hb.pc \in {"off", "rtc"}, hb'.pc = "exec", hb'.last_state = hb.last_state,
         Effective(hb.last_state) # {}, Effective(hb.last_state) \subseteq granted,
         state' = state, granted' = granted
  PROVE  PromiseStep
<1>1. PICK k \in Requests : AcrndState(k) = hb.last_state
  BY DEF Effective
<1>2. k \in granted
  BY <1>1, EffectiveOfRequest
<1>3. \A j \in Requests : AcrndState(j) = hb'.last_state => j = k
  BY <1>1, RequestStates
<1>4. (CHOOSE j \in Requests : AcrndState(j) = hb'.last_state) = k
  BY <1>1, <1>3
<1>5. Doing = "none" /\ Doing' = k /\ Phase' = Phase
  BY <1>4, SameStateSamePhase DEF Doing
<1>6. Promise!Perform(k)
  BY <1>2, <1>5 DEF Promise!Perform
<1> QED
  BY <1>6 DEF PromiseStep, Promise!Next

\* Steps of the loop that change nothing of the promise.
LEMMA QuietPromised ==
  ASSUME state' = state, granted' = granted,
         \/ hb' = hb
         \/ hb.pc = "exec" /\ hb'.pc = "halted" /\ hb'.last_state = hb.last_state
         \/ /\ hb.pc \notin {"exec", "halted", "exited"}
            /\ hb'.pc \notin {"exec", "halted", "exited"}
  PROVE  PromiseStep
<1> DEFINE Act(s) == CHOOSE k \in Requests : AcrndState(k) = s
<1>1. CASE hb.pc = "exec" /\ hb'.pc = "halted" /\ hb'.last_state = hb.last_state
  <2>1. Doing = Act(hb.last_state) /\ Doing' = Act(hb'.last_state)
    BY <1>1 DEF Doing
  <2> HIDE DEF Act
  <2> QED
    BY <1>1, <2>1, SameStateSamePhase DEF PromiseStep
<1>2. CASE hb' = hb
  BY <1>2, SameLoopSameDoing, SameStateSamePhase DEF PromiseStep
<1>3. CASE /\ hb.pc \notin {"exec", "halted", "exited"}
           /\ hb'.pc \notin {"exec", "halted", "exited"}
  <2>1. Doing = "none" /\ Doing' = "none"
    BY <1>3 DEF Doing
  <2> QED
    BY <2>1, SameStateSamePhase DEF PromiseStep
<1> QED
  BY <1>1, <1>2, <1>3

\* The suspend has been asked for: what is agreed stays granted.
LEMMA ExecSuspendPromised == TypeOK /\ GrantInv /\ ExecSuspend => PromiseStep
<1> SUFFICES ASSUME TypeOK, GrantInv, ExecSuspend PROVE PromiseStep
  OBVIOUS
<1>1. /\ hb.pc = "exec" /\ hb.last_state = AcrndState("suspend") /\ hb'.pc = "back"
      /\ state' = state /\ granted' = granted
  BY DEF ExecSuspend, At, TypeOK, LoopLocals, hist, AcrndState
<1>2. Doing = "suspend" /\ Doing' = "none" /\ Phase' = Phase
  BY <1>1, DoingAgreed, SameStateSamePhase DEF Doing, Requests
<1>3. Phase = "agreed" => granted # {}
  <2>1. state \in States /\ Effective(state) \subseteq granted
    BY DEF TypeOK, GrantInv, StateGranted
  <2> QED
    BY <2>1, PhaseIs, PhaseOfState
<1>4. Promise!Settle
  BY <1>1, <1>2, <1>3 DEF Promise!Settle
<1> QED
  BY <1>4 DEF PromiseStep, Promise!Next

\* The end of the off pass settles what was granted, but for what is agreed now.
\* It can turn a delay into nothing to do, but there is none: DelayOwned.
LEMMA BackPromised == TypeOK /\ GrantInv /\ Back => PromiseStep
<1> SUFFICES ASSUME TypeOK, GrantInv, Back PROVE PromiseStep
  OBVIOUS
<1>1. /\ hb.pc = "back" /\ hb'.pc = "poll" /\ Transit(S_DEFAULT)
      /\ granted' = Effective(state') /\ state \in States
  BY DEF Back, At, TypeOK, LoopLocals
<1>2. Doing = "none" /\ Doing' = "none"
  BY <1>1 DEF Doing
<1>3. state # S_SHUTDOWN_DELAY
  BY <1>1 DEF GrantInv, DelayOwned
<1>4. state' = state \/ (state = S_IOC_SHUTDOWN /\ state' = S_DEFAULT)
  BY <1>1, <1>3, StateNames, PhaseMoves
<1>5. granted' \in SUBSET granted
  BY <1>1, <1>4, EffectiveOfOthers DEF GrantInv, StateGranted
<1>6. /\ Phase' = Phase \/ (Phase = "off" /\ Phase' = "up")
      /\ Phase = "agreed" => granted' # {}
  BY <1>1, <1>4, StateNames, PhaseIs, PhaseOfState
<1>7. Promise!Settle
  BY <1>2, <1>5, <1>6 DEF Promise!Settle
<1> QED
  BY <1>7 DEF PromiseStep, Promise!Next

\* Entering the delay, or not, changes no phase; assuming suspend is an agreement
\* unless there is one already, or the IOC is off.
LEMMA LeavePromised == TypeOK /\ GrantInv /\ (EnterDelay \/ AssumeSuspend) => PromiseStep
<1> SUFFICES ASSUME TypeOK, GrantInv, EnterDelay \/ AssumeSuspend PROVE PromiseStep
  OBVIOUS
<1>1. CASE EnterDelay
  <2>1. /\ Transit(S_SHUTDOWN_DELAY) /\ granted' = granted
        /\ hb.pc = "delay" /\ hb'.pc \in {"stop_first", "send"}
    BY <1>1 DEF EnterDelay, At, TypeOK, LoopLocals
  <2>2. Doing' = Doing
    BY <2>1 DEF Doing
  <2>3. granted' = granted \cup Effective(state')
    <3>1. CASE state' = state
      BY <2>1, <3>1 DEF GrantInv, StateGranted, Effective
    <3>2. CASE state' = S_SHUTDOWN_DELAY
      BY <2>1, <3>2, EffectiveOfOthers
    <3> QED
      BY <2>1, <3>1, <3>2 DEF Transit
  <2> QED
    BY <2>1, <2>2, <2>3, StateNames, GrantStep
<1>2. CASE AssumeSuspend
  <2>1. /\ Transit(S_ACRND_SUSPEND) /\ granted' = granted \cup Effective(state')
        /\ hb.pc = "assume" /\ hb'.pc = "top"
    BY <1>2 DEF AssumeSuspend, At, TypeOK, LoopLocals
  <2>2. Doing' = Doing
    BY <2>1 DEF Doing
  <2> QED
    BY <2>1, <2>2, StateNames, GrantStep
<1> QED
  BY <1>1, <1>2

\* Every step of the heartbeat loop keeps the promise.
LEMMA LoopPromised == TypeInv /\ GrantInv /\ HeartbeatLoop => PromiseStep
<1> SUFFICES ASSUME TypeInv, TypeOK, GrantInv, HeartbeatLoop PROVE PromiseStep
  BY DEF TypeInv
<1>0. hb \in LoopLocals
  BY DEF TypeOK
<1>1. CASE LoopDefault \/ LoopAlive \/ LoopShutdown \/ LoopDelay \/ LoopAcrnd \/ LoopOff
  BY <1>1, ReadPromised, StateNames, RequestStates
     DEF LoopDefault, LoopAlive, LoopShutdown, LoopDelay, LoopAcrnd, LoopOff, LoopSteps
<1>2. CASE LoopStart \/ SendStart \/ SendFirstStop \/ SendStop \/ ExecFinal \/ PollState
           \/ PollJobs \/ SendHeartbeat \/ Wait
  <2>1. state' = state /\ granted' = granted
    BY <1>2 DEF LoopStart, SendStart, SendFirstStop, SendStop, ExecFinal, PollState,
                PollJobs, SendHeartbeat, Beat, Wait, Local, notHb, hist
  <2>2. CASE ExecFinal
    BY <1>0, <2>1, <2>2, QuietPromised DEF ExecFinal, At, Local, LoopLocals
  <2>3. CASE ~ExecFinal
    <3>1. hb.pc \notin {"exec", "halted", "exited"} /\ hb'.pc \notin {"exec", "halted", "exited"}
      BY <1>0, <1>2, <2>3 DEF LoopStart, SendStart, SendFirstStop, SendStop, PollState,
                              PollJobs, SendHeartbeat, Beat, Wait, At, Local, LoopLocals
    <3> QED
      BY <2>1, <3>1, QuietPromised
  <2> QED
    BY <2>2, <2>3
<1>3. CASE Decide
  <2>1. /\ hb.pc = "off" /\ state' = state /\ granted' = granted
        /\ hb'.last_state = hb.last_state
        /\ \/ hb'.pc \in {"back", "rtc"}
           \/ hb'.pc = "exec" /\ AgreedBefore # {}
    BY <1>0, <1>3 DEF Decide, At, Local, notHb, hist, LoopLocals
  <2>2. Effective(hb.last_state) \subseteq granted
    BY <2>1 DEF GrantInv, LastGranted
  <2> QED
    BY <2>1, <2>2, QuietPromised, PerformPromised DEF AgreedBefore
<1>4. CASE RtcSent
  <2>1. /\ hb.pc = "rtc" /\ hb'.pc = "exec" /\ state' = state /\ granted' = granted
        /\ hb'.last_state = hb.last_state
    BY <1>0, <1>4 DEF RtcSent, At, hist, LoopLocals
  <2>2. Effective(hb.last_state) # {} /\ Effective(hb.last_state) \subseteq granted
    BY <2>1 DEF GrantInv, LastGranted, ExecAgreed, AgreedBefore
  <2> QED
    BY <2>1, <2>2, PerformPromised
<1> QED
  BY <1>1, <1>2, <1>3, <1>4, ExecSuspendPromised, BackPromised, LeavePromised
     DEF HeartbeatLoop

----------------------------------------------------------------------------
(* The other threads and the environment *)

\* A request of the VM manager: an agreement, a refusal, or one too late.
LEMMA HandlePromised ==
  ASSUME TypeOK, GrantInv, NEW k \in Requests, NEW err \in BOOLEAN,
         Handle(k, err), hb' = hb
  PROVE  PromiseStep
<1> DEFINE new == IF err THEN S_DEFAULT ELSE AcrndState(k)
<1>1. new \in States /\ Transit(new) /\ Doing' = Doing
  BY RequestStates, StateNames, SameLoopSameDoing DEF Handle
<1>2. granted' = granted \cup Effective(state')
  <2>1. CASE err
    <3>1. state' = state \/ state' = S_DEFAULT
      BY <2>1, <1>1 DEF Transit
    <3>2. Effective(state') \subseteq granted
      BY <3>1, EffectiveOfOthers DEF GrantInv, StateGranted
    <3> QED
      BY <2>1, <3>2 DEF Handle
  <2>2. CASE ~err
    BY <2>2 DEF Handle
  <2> QED
    BY <2>1, <2>2
<1> QED
  BY <1>1, <1>2, GrantStep

LEMMA OthersPromised ==
  ASSUME TypeInv, GrantInv,
         WakeupThread \/ LcsServer \/ HandleStop \/ SuspendJobEnds \/ Environment
  PROVE  PromiseStep
<1>0. TypeOK /\ hb \in LoopLocals
  BY DEF TypeInv, TypeOK
<1>1. CASE TransitReason
  <2> DEFINE new == ReasonState(wakeup_reason)
  <2>1. new \in {S_IOC_SHUTDOWN, S_SHUTDOWN, S_ALIVE}
    BY DEF ReasonState
  <2>2. Transit(new) /\ granted' = granted /\ Doing' = Doing
    BY <1>1, SameLoopSameDoing DEF TransitReason, loopOnly
  <2> HIDE DEF new
  <2>3. Effective(state') \subseteq granted
    BY <2>1, <2>2, EffectiveOfOthers DEF Transit, GrantInv, StateGranted
  <2> QED
    BY <1>0, <2>1, <2>2, <2>3, StateNames, GrantStep
<1>2. CASE RequestFromAcrnd
  <2>1. PICK a \in Answers : Handle(a[1], a[2])
    BY <1>2 DEF RequestFromAcrnd
  <2>2. a[1] \in Requests /\ a[2] \in BOOLEAN
    BY ConstantsTyped DEF Assumptions
  <2> QED
    BY <1>0, <1>2, <2>1, <2>2, HandlePromised DEF RequestFromAcrnd, loopOnly
<1>3. CASE RequestFromSelf
  <2>1. PICK k \in {"shutdown", "suspend"} : Handle(k, FALSE)
    BY <1>3 DEF RequestFromSelf
  <2> QED
    BY <1>0, <1>3, <2>1, HandlePromised DEF RequestFromSelf, loopOnly, Requests
<1>4. CASE PostReason \/ SetForceS5 \/ PostRequest \/ HandleStop \/ SuspendJobEnds
           \/ ReadReason \/ HandleRtc
  BY <1>4, QuietPromised
     DEF PostReason, SetForceS5, PostRequest, HandleStop, SuspendJobEnds, ReadReason,
         HandleRtc, loopOnly
<1>5. CASE Sigterm
  <2>1. hb'.pc = "exited" /\ state' = state /\ granted' = granted
    BY <1>0, <1>5 DEF Sigterm, Local, notHb, hist, LoopLocals
  <2>2. Doing' = "exited" /\ Phase' = Phase
    BY <2>1, SameStateSamePhase DEF Doing
  <2>3. Promise!Exit
    BY <2>1, <2>2 DEF Promise!Exit
  <2> QED
    BY <2>3 DEF PromiseStep, Promise!Next
<1> QED
  BY <1>1, <1>2, <1>3, <1>4, <1>5 DEF WakeupThread, LcsServer, Environment

----------------------------------------------------------------------------
LEMMA InitPromised == Init => Promise!Init
<1> SUFFICES ASSUME Init PROVE Promise!Init
  OBVIOUS
<1>1. state = S_DEFAULT /\ granted = {} /\ hb.pc = "start"
  BY DEF Init
<1>2. Phase = "up"
  BY <1>1, StateNames, PhaseIs, PhaseOfState
<1>3. Doing = "none"
  BY <1>1 DEF Doing
<1> QED
  BY <1>1, <1>2, <1>3 DEF Promise!Init

LEMMA NextPromised == TypeInv /\ GrantInv /\ [Next]_vars => [Promise!Next]_(Promise!vars)
<1> SUFFICES ASSUME TypeInv, GrantInv, [Next]_vars PROVE PromiseStep
  BY DEF PromiseStep, Promise!vars
<1>1. CASE UNCHANGED vars
  BY <1>1, QuietPromised DEF vars, notHb, hist
<1> QED
  BY <1>1, LoopPromised, OthersPromised DEF Next

\* The service, with all its threads, with and without a VM manager, implements the
\* abstract protocol: an agreement is neither replaced nor withdrawn before the IOC
\* goes off, only granted actions are carried out, and shutdown and reboot are final.
THEOREM ServiceKeepsPromise == Spec => ImplementsPowerProtocol
<1>1. Spec => [](TypeInv /\ GrantInv)
  BY GrantInvariant
<1> QED
  BY <1>1, InitPromised, NextPromised, PTL
     DEF Spec, ImplementsPowerProtocol, Promise!Spec

----------------------------------------------------------------------------
(* What the promise is worth: facts of PowerProtocol, by its own steps, and *)
(* so of the service.                                                      *)

PromiseInv == Promise!TypeOK /\ Promise!Backed

LEMMA ActionsNamed == "none" \notin Requests /\ "exited" \notin Requests
BY DEF Requests

LEMMA PromiseKept == PromiseInv /\ [Promise!Next]_(Promise!vars) => PromiseInv'
<1> SUFFICES ASSUME PromiseInv, [Promise!Next]_(Promise!vars) PROVE PromiseInv'
  OBVIOUS
<1> USE ActionsNamed
    DEF PromiseInv, Promise!TypeOK, Promise!Phases, Promise!Doing, Promise!Backed
<1>1. CASE UNCHANGED Promise!vars
  BY <1>1 DEF Promise!vars
<1>2. CASE Promise!Leave \/ Promise!Return \/ Promise!Off
  BY <1>2 DEF Promise!Leave, Promise!Return, Promise!Off
<1>3. CASE Promise!Settle
  BY <1>3 DEF Promise!Settle
<1>4. CASE Promise!Exit
  BY <1>4 DEF Promise!Exit
<1>5. ASSUME NEW a \in Requests, Promise!Agree(a) PROVE PromiseInv'
  BY <1>5 DEF Promise!Agree
<1>6. ASSUME NEW a \in Requests, Promise!Perform(a) PROVE PromiseInv'
  BY <1>6 DEF Promise!Perform
<1> QED
  BY <1>1, <1>2, <1>3, <1>4, <1>5, <1>6 DEF Promise!Next

\* What one step of the promise may do to the phase and to what is performed.
LEMMA PromiseStepMeans ==
  ASSUME PromiseInv, [Promise!Next]_(Promise!vars)
  PROVE  /\ Phase = "agreed" => Phase' \in {"agreed", "off"}
         /\ Doing' \in Requests /\ Doing' # Doing => Doing = "none" /\ Doing' \in granted
         /\ Doing \in Requests \ {"suspend"} => Doing' \in {Doing, "exited"}
         /\ Doing \in Requests /\ Doing' = Doing => Doing \in granted'
<1> USE ActionsNamed DEF PromiseInv, Promise!TypeOK, Promise!Backed
<1>1. CASE UNCHANGED Promise!vars
  BY <1>1 DEF Promise!vars
<1>2. CASE Promise!Leave \/ Promise!Return \/ Promise!Off
  BY <1>2 DEF Promise!Leave, Promise!Return, Promise!Off
<1>3. CASE Promise!Settle
  BY <1>3 DEF Promise!Settle
<1>4. CASE Promise!Exit
  BY <1>4 DEF Promise!Exit
<1>5. CASE \E a \in Requests : Promise!Agree(a)
  BY <1>5 DEF Promise!Agree
<1>6. CASE \E a \in Requests : Promise!Perform(a)
  BY <1>6 DEF Promise!Perform
<1> QED
  BY <1>1, <1>2, <1>3, <1>4, <1>5, <1>6 DEF Promise!Next

LEMMA PromiseInvariant == Spec => []PromiseInv /\ [][Promise!Next]_(Promise!vars)
<1>1. Promise!Init => PromiseInv
  BY ActionsNamed DEF Promise!Init, PromiseInv, Promise!TypeOK, Promise!Phases,
                      Promise!Doing, Promise!Backed
<1> QED
  BY <1>1, PromiseKept, ServiceKeepsPromise, PTL
     DEF ImplementsPowerProtocol, Promise!Spec

\* An agreement is backed by a grant, and so is what is being done to the machine.
THEOREM ServiceIsBacked == Spec => []Promise!Backed
<1>1. PromiseInv => Promise!Backed
  BY DEF PromiseInv
<1> QED
  BY <1>1, PromiseInvariant, PTL

\* Whatever acrnd, the IOC and the threads do, an agreement stands until the IOC goes
\* off: neither a late refusal nor a wakeup withdraws it.
THEOREM AgreementStands == Spec => Promise!Stands
<1>1. PromiseInv /\ [Promise!Next]_(Promise!vars)
        => [Phase = "agreed" => Phase' \in {"agreed", "off"}]_(Promise!vars)
  BY PromiseStepMeans
<1> QED
  BY <1>1, PromiseInvariant, PTL DEF Promise!Stands

\* The loop starts shutdown, reboot or suspend only when that was granted before.
THEOREM OnlyGrantedStarts == Spec => Promise!StartsGranted
<1>1. PromiseInv /\ [Promise!Next]_(Promise!vars)
        => [Doing' \in Requests /\ Doing' # Doing =>
              Doing = "none" /\ Doing' \in granted]_(Promise!vars)
  BY PromiseStepMeans
<1> QED
  BY <1>1, PromiseInvariant, PTL DEF Promise!StartsGranted

\* Once the loop has started a shutdown or a reboot it does nothing else to the machine.
THEOREM ShutdownIsFinal == Spec => Promise!Final
<1>1. PromiseInv /\ [Promise!Next]_(Promise!vars)
        => [(Doing \in Requests \ {"suspend"}) => Doing' \in {Doing, "exited"}]_(Promise!vars)
  BY PromiseStepMeans
<1> QED
  BY <1>1, PromiseInvariant, PTL DEF Promise!Final

\* While the loop is at it, the grant of what it does stays.
THEOREM WhatIsDoneStaysGranted == Spec => Promise!NotRevoked
<1>1. PromiseInv /\ [Promise!Next]_(Promise!vars)
        => [Doing' = Doing /\ Doing \in Requests => Doing \in granted']_(Promise!vars)
  BY PromiseStepMeans
<1> QED
  BY <1>1, PromiseInvariant, PTL DEF Promise!NotRevoked
=============================================================================
