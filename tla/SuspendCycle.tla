---------------------------- MODULE SuspendCycle ----------------------------
(***************************************************************************)
(* The life cycle service with the requests of VMs, and systemd's job that *)
(* suspends the machine: the script before, the sleep in which no process  *)
(* runs, the script after, the end of the job the service waits for.       *)
(***************************************************************************)
EXTENDS LifecycleRequests, ThermaldHook

CONSTANT Setups     \* the timers VMs may ask for, the state of thermald, and
                    \* is the age of the reasons told apart

ASSUME SetupsAssumption ==
    Setups \subseteq [asks : Seq(Times), thermald : Units, ages : BOOLEAN]

VARIABLE age    \* history: what was known before the machine slept

cycleVars == <<vars, reqVars, hook, thermald, age>>
hookVars  == <<hook, thermald>>

Asleep  == HookAt("asleep")
Waking(r) == ReasonState(r) = S_ALIVE

\* The suspend has been asked for and the machine has not slept yet.
BeforeSleep == hook.pc \in {"idle", "check", "stop", "touch", "remove"}

\* age.reason, age.answer: wakeup_reason and up_wakeup_reason are from before the
\* last sleep; age.early: the IOC sent a reason to be awake before that sleep;
\* age.overtaken: up_wakeup_reason was copied when a frame to leave had come, or
\* keep_alive came to be the last state without a copy, see EnterDelay.
Copies    == due = "copy" /\ due' = "none"
SkipsCopy == hb.pc = "delay" /\ hb'.pc = "send" /\ hb'.cur_state = S_ALIVE
Suspends  == hb.pc = "exec" /\ hb'.pc = "back"

Aging ==
    IF ~age.told THEN UNCHANGED age
    ELSE age' = [age EXCEPT
            !.reason    = age.reason /\ ~(wk_pc = "read" /\ wk_pc' = "transit"),
            !.answer    = /\ IF Copies THEN age.reason ELSE age.answer
                          /\ up_wakeup_reason' # {},
            !.early     = \/ age.early /\ ~Suspends
                          \/ (Suspends \/ (suspend_job /\ BeforeSleep))
                             /\ (state' = S_ALIVE \/ Waking(wakeup_reason')),
            !.overtaken = IF Copies THEN ~Waking(wakeup_reason)
                          ELSE age.overtaken \/ SkipsCopy]

\* The service, while the machine is awake.
Lifecycle ==
    /\ ~Asleep
    /\ RefinedLoop \/ AskRtc \/ StoreByte \/ StoreFlag \/ OtherRequests \/ OtherThreads
    /\ Aging
    /\ UNCHANGED hookVars

\* systemd runs the job.
JobStarts ==
    /\ suspend_job
    /\ GoToSleep
    /\ UNCHANGED <<vars, reqVars, age>>

HookStep ==
    /\ Hook
    /\ UNCHANGED <<vars, reqVars, age>>

Sleep ==
    /\ WakeUp
    /\ age' = [age EXCEPT !.reason = age.told,
                          !.answer = age.told /\ up_wakeup_reason # {}]
    /\ UNCHANGED <<vars, reqVars>>

JobEnds ==
    /\ HookAt("over")
    /\ SuspendJobEnds
    /\ hook' = [hook EXCEPT !.pc = "idle", !.before = "inactive"]
    /\ UNCHANGED <<reqVars, thermald, age>>

\* The unit of thermald, while the machine is awake.
ThermaldRuns ==
    /\ ~Asleep
    /\ Thermald
    /\ UNCHANGED <<vars, reqVars, age>>

User ==
    /\ suspend_job      \* before, nothing depends on it
    /\ UserThermald
    /\ UNCHANGED <<vars, reqVars, age>>

CycleInit ==
    /\ \E s \in Setups :
         /\ RequestsInit(s.asks) /\ HookInit(s.thermald)
         /\ age = [told |-> s.ages, reason |-> FALSE, answer |-> FALSE,
                   early |-> FALSE, overtaken |-> FALSE]

CycleNext == Lifecycle \/ JobStarts \/ HookStep \/ Sleep \/ JobEnds
             \/ ThermaldRuns \/ User

CycleSpec == CycleInit /\ [][CycleNext]_cycleVars

----------------------------------------------------------------------------
(* Properties *)

\* The types of all there is.
CycleTypeOK ==
    /\ RequestsTypeOK /\ HookTypeOK
    /\ age \in [told : BOOLEAN, reason : BOOLEAN, answer : BOOLEAN, early : BOOLEAN,
                overtaken : BOOLEAN]

\* A VM that was told to resume, and asks why, is told a reason to be awake, unless
\* the IOC had sent one to leave before the loop kept the other, or the loop took
\* keep_alive for a state it had been in.
Resumed == start_log # NoStarts

ResumedKnowWhy == age.told /\ Resumed => Waking(WakeupAnswer) \/ age.overtaken

\* From the suspend until the loop has left the off pass VMs may be told why the
\* machine was up before; later none is told a reason from before the machine
\* slept, unless the IOC sent one to be awake before it slept.
AfterSuspend == hb.pc \in {"back", "poll", "jobs"} \/ due = "reset"

NoOldAnswer == age.told /\ Running /\ ~AfterSuspend => ~age.answer \/ age.early
=============================================================================
