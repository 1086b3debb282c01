---------------------------- MODULE ThermaldHook ----------------------------
(***************************************************************************)
(* cbc_thermal/cbc_thermald_suspend, which systemd runs before it suspends *)
(* the machine and after: stops cbc_thermald and starts it again if it was *)
(* running; and what it starts, the unit cbc_thermald.service, whose       *)
(* program is the script cbc_thermald_start.  Both scripts end at the      *)
(* first command that fails; systemd does not mind.                        *)
(***************************************************************************)
EXTENDS Integers

VARIABLES
    hook,       \* the script: its next step, its file; history: what thermald was
                \* when it looked, or that a command has failed since
    thermald    \* the unit: is it installed, the step of its script, and is a
                \* start queued

HookAt(p) == hook.pc = p

\* Type=simple: the unit is active from the start of its script to the end, while
\* the script sets up the configuration, waits for a file, and runs thermald.
StartSteps == {"config", "wait", "run"}

Active == thermald.unit \in StartSteps

\* The script fails here, and the machine sleeps, or is up, anyway.
Fails(next) == hook' = [hook EXCEPT !.pc = next, !.before = "failed"]

\* pre: systemctl is-active, which may also say no because it failed.
HookCheck ==
    /\ HookAt("check")
    /\ \E ok \in BOOLEAN :
         hook' = [hook EXCEPT !.pc = IF Active /\ ok THEN "stop" ELSE "remove",
                              !.before = IF Active THEN IF ok THEN "active" ELSE "failed"
                                         ELSE IF thermald.queued THEN "queued"
                                         ELSE "inactive"]
    /\ UNCHANGED thermald

\* systemctl stop, which kills the script and thermald with it, and takes a start
\* that is queued back.  (A slip: the start is queued instead.)
HookStopSwapped ==
    /\ HookAt("stop")
    /\ thermald' = [thermald EXCEPT !.queued = TRUE]
    /\ hook' = [hook EXCEPT !.pc = "touch"]

HookStop ==
    /\ HookAt("stop")
    /\ \/ /\ thermald' = [thermald EXCEPT !.unit = "inactive", !.queued = FALSE]
          /\ hook' = [hook EXCEPT !.pc = "touch"]
       \/ /\ Fails("asleep")
          /\ UNCHANGED thermald

\* The message, and touch.
HookTouch ==
    /\ HookAt("touch")
    /\ \/ hook' = [hook EXCEPT !.pc = "asleep", !.active_file = TRUE]
       \/ Fails("asleep")
    /\ UNCHANGED thermald

\* The message, and rm -f.  (A slip: the file of an earlier suspend is left.)
HookRemoveForgotten ==
    /\ HookAt("remove")
    /\ hook' = [hook EXCEPT !.pc = "asleep"]
    /\ UNCHANGED thermald

HookRemove ==
    /\ HookAt("remove")
    /\ \/ hook' = [hook EXCEPT !.pc = "asleep", !.active_file = FALSE]
       \/ Fails("asleep")
    /\ UNCHANGED thermald

\* Without thermald the script is not installed either.
Installed == thermald.unit # "absent"

\* The machine is about to sleep.
GoToSleep ==
    /\ HookAt("idle")
    /\ hook' = [hook EXCEPT !.pc = IF Installed THEN "check" ELSE "asleep"]
    /\ UNCHANGED thermald

\* It slept, or failed to.
WakeUp ==
    /\ HookAt("asleep")
    /\ hook' = [hook EXCEPT !.pc = IF Installed THEN "post" ELSE "over"]
    /\ UNCHANGED thermald

\* post: systemctl start --no-block; the message changes nothing.
HookPost ==
    /\ HookAt("post")
    /\ \/ /\ ~hook.active_file
          /\ hook' = [hook EXCEPT !.pc = "over"]
          /\ UNCHANGED thermald
       \/ /\ hook.active_file
          /\ hook' = [hook EXCEPT !.pc = "over"]
          /\ thermald' = [thermald EXCEPT !.queued = TRUE]
       \/ /\ hook.active_file /\ Fails("over")
          /\ UNCHANGED thermald

\* What is queued or running has failed, in the course of a suspend or not.
Failed == hook' = [hook EXCEPT !.before = IF HookAt("idle") THEN @ ELSE "failed"]

\* systemd starts the unit, unless it is active, or cannot: it requires the unit of
\* the thermal file system.
StartThermald ==
    /\ thermald.queued
    /\ \/ /\ thermald' = [thermald EXCEPT !.queued = FALSE,
                          !.unit = IF Active THEN thermald.unit ELSE "config"]
          /\ UNCHANGED hook
       \/ /\ thermald' = [thermald EXCEPT !.queued = FALSE]
          /\ Failed

\* The configuration is there, or has been copied.
StartConfig ==
    /\ thermald.unit = "config"
    /\ thermald' = [thermald EXCEPT !.unit = "wait"]
    /\ UNCHANGED hook

\* The thermal file system is mounted; until it is, the script waits.
StartWait ==
    /\ thermald.unit = "wait"
    /\ thermald' = [thermald EXCEPT !.unit = "run"]
    /\ UNCHANGED hook

\* A command of the script fails, or thermald ends; Restart=no.
StartEnds ==
    /\ Active
    /\ thermald' = [thermald EXCEPT !.unit = "inactive"]
    /\ Failed

Thermald == StartThermald \/ StartConfig \/ StartWait \/ StartEnds

\* Somebody starts or stops it, while no suspend is under way.
UserThermald ==
    /\ HookAt("idle") /\ ~thermald.queued /\ Installed
    /\ thermald' = [thermald EXCEPT !.unit = IF Active THEN "inactive" ELSE "config"]
    /\ UNCHANGED hook

Hook == HookCheck \/ HookStop \/ HookTouch \/ HookRemove \/ HookPost

HookInit(unit) ==
    /\ hook = [pc |-> "idle", active_file |-> FALSE, before |-> "inactive"]
    /\ thermald = [unit |-> unit, queued |-> FALSE]

----------------------------------------------------------------------------
(* Properties *)

Units == {"absent", "inactive"} \cup StartSteps

HookTypeOK ==
    /\ hook \in [pc : {"idle", "check", "stop", "touch", "remove", "asleep",
                       "post", "over"},
                 active_file : BOOLEAN,
                 before : {"active", "inactive", "queued", "failed"}]
    /\ thermald \in [unit : Units, queued : BOOLEAN]

\* After a suspend the unit of thermald is active, or being started, if and only if
\* it was before, at whatever step of its script it was killed, unless a command
\* failed: a file left by an earlier suspend does not start it.
ThermaldAsBefore ==
    HookAt("over") /\ hook.before # "failed" =>
        (Active \/ thermald.queued <=> hook.before # "inactive")

\* The machine does not sleep with the unit active, nor with its script waiting,
\* unless a command failed or a start was still queued, by the suspend before, when
\* the hook looked.
SleepsWithoutThermald ==
    HookAt("asleep") /\ Active => hook.before \in {"failed", "queued"}
=============================================================================
