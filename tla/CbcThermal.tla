---------------------------- MODULE CbcThermal ----------------------------
(***************************************************************************)
(* The thermal file system, cbc_thermal/cbc_thermal.c.                     *)
(*                                                                         *)
(* Threads of the process:                                                 *)
(*   - cbc_read_thread takes frames from cbc-signals (temperatures) and    *)
(*     cbc-diagnosis (the duty of the fan), stores them, and commands the  *)
(*     fan to its floor when the duty is below it;                         *)
(*   - the FUSE threads (Users) read and write the same variables: the     *)
(*     files cbc_*_temp, cbc_fan0 and auto_update.                         *)
(* No variable is protected: the lock covers only the write of a command,  *)
(* which is one step here.                                                 *)
(*                                                                         *)
(* The IOC and the two devices, queues of frames and of commands, are the  *)
(* environment.                                                            *)
(***************************************************************************)
EXTENDS Integers, Sequences

CONSTANTS
    Sensors,     \* temperature sensors
    Readings,    \* the temperatures they may show, or a user may write
    Zero,        \* the temperature before any was stored
    Users,       \* FUSE threads
    Texts,       \* the numbers users write to cbc_fan0
    Duties,      \* the duties the IOC may choose by itself
    MaxQueue,    \* bound on the frames, and the commands, in a device
    MaxWrites,   \* bound on the writes to cbc_fan0 in a behaviour
    MaxDrops,    \* bound on the duties the IOC chooses by itself
    WritesFail   \* may the write of a command fail?

ASSUME TextsAssumption  == Texts \subseteq Int
ASSUME DutiesAssumption == Duties \subseteq 0..255
ASSUME BoundsAssumption == /\ MaxQueue \in Nat \ {0}
                           /\ {MaxWrites, MaxDrops} \subseteq Nat
ASSUME WritesFailAssumption == WritesFail \in BOOLEAN

\* A frame of cbc-signals shows some of the temperatures, or is of another type.
Shown  == UNION {[S -> Readings] : S \in SUBSET Sensors \ {{}}}
Frames == [type : {"temps"}, val : Shown]
Other  == [type |-> "other", val |-> <<>>]

VARIABLES
    temp,         \* cbc_amplifier_temp_val, cbc_env_temp_val, cbc_ambient_...
    fan0_val,     \* the duty last reported
    fan0_min_val, \* the floor: the duty last written by a user
    auto_update,  \* cbc_th_auto_update
    rd,           \* the read thread: its next step and its locals
    user,         \* each FUSE thread: its next step and its local cmd
    signals,      \* cbc-signals: frames not yet read
    diagnosis,    \* cbc-diagnosis: reported duties not yet read
    cmds,         \* cbc-diagnosis: commands on their way to the IOC
    ioc_duty,     \* the duty of the fan
    exited,       \* a failed write has ended the process
    left,         \* what is left of the bounds
    \* history, read by the properties only
    late,         \* frames stored since auto_update was switched off
    manual        \* sensors written by a user since then

thread  == <<temp, fan0_val, late>>           \* written by the read thread too
control == <<fan0_min_val, auto_update, manual>>
ioc     == <<ioc_duty, left>>
vars    == <<thread, control, rd, user, signals, diagnosis, cmds, exited, ioc>>

----------------------------------------------------------------------------
(* Commands *)

\* (unsigned char)atoi(buf), and what it would be without the cast.
Uncast(n) == n
Byte(n)   == n % 256

\* write_exact of a fan command: it waits for room in the device; an error ends
\* the process.
Command(duty) ==
    \/ /\ Len(cmds) < MaxQueue
       /\ cmds' = Append(cmds, duty)
       /\ UNCHANGED exited
    \/ /\ WritesFail
       /\ exited' = TRUE
       /\ UNCHANGED cmds

----------------------------------------------------------------------------
(* cbc_read_thread *)

At(p) == ~exited /\ rd.pc = p

\* Before the files exist: reset the channels, full speed for the fan.
ReadStart ==
    /\ At("start")
    /\ Command(100)
    /\ rd' = [rd EXCEPT !.pc = "select"]
    /\ UNCHANGED <<thread, control, user, signals, diagnosis, ioc>>

\* select announces the devices that have a frame.  It does not fail here: its
\* result is ignored, and both devices would then count as announced.
Announced == {d \in {"signals", "diagnosis"} :
                 IF d = "signals" THEN signals # <<>> ELSE diagnosis # <<>>}

Select ==
    /\ At("select") /\ Announced # {}
    /\ rd' = [rd EXCEPT !.pc = "discard", !.rfd = Announced]
    /\ UNCHANGED <<thread, control, user, signals, diagnosis, cmds, exited, ioc>>

\* Without auto_update the frame is thrown away and forgotten.  (Two slips: it
\* is not forgotten, or never thrown away.)
DiscardKeepsFlag ==
    /\ At("discard")
    /\ IF ~auto_update /\ "signals" \in rd.rfd
       THEN /\ signals # <<>> /\ signals' = Tail(signals)
            /\ rd' = [rd EXCEPT !.pc = "signals"]
       ELSE rd' = [rd EXCEPT !.pc = "signals"] /\ UNCHANGED signals
    /\ UNCHANGED <<thread, control, user, diagnosis, cmds, exited, ioc>>

DiscardNever ==
    /\ At("discard")
    /\ rd' = [rd EXCEPT !.pc = "signals"]
    /\ UNCHANGED <<thread, control, user, signals, diagnosis, cmds, exited, ioc>>

Discard ==
    /\ At("discard")
    /\ IF ~auto_update /\ "signals" \in rd.rfd
       THEN /\ signals # <<>> /\ signals' = Tail(signals)
            /\ rd' = [rd EXCEPT !.pc = "signals", !.rfd = rd.rfd \ {"signals"}]
       ELSE rd' = [rd EXCEPT !.pc = "signals"] /\ UNCHANGED signals
    /\ UNCHANGED <<thread, control, user, diagnosis, cmds, exited, ioc>>

\* A frame of another type starts the loop again, whatever else was announced.
ReadSignals ==
    /\ At("signals") /\ "signals" \in rd.rfd
    /\ signals # <<>> /\ signals' = Tail(signals)
    /\ rd' = [rd EXCEPT !.frame = Head(signals),
                        !.pc = IF Head(signals).type = "other" THEN "select"
                                                               ELSE "store"]
    /\ UNCHANGED <<thread, control, user, diagnosis, cmds, exited, ioc>>

NoSignals ==
    /\ At("signals") /\ "signals" \notin rd.rfd
    /\ rd' = [rd EXCEPT !.pc = "diagnosis"]
    /\ UNCHANGED <<thread, control, user, signals, diagnosis, cmds, exited, ioc>>

\* Store the temperatures of the frame.
Store ==
    /\ At("store")
    /\ temp' = [s \in Sensors |-> IF s \in DOMAIN rd.frame.val
                             THEN rd.frame.val[s] ELSE temp[s]]
    /\ late' = IF auto_update THEN 0 ELSE late + 1
    /\ rd' = [rd EXCEPT !.pc = "diagnosis", !.frame = Other]
    /\ UNCHANGED <<fan0_val, control, user, signals, diagnosis, cmds, exited, ioc>>

\* Is the duty reported below the floor?
ReadDiagnosis ==
    /\ At("diagnosis") /\ "diagnosis" \in rd.rfd
    /\ diagnosis # <<>> /\ diagnosis' = Tail(diagnosis)
    /\ fan0_val' = Head(diagnosis)
    /\ rd' = [rd EXCEPT !.rfd = {}, !.pc = IF Head(diagnosis) < fan0_min_val
                                           THEN "floor" ELSE "select"]
    /\ UNCHANGED <<temp, late, control, user, signals, cmds, exited, ioc>>

NoDiagnosis ==
    /\ At("diagnosis") /\ "diagnosis" \notin rd.rfd
    /\ rd' = [rd EXCEPT !.pc = "select"]
    /\ UNCHANGED <<thread, control, user, signals, diagnosis, cmds, exited, ioc>>

\* The floor is read again for the command, which a user may overtake.  (A slip:
\* the duty reported instead of the floor.)
FloorOfReport == fan0_val
FloorDuty     == fan0_min_val

Floor ==
    /\ At("floor")
    /\ rd' = [rd EXCEPT !.pc = "raise", !.cmd = FloorDuty]
    /\ UNCHANGED <<thread, control, user, signals, diagnosis, cmds, exited, ioc>>

Raise ==
    /\ At("raise")
    /\ Command(rd.cmd)
    /\ rd' = [rd EXCEPT !.pc = "select", !.cmd = 0]
    /\ UNCHANGED <<thread, control, user, signals, diagnosis, ioc>>

ReadThread == \/ ReadStart \/ Select \/ Discard \/ ReadSignals \/ NoSignals
              \/ Store \/ ReadDiagnosis \/ NoDiagnosis \/ Floor \/ Raise

----------------------------------------------------------------------------
(* The FUSE threads, once the file system is mounted.  Reading a file       *)
(* changes nothing.                                                         *)

Idle(u) == ~exited /\ rd.pc # "start" /\ user[u].pc = "idle"

\* cbc_*_temp_write.
WriteTemp(u) ==
    /\ Idle(u)
    /\ \E s \in Sensors, v \in Readings :
         /\ temp' = [temp EXCEPT ![s] = v]
         /\ manual' = IF auto_update THEN {} ELSE manual \cup {s}
    /\ UNCHANGED <<fan0_val, late, fan0_min_val, auto_update, rd, user, signals,
                   diagnosis, cmds, exited, ioc>>

\* auto_update_write.
WriteAuto(u) ==
    /\ Idle(u)
    /\ auto_update' \in BOOLEAN
    /\ IF auto_update' = auto_update THEN UNCHANGED <<late, manual>>
                                     ELSE late' = 0 /\ manual' = {}
    /\ UNCHANGED <<temp, fan0_val, fan0_min_val, rd, user, signals, diagnosis,
                   cmds, exited, ioc>>

\* cbc_fan0_write: the floor first, then the command.
WriteFan(u) ==
    /\ Idle(u) /\ left.writes > 0
    /\ \E n \in Texts :
         /\ fan0_min_val' = Byte(n)
         /\ user' = [user EXCEPT ![u] = [pc |-> "send", cmd |-> Byte(n)]]
    /\ left' = [left EXCEPT !.writes = left.writes - 1]
    /\ UNCHANGED <<thread, auto_update, manual, rd, signals, diagnosis, cmds,
                   exited, ioc_duty>>

SendFan(u) ==
    /\ ~exited /\ user[u].pc = "send"
    /\ Command(user[u].cmd)
    /\ user' = [user EXCEPT ![u] = [pc |-> "idle", cmd |-> 0]]
    /\ UNCHANGED <<thread, control, rd, signals, diagnosis, ioc>>

----------------------------------------------------------------------------
(* The IOC *)

IocObeys ==
    /\ cmds # <<>>
    /\ ioc_duty' = Head(cmds) /\ cmds' = Tail(cmds)
    /\ UNCHANGED <<thread, control, rd, user, signals, diagnosis, exited, left>>

IocDecides ==
    /\ left.drops > 0
    /\ ioc_duty' \in Duties
    /\ left' = [left EXCEPT !.drops = left.drops - 1]
    /\ UNCHANGED <<thread, control, rd, user, signals, diagnosis, cmds, exited>>

IocReportsDuty ==
    /\ Len(diagnosis) < MaxQueue
    /\ diagnosis' = Append(diagnosis, ioc_duty)
    /\ UNCHANGED <<thread, control, rd, user, signals, cmds, exited, ioc>>

IocReportsTemps ==
    /\ Len(signals) < MaxQueue
    /\ \E f \in Frames : signals' = Append(signals, f)
    /\ UNCHANGED <<thread, control, rd, user, diagnosis, cmds, exited, ioc>>

IocSendsOther ==
    /\ Len(signals) < MaxQueue
    /\ signals' = Append(signals, Other)
    /\ UNCHANGED <<thread, control, rd, user, diagnosis, cmds, exited, ioc>>

----------------------------------------------------------------------------
Init ==
    /\ temp = [s \in Sensors |-> Zero]
    /\ fan0_val = 0 /\ fan0_min_val = 0
    /\ auto_update = TRUE
    /\ rd = [pc |-> "start", rfd |-> {}, frame |-> Other, cmd |-> 0]
    /\ user = [u \in Users |-> [pc |-> "idle", cmd |-> 0]]
    /\ signals = <<>> /\ diagnosis = <<>> /\ cmds = <<>>
    /\ ioc_duty \in Duties
    /\ exited = FALSE
    /\ left = [writes |-> MaxWrites, drops |-> MaxDrops]
    /\ late = 0 /\ manual = {}

FuseThread(u) == WriteTemp(u) \/ WriteAuto(u) \/ WriteFan(u) \/ SendFan(u)

\* What the IOC does after the process has ended is of no interest.
Ioc == ~exited /\ (IocObeys \/ IocDecides \/ IocReportsDuty \/ IocReportsTemps
                   \/ IocSendsOther)

Next == ReadThread \/ (\E u \in Users : FuseThread(u)) \/ Ioc

\* Threads are scheduled; the IOC carries out commands and reports the duty of
\* the fan again and again.  Users, temperatures and other frames are free.
Fairness == /\ WF_vars(ReadThread)
            /\ \A u \in Users : WF_vars(SendFan(u))
            /\ WF_vars(~exited /\ IocObeys)
            /\ WF_vars(~exited /\ IocReportsDuty)

Spec == Init /\ [][Next]_vars /\ Fairness

----------------------------------------------------------------------------
(* Properties *)

Steps   == {"start", "select", "discard", "signals", "store", "diagnosis",
            "floor", "raise"}
Locals  == [pc : Steps, rfd : SUBSET {"signals", "diagnosis"},
            frame : Frames \cup {Other}, cmd : 0..255]

\* Every variable has a value of its C type; in particular each duty, the floor
\* included, is a byte.
TypeOK ==
    /\ temp \in [Sensors -> Readings \cup {Zero}]
    /\ fan0_val \in 0..255 /\ fan0_min_val \in 0..255
    /\ auto_update \in BOOLEAN
    /\ rd \in Locals
    /\ user \in [Users -> [pc : {"idle", "send"}, cmd : 0..255]]
    /\ signals \in Seq(Frames \cup {Other})
    /\ diagnosis \in Seq(0..255) /\ cmds \in Seq(0..255)
    /\ ioc_duty \in 0..255
    /\ exited \in BOOLEAN
    /\ left \in [writes : Nat, drops : Nat]
    /\ late \in Nat
    /\ manual \in SUBSET Sensors

\* While select succeeds the read thread never blocks in a read: whatever auto_update was at the two
\* tests, the device it reads still has the frame that select announced, so the
\* other device and the floor of the fan are not left unattended.
ReadsDoNotBlock ==
    /\ At("discard") \/ At("signals") =>
         ("signals" \in rd.rfd => signals # <<>>)
    /\ At("discard") \/ At("signals") \/ At("store") \/ At("diagnosis") =>
         ("diagnosis" \in rd.rfd => diagnosis # <<>>)

\* Switching auto_update off takes effect within one frame: the read thread may
\* have passed its test before, but then stores that one frame only.
OneLateFrame == ~auto_update => late <= 1

\* The loop is about to start again and skip a report of the duty that select
\* announced, because of a frame of another type on the other device (line 119).
Skipped == /\ At("signals") /\ rd.rfd = {"signals", "diagnosis"}
           /\ signals # <<>> /\ Head(signals) = Other

\* The fan does not stay below its floor: commands of users and of the read
\* thread may overtake each other and leave an older duty in force, and the IOC
\* may choose one by itself, but a report puts it right, unless frames of another
\* type make the thread skip reports for ever.
FloorRestored ==
    []<>Skipped \/ <>[](exited \/ ioc_duty >= fan0_min_val)

\* cbc_thermal/README.md:178, "debug interface to set sensor value manually": with
\* auto_update off, a temperature that was written stays until it is written
\* again.  The read thread may still hold a frame it took before.
ManualValueStays ==
    [][At("store") /\ ~At("store")' =>
          \A s \in manual : temp'[s] = temp[s]]_vars
=============================================================================
