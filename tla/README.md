# ioc-cbc-tools: verification project

The repository holds the user space of the *IO controller* (IOC) of a vehicle
computer. The IOC is a small processor on a serial line that switches the
machine on and off, wants a heartbeat, and reports temperatures and logs. A
kernel driver (the CBC line discipline) turns the line into devices
`/dev/cbc-*`; one program of this repository attaches the line discipline and
the others each talk to one or two of the devices.

This directory holds TLA+ modules translated from the C source, TLC
configurations, and TLAPS proofs. Source paths below are relative to the
repository.

## 1. Inventory

### 1.1 Life cycle service: `cbc_lifecycle/cbc_lifecycle.c`

*State.* `state` (eight values, under `state_mutex`), the semaphore
`event_sema`, and, unprotected, `wakeup_reason`, `up_wakeup_reason`,
`force_s5`, `cbc_rtc_set` and the three bytes of `cbc_heartbeat_rtc`. The
heartbeat loop has locals that decide what happens: `cur_state`, `last_state`,
`heartbeat`, `start_retry`, `stop_retry`, `default_cnt`.

*Threads and operations.*

| Thread | Code | What it does |
|---|---|---|
| main | `cbc_heartbeat_loop` 258-373 | once a second, or when `event_sema` is posted: read the state, talk to the VM manager (`send_acrnd_start`, `send_acrnd_stop`, each up to 2 s), write a heartbeat, carry out the power action when the IOC goes off |
| wakeup reason | `cbc_wakeup_reason_thread` 376-405 | read frames from the IOC, move the state to `keep_alive`, `shutdown` or `ioc_shutdown` |
| server of `sos-lcs` | `handle_shutdown`, `handle_suspend`, `handle_reboot`, `handle_rtc`, `handle_wakeup_reason` 409-553 | answers of the VM manager |
| server of `acrnd` | `handle_stop` 608-630 | only without a VM manager: the service answers its own STOP by sending SHUTDOWN or SUSPEND to its own other socket |
| signal | `sigterm_suppress` 661-680 | suppress heartbeats, last heartbeat, `exit` |

*Interactions.* IOC -> wakeup reason thread -> `state` -> loop -> STOP/RESUME
to acrnd -> answer to `sos-lcs` -> `state` -> loop -> heartbeat to the IOC ->
the IOC goes off -> the loop runs `shutdown 0`, `reboot` or `systemctl
suspend`.

*Hard.* The loop works for seconds on a state it read at the start of a pass
while three other threads change it; what is done when the IOC goes off is
decided by a local variable of the pass before; retry counters outlive the
state they count for; without a VM manager the process waits for itself. An RTC
timer is stored byte by byte by one thread and sent and cleared by another; the
reason a VM is told for a wakeup is a copy of a copy, made and reset by the loop
at its own times.

*Correct when.* Power actions and heartbeats follow agreements; the first
agreement stands; retries are bounded and complete; suspend is assumed only
when nobody handles the request; a request to leave is concluded; the loop
always gets back to its heartbeat, and tells the IOC what was agreed; what is sent
for a timer is made of the request at hand and the one before, in time for one of
them unless the loop comes between two stores, and not lost otherwise; a VM that is
resumed is told why, and not why it was up before the sleep.

### 1.2 Serial line attacher: `cbc_attach/cbc_attach.c`

*State.* The lock file `/var/run/cbc_attach.lock`, the descriptor `deviceFd`,
the line discipline of the tty, `retry_time`. *Operations.* take the lock,
parse options, `match_deviceName`, `init` (open, terminal settings, line
discipline; `cbc_attach_shutdown` on failure) up to 15 times, `pause`,
`cbc_attach_shutdown`. *Hard.* Partial failure of `init`, the retry loop,
two instances at once, a signal at any step (the process then dies and the
kernel closes its files). *Correct when.* At most one instance owns the line
and keeps it; no attempt leaves a file open; the attempts are as many as fit in
30 s.

### 1.3 Thermal file system: `cbc_thermal/cbc_thermal.c`

*State.* Five integers without a lock (`cbc_fan0_val`, `cbc_fan0_min_val`,
three temperatures), `cbc_th_auto_update`, the lock `cbc_th_io_lock` around
writes to the devices. *Operations.* `cbc_read_thread` parses signal frames
into temperatures and raises the fan to the floor when the reported duty is
below it; FUSE handlers read and write the same variables from other threads.
*Hard.* Every variable is shared without a lock; frames are trusted in their
count; one failed write ends the process. *Correct when.* The fan is not left
below the newest floor; with `auto_update` off the temperatures are the
users'; the read thread never blocks on a device that has nothing to read.

### 1.4 Logging service: `cbc_logging_service/`

*State.* `last_timestamp` (64 bits extended from 32), `abl_start_timestamp`,
`running`, the ping sent once. *Operations.* open the device and reset the
channel, read frames, parse a log with up to four typed arguments, extend its
timestamp, pass it to DLT; parse boot time stamps; send the ping; convert a DLT
file instead, when asked to. *Hard.* Wrap-around, logs that arrive in another
order than they were stamped in, the cursor over the payload, a reused buffer,
a boot event before the one the others are relative to, an option that is read
without having been set. *Correct when.* Timestamps never go backwards and are
as far from the sender's clock as the late logs explain; each argument is read
where the sender put it; the ping is sent whatever arrives.

### 1.5 Diagnostic tool: `cbc_diagnostic_control/`

*State.* Two descriptors, the request flags. *Operations.* open both devices,
send up to two requests, one `poll` of 200 ms, read what there is, close.
*Hard.* The second request fails after the first was sent; two answers and one
poll; the device also has the logs, whose type is not looked at. *Correct when.*
It says 0 only when all it was asked for has been sent, and it ends. That an
answer is read is promised nowhere, and is not so: the poll ends with the first
frame on either device.

### 1.6 thermald start and suspend hook: `cbc_thermal/cbc_thermald_*`

*State.* The step of `cbc_thermald_start`, the program of the unit
`cbc_thermald.service`; is a start of the unit queued; the file
`/run/cbc_thermald.active`, which outlives a suspend. *Operations.* `pre`: stop
the unit and leave the file, or remove it; `post`: start it, without waiting, when
the file is there. The start script sets up a configuration, waits for the thermal
file system and runs thermald. *Hard.* Failure between two steps of `pre`; a file of
an earlier suspend; a start still queued when the next suspend begins; a unit that
is active from the start of its script and may still fail. *Correct when.* The unit
is active after a suspend iff it was before, and the machine does not sleep with it
active.

### 1.7 Match file: `check_acrnd`, `match_deviceName`

Two readers of `cbc_match.txt` with different numbers of columns. *Correct
when.* They choose the same line. They do, but for a line of two columns: that one
is good enough for the attacher, and stops the service.

### 1.8 Not part of the running system

`cbc_thermal_chart.py` plots records; Makefiles, `acrn_common.h` and
`thermal-conf.xml` hold no behaviour. External: the library of `acrn_mngr.h`,
acrnd, systemd, the kernel driver and the firmware of the IOC; they are
modelled from how the code uses them.

## 2. Plan

| # | Module | Content | Status |
|---|---|---|---|
| 1 | `CbcLifecycle` | the life cycle service, all threads | done |
| 2 | `PowerProtocol` | what it promises: abstract specification | done |
| 3 | `CbcLifecycleClaims` | what comments say and the code does not do | done |
| 4 | `CbcLifecycleProofs` | types, grants, delay, retries | done |
| 5 | `PowerProtocolProofs` | the service implements `PowerProtocol` | done |
| 6 | `CbcThermal`, `CbcThermalProofs` | read thread against FUSE handlers; the fan floor | done |
| 7 | `CbcAttach`, `CbcAttachProofs` | instances, lock, retries, partial failure, the match file | done |
| 8 | `CbcTimer`, `CbcTimerProofs` | the arithmetic of `cbc_timer_format` | done |
| 9 | `LifecycleRequests` | RTC timers and the wakeup reason of VMs, shared without a lock | done |
| 10 | `ThermaldHook`, `SuspendCycle`, `SuspendProofs`, `ReasonProofs` | the hook, and the whole suspend around the service | done |
| 11 | `DltDevice`, `CbcLogging`, `CbcDiagnostic`, `CbcDlt`, `CbcDltProofs` | the logging service and the diagnostic tool on one device | done |
| 12 | | the bytes of short frames (sections 1.3 and 1.4) | left: see section 6 |

Composition: `CbcLifecycle` composes its threads, both sockets and the
environment. `LifecycleRequests` extends it by the data it leaves out, with
`CbcTimer`; `SuspendCycle` composes that with `ThermaldHook` and systemd's job.
`CbcDlt` composes `CbcLogging` and `CbcDiagnostic` on `DltDevice`. The match file
is read in `CbcAttach`, its third column is the constant `IsAcrn`.

One abstract specification is stated and implemented: `PowerProtocol`, by
`CbcLifecycle`, and by `SuspendCycle` as well. `SuspendCycle` is built from the
actions of `CbcLifecycle`; that its behaviours are behaviours of the service is a
lemma of the proofs, and no result about the code.

## 3. How the modules correspond to the code

### `CbcLifecycle`

* The shared variables have the names of the code. `hb` is the record of the
  loop's program counter and locals; `wk_pc` and `lcs_pc` are the program
  counters of the other threads. `stops` and `forwarded` are the messages in
  the two sockets without a VM manager. `suspend_job` is systemd's.
* One action is one step between two accesses to shared state. `get_state` and
  `state_transit` hold `state_mutex`, so `Read` and `Transit` are single
  steps; each system call that other threads may overtake (`send_acrnd_start`,
  `send_acrnd_stop`, the write of a heartbeat, `sem_timedwait`, `system`) is a
  step of its own. In a handler `state_transit` and `sem_post` are two steps.
* A STOP or RESUME succeeds or fails (socket missing, no answer in 2 s, short
  read): the model does not ask why. Without a VM manager the STOP goes to
  `handle_stop`, which may receive it although the sender saw a failure, but
  not the other way round. `handle_stop` reads `force_s5` and forwards in one
  step: the only other reader or writer of `force_s5` is the wakeup reason
  thread, and both orders with it remain.
* `acrnd` may send any request of `Answers` at any time, asked or not.
* Frames of another header (log mode, wrong frames) and failed reads change no
  variable and have no action. A frame of one to three bytes is not told from a whole
  one (line 383) and is completed by what is in the reader's buffer: to the model it
  is one more member of `Reasons`, any of which may come at any time.
* The command of line 354 says whether the suspend job is there. It may fail itself,
  which looks like a job that has ended: `PollJobs` may then leave the off pass with
  the job still running.
* `IsAcrn` is the result of `check_acrnd`.
* `granted`, `told`, `stop_log` and `start_log` are history variables. `granted` holds
  the actions the VM manager agreed to, and suspend when it was assumed; it
  lapses when the loop reads a state that is neither agreed nor off, and at the
  end of an off pass (except for what is agreed at that moment). `told`
  is the power action the last heartbeat told the IOC of, for as long as `granted`
  would last. `stop_log` and `start_log` count attempts where the code calls the two
  senders, and not through the counters the properties are about.
* `Beat(last)` is the end of a pass: the heartbeat is written, if there is one,
  and `last_state` becomes the state it was chosen for.

Abstracted: texts and logs; the bytes of frames (a wakeup reason is its set of
bits; a heartbeat is its kind); the value of an RTC timer (only the flag is
kept; bytes and arithmetic belong to `CbcTimer` and `LifecycleRequests`);
`up_wakeup_reason` (lines 287, 356, 469-479), which no other line reads: it would
triple the state space and belongs to `LifecycleRequests`; the acknowledgement a handler sends (426, 446,
466), whose `err` field is constant.

### `CbcThermal`

* The shared integers have the names of the code; the three temperatures are
  one function `temp` over `Sensors`. `rd` is the read thread: its program
  counter, the set `rfd` of `select`, the frame in `buf` and the byte of `cmd`.
  `user` holds, for each FUSE thread, whether it is still to write its command,
  and which.
* One action is one access, or a group of accesses of which at most one touches
  what another thread writes: the test of `auto_update` (`Discard`), the read
  of a frame (`ReadSignals`), storing it (`Store`), the comparison with the floor
  (`ReadDiagnosis`), reading the floor again for the command (`Floor`), writing
  the command (`Raise`). A user writes the floor (`WriteFan`) and the command
  (`SendFan`) in two steps: there the threads overtake each other. `Store` sets
  all temperatures of a frame at once: no property relates two of them.
* `cbc_th_io_lock` covers only the write of a command, which is one step
  (`Command`), so the lock has no variable. A command is two bytes and is taken
  whole. A failed write is `ASSERT`, which ends the process (`exited`).
* `signals` and `diagnosis` are the frames of a device not yet read, `cmds` the
  commands on their way. A frame of another type on cbc-signals is `Other`: the
  `continue` of line 119 skips the other device in this pass. A frame of another
  type on cbc-diagnosis is read and changes nothing; it has no action.
* `WriteFan` converts as the code does, `Byte(n) == n % 256`; a temperature
  written is an element of `Readings`, since the code does not limit it.
* The IOC obeys commands in order, reports its duty, and may choose another duty
  (`IocDecides`), which is why the read thread watches it.
* `late` and `manual` are history: frames stored since `auto_update` was
  switched off, and sensors written since then.

Abstracted: the bytes of a frame and the scaling of a temperature, the texts
read from the files, `getattr`, `readdir`, `truncate`; the start of the process
up to the first commands (one step, `ReadStart`, after which the files exist).

### `CbcAttach`

* An instance is a process; `pc` is its next step and `loc` its locals (`fd` is
  whether `deviceFd` is positive). `opens` counts the open files it really has,
  which differs from `fd` after a `close` that failed: the kernel has given the
  file up, the variable keeps its value. `lock` is `/var/run/cbc_attach.lock`.
* One action is one system call, or a group of which only one has an effect
  others can see. Each may fail where the code looks for a failure: the lock
  file, `open`, the calls on the terminal, both `ioctl`s, `close`.
* The options are read in one step: they are local. What `getopt` does not know
  ends the program. That includes `-m`: the usage text names it (lines 67-69) and
  the option string of line 398 does not.
* `match_deviceName` and `check_acrnd` are one operator, `MatchedLine`, with two
  and three columns: both stop at the first line that is too short or whose
  device exists. The match file wins over the command line.
* No signal has a handler. `Signal` ends an instance at any step, and the
  kernel then closes the lock file and the tty, in either order (`CloseLock`,
  `CloseLine`, `Reaped`). For the same reason `pause()` never returns, and lines
  454 and 455 have no action.
* `LastClose` is the kernel's: a tty gets its ordinary discipline back with the
  last close, so not while another program (`Shared`) has it open.

Abstracted: the terminal settings (no property reads them), texts, the exit
status, the passing of time.

### `CbcTimer`, `LifecycleRequests`, `ThermaldHook`, `SuspendCycle`

* `CbcTimer` is `cbc_timer_format` as operators: `Count` divides step by step as
  the code does, `Gran` picks the finest unit whose count fits in 16 bits,
  `Frame` is the three bytes sent. `ToInt` is the assignment of a `time_t`
  difference to an `int`. `Unit` is the reference: the unit in seconds.
* `rtc` is `cbc_heartbeat_rtc` (`frame`) and the request `handle_rtc` is
  working on: the stores not yet visible to the loop (`todo`), three bytes
  (`Made(rtc.asked)`) and the flag `cbc_rtc_set`. They become visible in any order:
  nothing orders them for the loop. The server handles one request at a time
  (`HandlerIdle`).
* The loop writes the frame and clears the flag in two steps (`WriteRtc`,
  `ClearRtc`), with the handler in between. `due` is what the loop has left to do
  within one step of `CbcLifecycle`: clear the flag, copy the wakeup reason on
  entering `keep_alive` (line 287), reset the copy after an off pass (line 356).
* Each action of `SuspendCycle` is one of `CbcLifecycle` with more detail, or
  changes nothing of it.
* `hook.pc` is the next command of `cbc_thermald_suspend`. Each may fail, `-e`
  then ends the script, and systemd goes on. `is-active` is the condition of an `if`,
  so its failure does not end the script: it is taken for a unit that is not active,
  also when it is (`HookCheck`, `ok`). `thermald.queued` is the start that
  `--no-block` leaves to systemd; `systemctl stop` takes it back.
* `thermald.unit` is the step of `cbc_thermald_start`: `config` (lines 3-6), `wait`
  (lines 8-10), `run` (line 11). The unit is `Type=simple`: it is active from the
  first of them. A command that fails, or the end of thermald, ends the unit
  (`StartEnds`), and `Restart=no`. A start that systemd refuses because the thermal
  file system's unit failed is in `StartThermald`.
* While the machine sleeps (`Asleep`) no process runs. Sleep ends, or does not
  begin: the service cannot tell.
* `rtc.asked`, `before`, `owed`, `overlap`, `hook.before` and `age` are history: the
  last timer asked for and the one before it, whether it is still to be sent, whether
  it was stored while the loop was sending; what thermald was when the script looked,
  or that a command has failed since; which of the two reasons is from before the
  sleep, and whether the IOC sent one to be awake before the machine slept.
* `rtc.left` is the timers VMs still ask for, in their order. What is not supported is
  refused (`AskRtc`), and changes nothing else.

Abstracted: what a VM does with the reason; `CbcLifecycle`'s own abstractions.

### `DltDevice`, `CbcLogging`, `CbcDiagnostic`, `CbcDlt`

* `DltDevice` is the driver and the IOC as the two programs use them (external).
  `clock` is the IOC's, an epoch and a phase, of which only the phase fits in a
  stamp. Frames arrive in order, to all who have the device open, whole or not at
  all. A frame that is too short, of another type, or with too long a
  description is `Unfit`: the parser drops it.
* `svc` is the service: the next step of its only thread. `last_timestamp` is
  kept as its two halves of 32 bits. `secs` is the time the ping waits for.
* `SvcMain` may go either way: `options.convert` is read and only `-c` sets it
  (`cbc_logging_service_main.cpp:29`). Converting is the end of it.
* `Parse` runs the four calls of `parse_argument` at once. `cursor` is where the
  service reads, `place` where the IOC wrote; at a wrong place a string may
  have any size of `SizeBytes`, which includes one that is refused. What is read
  at a wrong place is not modelled, only that it is the wrong one.
* `Selected` is what the options parser makes of the options, `Wanted` what `main`
  makes of that: `-v` alone asks for the version.
* `tool` is one run of the diagnostic tool, which may be run again. It sees every
  frame as `Unfit` because it does not look at types (`View`). The answer to a
  version request is not modelled: it may or may not be there when `poll` ends.
* `stamped`, `late`, `gap`, `requests` are history: the true moment of the last
  log, how many were stamped before the one logged before them, whether two in a
  row were a wrap apart, how often the boot events were asked for. `lagged` counts
  the logs the IOC sent later than it stamped them, and a log has its number among
  them (`nth`, which no program reads).

Abstracted: texts, the printing of answers, the DLT library.

## 4. What the runs check

All bounds are constants of the modules `MCLifecycle*` or of a `.cfg`.
`CHECK_DEADLOCK FALSE`: the service really stops, halted in `while (1)
sleep(1)` after a shutdown or reboot, or ended by SIGTERM; the thermal file
system ends when a write fails.

| Run | Checks | Result |
|---|---|---|
| `lifecycle_acrn` | types, grants, what the IOC was told, retries, delay, refinement of `PowerProtocol`; acrnd sends any answer | holds (4.3 million states) |
| `lifecycle_acrn_live` | `LeaveConcludes`, `OffConcludes`; acrnd agrees to, or refuses, suspend | holds (0.8 million) |
| `lifecycle_native` | `PowerProtocol`, `NativeLeaveConcludes` and `AgreementTold` without a VM manager, with bit 22 | holds (0.7 million) |
| `lifecycle_assumed` | `AssumeOnlyInDelay` | violated, finding 1 |
| `lifecycle_s5` | `S5Honoured` | violated, finding 2 |
| `lifecycle_dropped` | `NativeStopHandled` | violated, finding 3 |
| `thermal` | types, `ReadsDoNotBlock`, `OneLateFrame`, `FloorRestored`; two users, any number of other frames | holds (1.3 million) |
| `thermal_manual` | `ManualValueStays` | violated, finding 4 |
| `attach` | types, one instance, its line, descriptors, attempts, match file, `StartConcludes` | holds (1.0 million) |
| `attach_exit` | `ExitRestoresLine` | violated, finding 5 |
| `dlt` | types, `DriftKnown`, `TimeNeverGoesBack`, `ArgumentsArrive`, `FirstAnswerSane`, `SuccessMeansAsked`, `PingConcludes`, `ToolEnds` | holds (0.6 million) |
| `suspend` | types, `TimerAsAsked`, `TimersNotLost`, `ResumedKnowWhy`, `NoOldAnswer`, `ThermaldAsBefore`, `SleepsWithoutThermald` | holds (6.2 million) |

Finding 1: after the last failed STOP suspend is assumed without reading the
state again, over a refusal that came meanwhile. Finding 2: `force_s5` is
written after the transition that leads to the STOP that reads it. Finding 3:
`handle_stop` acknowledges a STOP and then fails to forward it. Finding 4: with
`auto_update` off, a temperature written by hand may still be replaced once, by
the frame the read thread had accepted before. Finding 5: the switch back to the
ordinary line discipline at the exit is never reached; it is left to the kernel,
which does not do it while another program has the tty open. `PROJECT.json` has
the lines.

*Properties of the life cycle service.*

* `PowerActionGranted`, `HeartbeatGranted`: `last_state` and `heartbeat` are
  copies of a state other threads change; no copy outlives its agreement.
* `ToldIsDone`: the IOC goes off a pass or more after it was told what to expect,
  and what is then done is decided by `last_state`. Passes that tell the IOC nothing
  may come in between, and other threads may move the state: what was told is still
  what is done.
* `DelayJustified`, `AssumeAfterAllRetries`, `ResumeBounded`: counted on the
  calls themselves, the retries are as many as the code means, over all
  interleavings and over several requests to leave in a row.
* `DelayOwned`: only the loop enters `shutdown_delay`, and it knows.
* `ImplementsPowerProtocol`: the refinement. `Phase` groups the states into
  up, leaving, agreed and off; `Doing` is the action being carried out. The
  abstract specification says that an agreement is never replaced or
  withdrawn before the IOC goes off, that only granted actions are performed,
  and that a shutdown or reboot is final.
* `LeaveConcludes`, `NativeLeaveConcludes`, `OffConcludes`: liveness.
* `AgreementTold`: the beat of a pass is chosen when the pass begins, so an agreement
  that comes later is not in it, and the post that woke the loop may be used up. It is
  told to the IOC all the same, unless the IOC goes off first or the service stops.

*Properties of the thermal file system.*

* `ReadsDoNotBlock`, as long as `select` succeeds: `auto_update` may change between `select`, the test at line
  106 and the test at line 110, and the reads block; a read that waits for a
  frame would leave the fan unattended.
* `OneLateFrame`: how late switching `auto_update` off takes effect.
* `FloorRestored`: the floor is written before its command, by users and by the
  read thread, which may hold the command of an older floor; the last command
  to reach the IOC may be an old one. The next report of the duty puts it
  right. The property says "from some time on" since in between the duty really
  is below the floor, and names the one thing that keeps it there: line 119 skips the
  diagnosis device for a frame of another type (`Skipped`), again and again for ever.

*Properties of the attacher.*

* `OneInstance`, `AttachedLineIsCbc`: an instance may be started while another
  one is being torn down, which may already have lost its lock and still have
  the tty open.
* `DescriptorOwned`: over all retries and all failures, that of `close` included.
* `AttemptsExact`: counted on the calls of `init`, not on `retry_time`.
* `SameLine`: two programs decide from one file which platform they run on. They take
  the same line, or none, unless a line of two columns comes first, or is the one the
  attacher takes: it stops the life cycle service, which then runs without a VM
  manager.
* `StartConcludes`: a start attaches the line, or ends and leaves the lock free.

*Properties of the suspend cycle.*

* `TimerAsAsked`: three bytes and a flag are stored by one thread while another
  sends them. Wherever in a request the loop comes, what it is about to send is made
  of this request and the one before, byte by byte, and never of an older one. With
  all bytes stored it does not wake the machine late, although each division rounds
  down again; with none stored it does not for the request before; in between the
  frame is torn, and may be any time at all. A time that does not fit in an `int`
  is cut to what an `int` keeps of it.
* `TimersNotLost`: the flag is cleared after the write, so a timer stored in
  between is lost; the property says that this is the only way to lose one.
* `ResumedKnowWhy`, `NoOldAnswer`: `up_wakeup_reason` is a copy of
  `wakeup_reason`, which the wakeup reason thread changes at any time. Told are
  reasons to be awake, from after the sleep. The exceptions are named by history
  variables and are interleavings of the code: a frame to leave that comes before
  the copy; `keep_alive` taken for a state the loop had been in (lines 305-306,
  where the VMs are not resumed either); a reason that came before the sleep.
* `ThermaldAsBefore`, `SleepsWithoutThermald`: over repeated suspends, with a file
  that outlives them, a start that may still be queued, and a unit stopped at any step
  of its script.

*Properties of the logging service and the diagnostic tool.*

* `DriftKnown`: the code takes every stamp below the last one for a wrap. The
  property says exactly what that costs: one wrap for each late log, for good. A
  silence of a whole wrap is not noticed, and the time falls behind; it never runs
  further ahead.
* `TimeNeverGoesBack`: the times DLT gets.
* `ArgumentsArrive`: of four arguments of any types, which ones are read where
  they were written. A `uint8` advances the cursor by four (line 350), and spoils
  all that follow; nothing else does.
* `FirstAnswerSane`: boot events are reported relative to one of them. When they
  are sent a second time the first of them is reported relative to the start of
  the boot loader, which comes after it, as a huge number; the first time they
  are not.
* `SuccessMeansAsked`: over all options and both requests' failures.
* `PingConcludes`: the thread that reads without waiting also keeps the time.
* `ToolEnds`: it reads until the device is empty, while the IOC fills it.

*Bounds, and why they are enough.* `RetryCnt` is 2 instead of 5: the code
compares the counters with zero only, and 2 is the least value with a retry
between the first and the last, which the code treats differently (the theorems
cover every value above 1). `SemMax` is 1: the semaphore only decides whether
a wait ends early, and `sem_timedwait` may end at any time in the model.
`Reasons` has one member per branch of the reader (`{}`, `{23}`, an ordinary
bit; with bit 22 in the native runs). All refusals are handled alike, so one
stands for the three. `MaxStops` is 1: at most one STOP of the service's own
is between the two sockets; the second would be a retry of the same request.
`TermBeats` has one of three equal branches of the signal handler.
`RtcTimers` is on in the run whose trace it can matter for (the off pass takes
one more step). In `CbcThermal`, `MaxWrites` is 2 with two users: one command can
overtake the other, and a third thread, the reader, carries an older floor.
The texts are 30 and 336, which is 80 as a byte. `MaxQueue` is 1: a report may
be one command old, which is what the comparison depends on. `MaxDrops` is 1.
Frames of another type have no bound. The manual run has no write of the floor and two temperatures, so that
what overwrites differs from what was written. In `CbcAttach` two instances are
enough for one to meet what another left: each action touches at most one other.
Two attempts of two seconds have a retry after a failure and a last one; the code
has 15. The match files have up to two lines, of every kind for each reader; the
readers stop at the first line that decides, so a third line meets nothing new.

In the suspend run `RetryCnt` is 2 and `Reasons` is off and an ordinary bit:
which reasons count as awake is one test. Frames to leave are not among them in
this run, so a suspend comes from the VM manager; with them in, the properties
about the age of reasons were followed in simulation, and are proved. Timers,
thermald and ages do not meet, in the code or in the model; `Setups` has one run
for each, without the others. The scales are 2, 3, 2, 2 and a field holds 3, so
that every unit is reached within an `int` of 8 bits; `TimersRoundDown` is
evaluated for every value of that `int` and one beyond it. VMs ask for a timer
that fits, in a unit that rounds, for one that is refused, and for one that wraps to
a small number. Two are stored: one can meet the other.

In the run on `cbc-dlt` the clock has 3 values and wraps once, one log may be
stamped one tick early, and a queue holds one frame: order and loss are in the
choice of what is delivered. `MixedLists` has one list for each way to be parsed
(all types right; an unused one before a used one; a `uint8` before a string;
a type that is not known). `ThreeEvents` has an event before the start of
the boot loader, the start and a later one. Two requests of other programs suffice
for a second answer in the middle of the first. `Deployments` runs each
program with the other one as `OtherRequest`: all they share is who asked.

*Fairness.* Weak fairness of the loop, the wakeup reason thread's work on a
frame it has read, the two socket servers and the end of a systemd job.
Threads are scheduled by the kernel; each blocking call of the loop has a
timeout (1 s for `sem_timedwait`, 2 s for an answer); a systemd job ends.
Nothing is assumed of the IOC (`ReadReason`), of acrnd (`RequestFromAcrnd`,
`HandleRtc`) or of SIGTERM. `PollState` and `PollJobs` are part of the loop,
so `OffConcludes` does not rest on fairness of a single branch. In `CbcThermal`
the reader and a user's pending command are scheduled, and the IOC is assumed
to carry out commands and to report its duty again and again, as it does for
the code to have something to compare; users, temperatures and other frames
are free to stop. In `CbcDlt` both programs are scheduled and time passes; the
IOC, whoever runs the tool, and what is on the device are free, and `ToolEnds`
says itself that frames must end. The suspend run checks safety only. In
`CbcAttach` a process that runs is scheduled, with calls
that return, and one that dies is torn down; nothing starts or signals one.

## 5. What is proved

`CbcLifecycleProofs` proves, for every `RetryCnt` greater than 1, every set of
wakeup reasons and answers, with and without a VM manager:

| Theorem | Property |
|---|---|
| `TypeCorrect` | `TypeOK` |
| `PowerActionsAreGranted` | `PowerActionGranted` |
| `HeartbeatsAreGranted` | `HeartbeatGranted` |
| `WhatIsToldIsDone` | `ToldIsDone` |
| `DelayIsOwned` | `DelayOwned` |
| `DelayIsJustified` | `DelayJustified` |
| `SuspendIsAssumedLast` | `AssumeAfterAllRetries` |
| `ResumesAreBounded` | `ResumeBounded` |

*Types.* `TypeOK` is not inductive: `SendStop` decrements `stop_retry`, which
stays a natural number only because step `stop` is reached with retries left.
`TypeInv` adds that (`RetriesLeft`).

*Grants.* `GrantInv` strengthens the properties with what each copy of the
state is worth where: the shared state, when agreed, is granted
(`StateGranted`); so is `cur_state` until it is copied (`CurGranted`) and
`last_state` at the steps where the loop may use it (`LastGranted`);
the step decided on is one that was agreed (`ExecAgreed`); the chosen
heartbeat belongs to `cur_state` (`BeatOfState`); a pass knows the state it is
about (`PassState`, `StopsKnown`); and `DelayOwned`. Each action has one step
of the proof, and lemmas say what `Read`, `Transit` and `Handle` preserve.

*Retries.* The code resets its counters where attempts end, not where they
begin. `RetryInv` says what they hold in between: `StopsCounted` (the STOP was
taken, or all but `stop_retry` attempts failed) at each step of the delay
(`StopsLogged`), the same of RESUMEs (`StartsLogged`), and that the beat for a
delay belongs to one (`DelayBeat`). It rests on `GrantInv`: without `DelayOwned`
the counter could be that of another delay.

*What was told.* `ToldIsDone` says nothing of the pass in which the heartbeat is
written. Its invariant `ToldKnown` follows the action from the heartbeat, which
belongs to `cur_state`, through `last_state` to the pass that sees the IOC off.

*Where grants come from.* `GrantInv` says what a grant is worth; `GrantsAreEarned`
says how one comes about. Of all actions only three add to `granted`
(`OnlyThreeGrant`): an answer of acrnd, a request `handle_stop` forwarded to the
service itself, which is never a reboot, and `AssumeSuspend` after the last attempt.
`SelfAnswer` (with acrnd nothing is ever forwarded) and `RetryInv` are needed.
`NativeNeverReboots` follows: without acrnd the loop neither carries out nor
announces a reboot.

*In the place of two violated comments.* Findings 1 and 2 are narrow, and two
theorems say how narrow. `AssumedInDelay`: if acrnd never refuses, suspend is assumed
only of a delay that still lasts, since only an agreement or the IOC going off ends
it while the loop sends its STOPs (`NotTakenBack`). `S5IsHonouredWhenKnown`: bit 22 is
disregarded only between the transition of line 396 and the store of line 398; once
`force_s5` is stored `handle_stop` never asks for a suspend against it.

`PowerProtocolProofs` proves `ServiceKeepsPromise`: `Spec` implies
`ImplementsPowerProtocol`. There is one lemma per kind of step (a pass starts, an
action begins, another thread moves the state), and `PhaseMoves` says what the
table of transitions allows between the phases. `GrantInv` is what makes it go
through: `Perform` needs `LastGranted` and `ExecAgreed`, `Settle` needs
`StateGranted` where something is agreed, and `Back` would withdraw a delay if
`DelayOwned` did not say that there is none.

What follows from `PowerProtocol` is stated and proved of the abstract protocol, and
holds of the service by the refinement:

| Theorem | What holds of the service |
|---|---|
| `ServiceIsBacked` | what is agreed, and what is being done, is granted |
| `AgreementStands` | an agreement stands until the IOC goes off |
| `OnlyGrantedStarts` | an action starts only when granted, and only one at a time |
| `ShutdownIsFinal` | after a shutdown or reboot nothing else is done to the machine |
| `WhatIsDoneStaysGranted` | no grant is taken back while it is being carried out |

`CbcThermalProofs` proves, for any users, sensors, temperatures and texts:

| Theorem | Property |
|---|---|
| `TypeCorrect` | `TypeOK` |
| `ReadsNeverBlock` | `ReadsDoNotBlock` |
| `AtMostOneLateFrame` | `OneLateFrame` |
| `ManualValuesStayAfterLate` | once the late frame is stored only users change temperatures |
| `DutiesAreAsked` | each command is full speed or a byte some user wrote |

`TypeOK` and, with it, `ReadsDoNotBlock` are inductive: only the reader takes
frames away, and forgets the announcement when it does. `OneLateFrame` is not:
`LateInv` adds that a reader that has stored a late frame holds no other one
that passed the test (`Holding`). `ManualValuesStayAfterLate` is what is left of
`ManualValueStays` (finding 4): the code may overwrite a user's value once, and not
again. `DutiesAreAsked` follows the floor and the commands on their way, whoever
holds them (`AskedInv`): the read thread commands an old floor at worst, and never a
duty nobody asked for. It rests on the floor not being the initial 0 once the reader
has found a duty below it.

`CbcAttachProofs` proves, for any instances, ttys, options, match files and
retry time:

| Theorem | Property |
|---|---|
| `AtMostOneInstance` | `OneInstance` |
| `AttachedLineKept` | `AttachedLineIsCbc` |
| `DescriptorsOwned` | `DescriptorOwned` |
| `OwnLineIsRestored` | a tty nobody else has open is restored when no instance is left |
| `LockDiesWithHolder` | an instance that is gone does not hold the lock |

and `TypeCorrect`, `AttemptsAreExact` (`AttemptsExact`) and `SameLineIsRead`
(`SameLine`). `AttemptsExact` is not inductive: `Counts` ties the time left to the
number of calls of `init` at each step, and `RoundsFit` bounds the multiplication.
The invariant `Inv` says that an instance past the lock file
holds it (`Held`), and for each step which files the instance has (`Files`): the
step alone does not say it, since a failure may come from four places. That a
waiting line keeps its discipline then follows because the discipline is set
only by the holder of the lock, and reset only by a last close.
`OwnLineIsRestored` is what holds in the place of the header comment of finding 5: on
a tty that is not `Shared` the discipline of the IOC always belongs to an instance
with the file open (`LineOwned`), and an instance that is gone has no file open.

`CbcTimerProofs` proves `TimersRoundDown`, which the runs evaluate for small
numbers, for all scales and field widths: dividing by one scale after the other
is dividing by their product (`DivideAgain`).

`SuspendProofs` and `ReasonProofs` prove, for any timers, numbers of requests,
suspends and reasons:

| Theorem | Property |
|---|---|
| `CycleActionsAreGranted` | `PowerActionGranted` in the suspend cycle |
| `CycleKeepsPromise` | `ImplementsPowerProtocol` in the suspend cycle |
| `CycleKeepsInvariants` | the other six invariants of the service in the suspend cycle |
| `CycleGrantsAreEarned` | `GrantsEarned` in the suspend cycle |
| `ThermaldIsAsBefore` | `ThermaldAsBefore` |
| `SleepIsWithoutThermald` | `SleepsWithoutThermald` |
| `TimersAreNotLost` | `TimersNotLost` |
| `TimersAreAsAsked` | `TimerAsAsked` |
| `ResumedAreTold` | `ResumedKnowWhy` |
| `OldAnswersAreForgotten` | `NoOldAnswer` |
| `CycleTyped` | `CycleTypeOK` |

The lemma `CycleIsLifecycle`, that each step of the cycle is a step of the service
or none, carries the invariants of the service over. `HookKnown` says at each
command what the file and thermald are; `TimerKnown` which bytes of the frame are of
which request, and when the flag may be lost. No request is excepted: the torn frame
is in the theorem, with what its bytes are. `MadeInTime` rests on `TimersRoundDown`;
`WhyKnown` and `DuePlace` when the copy of the reason is to be believed;
`OldKnown` when a reason can be from before the sleep.

`CbcDltProofs` proves, for every width of the stamps, list of arguments,
sequence of boot events, lag below a wrap and bound:

| Theorem | Property |
|---|---|
| `TypeCorrect` | `TypeOK` |
| `DriftIsKnown` | `DriftKnown` |
| `TimeIsMonotone` | `TimeNeverGoesBack` |
| `ArgumentsAreInPlace` | `ArgumentsArrive` |
| `SuccessIsHonest` | `SuccessMeansAsked` |
| `FirstAnswerIsSane` | `FirstAnswerSane` |

`FirstAnswerSane` needs to know in which order the events of one answer arrive
and which were seen (`EventsInOrder`), `SuccessMeansAsked` what was sent at each
step (`Asking`). `DriftKnown` needs the order of the stamps in the queue: a log
stamped on sending is not older than those before it, and the others are numbered
(`LateKnown`), so no more are late than were sent late; and no log is a wrap or more
older than one sent before it (`LogsRecent`, from `LagAssumption`), so a late log
never costs more than the wrap it is counted for. The other two follow from the
types.

*Assumptions.* The named `ASSUME`s of the modules, no more. `RetryCnt > 1`
is needed: with `RETRY_CNT` 1 the loop could assume suspend in its first pass
in the delay, when `last_state` still holds the state before; the code has 5.

## 6. Only model-checked, not modelled

Every safety property of the passing runs is proved, the refinement included.
Only checked by TLC: the liveness properties (`LeaveConcludes`,
`NativeLeaveConcludes`, `OffConcludes`, `AgreementTold`, `FloorRestored`, `StartConcludes`,
`PingConcludes`, `ToolEnds`), since TLAPS does not prove liveness under fairness.
The five violations are counterexamples of TLC. Of four of them section 5 has a
theorem on what holds in their place; for the fifth, `NativeStopHandled`, that is
`NativeLeaveConcludes`, a liveness property.

Not modelled:

* The bytes of a buffer that a short frame does not overwrite
  (`cbc_thermal.c:120`, `cbc_logging_service.cpp:421`): what they are depends on
  what the driver delivers, which the repository does not say.
* A `select` that fails: its result is ignored (`cbc_thermal.c:105`), both devices
  are then read as if announced, and a read may block. `ReadsDoNotBlock` is about a
  `select` that succeeds.
* `convert_file`, which prints a DLT file and shares nothing with the service; the
  texts of the options and of `--help`; `cbc_thermal_chart.py`; what the commands
  run by `system` do; thermald itself.

What the models show and no document contradicts, so that it is no finding:

* A frame made of two timers, or of one and none, may be sent to the IOC: the loop
  sends the three bytes while a request stores them.
* A timer accepted after the loop has decided how to suspend is not sent before
  that sleep, although the VM was told that all is well.
* A time beyond the range of an `int` is accepted with another delay.
* A delay counts from the request and may be sent much later.
* A log stamped before the one that came first shifts all later times by a wrap.
* When the state goes from `shutdown` through off to `keep_alive` before the call
  of line 305 returns, the loop takes `keep_alive` for the state it was in: no
  RESUME is sent and the reason is not copied.
* An agreement that the loop has not read when the IOC goes off is dropped, although
  the VM manager was told that it was taken.
* A STOP of the service's own that is answered late may be answered with a suspend
  of its own.

## 7. Running it

```
tlc -workers 2 -config LifecycleAcrn.cfg MCLifecycleAcrn
tlc -workers 2 -config Thermal.cfg MCThermal
tlapm CbcLifecycleProofs.tla
tlapm CbcThermalProofs.tla
tlc -workers 2 -config Attach.cfg MCAttach
tlapm CbcAttachProofs.tla
tlc -workers 2 -config Dlt.cfg MCDlt
tlc -workers 2 -config Suspend.cfg MCSuspend
tlapm PowerProtocolProofs.tla
tlapm CbcDltProofs.tla
tlapm CbcTimerProofs.tla
tlapm SuspendProofs.tla
tlapm ReasonProofs.tla
```
