----------------------------- MODULE CbcAttach -----------------------------
(***************************************************************************)
(* The attacher of the serial line, cbc_attach/cbc_attach.c.               *)
(*                                                                         *)
(* Any number of instances run at once.  Each takes the lock file, reads   *)
(* its options, chooses a tty and tries, again and again, to open it and   *)
(* to set the line discipline of the IOC; then it holds the line and waits *)
(* for a signal.  No signal has a handler, so a signal ends the process at *)
(* any step, and what follows pause() is never reached: the kernel then    *)
(* closes the files, the lock and the line in either order.                *)
(***************************************************************************)
EXTENDS Integers, Sequences

CONSTANTS
    Instances,   \* processes of the program
    Devices,     \* ttys
    Default,     \* cDEFAULT_DEVICE_NAME, or the environment's
    Shared,      \* ttys that other programs keep open
    Args,        \* the sequences of options they may be started with
    MatchFiles,  \* the files cbc_match.txt may be, as sequences of lines
    RetryTime,   \* retry_time
    RetryUnit,   \* retry_uint
    Nobody       \* no instance

ASSUME NobodyAssumption  == Nobody \notin Instances
ASSUME DevicesAssumption == Default \in Devices /\ Shared \subseteq Devices
ASSUME ArgsAssumption    == Args \subseteq Seq([opt : STRING, n : Int])
ASSUME RetryAssumption   == RetryTime \in Nat \ {0} /\ RetryUnit \in Nat \ {0}
\* A line has a number of columns, its first may exist in /sys, its second
\* names a tty.
ASSUME MatchFilesAssumption ==
    MatchFiles \subseteq Seq([cols : 0..3, present : BOOLEAN, tty : Devices])

VARIABLES
    pc,          \* each instance: its next step
    loc,         \* its locals: the fd is positive, baudrate, deviceName, retry_time
    opens,       \* the open files it has for the device
    lock,        \* who holds /var/run/cbc_attach.lock
    ldisc,       \* the line discipline of each tty
    rows,        \* cbc_match.txt
    attempts     \* history: calls of init since the instance started

vars == <<pc, loc, opens, lock, ldisc, rows, attempts>>

Goto(i, step) == pc' = [pc EXCEPT ![i] = step]

DefaultRate == 4000000

\* The locals of main before the options are read.  An instance that ends
\* leaves nothing behind.
Locals0 == [fd |-> FALSE, rate |-> DefaultRate, dev |-> Default,
            retry_time |-> RetryTime]

End(i) == /\ Goto(i, "gone")
          /\ loc' = [loc EXCEPT ![i] = Locals0]
          /\ attempts' = [attempts EXCEPT ![i] = 0]

----------------------------------------------------------------------------
(* cbc_match.txt *)

\* A reader of c columns stops at the first line that has fewer, without a match,
\* or whose device exists.
Stops(c, k) == rows[k].cols < c \/ rows[k].present

Matches(c, k) == /\ rows[k].cols >= c /\ rows[k].present
                 /\ \A j \in DOMAIN rows : j < k => ~Stops(c, j)

\* The line found, or 0.
MatchedLine(c) == IF \E k \in DOMAIN rows : Matches(c, k)
                  THEN CHOOSE k \in DOMAIN rows : Matches(c, k) ELSE 0

\* (A slip: a line that does not parse is skipped.)
AcrnLineLoose ==
    LET found == {k \in DOMAIN rows : rows[k].cols >= 3 /\ rows[k].present} IN
    IF found = {} THEN 0 ELSE CHOOSE k \in found : \A j \in found : k <= j

\* The line check_acrnd of the life cycle service reads its third column from.
AcrnLine == MatchedLine(3)

match_deviceName(dfl) == IF MatchedLine(2) = 0 THEN dfl ELSE rows[MatchedLine(2)].tty

----------------------------------------------------------------------------
(* Options *)

KnownRates ==
    {50, 75, 110, 134, 150, 200, 300, 600, 1200, 1800, 2400, 4800, 9600, 19200,
     38400, 57600, 115200, 230400, 460800, 500000, 576000, 921600, 1000000,
     1152000, 1500000, 2000000, 2500000, 3000000, 3500000, 4000000}

\* Help, a rate of 0 and whatever getopt does not know end the program; -m is
\* in the usage text and not in the option string.
Fatal(a) == a.opt \notin {"b", "f"} \/ (a.opt = "b" /\ a.n = 0)

\* The last -b counts.
LastRate(args, k) == /\ args[k].opt = "b"
                     /\ \A j \in DOMAIN args : j > k => args[j].opt # "b"

BaudRate(args) == IF \E k \in DOMAIN args : LastRate(args, k)
                  THEN args[CHOOSE k \in DOMAIN args : LastRate(args, k)].n
                  ELSE DefaultRate

----------------------------------------------------------------------------
(* main *)

Start(i) ==
    /\ pc[i] = "gone"
    /\ Goto(i, "flock")
    /\ UNCHANGED <<loc, opens, lock, ldisc, rows, attempts>>

\* The lock file may also fail to open.  (A slip: the result of flock is not
\* looked at.)
TryLockBlind(i) ==
    /\ pc[i] = "flock"
    /\ \/ /\ Goto(i, "options") /\ UNCHANGED <<loc, attempts>>
          /\ lock' = (IF lock = Nobody THEN i ELSE lock)
       \/ End(i) /\ UNCHANGED lock
    /\ UNCHANGED <<opens, ldisc, rows>>

TryLock(i) ==
    /\ pc[i] = "flock"
    /\ \/ /\ lock = Nobody /\ lock' = i
          /\ Goto(i, "options") /\ UNCHANGED <<loc, attempts>>
       \/ End(i) /\ UNCHANGED lock
    /\ UNCHANGED <<opens, ldisc, rows>>

Options(i) ==
    /\ pc[i] = "options"
    /\ \E args \in Args, given \in Devices :   \* given: the tty asked for
         IF \E k \in DOMAIN args : Fatal(args[k])
         THEN Goto(i, "unlock") /\ UNCHANGED loc
         ELSE /\ Goto(i, "open")
              /\ loc' = [loc EXCEPT ![i].rate = BaudRate(args),
                                    ![i].dev  = match_deviceName(given)]
    /\ UNCHANGED <<opens, lock, ldisc, rows, attempts>>

\* The attempts that fit in the retry time; counting stops at one more.
Rounds == (RetryTime + RetryUnit - 1) \div RetryUnit

Attempt(i) == attempts' = [attempts EXCEPT ![i] =
                               IF attempts[i] <= Rounds THEN attempts[i] + 1
                                                        ELSE attempts[i]]

\* init fails: cbc_attach_shutdown, which does nothing with a descriptor that is
\* not positive.  (A slip: init does not call it.)
InitFailsOpen(i) == Goto(i, "sleep")
InitFails(i)     == Goto(i, IF loc'[i].fd THEN "off" ELSE "sleep")

\* (A slip: the descriptor of the attempt before stays when open fails.)
OpenDeviceKeeps(i) ==
    /\ pc[i] = "open"
    /\ Attempt(i)
    /\ \/ /\ opens' = [opens EXCEPT ![i] = opens[i] + 1]
          /\ loc' = [loc EXCEPT ![i].fd = TRUE]
          /\ Goto(i, "terminal")
       \/ UNCHANGED <<opens, loc>> /\ InitFails(i)
    /\ UNCHANGED <<lock, ldisc, rows>>

OpenDevice(i) ==
    /\ pc[i] = "open"
    /\ Attempt(i)
    /\ \/ /\ opens' = [opens EXCEPT ![i] = opens[i] + 1]
          /\ loc' = [loc EXCEPT ![i].fd = TRUE]
          /\ Goto(i, "terminal")
       \/ /\ loc' = [loc EXCEPT ![i].fd = FALSE]
          /\ UNCHANGED opens /\ InitFails(i)
    /\ UNCHANGED <<lock, ldisc, rows>>

\* A rate that is not known fails; each call on the tty may.
InitTerminal(i) ==
    /\ pc[i] = "terminal"
    /\ \/ loc[i].rate \in KnownRates /\ Goto(i, "disc") /\ UNCHANGED loc
       \/ UNCHANGED loc /\ InitFails(i)
    /\ UNCHANGED <<opens, lock, ldisc, rows, attempts>>

\* Set the line discipline.  (A slip: its failure is not noticed.)
SetDiscBlind(i) ==
    /\ pc[i] = "disc" /\ Goto(i, "pause")
    /\ \/ ldisc' = [ldisc EXCEPT ![loc[i].dev] = "cbc"]
       \/ UNCHANGED ldisc
    /\ UNCHANGED <<loc, opens, lock, rows, attempts>>

SetDisc(i) ==
    /\ pc[i] = "disc"
    /\ \/ ldisc' = [ldisc EXCEPT ![loc[i].dev] = "cbc"]
          /\ UNCHANGED loc /\ Goto(i, "pause")
       \/ UNCHANGED <<ldisc, loc>> /\ InitFails(i)
    /\ UNCHANGED <<opens, lock, rows, attempts>>

\* cbc_attach_shutdown: back to the discipline of a tty, if that works ...
ShutdownDisc(i) ==
    /\ pc[i] = "off" /\ Goto(i, "close")
    /\ \/ ldisc' = [ldisc EXCEPT ![loc[i].dev] = "tty"]
       \/ UNCHANGED ldisc
    /\ UNCHANGED <<loc, opens, lock, rows, attempts>>

\* The kernel resets the discipline when nobody has the tty open any more.
LastClose(i) ==
    LET d == loc[i].dev IN
    ldisc' = IF \/ d \in Shared \/ opens[i] > 1
                \/ \E j \in Instances \ {i} : opens[j] > 0 /\ loc[j].dev = d
             THEN ldisc ELSE [ldisc EXCEPT ![d] = "tty"]

\* ... and close, which gives the file up although it may report an error; the
\* descriptor then keeps its value.
ShutdownClose(i) ==
    /\ pc[i] = "close" /\ Goto(i, "sleep")
    /\ LastClose(i) /\ opens' = [opens EXCEPT ![i] = opens[i] - 1]
    /\ \E failed \in BOOLEAN : loc' = [loc EXCEPT ![i].fd = failed]
    /\ UNCHANGED <<lock, rows, attempts>>

\* (Two slips: one attempt too many; the time is not counted.)
AgainAtZero(left) == left >= 0
Again(left)       == left > 0

SpentNothing(left) == left
Spent(left)        == left - RetryUnit

Sleep(i) ==
    /\ pc[i] = "sleep"
    /\ loc' = [loc EXCEPT ![i].retry_time = Spent(loc[i].retry_time)]
    /\ Goto(i, IF Again(loc'[i].retry_time) THEN "open" ELSE "unlock")
    /\ UNCHANGED <<opens, lock, ldisc, rows, attempts>>

Unlock(i) ==
    /\ pc[i] = "unlock" /\ End(i)
    /\ lock' = IF lock = i THEN Nobody ELSE lock
    /\ UNCHANGED <<opens, ldisc, rows>>

main(i) == \/ TryLock(i) \/ Options(i) \/ OpenDevice(i) \/ InitTerminal(i)
           \/ SetDisc(i) \/ ShutdownDisc(i) \/ ShutdownClose(i) \/ Sleep(i)
           \/ Unlock(i)

----------------------------------------------------------------------------
(* The kernel *)

Signal(i) ==
    /\ pc[i] \notin {"gone", "dying"} /\ Goto(i, "dying")
    /\ UNCHANGED <<loc, opens, lock, ldisc, rows, attempts>>

CloseLine(i) ==
    /\ pc[i] = "dying" /\ opens[i] > 0
    /\ LastClose(i) /\ opens' = [opens EXCEPT ![i] = opens[i] - 1]
    /\ UNCHANGED <<pc, loc, lock, rows, attempts>>

CloseLock(i) ==
    /\ pc[i] = "dying" /\ lock = i /\ lock' = Nobody
    /\ UNCHANGED <<pc, loc, opens, ldisc, rows, attempts>>

Reaped(i) ==
    /\ pc[i] = "dying" /\ opens[i] = 0 /\ lock # i /\ End(i)
    /\ UNCHANGED <<opens, lock, ldisc, rows>>

Teardown(i) == CloseLine(i) \/ CloseLock(i) \/ Reaped(i)

----------------------------------------------------------------------------
Init ==
    /\ pc = [i \in Instances |-> "gone"]
    /\ loc = [i \in Instances |-> Locals0]
    /\ opens = [i \in Instances |-> 0]
    /\ lock = Nobody
    /\ ldisc = [d \in Devices |-> "tty"]
    /\ rows \in MatchFiles
    /\ attempts = [i \in Instances |-> 0]

Next == \E i \in Instances : Start(i) \/ main(i) \/ Signal(i) \/ Teardown(i)

\* A process that runs is scheduled, one that dies is torn down.  Nothing
\* starts an instance or sends it a signal.
Fairness == \A i \in Instances : WF_vars(main(i)) /\ WF_vars(Teardown(i))

Spec == Init /\ [][Next]_vars /\ Fairness

----------------------------------------------------------------------------
(* Properties *)

Steps  == {"flock", "options", "open", "terminal", "disc", "pause", "off",
           "close", "sleep", "unlock"}
Inside(i) == pc[i] \in Steps \ {"flock"}

TypeOK ==
    /\ pc \in [Instances -> Steps \cup {"gone", "dying"}]
    /\ loc \in [Instances -> [fd : BOOLEAN, rate : Int, dev : Devices,
                              retry_time : Int]]
    /\ opens \in [Instances -> Nat]
    /\ lock \in Instances \cup {Nobody}
    /\ ldisc \in [Devices -> {"tty", "cbc"}]
    /\ rows \in MatchFiles
    /\ attempts \in [Instances -> Nat]

\* "Allow only one cbc_attach running" (line 379): two instances are never past
\* the lock file, also when one is started while another is being killed.
OneInstance == \A i, j \in Instances : Inside(i) /\ Inside(j) => i = j

\* An instance that waits holds a line with the discipline of the IOC, whatever
\* other instances, dying ones included, do to the same tty.
AttachedLineIsCbc ==
    \A i \in Instances : pc[i] = "pause" =>
        opens[i] = 1 /\ ldisc[loc[i].dev] = "cbc"

\* Over all retries an instance has at most one open file, and none while it
\* sleeps; the shutdown never works on a descriptor that was closed before,
\* although a failed close leaves its value behind.
DescriptorOwned ==
    \A i \in Instances :
        /\ opens[i] <= 1
        /\ pc[i] \in {"off", "close"} => loc[i].fd /\ opens[i] = 1
        /\ pc[i] = "sleep" => opens[i] = 0

\* An instance makes as many attempts as fit in the retry time, counted on the
\* calls of init: never one more, and never fewer before it gives up.
AttemptsExact ==
    \A i \in Instances :
        /\ attempts[i] <= Rounds
        /\ pc[i] = "unlock" /\ attempts[i] > 0 => attempts[i] = Rounds

\* Both readers of cbc_match.txt choose the same line, or none, and only a line of
\* two columns, before the one the attacher takes or that one itself, parts them: then
\* the life cycle service finds none, and runs without a VM manager.
SameLine ==
    \/ \A d \in Devices :
         match_deviceName(d) = IF AcrnLine = 0 THEN d ELSE rows[AcrnLine].tty
    \/ AcrnLine = 0 /\ \E k \in 1..MatchedLine(2) : rows[k].cols = 2

\* An instance that was started attaches the line, or ends and gives the lock up.
StartConcludes ==
    \A i \in Instances :
        pc[i] = "flock" ~> pc[i] = "pause" \/ (pc[i] = "gone" /\ lock # i)

\* "On exit it switches the line discipline to n_tty" (line 9): when no instance
\* is left, no tty has the discipline of the IOC.
ExitRestoresLine ==
    (\A i \in Instances : pc[i] = "gone") => \A d \in Devices : ldisc[d] = "tty"
=============================================================================
