----------------------------- MODULE DltDevice -----------------------------
(***************************************************************************)
(* /dev/cbc-dlt, and the IOC behind it: the environment of the logging     *)
(* service (CbcLogging) and of the diagnostic tool (CbcDiagnostic), which  *)
(* both open the device.                                                   *)
(*                                                                         *)
(* Neither the driver nor the firmware is in the repository.  What the two *)
(* programs rely on: a request 255 makes the IOC send its boot events to   *)
(* all who have the device open; logs come unasked, each with the 32-bit   *)
(* time of its making; frames arrive in order and whole, or not at all.    *)
(***************************************************************************)
EXTENDS Integers, Sequences

CONSTANTS
    W,          \* the number of values of a time stamp, 2^32
    ArgLists,   \* the argument types of the logs, one list per log
    Events,     \* the boot events in the order they happened: reason and time
    MaxRequests,\* bound on the requests of other programs
    MaxLag,     \* how many ticks before its sending a log may be stamped
    MaxLagged,  \* bound on the logs that are not stamped on sending
    MaxEpoch,   \* bound on the wraps of the IOC's clock
    MaxQueue    \* bound on the frames a client has not read

NArgs == 4

\* The types of ias_cbc_ioc_argument_type that stand for each way to be parsed.
ArgTypes == {"none", "string", "int8", "int16", "int32", "uint8", "float32"}

ASSUME WAssumption       == W \in Nat \ {0}
ASSUME ArgListsAssumption == ArgLists \subseteq [1..NArgs -> ArgTypes]
ASSUME EventsAssumption  ==
    /\ Events \in Seq([reason : 0..255, at : Nat])
    /\ \A i, j \in DOMAIN Events : i <= j => Events[i].at <= Events[j].at
ASSUME LagAssumption     == MaxLag \in 0..(W - 1)
ASSUME DltBoundsAssumption == {MaxLagged, MaxEpoch, MaxQueue, MaxRequests}
                                  \subseteq Nat

Clients == {"service", "tool"}

VARIABLES
    clock,      \* the IOC's clock: only its phase fits in a time stamp
    dlt,        \* the frames each client has not read
    files,      \* the clients that have the device open
    resend,     \* the boot event to send next, 0 when there is none
    requests,   \* how often the boot events were asked for, 2 for more
    lagged      \* the logs that were not stamped on sending

iocVars == <<clock, resend, requests, lagged>>

\* A moment: how often the 32-bit clock has wrapped, and what it shows.
Moments == [epoch : Int, phase : 0..(W - 1)]

\* The frames: a log, a boot event, and what is neither: another type, a log
\* shorter than its header or with too long a description.  Not in a frame, and
\* read by properties only: the epoch of a log, and which of the logs that were
\* not stamped on sending it is, 0 for the others.
Logs   == [kind : {"log"}, at : Moments, args : ArgLists, nth : Nat]
Boots  == [kind : {"boot"}, event : DOMAIN Events]
Unfit  == [kind |-> "unfit"]
Frames == Logs \cup Boots \cup {Unfit}

\* What of a frame makes a difference to a client: the tool does not look at the
\* type of a frame, and reports whatever is in it.
View(r, f) == IF r = "tool" THEN Unfit ELSE f

\* A frame reaches the clients that have the device open, or some of them, or
\* none: a queue may be full.
Deliver(f) ==
    /\ \E R \in SUBSET {r \in files : Len(dlt[r]) < MaxQueue} :
         dlt' = [r \in Clients |-> IF r \in R THEN Append(dlt[r], View(r, f))
                                              ELSE dlt[r]]
    /\ UNCHANGED files

Tick ==
    /\ clock.epoch < MaxEpoch \/ clock.phase < W - 1
    /\ clock' = IF clock.phase = W - 1
                THEN [epoch |-> clock.epoch + 1, phase |-> 0]
                ELSE [clock EXCEPT !.phase = clock.phase + 1]
    /\ UNCHANGED <<dlt, files, resend, requests, lagged>>

\* The moment some ticks ago.
Ago(ticks) ==
    IF ticks <= clock.phase
    THEN [clock EXCEPT !.phase = clock.phase - ticks]
    ELSE [epoch |-> clock.epoch - 1, phase |-> clock.phase + W - ticks]

\* A log; it may have been stamped before others that were sent earlier.
SendLog ==
    /\ \E args \in ArgLists, lag \in 0..MaxLag :
         /\ lag > 0 => lagged < MaxLagged /\ Ago(lag).epoch >= 0
         /\ lagged' = IF lag > 0 THEN lagged + 1 ELSE lagged
         /\ Deliver([kind |-> "log", at |-> Ago(lag), args |-> args,
                     nth |-> IF lag > 0 THEN lagged + 1 ELSE 0])
    /\ UNCHANGED <<clock, resend, requests>>

SendUnfit == Deliver(Unfit) /\ UNCHANGED iocVars

\* The next of the boot events asked for.
SendBoot ==
    /\ resend # 0
    /\ Deliver([kind |-> "boot", event |-> resend])
    /\ resend' = IF resend = Len(Events) THEN 0 ELSE resend + 1
    /\ UNCHANGED <<clock, requests, lagged>>

\* A write of 255: the boot events are sent from the first one.
Request ==
    /\ resend' = IF Events = <<>> THEN 0 ELSE 1
    /\ requests' = IF requests = 2 THEN 2 ELSE requests + 1
    /\ UNCHANGED <<clock, lagged>>

\* Another program on the device asks for them.
OtherRequest ==
    /\ requests < MaxRequests
    /\ Request
    /\ UNCHANGED <<dlt, files>>

\* A client takes its next frame.
Front(r) == Head(dlt[r])
Take(r)  == dlt[r] # <<>> /\ dlt' = [dlt EXCEPT ![r] = Tail(dlt[r])]

DeviceInit ==
    /\ clock \in [epoch : {0}, phase : 0..(W - 1)]
    /\ dlt = [r \in Clients |-> <<>>]
    /\ files = {}
    /\ resend = 0 /\ requests = 0 /\ lagged = 0

Device == Tick \/ SendLog \/ SendUnfit \/ SendBoot \/ OtherRequest

DeviceTypeOK ==
    /\ clock \in Moments
    /\ dlt \in [Clients -> Seq(Frames)]
    /\ files \in SUBSET Clients
    /\ resend \in 0..Len(Events)
    /\ requests \in 0..2
    /\ lagged \in Nat
=============================================================================
