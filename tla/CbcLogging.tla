----------------------------- MODULE CbcLogging -----------------------------
(***************************************************************************)
(* The logging service, cbc_logging_service/: one thread that reads frames *)
(* from cbc-dlt, hands logs to DLT with their time extended to 64 bits,    *)
(* reports boot events, and sends one ping to the IOC.                     *)
(***************************************************************************)
EXTENDS DltDevice

CONSTANTS
    MaxArg,     \* MAX_IOC_LOG_ARGUMENT_SIZE
    StringSize, \* the length of the strings the IOC sends
    SizeBytes,  \* what may be read for a length where the IOC wrote none
    W64         \* the number of values of a boot time stamp, 2^64

ASSUME SizesAssumption == /\ MaxArg \in Nat
                          /\ StringSize \in 0..MaxArg
                          /\ SizeBytes \subseteq 0..255
ASSUME W64Assumption == /\ W64 \in Nat
                        /\ \A i \in DOMAIN Events : Events[i].at < W64

VARIABLES
    svc,             \* the service: its next step and its locals
    last_timestamp,  \* the time of the last log, its two halves of 32 bits
    abl_start_timestamp,
    secs,            \* seconds since run_logging_service began, 2 for more
    \* history, read by the properties only
    stamped,         \* the moment the last log was stamped
    late,            \* logs stamped before the one logged before them
    gap              \* two logs in a row were stamped a whole wrap apart

timeVars == <<last_timestamp, stamped, late, gap>>
logVars  == <<svc, secs, abl_start_timestamp, timeVars>>

SvcAt(p) == svc.pc = p

----------------------------------------------------------------------------
(* Start: main, cbc_init_device, and the reset of the channel *)

\* main decides by options.convert, which nobody has set unless -c was given:
\* converting ends it, and so does a file or a device that cannot be opened.
SvcMain ==
    /\ SvcAt("main")
    /\ \/ /\ svc' = [svc EXCEPT !.pc = "reset"]
          /\ files' = files \cup {"service"}
       \/ /\ svc' = [svc EXCEPT !.pc = "exited"]
          /\ UNCHANGED files
    /\ UNCHANGED <<dlt, iocVars, secs, abl_start_timestamp,
                   timeVars>>

\* A failed write ends the service, and its end closes the device.
SvcExit == svc' = [svc EXCEPT !.pc = "exited"] /\ files' = files \ {"service"}

SvcReset ==
    /\ SvcAt("reset")
    /\ \/ svc' = [svc EXCEPT !.pc = "read"] /\ Request /\ UNCHANGED files
       \/ SvcExit /\ UNCHANGED iocVars
    /\ UNCHANGED <<dlt, secs, abl_start_timestamp,
                   timeVars>>

----------------------------------------------------------------------------
(* The loop: read a frame, parse it, send the ping when it is time *)

\* Nothing to read, or an error: go on.  (A slip: read again at once.)
SvcReadAgain ==
    /\ SvcAt("read")
    /\ UNCHANGED <<svc, dlt, files, iocVars, secs, abl_start_timestamp,
                   timeVars>>

SvcReadNothing ==
    /\ SvcAt("read")
    /\ svc' = [svc EXCEPT !.pc = "ping"]
    /\ UNCHANGED <<dlt, files, iocVars, secs, abl_start_timestamp,
                   timeVars>>

\* parse_response: other types are dropped, and so are logs that cannot be
\* parsed; the loop goes on.
SvcDrop ==
    /\ Take("service")
    /\ svc' = [svc EXCEPT !.pc = "ping"]
    /\ UNCHANGED <<files, iocVars, secs, abl_start_timestamp, timeVars>>

\* The time reported of an event, an unsigned difference of 64 bits.  (Two
\* slips: a signed one, the difference the other way round.)
AgeSigned(at, start)   == at - start
AgeReversed(at, start) == (start - at) % W64
Age(at, start)         == (at - start) % W64

\* cbc_parse_timestamp: reason 2 is the start of the boot loader.
SvcBootEvent(e) ==
    /\ Take("service")
    /\ abl_start_timestamp' = IF e.reason = 2 THEN e.at ELSE abl_start_timestamp
    /\ svc' = [svc EXCEPT !.pc = "ping",
                          !.told = <<[at  |-> e.at,
                                      age |-> Age(e.at, abl_start_timestamp')]>>]
    /\ UNCHANGED <<files, iocVars, secs, timeVars>>

\* The bytes of a value as the IOC sends it, and as parse_argument reads it:
\* the case of uint8 loops over the size of a uint32_t.  (A slip: so does
\* the case of int16.)
Width(t) == CASE t \in {"int8", "uint8"} -> 1 [] t = "int16" -> 2 [] OTHER -> 4
AdvanceInt16(t) == IF t \in {"uint8", "int16"} THEN 4 ELSE Width(t)
Advance(t)      == IF t = "uint8" THEN 4 ELSE Width(t)

\* cbc_service_debug_receive_send_log_parse_argument, for an argument of type t:
\* the cursor is where the service reads, the place where the IOC wrote.  Read
\* at the wrong place, the size of a string may be anything.
ParseArgument(p, t, garbage) ==
    IF ~p.ok \/ t = "float32" THEN [p EXCEPT !.ok = FALSE]
    ELSE CASE t = "none"   -> p
           [] t = "string" ->
                LET size == IF p.cursor = p.place THEN StringSize ELSE garbage
                IN  [cursor |-> p.cursor + 1 + size,
                     place  |-> p.place + 1 + StringSize,
                     ok     |-> size <= MaxArg]
           [] OTHER -> [p EXCEPT !.cursor = p.cursor + Advance(t),
                                 !.place  = p.place + Width(t)]

\* The four calls of it: entry i is what holds before the i-th of them, counted
\* from the end of the description, and the fifth what holds in the end.
Parse(args, garbage) ==
    LET p1 == [cursor |-> 0, place |-> 0, ok |-> TRUE]
        p2 == ParseArgument(p1, args[1], garbage[1])
        p3 == ParseArgument(p2, args[2], garbage[2])
        p4 == ParseArgument(p3, args[3], garbage[3])
        p5 == ParseArgument(p4, args[4], garbage[4])
    IN  <<p1, p2, p3, p4, p5>>

\* send_log: a stamp below the last one is taken for a wrap.  (Two slips.)
ExtendNoCarry(t)   == [high |-> last_timestamp.high, low |-> t]
ExtendWrapEqual(t) == [high |-> IF t <= last_timestamp.low
                                THEN last_timestamp.high + 1
                                ELSE last_timestamp.high,
                       low  |-> t]
Extend(t) == [high |-> IF t < last_timestamp.low THEN last_timestamp.high + 1
                                                 ELSE last_timestamp.high,
              low  |-> t]

Before(a, b) == \/ a.epoch < b.epoch
                \/ a.epoch = b.epoch /\ a.phase < b.phase

\* a is before b, or the same, and less than a wrap away.
Near(a, b) == \/ a.epoch = b.epoch /\ a.phase <= b.phase
              \/ a.epoch + 1 = b.epoch /\ b.phase < a.phase

\* DLT gets the arguments up to the first unused one.
Logged(args) == {i \in 1..NArgs : \A j \in 1..i : args[j] # "none"}

\* cbc_service_debug_receive_send_log, and send_log up to the macro of DLT.
SvcSendLog(log, p) ==
    /\ Take("service")
    /\ svc' = [svc EXCEPT !.pc = "dlt", !.args = log.args,
                          !.given = Logged(log.args),
                          !.right = {i \in 1..NArgs : p[i].cursor = p[i].place}]
    /\ last_timestamp' = Extend(log.at.phase)
    /\ stamped' = log.at
    /\ late' = IF Before(log.at, stamped) THEN late + 1 ELSE late
    /\ gap' = (gap \/ ~(Near(stamped, log.at) \/ Near(log.at, stamped)))
    /\ UNCHANGED <<files, iocVars, secs, abl_start_timestamp>>

\* parse_response; the log is dropped when one of its arguments is not parsed.
SvcRead ==
    /\ SvcAt("read") /\ dlt["service"] # <<>>
    /\ LET f == Front("service")
       IN  \/ f.kind = "unfit" /\ SvcDrop
           \/ f.kind = "boot" /\ SvcBootEvent(Events[f.event])
           \/ /\ f.kind = "log"
              /\ \E garbage \in [1..NArgs -> SizeBytes] :
                   LET p == Parse(f.args, garbage)
                   IN  \/ ~p[NArgs + 1].ok /\ SvcDrop
                       \/ p[NArgs + 1].ok /\ SvcSendLog(f, p)

\* DLT has the log; the locals of the handler are gone.
SvcHandOver ==
    /\ SvcAt("dlt")
    /\ svc' = [svc EXCEPT !.pc = "ping", !.args = <<>>, !.given = {}, !.right = {}]
    /\ UNCHANGED <<dlt, files, iocVars, secs, abl_start_timestamp,
                   timeVars>>

\* The ping, once, when more than a second has passed.
SvcPing ==
    /\ SvcAt("ping")
    /\ \/ /\ svc.pingSent \/ secs <= 1
          /\ svc' = [svc EXCEPT !.pc = "read", !.told = <<>>] /\ UNCHANGED files
       \/ /\ ~svc.pingSent /\ secs > 1
          /\ \/ svc' = [svc EXCEPT !.pc = "read", !.told = <<>>, !.pingSent = TRUE]
                /\ UNCHANGED files
             \/ SvcExit
    /\ UNCHANGED <<dlt, iocVars, secs, abl_start_timestamp,
                   timeVars>>

Second ==
    /\ secs < 2 /\ svc.pc \notin {"main", "exited"}
    /\ secs' = secs + 1
    /\ UNCHANGED <<svc, dlt, files, iocVars, abl_start_timestamp, timeVars>>

LoggingInit(used) ==
    /\ svc = [pc |-> IF used THEN "main" ELSE "exited", pingSent |-> FALSE,
              args |-> <<>>, given |-> {}, right |-> {}, told |-> <<>>]
    /\ abl_start_timestamp = 0
    /\ last_timestamp = [high |-> 0, low |-> 0]
    /\ secs = 0
    /\ stamped = [epoch |-> 0, phase |-> 0] /\ late = 0 /\ gap = FALSE

Service == \/ SvcMain \/ SvcReset \/ SvcReadNothing \/ SvcRead \/ SvcHandOver
           \/ SvcPing

----------------------------------------------------------------------------
(* Properties *)

SvcTypeOK ==
    /\ svc \in [pc : {"main", "reset", "read", "dlt", "ping", "exited"},
                pingSent : BOOLEAN, args : ArgLists \cup {<<>>},
                given : SUBSET (1..NArgs), right : SUBSET (1..NArgs),
                told : Seq([at : Nat, age : Nat])]
    /\ abl_start_timestamp \in Nat
    /\ secs \in 0..2
    /\ last_timestamp \in [high : Nat, low : 0..(W - 1)]
    /\ stamped \in Moments
    /\ late \in Nat /\ gap \in BOOLEAN

\* The 64-bit times handed to DLT never go backwards, although the 32-bit ones
\* do, at a wrap and when a log was stamped before one that came first.
TimeNeverGoesBack ==
    [][\/ last_timestamp.high < last_timestamp'.high
       \/ /\ last_timestamp.high = last_timestamp'.high
          /\ last_timestamp.low <= last_timestamp'.low]_last_timestamp

\* The time of a log is never ahead of the time of its stamp by more than one wrap
\* for each log so far that was stamped before the one logged before it, and
\* those are no more than the logs the IOC had not stamped on sending them.  As
\* long as no two logs in a row are a whole wrap apart, lost ones and those that
\* cannot be parsed included, it is ahead by just that, and never behind.
DriftKnown ==
    /\ late <= lagged
    /\ last_timestamp.low = stamped.phase
    /\ last_timestamp.high <= stamped.epoch + late
    /\ ~gap => last_timestamp.high = stamped.epoch + late

\* An argument is read where the IOC wrote it unless a uint8 comes before it,
\* and is handed to DLT unless an unused one does.
ArgumentsArrive ==
    svc.pc = "dlt" =>
        \A i \in 1..NArgs :
            LET before == {svc.args[j] : j \in 1..(i - 1)}
            IN  svc.args[i] # "none" =>
                    /\ i \in svc.right \/ "uint8" \in before
                    /\ i \in svc.given \/ "none" \in before

\* Until the boot events are asked for a second time, by this program or another,
\* none is reported as later than it was: an event older than the start of the
\* boot loader comes before it, when there is no start to subtract.
FirstAnswerSane ==
    requests <= 1 => \A i \in DOMAIN svc.told : svc.told[i].age <= svc.told[i].at

\* The ping is sent, however many frames or none there are to read, unless the
\* service has ended.
PingConcludes == (svc.pc # "main") ~> (svc.pingSent \/ svc.pc = "exited")
=============================================================================
