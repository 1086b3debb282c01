--------------------------- MODULE CbcDiagnostic ---------------------------
(***************************************************************************)
(* The diagnostic tool, cbc_diagnostic_control/: asks for the versions on  *)
(* cbc-diagnosis and for the boot events on cbc-dlt, waits once for both,  *)
(* reads what there is, and ends.  It may be run again and again.          *)
(***************************************************************************)
EXTENDS DltDevice

VARIABLE tool   \* the tool: its next step, options, and what it did

ToolAt(p) == tool.pc = p

Asked == {"version", "boot"}

\* What these options select.
Selected(given) == {a \in Asked : IF a = "boot" THEN given \cap {"t", "l"} # {}
                                  ELSE given \cap {"b", "f", "m"} # {}}

\* main: -v with nothing selected asks for all versions.
Wanted(given) == IF given = {"v"} THEN {"version"} ELSE Selected(given)

Ended(t, result) == [t EXCEPT !.pc = "close", !.result = result]

\* main and its options: an unknown one, -h or none at all is an error.
ToolOptions ==
    /\ ToolAt("start")
    /\ \/ \E given \in SUBSET {"v", "b", "f", "m", "t", "l"} :
            tool' = [tool EXCEPT !.pc = "open", !.want = Wanted(given)]
       \/ tool' = Ended(tool, -2)
    /\ UNCHANGED <<dlt, files, iocVars>>

\* cbc_init_devices: either device may be missing.
ToolOpen ==
    /\ ToolAt("open")
    /\ \/ /\ tool' = [tool EXCEPT !.pc = "ask_version"]
          /\ files' = files \cup {"tool"}
          /\ dlt' = [dlt EXCEPT !["tool"] = <<>>]
       \/ tool' = Ended(tool, -1) /\ UNCHANGED <<dlt, files>>
    /\ UNCHANGED iocVars

\* cbc_diagnostic_send_request, first half.
ToolAskVersion ==
    /\ ToolAt("ask_version")
    /\ \/ /\ "version" \in tool.want
          /\ \/ tool' = [tool EXCEPT !.pc = "ask_boot", !.sent = {"version"}]
             \/ tool' = Ended(tool, -1)
       \/ /\ "version" \notin tool.want
          /\ tool' = [tool EXCEPT !.pc = "ask_boot"]
    /\ UNCHANGED <<dlt, files, iocVars>>

\* Second half; with nothing asked for, -1 is returned as a byte.  (A slip: an
\* error after a success is a success.)
ToolAskBootForgiving ==
    /\ ToolAt("ask_boot")
    /\ \/ /\ "boot" \in tool.want
          /\ \/ /\ tool' = [tool EXCEPT !.pc = "poll", !.sent = tool.want]
                /\ Request
             \/ /\ tool' = IF tool.sent # {} THEN [tool EXCEPT !.pc = "poll"]
                                             ELSE Ended(tool, -1)
                /\ UNCHANGED iocVars
       \/ /\ "boot" \notin tool.want
          /\ tool' = IF tool.sent = {} THEN Ended(tool, 255)
                                       ELSE [tool EXCEPT !.pc = "poll"]
          /\ UNCHANGED iocVars
    /\ UNCHANGED <<dlt, files>>

ToolAskBoot ==
    /\ ToolAt("ask_boot")
    /\ \/ /\ "boot" \in tool.want
          /\ \/ /\ tool' = [tool EXCEPT !.pc = "poll", !.sent = tool.want]
                /\ Request
             \/ tool' = Ended(tool, -1) /\ UNCHANGED iocVars
       \/ /\ "boot" \notin tool.want
          /\ tool' = IF tool.sent = {} THEN Ended(tool, 255)
                                       ELSE [tool EXCEPT !.pc = "poll"]
          /\ UNCHANGED iocVars
    /\ UNCHANGED <<dlt, files>>

\* cbc_diagnostic_receive_answer: one poll, which ends as soon as one device has
\* a frame, when the time is over, or with an error.
ToolPoll ==
    /\ ToolAt("poll")
    /\ LET onDlt == IF dlt["tool"] # <<>> THEN {"boot"} ELSE {}
       IN  \E onDiagnosis \in SUBSET {"version"} :
             LET ready == (onDlt \cup onDiagnosis) \cap tool.want
             IN  tool' = IF onDlt \cup onDiagnosis = {} THEN Ended(tool, 0)
                         ELSE [tool EXCEPT !.pc = "version", !.ready = ready]
    /\ UNCHANGED <<dlt, files, iocVars>>

ToolPollFails ==
    /\ ToolAt("poll")
    /\ tool' = Ended(tool, -1)
    /\ UNCHANGED <<dlt, files, iocVars>>

\* The answer on cbc-diagnosis, or whatever frame is the first there.
ToolReadVersion ==
    /\ ToolAt("version")
    /\ tool' = IF "boot" \in tool.ready THEN [tool EXCEPT !.pc = "boot"]
                                        ELSE Ended(tool, 0)
    /\ UNCHANGED <<dlt, files, iocVars>>

\* Frames are read until there is none; their type is not looked at.  (A slip:
\* an empty device is tried again.)
ToolReadBoot ==
    /\ ToolAt("boot") /\ Take("tool")
    /\ UNCHANGED <<tool, files, iocVars>>

ToolReadNoMoreRetry ==
    /\ ToolAt("boot") /\ dlt["tool"] = <<>>
    /\ UNCHANGED <<tool, dlt, files, iocVars>>

ToolReadNoMore ==
    /\ ToolAt("boot") /\ dlt["tool"] = <<>>
    /\ tool' = Ended(tool, 0)
    /\ UNCHANGED <<dlt, files, iocVars>>

\* cbc_close_devices, and the end of the process.
ToolClose ==
    /\ ToolAt("close")
    /\ tool' = [tool EXCEPT !.pc = "done"]
    /\ files' = files \ {"tool"}
    /\ UNCHANGED <<dlt, iocVars>>

NoTool == [pc |-> "start", want |-> {}, sent |-> {}, ready |-> {}, result |-> 0]

\* Somebody runs the tool again.
ToolAgain ==
    /\ ToolAt("done")
    /\ tool' = NoTool
    /\ UNCHANGED <<dlt, files, iocVars>>

ToolInit(used) == tool = [NoTool EXCEPT !.pc = IF used THEN "start" ELSE "retired"]

Tool == \/ ToolOpen \/ ToolAskVersion \/ ToolAskBoot \/ ToolPoll \/ ToolPollFails
        \/ ToolReadVersion \/ ToolReadBoot \/ ToolReadNoMore \/ ToolClose

----------------------------------------------------------------------------
(* Properties *)

ToolTypeOK ==
    tool \in [pc : {"start", "open", "ask_version", "ask_boot", "poll", "version",
                    "boot", "close", "done", "retired"},
              want : SUBSET Asked, sent : SUBSET Asked, ready : SUBSET Asked,
              result : {-2, -1, 0, 255}]

\* The tool tells a script that all went well only if every request it was asked
\* for, and one at least, has reached the IOC.
SuccessMeansAsked ==
    ToolAt("done") /\ tool.result = 0 => tool.sent = tool.want /\ tool.want # {}

\* The tool ends, answer or not, unless frames keep coming for ever: it reads
\* until it finds the device empty.
ToolEnds ==
    <>[](dlt["tool"] = <<>>) => (ToolAt("open") ~> ToolAt("done"))
=============================================================================
