------------------------------- MODULE CbcDlt -------------------------------
(***************************************************************************)
(* The logging service and the diagnostic tool on one cbc-dlt device.  They*)
(* meet in the IOC: a request of either makes it send its boot events to   *)
(* both, and the logs of the service reach the tool too.                   *)
(***************************************************************************)
EXTENDS CbcLogging, CbcDiagnostic

CONSTANT Deployments   \* the programs that may be used together

ASSUME DeploymentsAssumption == Deployments \subseteq SUBSET Clients

vars == <<dlt, files, iocVars, logVars, tool>>

Init == /\ DeviceInit
        /\ \E used \in Deployments : /\ LoggingInit("service" \in used)
                                     /\ ToolInit("tool" \in used)

IocStep     == Device /\ UNCHANGED <<logVars, tool>>
ServiceStep == Service /\ UNCHANGED tool
Time        == Second /\ UNCHANGED tool
ToolStep    == Tool /\ UNCHANGED logVars
ToolUser    == (ToolOptions \/ ToolAgain) /\ UNCHANGED logVars

Next == IocStep \/ ServiceStep \/ Time \/ ToolStep \/ ToolUser

\* Both programs are scheduled and no call of theirs blocks for ever; seconds
\* pass.  Nothing is assumed of the IOC, nor of who runs the tool.
Fairness == WF_vars(ServiceStep) /\ WF_vars(Time) /\ WF_vars(ToolStep)

Spec == Init /\ [][Next]_vars /\ Fairness

\* Every variable has a value the programs can represent.
TypeOK == DeviceTypeOK /\ SvcTypeOK /\ ToolTypeOK
=============================================================================
