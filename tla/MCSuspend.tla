----------------------------- MODULE MCSuspend -----------------------------
(* The suspend cycle: constants for TLC. *)
EXTENDS SuspendCycle

WakeOff      == {{}, {1}}
Agrees       == {<<"suspend", FALSE>>}
SmallScales  == <<2, 3, 2, 2>>

\* Timers, thermald and the age of reasons do not meet: each without the others.
OneByOne == {[asks |-> <<18, 0, 257>>, thermald |-> "absent", ages |-> FALSE],
             [asks |-> <<>>, thermald |-> "run", ages |-> FALSE],
             [asks |-> <<>>, thermald |-> "absent", ages |-> TRUE]}

\* Every int there is, one that is not, and the frame made of it.
ASSUME TimersRoundDown ==
    \A t \in 0..(IntWidth + 1) :
        IsInt(t) /\ Supported(ToInt(t)) => Wakes(Frame(ToInt(t)), t)
=============================================================================
