--------------------------- MODULE PowerProtocol ---------------------------
(***************************************************************************)
(* What the life cycle service promises, whatever its threads do: the      *)
(* machine is powered off, rebooted or suspended only when that action was *)
(* granted (the VM manager agreed to it, or was found absent and suspend   *)
(* was assumed), an agreement cannot be withdrawn before the IOC goes off, *)
(* and a shutdown or a reboot, once started, is final.                     *)
(***************************************************************************)

CONSTANT Actions        \* the power actions that can be granted

VARIABLES
    phase,      \* "up", "leaving", "agreed" (to one action) or "off"
    granted,    \* the actions granted and not yet settled
    doing       \* the action being performed, "none" or "exited"

vars == <<phase, granted, doing>>

Phases == {"up", "leaving", "agreed", "off"}
Doing  == Actions \cup {"none", "exited"}

TypeOK == /\ phase \in Phases
          /\ granted \in SUBSET Actions
          /\ doing \in Doing

Init == phase = "up" /\ granted = {} /\ doing = "none"

\* The IOC asks to leave.
Leave == /\ phase = "up"
         /\ phase' = "leaving"
         /\ UNCHANGED <<granted, doing>>

\* The VM manager refuses, or the machine is back.
Return == /\ phase \in {"leaving", "off"}
          /\ phase' = "up"
          /\ UNCHANGED <<granted, doing>>

\* Action a is granted.  An agreement is never replaced by another one.
Agree(a) == /\ phase \in {"up", "leaving"}
            /\ phase' = "agreed"
            /\ granted' = granted \cup {a}
            /\ UNCHANGED doing

\* The IOC goes off.
Off == /\ phase \in {"leaving", "agreed"}
       /\ phase' = "off"
       /\ UNCHANGED <<granted, doing>>

\* A granted action is carried out.
Perform(a) == /\ doing = "none"
              /\ a \in granted
              /\ doing' = a
              /\ UNCHANGED <<phase, granted>>

\* A suspend is over, or there was nothing to do: grants lapse, but not the
\* one that is agreed.
Settle == /\ doing \in {"none", "suspend"}
          /\ doing' = "none"
          /\ granted' \in SUBSET granted
          /\ phase = "agreed" => granted' # {}
          /\ phase' = phase \/ (phase = "off" /\ phase' = "up")

\* The service is terminated.
Exit == /\ doing' = "exited"
        /\ UNCHANGED <<phase, granted>>

Next == \/ Leave \/ Return \/ Off \/ Settle \/ Exit
        \/ \E a \in Actions : Agree(a) \/ Perform(a)

Spec == Init /\ [][Next]_vars

----------------------------------------------------------------------------
(* What follows from the promise. *)

\* An agreement stands until the IOC goes off.
Stands == [][phase = "agreed" => phase' \in {"agreed", "off"}]_vars

\* An agreement is an agreement to something, and what is being performed has
\* been granted.
Backed == /\ phase = "agreed" => granted # {}
          /\ doing \in Actions => doing \in granted

\* An action starts only when it was granted before, and only when no other one
\* is being performed.
StartsGranted == [][doing' \in Actions /\ doing' # doing =>
                       doing = "none" /\ doing' \in granted]_vars

\* Only a suspend is ever over: shutdown and reboot are final.
Final == [][(doing \in Actions \ {"suspend"}) => doing' \in {doing, "exited"}]_vars

\* While an action is being performed it cannot be taken back.
NotRevoked == [][doing' = doing /\ doing \in Actions => doing \in granted']_vars
=============================================================================
