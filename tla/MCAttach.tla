----------------------------- MODULE MCAttach -----------------------------
(* The attacher of the serial line: constants for TLC. *)
EXTENDS CbcAttach

\* No option; a rate that is not known; an option that ends the program.
SomeArgs == {<<>>,
             <<[opt |-> "b", n |-> 4711], [opt |-> "f", n |-> 0]>>,
             <<[opt |-> "f", n |-> 0], [opt |-> "m", n |-> 64]>>}

\* Up to two lines, each too short, for the attacher only, or for both readers;
\* two lines name the same tty or not.
Lines   == {l \in [cols : 1..3, present : BOOLEAN, tty : Devices] :
                l.cols = 1 => l.present}
UpToTwo == {<<>>} \cup {<<a>> : a \in Lines}
                  \cup {<<a, b>> : a \in {l \in Lines : l.tty = Default}, b \in Lines}

\* A platform without the file.
NoLines == {<<>>}
=============================================================================
