----------------------------- MODULE MCThermal -----------------------------
(* The thermal file system: constants for TLC. *)
EXTENDS CbcThermal

\* Two duties; the second is written as a number that does not fit in a byte.
TwoTexts == {30, 256 + 80}

\* Left to itself the IOC stops the fan.
FanOff == {0}
=============================================================================
