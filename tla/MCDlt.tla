------------------------------- MODULE MCDlt -------------------------------
(* The two programs on cbc-dlt: constants for TLC. *)
EXTENDS CbcDlt

\* One list for each way a list can go wrong or right: all used, an unused one
\* before a used one, a uint8 before a string, a type that is not known.
MixedLists == {<<"string", "int16", "int32", "int8">>,
               <<"int16", "none", "int32", "none">>,
               <<"int8", "uint8", "string", "int16">>,
               <<"int8", "float32", "none", "none">>}

\* An event before the start of the boot loader, the start, and a later one.
ThreeEvents == <<[reason |-> 1, at |-> 1], [reason |-> 2, at |-> 3],
                 [reason |-> 3, at |-> 4]>>

\* Each of the programs by itself; the other one is OtherRequest.
Alone == {{"service"}, {"tool"}}
=============================================================================
