-------------------------------- MODULE MCFlow --------------------------------
(* Two producers of one slot, one of them with a second frame, and a producer *)
(* of another slot; every mode, and the configuration of LinkFlow (no limit). *)
EXTENDS Flow

CONSTANTS a, b, c

MCSlotOf == [p \in Producers |-> IF p = c THEN 2 ELSE 1]
MCInputs == {<<"BLOCKING", 1>>, <<"DROPFRONT", 1>>, <<"DROPCURRENT", 1>>, <<"DROPCURRENT", 0>>}
MCMaxSend == [p \in Producers |-> IF p = a THEN 2 ELSE 1]
=============================================================================
