-------------------------------- MODULE MCBle --------------------------------
(* The GATT server with the main loop and a worker that send. *)
EXTENDS BleTx

CONSTANTS loop, w1, f1, f2, b1, b2
=============================================================================
