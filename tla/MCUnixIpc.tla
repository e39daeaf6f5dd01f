------------------------------ MODULE MCUnixIpc ------------------------------
(* A small instance of UnixIpc for TLC: one client, two workers. *)
EXTENDS UnixIpc
=============================================================================
