--------------------------- MODULE MCWifiSwitchA733 ---------------------------
(* Instances of WifiSwitchA733 for TLC. *)
EXTENDS WifiSwitchA733

CONSTANTS n1, n2
=============================================================================
