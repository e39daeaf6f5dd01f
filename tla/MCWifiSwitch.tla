----------------------------- MODULE MCWifiSwitch -----------------------------
(* Instances of WifiSwitch for TLC. *)
EXTENDS WifiSwitch, TLC

CONSTANTS home24, home5

\* One network on each band, or just the one on 2.4 GHz.
MCBandOf == home24 :> "2.4G" @@ home5 :> "5G"
MCOne24 == home24 :> "2.4G"
=============================================================================
