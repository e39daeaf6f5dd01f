--------------------------- MODULE MCProtoDispatch ---------------------------
(* Small instances of ProtoDispatch: a BLE and a Unix connection. *)
EXTENDS ProtoDispatch

CONSTANTS ble, unix

Sends(n, cmds) == [max |-> n, cmds |-> cmds]
Plan(phone, other) == [c \in Conns |-> IF c = ble THEN phone ELSE other]

\* The phone alone: three requests about joining a network, or two of any kind.
Alone3 == Plan(Sends(3, {"SSID", "PASSWD", "CONNECT", "NOT_REQ"}), Sends(0, {}))
Alone2 == Plan(Sends(2, AllCommands), Sends(0, {}))

\* Two requests of the phone beside one of a Unix client, which may stop
\* reading, of the kinds that change what the clients share.  One side scans.
PhoneScans == Plan(Sends(2, {"SSID", "CONNECT", "SCAN_WIFI", "SWITCH_TO_AP"}),
                   Sends(1, {"SSID", "CONNECT", "SWITCH_TO_AP"}))
OtherScans == Plan(Sends(2, {"SSID", "CONNECT", "SWITCH_TO_AP"}),
                   Sends(1, {"SSID", "CONNECT", "SCAN_WIFI", "SWITCH_TO_AP"}))

MCPlans == {Alone3, Alone2, PhoneScans, OtherScans}
=============================================================================
