-------------------------------- MODULE MCWire --------------------------------
(***************************************************************************)
(* What is between the radio and the phone: the scan text is taken apart   *)
(* (IwScan), the list is cut into frames (ScanPush), a received buffer is  *)
(* cut into frames (ProtoCodec), and the GATT server comes up and notifies *)
(* frames (BleSetup and BleTx).  They share no state, so that one of them  *)
(* has something to do and the others have done with an empty input, or,   *)
(* for the GATT server, have ended without a bus.                          *)
(***************************************************************************)
EXTENDS BleTx, ScanPush, ProtoCodec, IwScan

CONSTANTS plain, utf8, sae, hidden, loop, w1, f1, f2, b1, b2

MCLens == {1, 32}

\* Payloads that are full of what looks like the beginning of a frame, with
\* lengths around the limits of a byte and of PROTO_PAYLOAD_MAX.
MCPayloads ==
    {[k \in 1 .. n |-> IF k % 2 = 1 THEN 85 ELSE 170] : n \in {0, 1, 255, 256, 257}}

MCHeaders == {[type |-> 0, seq |-> 255, command_set |-> 1, command_id |-> 4],
              [type |-> 1, seq |-> 0, command_set |-> 85, command_id |-> 170]}

MCWords == [s \in {plain, utf8, sae, hidden} |-> IF s = sae THEN {"SAE"} ELSE {}]

OnAir(s, f, g, sec) == [ssid |-> s, freq |-> f, signal |-> g, sec |-> sec]

\* Both bands, channel 12, a DFS channel, 6 GHz and blocks cut short.
MCBss ==
    {OnAir(plain, 2412, -40, "wpa2"), OnAir(plain, 2467, 0, "wpa"),
     OnAir(plain, 5180, -40, "wpa3"), OnAir(plain, 5260, -60, "mixed"),
     OnAir(plain, 5825, 0, "eap"), OnAir(plain, 0, -40, "wep"),
     OnAir(utf8, 2412, -40, "open"), OnAir(utf8, 5745, 0, "wpa2"),
     OnAir(sae, 2484, -40, "wep"), OnAir(sae, 5955, -60, "eap"),
     OnAir(hidden, 2412, -60, "mixed"), OnAir(hidden, 5955, 0, "wpa")}

wireVars == <<pushVars, codecVars, parseVars, bleVars>>

PushIdle ==
    /\ entries = <<>> /\ i = 0 /\ pos = 3 /\ entry_count = 0 /\ frame_index = 1
    /\ push = "done"
    /\ frames = <<[index |-> 0, end |-> TRUE, from |-> 0, count |-> 0, plen |-> 3]>>

CodecIdle ==
    /\ sent = <<>> /\ ends = <<>> /\ buf = <<>>
    /\ off = 0 /\ handled = <<>> /\ codec = "done"

ParseIdle ==
    /\ air = <<>> /\ want = plain /\ blk = 1 /\ ln = 1 /\ cur = Cleared /\ out = <<>>
    /\ cur_freq = 0 /\ hit_24 = 0 /\ hit_5 = 0 /\ walk = "done"

BleIdle ==
    /\ main = "ended" /\ reg = "none" /\ hci = TRUE /\ retries = 0
    /\ exported = FALSE /\ inline = FALSE /\ agent = FALSE
    /\ app = "none" /\ adv = FALSE /\ refused = FALSE
    /\ TxInit

WireInit ==
    \/ PushInit /\ CodecIdle /\ ParseIdle /\ BleIdle
    \/ PushIdle /\ CodecInit /\ ParseIdle /\ BleIdle
    \/ PushIdle /\ CodecIdle /\ ParseInit /\ BleIdle
    \/ PushIdle /\ CodecIdle /\ ParseIdle /\ BleInit

WireLoop ==
    \/ PushNext /\ UNCHANGED <<codecVars, parseVars, bleVars>>
    \/ CodecNext /\ UNCHANGED <<pushVars, parseVars, bleVars>>
    \/ ParseNext /\ UNCHANGED <<pushVars, codecVars, bleVars>>

WireNext ==
    \/ WireLoop
    \/ BleNext /\ UNCHANGED <<pushVars, codecVars, parseVars>>

\* Each loop is run by a thread that keeps running; of the client that writes
\* nothing is assumed.  The fairness of the GATT server is that of BleSetup.
Loops == codec # "write" /\ WireLoop

WireSpec == WireInit /\ [][WireNext]_wireVars /\ WF_wireVars(Loops) /\ Fairness

\* Every loop ends: a scan is answered by a final frame, a buffer that was read
\* is done with whatever bytes are left over in it, a scan text is read to its
\* end.
LoopsEnd == codec # "write" ~> (push = "done" /\ codec = "done" /\ walk = "done")
=============================================================================
