---------------------------- MODULE WifiSwitchA733 ----------------------------
(***************************************************************************)
(* The STA/AP switch of the A733 build (wifi_switch_a733.c).  It has the   *)
(* interface of WifiSwitch but drives NetworkManager: one STA profile, one *)
(* AP profile, and nmcli commands that take up to 70 seconds.  Unlike      *)
(* wpa_supplicant on the RK3566, NetworkManager rejoins by itself.  And    *)
(* unlike the RK3566 monitor, this one tests the link and reads the stored *)
(* network before it tries the mutex, and goes on trying while the AP is   *)
(* up.                                                                     *)
(*                                                                         *)
(* A network stands for an SSID with its password; a failure of the board  *)
(* or of the air costs one unit of the fault budget.  `connection down'    *)
(* and `connection delete' of a profile that exists are taken to work.     *)
(* The daemon runs as root: otherwise require_root_for_control ends the    *)
(* thread before it has a monitor and makes run_now and ensure_ap_mode     *)
(* return ERR_UNKNOWN before the mutex, so that nothing ever changes.      *)
(***************************************************************************)
EXTENDS Naturals

CONSTANTS
    Sw,          \* wifi_switch_thread
    Networks,    \* credentials a user may enter
    AP,          \* the profile of the access point
    None,        \* no thread, no network
    MaxFaults,   \* failures of the environment
    MaxCalls     \* calls of the public functions

\* The threads that call the public functions, numbered as they come.
Callers == 1 .. MaxCalls
Procs == Callers \cup {Sw}

ASSUME ProcAssumption == Sw \notin Callers /\ None \notin Procs
ASSUME NetAssumption == AP # None /\ {AP, None} \cap Networks = {}
ASSUME BudgetAssumption == MaxFaults \in Nat /\ MaxCalls \in Nat

VARIABLES
    mutex,     \* s_switch_mutex: its owner, or None
    active,    \* the profile NetworkManager has active on the interface
    auto,      \* the network the STA profile joins by itself, or None
    home,      \* the stored network, or None
    ready,     \* /run/wifi_ready: "none", "STA" or "AP"
    onAir,     \* networks that are in range and accept their password
    pc,        \* pc[p]: where thread p is
    op,        \* op[p]: what p is doing
    arg,       \* arg[p]: the network p is to join
    status,    \* status[p]: what the last public call returned
    miss,      \* miss of the monitor
    faults, calls

nm == <<active, auto>>
files == <<home, ready>>
threads == <<pc, op, arg, status, miss>>
budget == <<faults, calls>>
vars == <<mutex, nm, files, threads, onAir, budget>>

Failures == {"NO_SSID", "BAD_PASSWORD", "CONNECT_FAIL"}

\* Labels at which the thread owns s_switch_mutex.
Critical == {"ready", "clear", "connect", "poll", "ap_ready", "ap_down",
             "hotspot", "ap_reup", "scan"}

TypeOK ==
    /\ mutex \in Procs \cup {None}
    /\ active \in Networks \cup {AP, None}
    /\ {auto, home} \subseteq Networks \cup {None}
    /\ ready \in {"none", "STA", "AP"}
    /\ onAir \subseteq Networks
    /\ pc \in [Procs -> Critical \cup {"boot", "mon", "mon_read", "mon_call",
                                       "mon_ap", "idle", "persist"}]
    /\ op \in [Procs -> {"none", "join", "reload", "ap", "scan"}]
    /\ arg \in [Procs -> Networks \cup {None}]
    /\ status \in [Procs -> Failures \cup {"none", "OK", "BUSY", "UNKNOWN"}]
    /\ miss \in 0 .. 1
    /\ faults \in 0 .. MaxFaults /\ calls \in 0 .. MaxCalls

All(v) == [p \in Procs |-> v]
AtBoot == [p \in Procs |-> IF p = Sw THEN "boot" ELSE "idle"]

\* NetworkManager may have joined the stored network before the service runs.
Init ==
    /\ mutex = None
    /\ pc = AtBoot /\ op = All("none") /\ arg = All(None) /\ status = All("none")
    /\ miss = 0
    /\ home \in Networks \cup {None}
    /\ onAir \in SUBSET Networks
    /\ auto \in {home, None}
    /\ active \in {None} \cup ({auto} \cap onAir)
    /\ ready = "none"
    /\ faults = 0 /\ calls = 0

Fault == faults < MaxFaults /\ faults' = faults + 1 /\ UNCHANGED calls
Goto(p, l) == pc' = [pc EXCEPT ![p] = l]
Step(p, from, to) ==
    pc[p] = from /\ Goto(p, to) /\ UNCHANGED <<mutex, op, arg, status, miss>>

\* wifi_switch_is_connected
Connected == active \in Networks

\* A public function that owns the mutex returns st.  wifi_connect_worker
\* goes on to store what it has joined; the boot thread becomes the monitor.
Leave(p, st) ==
    LET stores == op[p] = "join" /\ st = "OK"
    IN  /\ mutex' = None
        /\ status' = [status EXCEPT ![p] = st]
        /\ op' = [op EXCEPT ![p] = "none"]
        /\ arg' = [arg EXCEPT ![p] = IF stores THEN @ ELSE None]
        /\ Goto(p, IF p = Sw THEN "mon" ELSE IF stores THEN "persist" ELSE "idle")
        /\ UNCHANGED miss
-----------------------------------------------------------------------------
(* wifi_switch_run_now once it has the mutex *)

Ready(p) ==
    /\ \/ Step(p, "ready", "clear") /\ UNCHANGED budget
       \/ pc[p] = "ready" /\ Leave(p, "UNKNOWN") /\ Fault
    /\ UNCHANGED <<nm, files, onAir>>

\* Mutant: the old STA profile is left in place.
ClearKeepsProfile(p) ==
    /\ Step(p, "clear", "connect")
    /\ active' = None
    /\ UNCHANGED <<auto, files, onAir, budget>>

\* The AP goes down and the old STA profile is deleted, before it is known
\* whether the new network can be joined.
Clear(p) ==
    /\ Step(p, "clear", "connect")
    /\ active' = None /\ auto' = None
    /\ UNCHANGED <<files, onAir, budget>>

\* Mutant: a failed nmcli returns without the AP.
ConnectGivesUp(p) ==
    /\ pc[p] = "connect"
    /\ \/ /\ arg[p] \in onAir
          /\ active' = arg[p] /\ auto' = arg[p]
          /\ Step(p, "connect", "poll")
          /\ UNCHANGED budget
       \/ /\ IF arg[p] \in onAir THEN Fault ELSE UNCHANGED budget
          /\ \E st \in Failures : Leave(p, st)
          /\ UNCHANGED nm
    /\ UNCHANGED <<files, onAir>>

\* nmcli connect and, if it does not know the SSID, an explicit profile, which
\* stays behind when it does not come up.
Connect(p) ==
    /\ pc[p] = "connect"
    /\ \/ /\ arg[p] \in onAir
          /\ active' = arg[p] /\ auto' = arg[p]
          /\ Step(p, "connect", "poll")
          /\ UNCHANGED budget
       \/ /\ IF arg[p] \in onAir THEN Fault ELSE UNCHANGED budget
          /\ \E st \in Failures : status' = [status EXCEPT ![p] = st]
          /\ auto' \in {None, arg[p]}
          /\ Goto(p, "ap_ready")
          /\ UNCHANGED <<active, mutex, op, arg, miss>>
    /\ UNCHANGED <<files, onAir>>

\* Up to 30 polls for an address.
Poll(p) ==
    /\ pc[p] = "poll"
    /\ IF Connected
         THEN /\ ready' = "STA"
              /\ Leave(p, "OK")
         ELSE /\ status' = [status EXCEPT ![p] = "CONNECT_FAIL"]
              /\ Goto(p, "ap_ready")
              /\ UNCHANGED <<ready, mutex, op, arg, miss>>
    /\ UNCHANGED <<nm, home, onAir, budget>>
-----------------------------------------------------------------------------
(* ensure_ap_mode_locked, for run_now after a failure or for ensure_ap_mode *)

\* run_now reports its own failure, whatever becomes of the AP.
ApResult(p, st) == IF op[p] = "ap" THEN st ELSE status[p]

ApReady(p) ==
    /\ \/ Step(p, "ap_ready", "ap_down") /\ UNCHANGED budget
       \/ pc[p] = "ap_ready" /\ Leave(p, ApResult(p, "UNKNOWN")) /\ Fault
    /\ UNCHANGED <<nm, files, onAir>>

\* Taking an active profile down also keeps it from coming back by itself.
ApDown(p) ==
    /\ Step(p, "ap_down", "hotspot")
    /\ active' = None
    /\ auto' = IF active = auto THEN None ELSE auto
    /\ UNCHANGED <<files, onAir, budget>>

Hotspot(p) ==
    /\ \/ Step(p, "hotspot", "ap_reup") /\ active' = AP /\ UNCHANGED budget
       \/ /\ pc[p] = "hotspot"
          /\ Leave(p, ApResult(p, "CONNECT_FAIL"))
          /\ Fault
          /\ UNCHANGED active
    /\ UNCHANGED <<auto, files, onAir>>

\* The profile gets its address and is taken down and up again.
ApReup(p) ==
    /\ pc[p] = "ap_reup"
    /\ \/ /\ active' = AP
          /\ ready' = "AP"
          /\ Leave(p, ApResult(p, "OK"))
          /\ UNCHANGED budget
       \/ /\ active' = None
          /\ Leave(p, ApResult(p, "CONNECT_FAIL"))
          /\ Fault
          /\ UNCHANGED ready
    /\ UNCHANGED <<auto, home, onAir>>
-----------------------------------------------------------------------------
(* The public functions, called by a worker or a connection thread *)

Call(p) == p = calls + 1 /\ calls' = p

Enter(p, o, n, l) ==
    /\ mutex = None
    /\ mutex' = p
    /\ op' = [op EXCEPT ![p] = o]
    /\ arg' = [arg EXCEPT ![p] = n]
    /\ Goto(p, l)
    /\ UNCHANGED <<status, miss>>

Answer(p, st) ==
    /\ status' = [status EXCEPT ![p] = st]
    /\ UNCHANGED <<mutex, pc, op, arg, miss>>

Busy(p) ==
    /\ Call(p)
    /\ mutex # None
    /\ Answer(p, "BUSY")
    /\ UNCHANGED <<nm, files, onAir, faults>>

RunNow(p, n) ==
    /\ Call(p)
    /\ Enter(p, "join", n, "ready")
    /\ UNCHANGED <<nm, files, onAir, faults>>

\* An empty SSID stands for the stored network, which is not stored again.
RunStored(p) ==
    /\ Call(p)
    /\ IF home = None
         THEN mutex = None /\ Answer(p, "NO_SSID")
         ELSE Enter(p, "reload", home, "ready")
    /\ UNCHANGED <<nm, files, onAir, faults>>

EnsureAp(p) ==
    /\ Call(p)
    /\ IF active = AP
         THEN mutex = None /\ Answer(p, "OK")
         ELSE Enter(p, "ap", None, "ap_ready")
    /\ UNCHANGED <<nm, files, onAir, faults>>

Scan(p) ==
    /\ Call(p)
    /\ Enter(p, "scan", None, "scan")
    /\ UNCHANGED <<nm, files, onAir, faults>>

ScanDone(p) ==
    /\ pc[p] = "scan"
    /\ \/ Leave(p, "OK") /\ UNCHANGED budget
       \/ Leave(p, "UNKNOWN") /\ Fault
    /\ UNCHANGED <<nm, files, onAir>>

\* wifi_connect_worker stores the credentials once the mutex is free again.
Persist(p) ==
    /\ pc[p] = "persist" /\ Goto(p, "idle")
    /\ arg' = [arg EXCEPT ![p] = None]
    /\ \/ home' = arg[p] /\ UNCHANGED budget
       \/ Fault /\ UNCHANGED home
    /\ UNCHANGED <<mutex, op, status, miss, nm, ready, onAir>>
-----------------------------------------------------------------------------
(* wifi_switch_thread and wifi_reconnect_monitor *)

\* The stored network is read, at boot and by the monitor.
ReadHome(else) ==
    /\ arg' = [arg EXCEPT ![Sw] = home]
    /\ Goto(Sw, IF home # None THEN "mon_call" ELSE else)
    /\ UNCHANGED <<mutex, op, status, miss, nm, files, onAir, budget>>

\* (as root, see above)
Boot == pc[Sw] = "boot" /\ ReadHome("mon_ap")

\* Mutant: as on the RK3566, an AP that is up is left alone.
MonLookLikeRk ==
    /\ pc[Sw] = "mon"
    /\ IF Connected \/ active = AP
         THEN miss' = 0 /\ UNCHANGED pc
         ELSE /\ miss' = 1 - miss
              /\ Goto(Sw, IF miss = 1 THEN "mon_read" ELSE "mon")
    /\ UNCHANGED <<mutex, op, arg, status, nm, files, onAir, budget>>

\* Two looks in a row without a connection; an AP does not count as one.
MonLook ==
    /\ pc[Sw] = "mon"
    /\ IF Connected
         THEN miss' = 0 /\ UNCHANGED pc
         ELSE /\ miss' = 1 - miss
              /\ Goto(Sw, IF miss = 1 THEN "mon_read" ELSE "mon")
    /\ UNCHANGED <<mutex, op, arg, status, nm, files, onAir, budget>>

MonRead == pc[Sw] = "mon_read" /\ ReadHome(IF active = AP THEN "mon" ELSE "mon_ap")

\* The monitor's own calls of run_now and ensure_ap_mode.
MonCall ==
    /\ pc[Sw] \in {"mon_call", "mon_ap"}
    /\ \/ /\ pc[Sw] = "mon_call"
          /\ Enter(Sw, "reload", arg[Sw], "ready")
       \/ /\ pc[Sw] = "mon_ap" /\ active # AP
          /\ Enter(Sw, "ap", None, "ap_ready")
       \/ /\ mutex # None \/ (pc[Sw] = "mon_ap" /\ active = AP)
          /\ Goto(Sw, "mon")
          /\ UNCHANGED <<mutex, op, arg, status, miss>>
    /\ UNCHANGED <<nm, files, onAir, budget>>
-----------------------------------------------------------------------------
(* The environment *)

LinkLost ==
    /\ active # None
    /\ active' = None
    /\ onAir' \in {onAir, onAir \ {active}}
    /\ Fault
    /\ UNCHANGED <<auto, mutex, files, threads>>

\* NetworkManager activates a profile with autoconnect on a free interface.
Autoconnect ==
    /\ active = None /\ auto \in onAir
    /\ active' = auto
    /\ UNCHANGED <<auto, mutex, files, threads, onAir, budget>>

RouterOn(n) ==
    /\ n \notin onAir
    /\ onAir' = onAir \cup {n}
    /\ Fault
    /\ UNCHANGED <<nm, mutex, files, threads>>

\* The service dies and is started again.
Restart ==
    /\ mutex' = None
    /\ pc' = AtBoot /\ op' = All("none") /\ arg' = All(None) /\ status' = All("none")
    /\ miss' = 0
    /\ Fault
    /\ UNCHANGED <<nm, files, onAir>>
-----------------------------------------------------------------------------
Inside(p) ==
    \/ Ready(p) \/ Clear(p) \/ Connect(p) \/ Poll(p) \/ ApReady(p) \/ ApDown(p)
    \/ Hotspot(p) \/ ApReup(p) \/ ScanDone(p) \/ Persist(p)

Request(p) ==
    \/ Busy(p) \/ RunStored(p) \/ EnsureAp(p) \/ Scan(p)
    \/ \E n \in Networks : RunNow(p, n)

Watch == Boot \/ MonLook \/ MonRead \/ MonCall

Next ==
    \/ Watch \/ LinkLost \/ Autoconnect \/ Restart
    \/ \E n \in Networks : RouterOn(n)
    \/ \E p \in Callers : Request(p)
    \/ \E p \in Procs : Inside(p)

Spec == Init /\ [][Next]_vars

\* Threads keep running; nothing is assumed of callers and environment, not
\* even that NetworkManager rejoins.
FairSpec ==
    /\ Spec
    /\ WF_vars(Watch \/ Inside(Sw))
    /\ \A p \in Callers : WF_vars(Inside(p))
-----------------------------------------------------------------------------
(* Properties *)

\* The mutex is held exactly inside the switch, whichever early return is
\* taken; and while a thread joins, the interface is free and then on that
\* network or on none: neither another thread nor NetworkManager, which joins
\* by itself, has moved it.  So is_connected, which only asks for an address,
\* tells run_now about the right network ("OK: associated + DHCP succeeded",
\* wifi_switch.h:11).
NotSteppedOn ==
    \A p \in Procs :
        /\ mutex = p <=> pc[p] \in Critical
        /\ pc[p] = "connect" => active = None
        /\ pc[p] = "poll" => active \in {arg[p], None}

\* A run_now that took the interface down and then failed leaves the AP
\* behind, unless bringing it up failed too.
RestoresAp ==
    [][\A p \in Procs :
          /\ op[p] \in {"join", "reload"}
          /\ mutex = p /\ mutex' = None
          /\ status'[p] \in Failures
          => active' = AP \/ faults' # faults]_vars

\* "on failure retry every 60 s" (wifi_switch.h:20): a stored network that
\* stays in range is joined in the end, also when the AP is up meanwhile.
StoredIsRetried == []<>(Connected \/ home \notin onAir)

\* The board never stays without a network: a join or an AP, again and again.
Reachable == []<>(active # None)
=============================================================================
