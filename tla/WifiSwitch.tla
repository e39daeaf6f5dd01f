------------------------------ MODULE WifiSwitch ------------------------------
(***************************************************************************)
(* The STA/AP switch of the RK3566 build (wifi_switch.c): the boot thread  *)
(* that becomes the reconnect monitor, and the threads that call           *)
(* wifi_switch_run_now, wifi_switch_ensure_ap_mode and wifi_switch_scan.   *)
(* All of them share one radio, one trylock mutex and three files.         *)
(*                                                                         *)
(* A network stands for an SSID with its password.  Time is abstracted: a  *)
(* sleep is a step that may take any time, and a loop that polls with a    *)
(* time-out is one step whose outcome depends on what is polled.  Every    *)
(* outcome that needs a failure of the board or of the air costs one unit  *)
(* of the fault budget.                                                    *)
(***************************************************************************)
EXTENDS Naturals

CONSTANTS
    Sw,          \* wifi_switch_thread
    Networks,    \* credentials a user may enter
    BandOf,      \* BandOf[n]: the band network n is on
    None,        \* no thread, no network
    MaxFaults,   \* failures of the environment
    MaxCalls,    \* calls of the public functions
    MaxEvents    \* failures and calls together

Bands == {"2.4G", "5G"}

\* The threads that call the public functions, numbered as they come: every
\* request that needs the switch has a worker of its own.
Callers == 1 .. MaxCalls
Procs == Callers \cup {Sw}

ASSUME ProcAssumption == Sw \notin Callers /\ None \notin Procs \cup Networks
ASSUME NetAssumption == BandOf \in [Networks -> Bands]
ASSUME BudgetAssumption == {MaxFaults, MaxCalls, MaxEvents} \subseteq Nat

VARIABLES
    mutex,     \* s_switch_mutex: its owner, or None
    hostapd,   \* hostapd runs
    wpa,       \* the network wpa_supplicant runs for, or None
    assoc,     \* wlan0 is associated with wpa's network
    ip,        \* wlan0 has an address from DHCP
    primed,    \* the firmware has been AP on 5G since the link last went up
    band,      \* /etc/wifi_band.conf
    home,      \* /etc/taishan_home_wifi.conf: the stored network, or None
    ready,     \* /run/wifi_ready: "none", "STA" or "AP"
    onAir,     \* networks that are in range and accept their password
    pc,        \* pc[p]: where thread p is
    op,        \* op[p]: what p is doing
    arg,       \* arg[p]: the network try_sta_only is to join
    req,       \* req[p]: the network the caller of run_now asked for
    apWasUp,   \* apWasUp[p]: ap_was_up of run_now
    status,    \* status[p]: what the last public call returned
    miss,      \* miss_count of the monitor
    proven,    \* history: networks that have been joined
    faults,    \* failures so far
    calls      \* calls so far

radio == <<hostapd, wpa, assoc, ip, primed>>
files == <<band, home, ready>>
local == <<op, arg, req, apWasUp, miss>>
budget == <<faults, calls>>
vars == <<mutex, radio, files, onAir, pc, local, status, proven, budget>>

Statuses == {"none", "OK", "NO_SSID", "BAD_PASSWORD", "CONNECT_FAIL", "BUSY",
             "UNKNOWN"}

\* Labels at which the thread owns s_switch_mutex.
Critical == {"sta", "sta_scan", "sta_start", "sta_assoc", "sta_dhcp",
             "warm", "warm_up", "ap", "ap_up",
             "run_ready", "run_check", "ap_ready", "scan",
             "boot_locked", "mon_creds"}
Labels == Critical \cup {"boot", "boot_ready", "boot_lock", "boot_mark", "mon",
                         "mon_link", "mon_lock", "dead", "idle", "persist"}
Ops == {"boot", "mon", "run_now", "ensure_ap", "scan", "none"}

TypeOK ==
    /\ mutex \in Procs \cup {None}
    /\ hostapd \in BOOLEAN /\ assoc \in BOOLEAN /\ ip \in BOOLEAN /\ primed \in BOOLEAN
    /\ wpa \in Networks \cup {None} /\ home \in Networks \cup {None}
    /\ band \in Bands
    /\ ready \in {"none", "STA", "AP"}
    /\ onAir \subseteq Networks
    /\ pc \in [Procs -> Labels]
    /\ op \in [Procs -> Ops]
    /\ arg \in [Procs -> Networks \cup {None}]
    /\ req \in [Procs -> Networks \cup {None}]
    /\ apWasUp \in [Procs -> BOOLEAN]
    /\ status \in [Procs -> Statuses]
    /\ miss \in 0 .. 2
    /\ proven \subseteq Networks
    /\ faults \in 0 .. MaxFaults
    /\ calls \in 0 .. MaxCalls

\* A board that has just been powered up; the init scripts may have started
\* an AP.
Init ==
    /\ mutex = None
    /\ hostapd \in BOOLEAN
    /\ wpa = None /\ assoc = FALSE /\ ip = FALSE
    /\ band \in Bands
    /\ primed = (hostapd /\ band = "5G")
    /\ home \in Networks \cup {None}
    /\ ready = "none"
    /\ onAir \in SUBSET Networks
    /\ pc = [p \in Procs |-> IF p = Sw THEN "boot" ELSE "idle"]
    /\ op = [p \in Procs |-> IF p = Sw THEN "boot" ELSE "none"]
    /\ arg = [p \in Procs |-> None]
    /\ req = [p \in Procs |-> None]
    /\ apWasUp = [p \in Procs |-> FALSE]
    /\ status = [p \in Procs |-> "none"]
    /\ miss = 0
    /\ proven = {}
    /\ faults = 0 /\ calls = 0

Fault ==
    /\ faults < MaxFaults /\ faults + calls < MaxEvents
    /\ faults' = faults + 1
    /\ UNCHANGED calls

Goto(p, l) == pc' = [pc EXCEPT ![p] = l]

\* wifi_switch_is_connected
Connected == assoc /\ ip

\* A public call returns st: the caller forgets its arguments.
Return(p, st) ==
    /\ status' = [status EXCEPT ![p] = st]
    /\ op' = [op EXCEPT ![p] = "none"]
    /\ arg' = [arg EXCEPT ![p] = None]
    /\ req' = [req EXCEPT ![p] = None]
    /\ apWasUp' = [apWasUp EXCEPT ![p] = FALSE]
    /\ Goto(p, "idle")
    /\ UNCHANGED miss

\* The boot thread or the monitor goes (back) to its watch.
ToMonitor ==
    /\ op' = [op EXCEPT ![Sw] = "mon"]
    /\ arg' = [arg EXCEPT ![Sw] = None]
    /\ miss' = 0
    /\ Goto(Sw, "mon")
    /\ UNCHANGED <<req, apWasUp, status>>
-----------------------------------------------------------------------------
(* try_sta_only, and what each caller does with its result *)

\* The join succeeded: arg[p] is up on wlan0.
Joined(p) ==
    /\ mutex' = None
    /\ CASE op[p] = "boot" ->
              /\ Goto(p, "boot_mark")
              /\ UNCHANGED <<local, status, ready>>
         [] op[p] = "mon" ->
              /\ ToMonitor
              /\ UNCHANGED ready
         [] OTHER ->
              /\ ready' = "STA"
              /\ status' = [status EXCEPT ![p] = "OK"]
              /\ Goto(p, "persist")
              /\ UNCHANGED local

\* Mutant: the worker stores the credentials whatever the status.
NotJoinedStores(p, st) ==
    IF op[p] \in {"boot", "mon"} \/ apWasUp[p]
    THEN /\ Goto(p, "ap")
         /\ status' = [status EXCEPT ![p] = IF p = Sw THEN @ ELSE st]
         /\ UNCHANGED <<mutex, local>>
    ELSE /\ mutex' = None
         /\ Goto(p, "persist")
         /\ UNCHANGED <<local, status>>

\* Mutant: a failed run_now leaves wlan0 as the failure left it.
NotJoinedGivesUp(p, st) ==
    IF op[p] \in {"boot", "mon"}
    THEN /\ Goto(p, "ap")
         /\ UNCHANGED <<mutex, local, status>>
    ELSE /\ mutex' = None
         /\ Return(p, st)

\* The join failed with st.  The boot thread and the monitor fall back to AP;
\* run_now does so only if an AP was up when it began.
NotJoined(p, st) ==
    IF op[p] \in {"boot", "mon"} \/ apWasUp[p]
    THEN /\ Goto(p, "ap")
         /\ status' = [status EXCEPT ![p] = IF p = Sw THEN @ ELSE st]
         /\ UNCHANGED <<mutex, local>>
    ELSE /\ mutex' = None
         /\ Return(p, st)

StaKill(p) ==
    /\ pc[p] = "sta"
    /\ hostapd' = FALSE /\ wpa' = None /\ assoc' = FALSE /\ ip' = FALSE
    /\ \/ /\ Goto(p, "sta_scan")
          /\ UNCHANGED <<mutex, local, status, budget>>
       \/ Fault /\ NotJoined(p, "CONNECT_FAIL")
    /\ UNCHANGED <<primed, files, onAir, proven>>

\* scan_target_band; a wrong password does not hide the SSID.
StaScan(p) ==
    /\ pc[p] = "sta_scan"
    /\ \/ /\ Goto(p, "sta_start")
          /\ \/ band' = BandOf[arg[p]] /\ UNCHANGED budget
             \/ Fault /\ UNCHANGED band
          /\ UNCHANGED <<mutex, local, status>>
       \/ /\ IF arg[p] \in onAir THEN Fault ELSE UNCHANGED budget
          /\ NotJoined(p, "NO_SSID")
          /\ UNCHANGED band
    /\ UNCHANGED <<radio, home, ready, onAir, proven>>

\* write_wpa_config and the start of wpa_supplicant.
StaStart(p) ==
    /\ pc[p] = "sta_start"
    /\ \/ /\ wpa' = arg[p]
          /\ Goto(p, "sta_assoc")
          /\ UNCHANGED <<mutex, local, status, budget>>
       \/ /\ Fault
          /\ \E st \in {"UNKNOWN", "CONNECT_FAIL"} : NotJoined(p, st)
          /\ UNCHANGED wpa
    /\ UNCHANGED <<hostapd, assoc, ip, primed, files, onAir, proven>>

\* wpa_supplicant only tries the frequencies of the stored band, and on 5G
\* the firmware only transmits once it has been primed.
CanAssociate(n) ==
    /\ n \in onAir
    /\ BandOf[n] = band
    /\ BandOf[n] = "5G" => primed

StaAssoc(p) ==
    /\ pc[p] = "sta_assoc"
    /\ \/ /\ assoc \/ CanAssociate(arg[p])
          /\ assoc' = TRUE
          /\ Goto(p, "sta_dhcp")
          /\ UNCHANGED <<mutex, local, status, budget>>
       \/ /\ ~assoc
          /\ IF CanAssociate(arg[p]) THEN Fault ELSE UNCHANGED budget
          /\ \E st \in {"BAD_PASSWORD", "CONNECT_FAIL"} : NotJoined(p, st)
          /\ UNCHANGED assoc
    /\ UNCHANGED <<hostapd, wpa, ip, primed, files, onAir, proven>>

StaDhcp(p) ==
    /\ pc[p] = "sta_dhcp"
    /\ \/ /\ assoc
          /\ ip' = TRUE
          /\ proven' = proven \cup {arg[p]}
          /\ Joined(p)
          /\ UNCHANGED budget
       \/ /\ IF assoc THEN Fault ELSE UNCHANGED budget
          /\ NotJoined(p, "CONNECT_FAIL")
          /\ UNCHANGED <<ip, proven, ready>>
    /\ UNCHANGED <<hostapd, wpa, assoc, primed, band, home, onAir>>
-----------------------------------------------------------------------------
(* enter_ap_mode, called for an AP ("ap") or to prime the radio ("warm") *)

EnterAp(p) ==
    /\ pc[p] \in {"ap", "warm"}
    /\ hostapd' = FALSE /\ wpa' = None /\ assoc' = FALSE /\ ip' = FALSE
    /\ Goto(p, IF pc[p] = "ap" THEN "ap_up" ELSE "warm_up")
    /\ UNCHANGED <<mutex, primed, files, onAir, local, status, proven, budget>>

\* What each caller does once the AP is up, or is not.
ApDone(p, up) ==
    /\ mutex' = None
    /\ ready' = IF up /\ op[p] \in {"boot", "ensure_ap"} THEN "AP" ELSE ready
    /\ IF p = Sw
         THEN ToMonitor
         ELSE Return(p, IF op[p] = "run_now" THEN status[p]
                        ELSE IF up THEN "OK" ELSE "CONNECT_FAIL")

\* hostapd.conf is rewritten and hostapd started; either may fail.
ApUp(p) ==
    /\ pc[p] \in {"ap_up", "warm_up"}
    /\ \E up \in BOOLEAN :
          /\ hostapd' = up
          /\ IF up THEN UNCHANGED budget ELSE Fault
          /\ primed' = (primed \/ (up /\ band = "5G"))
          /\ IF pc[p] = "ap_up"
               THEN ApDone(p, up)
               ELSE Goto(p, "sta") /\ UNCHANGED <<mutex, ready, local, status>>
    /\ UNCHANGED <<wpa, assoc, ip, band, home, onAir, proven>>
-----------------------------------------------------------------------------
(* wifi_switch_thread and wifi_reconnect_monitor *)

\* The stored network is read before anything is locked.
Boot ==
    /\ pc[Sw] = "boot"
    /\ arg' = [arg EXCEPT ![Sw] = home]
    /\ Goto(Sw, "boot_ready")
    /\ UNCHANGED <<mutex, radio, files, onAir, op, req, apWasUp, miss, status,
                   proven, budget>>

\* wait_for_system_ready; if wlan0 never appears the thread ends.
BootReady ==
    /\ pc[Sw] = "boot_ready"
    /\ \/ Goto(Sw, "boot_lock") /\ UNCHANGED budget
       \/ Goto(Sw, "dead") /\ Fault
    /\ UNCHANGED <<mutex, radio, files, onAir, local, status, proven>>

BootLock ==
    /\ pc[Sw] = "boot_lock"
    /\ mutex = None
    /\ mutex' = Sw
    /\ Goto(Sw, "boot_locked")
    /\ UNCHANGED <<radio, files, onAir, local, status, proven, budget>>

\* Priming for a stored 5G band, then phase A; phase B without credentials.
BootPlan ==
    /\ pc[Sw] = "boot_locked"
    /\ Goto(Sw, IF arg[Sw] = None THEN "ap" ELSE IF band = "5G" THEN "warm" ELSE "sta")
    /\ UNCHANGED <<mutex, radio, files, onAir, local, status, proven, budget>>

BootMark ==
    /\ pc[Sw] = "boot_mark"
    /\ ready' = "STA"
    /\ ToMonitor
    /\ UNCHANGED <<mutex, radio, band, home, onAir, proven, budget>>

\* An AP that runs is left alone, whatever happens to the stored network.
MonCheckAp ==
    /\ pc[Sw] = "mon"
    /\ IF hostapd
         THEN miss' = 0 /\ UNCHANGED pc
         ELSE Goto(Sw, "mon_link") /\ UNCHANGED miss
    /\ UNCHANGED <<mutex, radio, files, onAir, op, arg, req, apWasUp, status,
                   proven, budget>>

MonCheckLink ==
    /\ pc[Sw] = "mon_link"
    /\ miss' = IF Connected THEN 0 ELSE miss + 1
    /\ Goto(Sw, IF ~Connected /\ miss + 1 >= 2 THEN "mon_lock" ELSE "mon")
    /\ UNCHANGED <<mutex, radio, files, onAir, op, arg, req, apWasUp, status,
                   proven, budget>>

\* Mutant: the radio is reset before the trylock, not after it.
MonLockResetsFirst ==
    /\ pc[Sw] = "mon_lock"
    /\ hostapd' = FALSE /\ wpa' = None /\ assoc' = FALSE /\ ip' = FALSE
    /\ primed' = FALSE
    /\ IF mutex = None
         THEN mutex' = Sw /\ Goto(Sw, "mon_creds") /\ UNCHANGED miss
         ELSE miss' = 0 /\ Goto(Sw, "mon") /\ UNCHANGED mutex
    /\ UNCHANGED <<files, onAir, op, arg, req, apWasUp, status, proven, budget>>

MonLock ==
    /\ pc[Sw] = "mon_lock"
    /\ IF mutex = None
         THEN mutex' = Sw /\ Goto(Sw, "mon_creds") /\ UNCHANGED miss
         ELSE miss' = 0 /\ Goto(Sw, "mon") /\ UNCHANGED mutex
    /\ UNCHANGED <<radio, files, onAir, op, arg, req, apWasUp, status, proven, budget>>

\* Mutant: without credentials the monitor leaves everything as it is.
MonRecoverGivesUp ==
    /\ pc[Sw] = "mon_creds"
    /\ IF home = None
         THEN mutex' = None /\ ToMonitor /\ UNCHANGED radio
         ELSE /\ arg' = [arg EXCEPT ![Sw] = home]
              /\ hostapd' = FALSE /\ wpa' = None /\ assoc' = FALSE /\ ip' = FALSE
              /\ primed' = FALSE
              /\ Goto(Sw, "sta")
              /\ UNCHANGED <<mutex, op, req, apWasUp, miss, status>>
    /\ UNCHANGED <<files, onAir, proven, budget>>

\* Without credentials the AP is brought up; with credentials the radio is
\* reset (recover_wifi_radio takes the link down) and the network rejoined.
MonRecover ==
    /\ pc[Sw] = "mon_creds"
    /\ IF home = None
         THEN /\ IF hostapd
                   THEN mutex' = None /\ ToMonitor
                   ELSE Goto(Sw, "ap") /\ UNCHANGED <<mutex, local, status>>
              /\ UNCHANGED radio
         ELSE /\ arg' = [arg EXCEPT ![Sw] = home]
              /\ hostapd' = FALSE /\ wpa' = None /\ assoc' = FALSE /\ ip' = FALSE
              /\ primed' = FALSE
              /\ Goto(Sw, "sta")
              /\ UNCHANGED <<mutex, op, req, apWasUp, miss, status>>
    /\ UNCHANGED <<files, onAir, proven, budget>>

Monitor == MonCheckAp \/ MonCheckLink \/ MonLock \/ MonRecover
BootStep == Boot \/ BootReady \/ BootLock \/ BootPlan \/ BootMark
-----------------------------------------------------------------------------
(* wifi_switch_run_now, as wifi_connect_worker calls it *)

Call(p) == p = calls + 1 /\ faults + calls < MaxEvents /\ calls' = p

\* A public call finds the switch busy.
Busy(p) ==
    /\ Call(p)
    /\ mutex # None
    /\ status' = [status EXCEPT ![p] = "BUSY"]
    /\ UNCHANGED <<mutex, radio, files, onAir, pc, local, proven, faults>>

\* An empty SSID (n = None) stands for the stored network.
RunNow(p, n) ==
    /\ Call(p)
    /\ mutex = None
    /\ IF n = None /\ home = None
         THEN Return(p, "UNKNOWN") /\ UNCHANGED mutex
         ELSE /\ mutex' = p
              /\ op' = [op EXCEPT ![p] = "run_now"]
              /\ req' = [req EXCEPT ![p] = n]
              /\ arg' = [arg EXCEPT ![p] = IF n = None THEN home ELSE n]
              /\ Goto(p, "run_ready")
              /\ UNCHANGED <<apWasUp, miss, status>>
    /\ UNCHANGED <<radio, files, onAir, proven, faults>>

\* Mutant: the early return forgets the mutex.
RunReadyLeaks(p) ==
    /\ pc[p] = "run_ready"
    /\ \/ Goto(p, "run_check") /\ UNCHANGED <<local, status, budget>>
       \/ Fault /\ Return(p, "CONNECT_FAIL")
    /\ UNCHANGED <<mutex, radio, files, onAir, proven>>

RunReady(p) ==
    /\ pc[p] = "run_ready"
    /\ \/ Goto(p, "run_check") /\ UNCHANGED <<mutex, local, status, budget>>
       \/ Fault /\ mutex' = None /\ Return(p, "CONNECT_FAIL")
    /\ UNCHANGED <<radio, files, onAir, proven>>

RunCheck(p) ==
    /\ pc[p] = "run_check"
    /\ apWasUp' = [apWasUp EXCEPT ![p] = hostapd]
    /\ Goto(p, IF hostapd THEN "sta" ELSE "warm")
    /\ UNCHANGED <<mutex, radio, files, onAir, op, arg, req, miss, status, proven, budget>>

\* wifi_connect_worker stores the credentials after the mutex is released;
\* an empty SSID is refused, and the write may fail.
Persist(p) ==
    /\ pc[p] = "persist"
    /\ \/ /\ home' = IF req[p] = None THEN home ELSE req[p]
          /\ UNCHANGED budget
       \/ Fault /\ UNCHANGED home
    /\ Return(p, "OK")
    /\ UNCHANGED <<mutex, radio, band, ready, onAir, proven>>
-----------------------------------------------------------------------------
(* wifi_switch_ensure_ap_mode and wifi_switch_scan *)

EnsureAp(p) ==
    /\ Call(p)
    /\ mutex = None
    /\ IF hostapd
         THEN Return(p, "OK") /\ UNCHANGED mutex
         ELSE /\ mutex' = p
              /\ op' = [op EXCEPT ![p] = "ensure_ap"]
              /\ Goto(p, "ap_ready")
              /\ UNCHANGED <<arg, req, apWasUp, miss, status>>
    /\ UNCHANGED <<radio, files, onAir, proven, faults>>

ApReady(p) ==
    /\ pc[p] = "ap_ready"
    /\ \/ Goto(p, "ap") /\ UNCHANGED <<mutex, local, status, budget>>
       \/ Fault /\ mutex' = None /\ Return(p, "CONNECT_FAIL")
    /\ UNCHANGED <<radio, files, onAir, proven>>

\* The scan leaves hostapd, wpa_supplicant and the link as they are.
Scan(p) ==
    /\ Call(p)
    /\ mutex = None
    /\ mutex' = p
    /\ op' = [op EXCEPT ![p] = "scan"]
    /\ Goto(p, "scan")
    /\ UNCHANGED <<radio, files, onAir, arg, req, apWasUp, miss, status, proven, faults>>

ScanDone(p) ==
    /\ pc[p] = "scan"
    /\ mutex' = None
    /\ \/ Return(p, "OK") /\ UNCHANGED budget
       \/ Return(p, "UNKNOWN") /\ Fault
    /\ UNCHANGED <<radio, files, onAir, proven>>
-----------------------------------------------------------------------------
(* The environment *)

\* The link is lost, because of the router or of the air.
LinkLost ==
    /\ assoc
    /\ assoc' = FALSE
    /\ \/ UNCHANGED onAir
       \/ onAir' = onAir \ {wpa}
    /\ Fault
    /\ UNCHANGED <<mutex, hostapd, wpa, ip, primed, files, pc, local, status, proven>>

\* wpa_supplicant reassociates by itself; the address is still there.
LinkBack ==
    /\ wpa # None /\ ~assoc
    /\ CanAssociate(wpa)
    /\ assoc' = TRUE
    /\ UNCHANGED <<mutex, hostapd, wpa, ip, primed, files, onAir, pc, local,
                   status, proven, budget>>

RouterOn(n) ==
    /\ n \notin onAir
    /\ onAir' = onAir \cup {n}
    /\ Fault
    /\ UNCHANGED <<mutex, radio, files, pc, local, status, proven>>

HostapdDies ==
    /\ hostapd
    /\ hostapd' = FALSE
    /\ Fault
    /\ UNCHANGED <<mutex, wpa, assoc, ip, primed, files, onAir, pc, local, status, proven>>

\* system_service dies and is started again; the daemons and the files stay.
Restart ==
    /\ Fault
    /\ mutex' = None
    /\ pc' = [p \in Procs |-> IF p = Sw THEN "boot" ELSE "idle"]
    /\ op' = [p \in Procs |-> IF p = Sw THEN "boot" ELSE "none"]
    /\ arg' = [p \in Procs |-> None]
    /\ req' = [p \in Procs |-> None]
    /\ apWasUp' = [p \in Procs |-> FALSE]
    /\ status' = [p \in Procs |-> "none"]
    /\ miss' = 0
    /\ UNCHANGED <<radio, files, onAir, proven>>
-----------------------------------------------------------------------------
\* The steps of a thread that is inside the switch.
Step(p) ==
    \/ StaKill(p) \/ StaScan(p) \/ StaStart(p) \/ StaAssoc(p) \/ StaDhcp(p)
    \/ EnterAp(p) \/ ApUp(p)
    \/ RunReady(p) \/ RunCheck(p) \/ Persist(p) \/ ApReady(p) \/ ScanDone(p)

Request(p) ==
    \/ Busy(p) \/ EnsureAp(p) \/ Scan(p)
    \/ \E n \in Networks \cup {None} : RunNow(p, n)

Environment ==
    LinkLost \/ LinkBack \/ HostapdDies \/ Restart \/ \E n \in Networks : RouterOn(n)

Next ==
    \/ BootStep \/ Monitor \/ Environment
    \/ \E p \in Callers : Request(p)
    \/ \E p \in Procs : Step(p)

Spec == Init /\ [][Next]_vars

\* Threads keep running; nobody is obliged to call anything, and nothing is
\* assumed of the environment.
FairSpec ==
    /\ Spec
    /\ WF_vars(BootStep \/ Monitor \/ Step(Sw))
    /\ \A p \in Callers : WF_vars(Step(p))

-----------------------------------------------------------------------------
(* Safety *)

\* No path through the switch, and there are some twenty early returns, keeps
\* s_switch_mutex when it leaves or works on the radio without it.
Locked == \A p \in Procs : mutex = p <=> pc[p] \in Critical

\* "cannot step on each other" (wifi_switch.h:25): hostapd and wpa_supplicant
\* never run side by side on wlan0, whichever threads started them; and while a
\* thread waits for its association or its address, nobody replaces its
\* supplicant, so the result it reports is about the network it was to join.
NotSteppedOn ==
    /\ hostapd => wpa = None
    /\ \A p \in Procs : pc[p] \in {"sta_assoc", "sta_dhcp"} => wpa = arg[p]

\* "Callers should ONLY persist after a confirmed successful join"
\* (wifi_switch.h:62): the stored network changes only to one that has been
\* associated with and has given an address.
OnlyProvenStored == [][home' # home => home' \in proven]_vars

\* "if the connection fails, wifi_switch_run_now() tries to restore the AP
\* fallback" (BLE_PROVISIONING_PROTOCOL.md:246): when a call that found the AP
\* up reports a failed join, the AP is up again, unless starting it failed.
RestoresAp ==
    [][\A p \in Callers :
          /\ op[p] = "run_now" /\ apWasUp[p] /\ pc[p] # "idle" /\ pc'[p] = "idle"
          /\ status'[p] \in {"NO_SSID", "BAD_PASSWORD", "CONNECT_FAIL"}
          => hostapd' \/ faults' # faults]_vars

\* Which labels belong to whom, and what a thread knows at them.
StaLabels == {"sta", "sta_scan", "sta_start", "sta_assoc", "sta_dhcp"}
JoinLabels == StaLabels \cup {"warm", "warm_up"}
CallerLabels == JoinLabels \cup {"run_ready", "run_check", "persist", "idle",
                                 "ap_ready", "ap", "ap_up", "scan"}

Shape ==
    /\ op[Sw] \in {"boot", "mon"}
    /\ pc[Sw] \notin {"idle", "persist", "run_ready", "run_check", "ap_ready", "scan"}
    /\ pc[Sw] \in JoinLabels => arg[Sw] \in Networks
    /\ pc[Sw] \in {"mon", "mon_link"} => miss < 2
    /\ \A p \in Callers :
          /\ op[p] \in {"none", "run_now", "ensure_ap", "scan"}
          /\ pc[p] \in CallerLabels
          /\ pc[p] \in JoinLabels \cup {"run_ready", "run_check", "persist"} =>
                /\ op[p] = "run_now"
                /\ arg[p] \in Networks /\ req[p] \in {None, arg[p]}
          /\ pc[p] = "persist" => arg[p] \in proven

\* Between the kill and the start of a daemon, wlan0 is nobody's.
CleanRadio ==
    \A p \in Procs :
        pc[p] \in {"sta_scan", "sta_start", "ap_up", "warm_up"} =>
            wpa = None /\ ~hostapd

\* The inductive invariant behind the properties above.
Inv ==
    /\ TypeOK
    /\ Locked
    /\ NotSteppedOn
    /\ CleanRadio
    /\ Shape
-----------------------------------------------------------------------------
(* Liveness, under FairSpec *)

\* Every call of a public function returns, and the switch is given back: a
\* thread calls once, so in the end none of them is inside.
CallReturns == []<>(\A p \in Callers : pc[p] = "idle" /\ mutex # p)

\* The board does not stay without any network: once failures and calls have
\* ended it is joined or offers its AP, unless wlan0 never appeared at boot
\* and the thread has ended.
Reachable == []<>(Connected \/ hostapd \/ pc[Sw] = "dead")
-----------------------------------------------------------------------------
(* What a comment says that the code does not do *)

\* "so the boot workflow and BLE-triggered provisioning cannot step on each
\* other" (wifi_switch.h:24): the monitor does not reset a working connection.
MonitorSparesJoin ==
    [][pc[Sw] = "mon_creds" /\ pc'[Sw] # "mon_creds" => ~Connected]_vars
=============================================================================
