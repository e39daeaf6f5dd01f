------------------------ MODULE WifiSwitchA733Proofs ------------------------
(***************************************************************************)
(* Proofs about WifiSwitchA733, for any networks, calls and faults: the    *)
(* mutex is held exactly inside the switch, a join is not stepped on, and  *)
(* a failed run_now leaves the AP.  NotSteppedOn is not inductive: while   *)
(* a thread joins, NetworkManager may activate the network that is in the  *)
(* STA profile, so the invariant must also know that profile.              *)
(* Then proofs about IwScan, the readers of a scan that the builds share:  *)
(* for every scan the list is that of what is on the air, and the network  *)
(* asked for is found.                                                     *)
(***************************************************************************)
EXTENDS WifiSwitchA733, IwScan, TLAPS

\* The mutex is held exactly inside the switch.
Owner == \A p \in Procs : mutex = p <=> pc[p] \in Critical

\* The network NetworkManager may join by itself during a join.
Joining ==
    \A p \in Procs :
        /\ pc[p] = "connect" => active = None /\ auto = None
        /\ pc[p] = "poll" => auto = arg[p] /\ active \in {arg[p], None}

Inv == TypeOK /\ Owner /\ Joining

Labels == Critical \cup {"boot", "mon", "mon_read", "mon_call", "mon_ap", "idle", "persist"}
-----------------------------------------------------------------------------
(* The steps by what they do to the mutex *)

\* Thread p goes on inside, comes out, goes in, or none does any of these.
GoesOn(p) ==
    /\ pc[p] \in Critical /\ mutex' = mutex /\ arg' = arg
    /\ \E l \in Critical : pc' = [pc EXCEPT ![p] = l]

Leaves(p) ==
    /\ pc[p] \in Critical /\ mutex' = None
    /\ \E l \in Labels \ Critical : pc' = [pc EXCEPT ![p] = l]

Enters(p) ==
    /\ mutex = None /\ mutex' = p
    /\ \E l \in {"ready", "ap_ready", "scan"} : pc' = [pc EXCEPT ![p] = l]

Outside ==
    /\ mutex' = mutex
    /\ \/ pc' = pc
       \/ \E p \in Procs : /\ pc[p] \notin Critical
                           /\ \E l \in Labels \ Critical : pc' = [pc EXCEPT ![p] = l]

\* All steps of thread p inside the switch.
LEMMA InsideMutex ==
    ASSUME TypeOK, NEW p \in Procs, Inside(p), ~Persist(p)
    PROVE  (GoesOn(p) \/ Leaves(p)) /\ pc[p] \in Critical
<1>. USE DEF GoesOn, Leaves, Leave, Goto, Step, Labels, Critical
<1>1. CASE Ready(p)
  BY <1>1 DEF Ready
<1>2. CASE Clear(p)
  BY <1>2 DEF Clear
<1>3. CASE Connect(p)
  BY <1>3 DEF Connect
<1>4. CASE Poll(p)
  BY <1>4 DEF Poll
<1>5. CASE ApReady(p)
  BY <1>5, SMTT(20) DEF ApReady
<1>6. CASE ApDown(p)
  BY <1>6 DEF ApDown
<1>7. CASE Hotspot(p)
  BY <1>7 DEF Hotspot
<1>8. CASE ApReup(p)
  BY <1>8 DEF ApReup
<1>9. CASE ScanDone(p)
  BY <1>9 DEF ScanDone
<1>. QED  BY <1>1, <1>2, <1>3, <1>4, <1>5, <1>6, <1>7, <1>8, <1>9 DEF Inside

LEMMA RequestMutex ==
    ASSUME TypeOK, NEW p \in Callers, Request(p)
    PROVE  Enters(p) \/ Outside
BY DEF Request, Busy, RunStored, EnsureAp, Scan, RunNow, Enter, Answer, Enters, Outside, Goto

LEMMA PersistMutex ==
    ASSUME TypeOK, NEW p \in Procs, Persist(p)
    PROVE  Outside
BY Zenon DEF Persist, Outside, Goto, Labels, Critical

LEMMA WatchMutex ==
    ASSUME TypeOK, Watch
    PROVE  Enters(Sw) \/ Outside
<1>. USE DEF Goto, Labels, Critical, Procs, Outside
<1>1. CASE Boot
  BY <1>1, Zenon DEF Boot, ReadHome
<1>2. CASE MonLook
  BY <1>2 DEF MonLook
<1>3. CASE MonRead
  BY <1>3, Zenon DEF MonRead, ReadHome
<1>4. CASE MonCall
  BY <1>4 DEF MonCall, Enter, Enters
<1>. QED  BY <1>1, <1>2, <1>3, <1>4 DEF Watch

LEMMA EnvMutex ==
    ASSUME TypeOK, LinkLost \/ Autoconnect \/ (\E n \in Networks : RouterOn(n)) \/ UNCHANGED vars
    PROVE  Outside
BY Zenon DEF LinkLost, Autoconnect, RouterOn, vars, threads, Outside
-----------------------------------------------------------------------------
(* Type correctness *)

LEMMA LeaveType ==
    ASSUME TypeOK, NEW p \in Procs, NEW st \in Failures \cup {"none", "OK", "BUSY", "UNKNOWN"},
           Leave(p, st)
    PROVE  /\ mutex' \in Procs \cup {None}
           /\ pc' \in [Procs -> Labels]
           /\ op' \in [Procs -> {"none", "join", "reload", "ap", "scan"}]
           /\ arg' \in [Procs -> Networks \cup {None}]
           /\ status' \in [Procs -> Failures \cup {"none", "OK", "BUSY", "UNKNOWN"}]
           /\ miss' \in 0 .. 1
BY DEF TypeOK, Leave, Goto, Labels

LEMMA FaultType ==
    ASSUME TypeOK, Fault \/ UNCHANGED budget
    PROVE  faults' \in 0 .. MaxFaults /\ calls' \in 0 .. MaxCalls /\ (Fault => faults' # faults)
BY BudgetAssumption DEF TypeOK, Fault, budget

LEMMA TypeInside ==
    ASSUME TypeOK, NEW p \in Procs, Inside(p)
    PROVE  TypeOK'
<1>. USE LeaveType, FaultType DEF TypeOK, Goto, Step, nm, files, Labels, Failures
<1>1. CASE Ready(p)
  BY <1>1, SMTT(20) DEF Ready, Critical
<1>2. CASE Clear(p)
  BY <1>2, SMTT(20) DEF Clear, Critical
<1>3. CASE Connect(p)
  BY <1>3, SMTT(20) DEF Connect, Critical
<1>4. CASE Poll(p)
  BY <1>4 DEF Poll, Critical
<1>5. CASE ApReady(p)
  BY <1>5, SMTT(20) DEF ApReady, Critical, ApResult
<1>6. CASE ApDown(p)
  BY <1>6, SMTT(20) DEF ApDown, Critical
<1>7. CASE Hotspot(p)
  BY <1>7 DEF Hotspot, Critical, ApResult
<1>8. CASE ApReup(p)
  BY <1>8 DEF ApReup, ApResult
<1>9. CASE ScanDone(p)
  BY <1>9, SMTT(20) DEF ScanDone
<1>10. CASE Persist(p)
  BY <1>10 DEF Persist
<1>. QED
  BY <1>1, <1>2, <1>3, <1>4, <1>5, <1>6, <1>7, <1>8, <1>9, <1>10, ZenonT(20) DEF Inside

\* A call that gets the mutex, and one that is answered at once.
LEMMA CallType ==
    ASSUME TypeOK, NEW p \in Callers, Call(p),
           NEW o \in {"join", "reload", "ap", "scan"}, NEW n \in Networks \cup {None},
           NEW l \in {"ready", "ap_ready", "scan"},
           NEW st \in {"OK", "BUSY", "NO_SSID"},
           Enter(p, o, n, l) \/ Answer(p, st), UNCHANGED <<nm, files, onAir, faults>>
    PROVE  TypeOK'
<1>. USE DEF TypeOK, nm, files, Procs, Callers, Call, Failures
<1>1. CASE Enter(p, o, n, l)
  BY <1>1, BudgetAssumption DEF Enter, Goto, Critical
<1>2. CASE Answer(p, st)
  BY <1>2, BudgetAssumption DEF Answer
<1>. QED  BY <1>1, <1>2

LEMMA TypeRequest ==
    ASSUME TypeOK, NEW p \in Callers, Request(p)
    PROVE  TypeOK'
<1>1. CASE Busy(p)
  BY <1>1, CallType DEF Busy
<1>2. CASE RunStored(p)
  <2>1. home \in Networks \cup {None}
    BY DEF TypeOK
  <2>. QED  BY <1>2, <2>1, CallType DEF RunStored
<1>3. CASE EnsureAp(p)
  BY <1>3, CallType DEF EnsureAp
<1>4. CASE Scan(p)
  BY <1>4, CallType DEF Scan
<1>5. ASSUME NEW n \in Networks, RunNow(p, n) PROVE TypeOK'
  BY <1>5, CallType DEF RunNow
<1>. QED  BY <1>1, <1>2, <1>3, <1>4, <1>5, Zenon DEF Request

LEMMA TypeWatch ==
    ASSUME TypeOK, Watch
    PROVE  TypeOK'
<1>. USE DEF TypeOK, Goto, nm, files, budget, Procs
<1>1. CASE Boot
  BY <1>1 DEF Boot, ReadHome
<1>2. CASE MonLook
  BY <1>2 DEF MonLook
<1>3. CASE MonRead
  BY <1>3 DEF MonRead, ReadHome
<1>4. CASE MonCall
  BY <1>4 DEF MonCall, Enter, Critical
<1>. QED  BY <1>1, <1>2, <1>3, <1>4, Zenon DEF Watch

LEMMA TypeEnv ==
    ASSUME TypeOK, \/ LinkLost \/ Autoconnect \/ Restart \/ (\E n \in Networks : RouterOn(n))
                   \/ UNCHANGED vars
    PROVE  TypeOK'
<1>. USE FaultType DEF TypeOK, nm, files, threads
<1>1. CASE LinkLost
  BY <1>1 DEF LinkLost
<1>2. CASE Autoconnect
  BY <1>2, SMTT(20) DEF Autoconnect, budget
<1>3. CASE Restart
  BY <1>3 DEF Restart, AtBoot, All, Procs
<1>4. ASSUME NEW n \in Networks, RouterOn(n) PROVE TypeOK'
  BY <1>4 DEF RouterOn
<1>5. CASE UNCHANGED vars
  BY <1>5 DEF vars, budget
<1>. QED  BY <1>1, <1>2, <1>3, <1>4, <1>5, Zenon

LEMMA TypeStep ==
    ASSUME TypeOK, [Next]_vars
    PROVE  TypeOK'
BY TypeInside, TypeRequest, TypeWatch, TypeEnv, Zenon DEF Next
-----------------------------------------------------------------------------
(* The mutex, and the interface during a join *)

\* Only the thread that owns the mutex is inside.
LEMMA Alone ==
    ASSUME Inv, NEW p \in Procs, pc[p] \in Critical
    PROVE  mutex = p /\ \A q \in Procs \ {p} : pc[q] \notin Critical
BY Zenon DEF Inv, Owner

LEMMA OwnerStep ==
    ASSUME Inv, [Next]_vars
    PROVE  Owner'
<1>1. pc \in [Procs -> Labels] /\ None \notin Procs
  BY ProcAssumption DEF Inv, TypeOK, Labels
<1>2. ASSUME NEW p \in Procs, GoesOn(p) PROVE Owner'
  BY <1>1, <1>2, Alone DEF GoesOn, Inv, Owner
<1>3. ASSUME NEW p \in Procs, Leaves(p) PROVE Owner'
  BY <1>1, <1>3, Alone DEF Leaves, Owner
<1>4. ASSUME NEW p \in Procs, Enters(p) PROVE Owner'
  <2>1. \A q \in Procs : pc[q] \notin Critical
    BY <1>1, <1>4, Zenon DEF Enters, Inv, Owner
  <2>. QED  BY <1>1, <1>4, <2>1 DEF Enters, Owner, Critical
<1>5. CASE Outside
  BY <1>1, <1>5 DEF Outside, Inv, Owner
<1>6. CASE Restart
  BY <1>1, <1>6 DEF Restart, AtBoot, Owner, Critical
<1>7. Sw \in Procs /\ Callers \subseteq Procs /\ TypeOK
  BY DEF Procs, Inv
<1>. QED
  BY <1>2, <1>3, <1>4, <1>5, <1>6, <1>7, InsideMutex, PersistMutex, RequestMutex, WatchMutex,
     EnvMutex, ZenonT(20) DEF Next

\* During a join, another thread does not move the interface.
LEMMA OthersKeep ==
    ASSUME Inv, NEW p \in Procs, pc[p] \in {"connect", "poll"}, [Next]_vars, ~Inside(p), ~Restart
    PROVE  /\ pc'[p] = pc[p] /\ arg'[p] = arg[p] /\ auto' = auto
           /\ active' \in {active, None} \/ (active = None /\ active' = auto /\ auto \in onAir)
<1>1. pc[p] \in Critical /\ mutex = p /\ mutex # None
  BY Alone, ProcAssumption DEF Critical
<1>2. pc \in [Procs -> Labels] /\ arg \in [Procs -> Networks \cup {None}]
  BY DEF Inv, TypeOK, Labels
<1>3. ASSUME NEW q \in Procs, q # p, Inside(q)
      PROVE  pc'[p] = pc[p] /\ arg'[p] = arg[p] /\ UNCHANGED nm
  <2>1. Persist(q)
    BY <1>1, <1>3, Alone, InsideMutex, ZenonT(20) DEF Inv
  <2>. QED  BY <1>2, <1>3, <2>1 DEF Persist, Goto
<1>4. ASSUME NEW q \in Callers, Request(q)
      PROVE  pc'[p] = pc[p] /\ arg'[p] = arg[p] /\ UNCHANGED nm
  BY <1>1, <1>4, SMTT(20) DEF Request, Busy, RunStored, EnsureAp, Scan, RunNow, Enter, Answer
<1>5. ASSUME Watch
      PROVE  pc'[p] = pc[p] /\ arg'[p] = arg[p] /\ UNCHANGED nm
  BY <1>1, <1>2, <1>5 DEF Watch, Boot, MonLook, MonRead, MonCall, ReadHome, Enter, Goto, Critical
<1>6. CASE LinkLost \/ Autoconnect \/ (\E n \in Networks : RouterOn(n)) \/ UNCHANGED vars
  BY <1>6, Zenon DEF LinkLost, Autoconnect, RouterOn, vars, threads, nm
<1>. QED  BY <1>3, <1>4, <1>5, <1>6, Zenon DEF Next, nm

LEMMA JoiningStep ==
    ASSUME Inv, [Next]_vars
    PROVE  Joining'
<1>. SUFFICES ASSUME NEW p \in Procs, pc'[p] \in {"connect", "poll"}
              PROVE  /\ pc'[p] = "connect" => active' = None /\ auto' = None
                     /\ pc'[p] = "poll" => auto' = arg'[p] /\ active' \in {arg'[p], None}
  BY ZenonT(20) DEF Joining
<1>1. pc \in [Procs -> Labels] /\ onAir \subseteq Networks /\ None \notin Networks
  BY NetAssumption DEF Inv, TypeOK, Labels
<1>2. CASE Inside(p)
  <2>1. CASE Clear(p)
    BY <1>1, <2>1 DEF Clear, Step, Goto
  <2>2. CASE Connect(p)
    BY <1>1, <2>2, SMTT(20) DEF Connect, Step, Goto
  <2>3. CASE ~Clear(p) /\ ~Connect(p)
    BY <1>1, <1>2, <2>3, ZenonT(20)
       DEF Inside, Ready, Poll, ApReady, ApDown, Hotspot, ApReup, ScanDone, Persist,
           Leave, Step, Goto
  <2>. QED  BY <2>1, <2>2, <2>3
<1>3. CASE Restart
  BY <1>3 DEF Restart, AtBoot
<1>4. CASE pc[p] \in {"connect", "poll"} /\ ~Inside(p) /\ ~Restart
  BY <1>1, <1>4, OthersKeep DEF Inv, Joining
<1>5. ASSUME ~Inside(p), ~Restart PROVE pc'[p] = pc[p] \/ pc'[p] \notin {"connect", "poll"}
  <2>1. ASSUME NEW q \in Procs, q # p, Inside(q) PROVE pc'[p] = pc[p]
    BY <1>1, <2>1, ZenonT(20)
       DEF Inside, Ready, Clear, Connect, Poll, ApReady, ApDown, Hotspot, ApReup, ScanDone,
           Persist, Leave, Step, Goto
  <2>2. ASSUME NEW q \in Callers, Request(q)
        PROVE  pc'[p] = pc[p] \/ pc'[p] \notin {"connect", "poll"}
    BY <1>1, <2>2, SMTT(20) DEF Request, Busy, RunStored, EnsureAp, Scan, RunNow, Enter, Answer, Goto, Procs
  <2>3. ASSUME Watch PROVE pc'[p] = pc[p] \/ pc'[p] \notin {"connect", "poll"}
    BY <1>1, <2>3
       DEF Watch, Boot, MonLook, MonRead, MonCall, ReadHome, Enter, Goto, Procs
  <2>4. CASE LinkLost \/ Autoconnect \/ (\E n \in Networks : RouterOn(n)) \/ UNCHANGED vars
    BY <2>4, Zenon DEF LinkLost, Autoconnect, RouterOn, vars, threads
  <2>. QED  BY <1>5, <2>1, <2>2, <2>3, <2>4, ZenonT(20) DEF Next
<1>. QED  BY <1>2, <1>3, <1>4, <1>5, Zenon
-----------------------------------------------------------------------------
(* The theorems *)

LEMMA InvInit == Init => Inv
<1>. SUFFICES ASSUME Init PROVE Inv
  OBVIOUS
<1>1. TypeOK
  BY BudgetAssumption, SMTT(20) DEF Init, TypeOK, AtBoot, All, Procs
<1>2. Owner /\ Joining
  BY ProcAssumption, ZenonT(20) DEF Init, Owner, Joining, AtBoot, Critical
<1>. QED  BY <1>1, <1>2 DEF Inv

LEMMA InvStep == Inv /\ [Next]_vars => Inv'
BY TypeStep, OwnerStep, JoiningStep, Zenon DEF Inv

\* The inductive invariant: who owns the mutex, and which network may be on
\* the interface and in the STA profile during a join
\* (wifi_switch_a733.c:561-789).
THEOREM InvAlways == Spec => []Inv
BY InvInit, InvStep, PTL DEF Spec

\* Neither another thread nor NetworkManager moves the interface under a
\* run_now that joins, and the mutex is given back on every return, whatever
\* the networks, the callers and the failures (wifi_switch_run_now).
THEOREM NeverSteppedOn == Spec => []NotSteppedOn
<1>1. Inv => NotSteppedOn
  BY Zenon DEF Inv, Owner, Joining, NotSteppedOn
<1>. QED  BY <1>1, InvAlways, PTL

\* A failed run_now that had taken the interface down leaves the AP behind,
\* unless the AP failed as well (ensure_ap_mode_locked).
THEOREM AlwaysRestoresAp == Spec => RestoresAp
<1>1. ASSUME Inv, Next, NEW p \in Procs, op[p] \in {"join", "reload"}, mutex = p, mutex' = None,
             status'[p] \in Failures
      PROVE  active' = AP \/ faults' # faults
  <2>1. None \notin Procs /\ pc[p] \in Critical /\ TypeOK
    BY <1>1, ProcAssumption DEF Inv, Owner
  <2>2. ASSUME NEW q \in Procs, Inside(q), ~Persist(q) PROVE q = p
    BY <1>1, <2>1, <2>2, InsideMutex, Alone, Zenon
  <2>3. Inside(p) \/ Restart
    <3>1. ASSUME NEW q \in Callers, Request(q) PROVE FALSE
      BY <1>1, <2>1, <3>1, RequestMutex DEF Enters, Outside, Procs
    <3>2. ~Watch
      BY <1>1, <2>1, WatchMutex DEF Enters, Outside, Procs
    <3>3. ~(LinkLost \/ Autoconnect \/ (\E n \in Networks : RouterOn(n)))
      BY <1>1, <2>1, EnvMutex, Zenon DEF Outside
    <3>4. ASSUME NEW q \in Procs, Persist(q) PROVE FALSE
      BY <1>1, <2>1, <3>4, PersistMutex, Zenon DEF Outside
    <3>. QED  BY <1>1, <2>2, <3>1, <3>2, <3>3, <3>4, ZenonT(20) DEF Next
  <2>4. Fault => faults' # faults
    BY <2>1, FaultType
  <2>5. status \in [Procs -> Failures \cup {"none", "OK", "BUSY", "UNKNOWN"}]
    BY <2>1, Zenon DEF TypeOK
  <2>6. ASSUME NEW st, Leave(p, st) PROVE status'[p] = st
    BY <2>5, <2>6 DEF Leave
  <2>7. {"OK", "UNKNOWN"} \cap Failures = {}
    BY DEF Failures
  <2>8. CASE Inside(p)
    <3>1. CASE Ready(p)
      BY <1>1, <2>1, <2>4, <3>1, Zenon DEF Ready, Step
    <3>2. CASE Poll(p)
      BY <1>1, <2>1, <2>6, <2>7, <3>2, Zenon DEF Poll
    <3>3. CASE ApReady(p) \/ Hotspot(p) \/ ApReup(p)
      BY <1>1, <2>1, <2>4, <3>3, Zenon DEF ApReady, Hotspot, ApReup, Step
    <3>4. CASE ScanDone(p)
      BY <1>1, <2>4, <2>6, <2>7, <3>4, Zenon DEF ScanDone
    <3>5. CASE Clear(p) \/ Connect(p) \/ ApDown(p) \/ Persist(p)
      BY <1>1, <2>1, <3>5, Zenon DEF Clear, Connect, ApDown, Persist, Step
    <3>. QED  BY <2>8, <3>1, <3>2, <3>3, <3>4, <3>5, Zenon DEF Inside
  <2>9. CASE Restart
    BY <2>4, <2>9, Zenon DEF Restart
  <2>. QED  BY <2>3, <2>8, <2>9
<1>2. Inv /\ [Next]_vars =>
        [\A p \in Procs : /\ op[p] \in {"join", "reload"}
                          /\ mutex = p /\ mutex' = None
                          /\ status'[p] \in Failures
                          => active' = AP \/ faults' # faults]_vars
  BY <1>1, ZenonT(20)
<1>. QED  BY <1>2, InvAlways, PTL DEF Spec, RestoresAp

-----------------------------------------------------------------------------
(* IwScan *)

\* The flags of the first n lines of a block.
Seen(b, n) == UNION {Flags(Block(b)[k]) : k \in 1 .. n}

\* What parse_iw_scan knows of a BSS after n lines of its block.
Known(b, n) ==
    [ssid |-> IF n >= 5 THEN b.ssid ELSE Hidden,
     freq |-> IF n >= 2 THEN b.freq ELSE 0,
     signal |-> IF n >= 4 THEN b.signal ELSE 0,
     has |-> Seen(b, n)]

Auths == {"WPA3_SAE", "ENTERPRISE", "WPA2_PSK", "WPA_PSK", "WEP", "OPEN"}

Entry == [ssid : {b.ssid : b \in Bss}, rssi : {b.signal : b \in Bss} \cup {-100},
          auth : Auths, band : {0, 1, -1}]

\* Where the walk is and what it knows of the block it is in; at the first
\* line of a block, of the block before it.
Reading ==
    /\ air \in Seq(Bss) /\ out \in Seq(Entry)
    /\ blk \in 1 .. Len(air) + 1 /\ ln \in 1 .. BlockLen
    /\ blk > Len(air) => ln = 1
    /\ walk \in {"lines", "done"}
    /\ walk = "done" => blk = Len(air) + 1
    /\ walk = "lines" =>
          cur = IF ln > 1 THEN Known(air[blk], ln - 1)
                ELSE IF blk > 1 THEN Known(air[blk - 1], BlockLen) ELSE Cleared
    /\ ln > 1 => cur_freq = IF ln > 2 THEN air[blk].freq ELSE 0

\* The blocks before the one that the next header commits.
Committed == IF ln = 1 /\ blk > 1 /\ walk = "lines" THEN blk - 2 ELSE blk - 1

\* hit is the frequency of the first BSS with the wanted SSID in the band
\* among the first m, 0 if there is none.
FirstHit(hit, band, m) ==
    \/ hit = 0 /\ \A k \in 1 .. m : ~IsWanted(k, band)
    \/ \E k \in 1 .. m : /\ IsWanted(k, band) /\ hit = air[k].freq
                         /\ \A j \in 1 .. k - 1 : ~IsWanted(j, band)

\* The blocks whose SSID line has been read.
Searched == IF ln > 5 THEN blk ELSE blk - 1

ParseInv ==
    /\ Reading
    /\ Listed(Committed)
    /\ want \notin Escaped =>
          FirstHit(hit_5, "5G", Searched) /\ FirstHit(hit_24, "2.4G", Searched)

Schemes == {"open", "wep", "wpa", "wpa2", "wpa3", "mixed", "eap"}

\* The lines of a block, by their place.
LEMMA Lines ==
    ASSUME NEW b \in Bss
    PROVE  /\ Block(b)[1] = Line("BSS", 0, {})
           /\ Block(b)[2] = IF b.freq = 0 THEN Other ELSE Line("freq", b.freq, {})
           /\ Block(b)[3] = Line("capability", b.sec # "open", {})
           /\ Block(b)[4] = IF b.signal = 0 THEN Other ELSE Line("signal", b.signal, {})
           /\ Block(b)[5] = Line("SSID", Printed(b.ssid), Words[b.ssid])
           /\ Block(b)[6] = SecLines[b.sec][1]
           /\ Block(b)[7] = SecLines[b.sec][2]
BY ZenonT(20) DEF Block

\* No line of a security scheme has a key that the readers look for.
LEMMA SecKeys ==
    ASSUME NEW s \in Schemes
    PROVE  SecLines[s][1].key \in {"other", "WPA", "RSN"} /\ SecLines[s][2].key \in {"other", "suites"}
<1>1. CASE s = "open"
  BY <1>1, ZenonT(20) DEF SecLines, Line, Other
<1>2. CASE s = "wep"
  BY <1>2, ZenonT(20) DEF SecLines, Line, Other
<1>3. CASE s = "wpa"
  BY <1>3, ZenonT(20) DEF SecLines, Line, Other
<1>4. CASE s = "wpa2"
  BY <1>4, ZenonT(20) DEF SecLines, Line, Other
<1>5. CASE s = "wpa3"
  BY <1>5, ZenonT(20) DEF SecLines, Line, Other
<1>6. CASE s = "mixed"
  BY <1>6, ZenonT(20) DEF SecLines, Line, Other
<1>7. CASE s = "eap"
  BY <1>7, ZenonT(20) DEF SecLines, Line, Other
<1>. QED  BY <1>1, <1>2, <1>3, <1>4, <1>5, <1>6, <1>7, Zenon DEF Schemes

\* One more line of a block adds its flags.
LEMMA SeenNext ==
    ASSUME NEW b, NEW n \in Nat
    PROVE  Seen(b, n + 1) = Seen(b, n) \cup Flags(Block(b)[n + 1])
<1>1. 1 .. n + 1 = (1 .. n) \cup {n + 1}
  OBVIOUS
<1>2. ASSUME NEW x PROVE x \in Seen(b, n + 1) <=> x \in Seen(b, n) \/ x \in Flags(Block(b)[n + 1])
  BY <1>1, Zenon DEF Seen
<1>. QED  BY <1>2, Zenon

\* What the line after the n-th one of a block adds.
LEMMA KnownNext ==
    ASSUME NEW b \in Bss, NEW n \in 1 .. 6, NEW c, c = Known(b, n),
           NEW l, l = Block(b)[n + 1]
    PROVE  /\ l.key # "BSS"
           /\ l.key = "SSID" <=> n = 4
           /\ n = 4 => l.val = Printed(b.ssid)
           /\ l.key = "freq" => n = 1 /\ l.val = b.freq
           /\ n = 1 /\ l.key # "freq" => b.freq = 0
           /\ Known(b, n + 1) = Learn(c, l)
<1>1. b.sec \in Schemes
  BY AirAssumption DEF Schemes
<1>2. /\ l.key # "BSS"
      /\ l.key = "SSID" <=> n = 4
      /\ n = 4 => l.val = Printed(b.ssid)
      /\ l.key = "freq" <=> n = 1 /\ b.freq # 0
      /\ l.key = "freq" => l.val = b.freq
      /\ l.key = "signal" <=> n = 3 /\ b.signal # 0
      /\ l.key = "signal" => l.val = b.signal
  <2>1. CASE n = 1
    <3>1. n + 1 = 2
      BY <2>1
    <3>2. l = IF b.freq = 0 THEN Other ELSE Line("freq", b.freq, {})
      BY <3>1, Lines, Zenon
    <3>. QED  BY <2>1, <3>2 DEF Line, Other
  <2>2. CASE n = 2
    <3>1. n + 1 = 3
      BY <2>2
    <3>2. l = Line("capability", b.sec # "open", {})
      BY <3>1, Lines, ZenonT(20)
    <3>. QED  BY <2>2, <3>2 DEF Line, Other
  <2>3. CASE n = 3
    <3>1. n + 1 = 4
      BY <2>3
    <3>2. l = IF b.signal = 0 THEN Other ELSE Line("signal", b.signal, {})
      BY <3>1, Lines, ZenonT(20)
    <3>. QED  BY <2>3, <3>2 DEF Line, Other
  <2>4. CASE n = 4
    <3>1. n + 1 = 5
      BY <2>4
    <3>2. l = Line("SSID", Printed(b.ssid), Words[b.ssid])
      BY <3>1, Lines, ZenonT(20)
    <3>. QED  BY <2>4, <3>2 DEF Line, Other
  <2>5. CASE n = 5
    <3>1. n + 1 = 6
      BY <2>5
    <3>2. l = SecLines[b.sec][1]
      BY <3>1, Lines, Zenon
    <3>3. l.key \notin {"BSS", "SSID", "freq", "signal"}
      BY <1>1, <3>2, SecKeys, ZenonT(20)
    <3>4. n # 1 /\ n # 3 /\ n # 4
      BY <2>5
    <3>. QED  BY <3>3, <3>4, Zenon
  <2>6. CASE n = 6
    <3>1. n + 1 = 7
      BY <2>6
    <3>2. l = SecLines[b.sec][2]
      BY <3>1, Lines, Zenon
    <3>3. l.key \notin {"BSS", "SSID", "freq", "signal"}
      BY <1>1, <3>2, SecKeys, ZenonT(20)
    <3>4. n # 1 /\ n # 3 /\ n # 4
      BY <2>6
    <3>. QED  BY <3>3, <3>4, Zenon
  <2>7. n = 1 \/ n = 2 \/ n = 3 \/ n = 4 \/ n = 5 \/ n = 6
    OBVIOUS
  <2>. QED  BY <2>1, <2>2, <2>3, <2>4, <2>5, <2>6, <2>7, ZenonT(20)
<1>3. Seen(b, n + 1) = Seen(b, n) \cup Flags(l)
  BY SeenNext
<1>4. decode_iw_ssid(Printed(b.ssid)) = b.ssid
  BY DEF decode_iw_ssid, Printed
<1>5. c = [ssid |-> c.ssid, freq |-> c.freq, signal |-> c.signal, has |-> c.has]
      /\ c.ssid = (IF n >= 5 THEN b.ssid ELSE Hidden) /\ c.freq = (IF n >= 2 THEN b.freq ELSE 0)
      /\ c.signal = (IF n >= 4 THEN b.signal ELSE 0)
      /\ c.has = Seen(b, n)
  BY SMTT(20) DEF Known
<1>6. /\ (IF n + 1 >= 5 THEN b.ssid ELSE Hidden)
           = (IF l.key = "SSID" THEN decode_iw_ssid(l.val) ELSE c.ssid)
      /\ (IF n + 1 >= 2 THEN b.freq ELSE 0) = (IF l.key = "freq" THEN l.val ELSE c.freq)
      /\ (IF n + 1 >= 4 THEN b.signal ELSE 0) = (IF l.key = "signal" THEN l.val ELSE c.signal)
  BY <1>2, <1>4, <1>5
<1>7. Known(b, n + 1) =
         [ssid |-> IF n + 1 >= 5 THEN b.ssid ELSE Hidden,
          freq |-> IF n + 1 >= 2 THEN b.freq ELSE 0,
          signal |-> IF n + 1 >= 4 THEN b.signal ELSE 0,
          has |-> c.has \cup Flags(l)]
  BY <1>3, <1>5, Zenon DEF Known
<1>. QED  BY <1>2, <1>6, <1>7, ZenonT(20) DEF Learn

\* The same, as an equation: what FieldLine does to what is known.
LEMMA Learned ==
    ASSUME NEW b \in Bss, NEW n \in 1 .. 6
    PROVE  Known(b, n + 1) = Learn(Known(b, n), Block(b)[n + 1])
<1>1. PICK c, l : c = Known(b, n) /\ l = Block(b)[n + 1]
  OBVIOUS
<1>2. Known(b, n + 1) = Learn(c, l)
  BY <1>1, KnownNext
<1>. QED  BY <1>1, <1>2, Zenon

\* After its header, nothing is known of a block.
LEMMA KnownFirst ==
    ASSUME NEW b \in Bss
    PROVE  Known(b, 1) = Cleared
<1>1. Flags(Block(b)[1]) = {}
  <2>1. Block(b)[1] = Line("BSS", 0, {})
    BY Lines
  <2>. QED  BY <2>1, SMTT(20) DEF Flags, Line
<1>2. Seen(b, 1) = {}
  BY <1>1 DEF Seen
<1>. QED  BY <1>2 DEF Known, Cleared

\* The keywords of the two lines of a security scheme.
Marks ==
    [open |-> {}, wep |-> {}, wpa |-> {"WPA", "PSK"}, wpa2 |-> {"RSN", "PSK"},
     wpa3 |-> {"RSN", "SAE"}, mixed |-> {"RSN", "PSK", "SAE"}, eap |-> {"RSN", "EAP"}]

LEMMA SecMarks ==
    ASSUME NEW s \in Schemes
    PROVE  Flags(SecLines[s][1]) \cup Flags(SecLines[s][2]) = Marks[s]
<1>. USE DEF SecLines, Marks, Line, Other, Flags
<1>1. CASE s = "open"
  BY <1>1
<1>2. CASE s = "wep"
  BY <1>2
<1>3. CASE s = "wpa"
  BY <1>3
<1>4. CASE s = "wpa2"
  BY <1>4
<1>5. CASE s = "wpa3"
  BY <1>5
<1>6. CASE s = "mixed"
  BY <1>6
<1>7. CASE s = "eap"
  BY <1>7
<1>. HIDE DEF SecLines, Marks, Line, Other, Flags
<1>. QED  BY <1>1, <1>2, <1>3, <1>4, <1>5, <1>6, <1>7, Zenon DEF Schemes

\* The keywords of a whole block tell the scheme, unless the name has some.
LEMMA KnownAuth ==
    ASSUME NEW b \in Bss, Words[b.ssid] = {}
    PROVE  derive_auth_type(Known(b, BlockLen).has) = TrueAuth[b.sec]
<1>. DEFINE H == Known(b, BlockLen).has
<1>1. b.sec \in Schemes
  BY AirAssumption, SMTT(20) DEF Schemes
<1>2. H = UNION {Flags(Block(b)[k]) : k \in 1 .. 7}
  BY DEF Known, BlockLen, Seen
<1>3. /\ Flags(Block(b)[1]) = {} /\ Flags(Block(b)[2]) = {}
      /\ Flags(Block(b)[3]) = (IF b.sec = "open" THEN {} ELSE {"privacy"})
      /\ Flags(Block(b)[4]) = {} /\ Flags(Block(b)[5]) = {}
  <2>1. /\ Flags(Line("BSS", 0, {})) = {} /\ Flags(Other) = {}
        /\ Flags(Line("freq", b.freq, {})) = {}
        /\ Flags(Line("signal", b.signal, {})) = {}
        /\ Flags(Line("SSID", Printed(b.ssid), {})) = {}
    BY DEF Flags, Line, Other
  <2>2. Flags(Line("capability", b.sec # "open", {})) = (IF b.sec = "open" THEN {} ELSE {"privacy"})
    BY Zenon DEF Flags, Line
  <2>. QED  BY <2>1, <2>2, Lines, Zenon
<1>4. 1 .. 7 = {1, 2, 3, 4, 5, 6, 7}
  BY SMTT(20)
<1>5. H = (IF b.sec = "open" THEN {} ELSE {"privacy"}) \cup Marks[b.sec]
  <2>1. H = Flags(Block(b)[1]) \cup Flags(Block(b)[2]) \cup Flags(Block(b)[3])
              \cup Flags(Block(b)[4]) \cup Flags(Block(b)[5])
              \cup Flags(Block(b)[6]) \cup Flags(Block(b)[7])
    BY <1>2, <1>4
  <2>2. Flags(Block(b)[6]) \cup Flags(Block(b)[7]) = Marks[b.sec]
    BY <1>1, Lines, SecMarks, Zenon
  <2>. QED  BY <1>3, <2>1, <2>2, ZenonT(20)
<1>. SUFFICES derive_auth_type(H) = TrueAuth[b.sec]
  OBVIOUS
<1>. HIDE DEF H
<1>. USE DEF Marks, derive_auth_type, TrueAuth
<1>6. CASE b.sec = "open"
  BY <1>5, <1>6, SMTT(20)
<1>7. CASE b.sec = "wep"
  BY <1>5, <1>7, SMTT(20)
<1>8. CASE b.sec = "wpa"
  BY <1>5, <1>8, SMTT(20)
<1>9. CASE b.sec = "wpa2"
  BY <1>5, <1>9
<1>10. CASE b.sec = "wpa3"
  BY <1>5, <1>10, SMTT(20)
<1>11. CASE b.sec = "mixed"
  BY <1>5, <1>11, SMTT(20)
<1>12. CASE b.sec = "eap"
  BY <1>5, <1>12
<1>. HIDE DEF Marks, derive_auth_type, TrueAuth
<1>. QED  BY <1>1, <1>6, <1>7, <1>8, <1>9, <1>10, <1>11, <1>12, Zenon DEF Schemes

-----------------------------------------------------------------------------
\* The values of the band of an entry.
LEMMA BandIs ==
    ASSUME NEW f
    PROVE  freq_to_scan_band(f) \in {0, 1, -1}
BY Zenon DEF freq_to_scan_band

\* commit_bss of a whole block.
LEMMA CommitIs ==
    ASSUME Reading, NEW b \in Bss
    PROVE  \E e \in Entry :
              /\ Describes(e, b)
              /\ commit_bss(Known(b, BlockLen))
                    = IF Listable(b) /\ Len(out) < OutCap THEN Append(out, e) ELSE out
<1>. DEFINE c == Known(b, BlockLen)
            e == [ssid |-> b.ssid, rssi |-> IF b.signal = 0 THEN -100 ELSE b.signal,
                  auth |-> derive_auth_type(c.has), band |-> freq_to_scan_band(b.freq)]
<1>1. c.ssid = b.ssid /\ c.freq = b.freq /\ c.signal = b.signal
  BY DEF Known, BlockLen
<1>2. commit_bss(c) = IF \/ b.ssid = Hidden \/ freq_to_scan_band(b.freq) < 0
                         \/ Len(out) >= OutCap
                      THEN out ELSE Append(out, e)
  BY <1>1, Zenon DEF commit_bss
<1>3. Len(out) \in Nat /\ OutCap \in Nat
  BY AirAssumption DEF Reading
<1>4. freq_to_scan_band(b.freq) \in {0, 1, -1}
  BY BandIs
<1>5. Describes(e, b)
  BY KnownAuth, Zenon DEF Describes
<1>6. e \in Entry
  <2>1. derive_auth_type(c.has) \in Auths
    BY Zenon DEF derive_auth_type, Auths
  <2>. QED  BY <1>4, <2>1 DEF Entry
<1>7. Listable(b) /\ Len(out) < OutCap
        <=> ~(\/ b.ssid = Hidden \/ freq_to_scan_band(b.freq) < 0 \/ Len(out) >= OutCap)
  BY <1>3, <1>4 DEF Listable
<1>. QED  BY <1>2, <1>5, <1>6, <1>7, Zenon

\* A block is committed: the list is right for one more block.
LEMMA CommitKeeps ==
    ASSUME Reading, NEW m \in Nat, m + 1 <= Len(air), Listed(m), air' = air,
           out' = commit_bss(Known(air[m + 1], BlockLen))
    PROVE  out' \in Seq(Entry) /\ Listed(m + 1)'
<1>1. /\ air \in Seq(Bss) /\ out \in Seq(Entry) /\ Len(out) \in Nat /\ OutCap \in Nat
      /\ Len(air) \in Nat
  BY AirAssumption DEF Reading
<1>2. PICK b \in Bss : b = air[m + 1]
  BY <1>1
<1>3. PICK e \in Entry :
         /\ Describes(e, b)
         /\ out' = IF Listable(b) /\ Len(out) < OutCap THEN Append(out, e) ELSE out
  BY <1>2, CommitIs, Zenon
<1>4. PICK at \in [DOMAIN out -> 1 .. m] : ListedAt(at, m)
  BY DEF Listed
<1>5. Len(out) <= OutCap /\ DOMAIN out = 1 .. Len(out)
  BY <1>1 DEF Listed
<1>6. \A k \in DOMAIN out : at[k] \in 1 .. m /\ at[k] < m + 1
  BY <1>4
<1>9. PICK L \in Nat, C \in Nat : L = Len(out) /\ C = OutCap /\ L <= C
  BY <1>1, <1>5, Zenon
<1>7. CASE ~(Listable(b) /\ Len(out) < OutCap)
  <2>1. out' = out
    BY <1>3, <1>7
  <2>2. at \in [DOMAIN out' -> 1 .. m + 1]
    BY <1>4, <1>6, <2>1
  <2>3. ASSUME NEW j \in 1 .. m + 1, Listable(air[j])
        PROVE  \/ \E k \in DOMAIN out : at[k] = j
               \/ Len(out) = OutCap /\ \A k \in DOMAIN out : at[k] < j
    <3>1. CASE j = m + 1
      <4>1. Len(out) = OutCap
        <5>1. ~(Len(out) < OutCap)
          BY <1>2, <1>7, <2>3, <3>1, Zenon
        <5>2. ~(L < C)
          BY <1>9, <5>1, Zenon
        <5>3. L = C
          BY <1>9, <5>2
        <5>. QED  BY <1>9, <5>3, Zenon
      <4>. QED  BY <1>6, <3>1, <4>1
    <3>2. CASE j # m + 1
      <4>1. j \in 1 .. m
        BY <3>2
      <4>. QED  BY <1>4, <2>3, <4>1, Zenon DEF ListedAt
    <3>. QED  BY <3>1, <3>2
  <2>4. ListedAt(at, m + 1)'
    <3>1. ListedAt(at, m + 1)
      BY <1>4, <2>3, Zenon DEF ListedAt
    <3>. QED  BY <2>1, <3>1 DEF ListedAt
  <2>. QED  BY <1>1, <1>5, <2>1, <2>2, <2>4 DEF Listed
<1>8. CASE Listable(b) /\ Len(out) < OutCap
  <2>3. PICK n \in Nat : n = Len(out) + 1 /\ \A k \in 1 .. n : k = n \/ k \in DOMAIN out
    BY <1>1, <1>5
  <2>1. out' = Append(out, e)
    BY <1>3, <1>8
  <2>2. /\ out' \in Seq(Entry) /\ Len(out') = n /\ DOMAIN out' = 1 .. n /\ out'[n] = e
        /\ \A k \in 1 .. Len(out) : out'[k] = out[k]
    BY <1>1, <2>1, <2>3
  <2>4. PICK bt \in [1 .. n -> 1 .. m + 1] :
           bt[n] = m + 1 /\ \A k \in DOMAIN out : k \in 1 .. n /\ k < n /\ bt[k] = at[k]
    <3>. DEFINE bt == [k \in 1 .. n |-> IF k = n THEN m + 1 ELSE at[k]]
    <3>1. bt \in [1 .. n -> 1 .. m + 1]
      BY <1>6, <2>3
    <3>2. bt[n] = m + 1 /\ \A k \in DOMAIN out : k \in 1 .. n /\ k < n /\ bt[k] = at[k]
      BY <1>1, <1>5, <2>3
    <3>. QED  BY <3>1, <3>2, Zenon
  <2>6. ASSUME NEW j \in 1 .. n, NEW k \in 1 .. n, j < k PROVE bt[j] < bt[k]
    <3>1. j \in DOMAIN out
      BY <1>1, <1>5, <2>3, <2>6
    <3>2. CASE k = n
      BY <1>6, <2>4, <3>1, <3>2
    <3>3. CASE k # n
      <4>1. k \in DOMAIN out
        BY <2>3, <3>3
      <4>2. at[j] < at[k]
        BY <1>4, <2>6, <3>1, <4>1, ZenonT(20) DEF ListedAt
      <4>. QED  BY <2>4, <3>1, <4>1, <4>2
    <3>. QED  BY <3>2, <3>3
  <2>7. ASSUME NEW k \in 1 .. n PROVE Listable(air[bt[k]]) /\ Describes(out'[k], air[bt[k]])
    <3>1. CASE k = n
      BY <1>2, <1>3, <1>8, <2>2, <2>4, <3>1
    <3>2. CASE k # n
      <4>1. k \in DOMAIN out
        BY <2>3, <3>2, SMTT(20)
      <4>2. bt[k] = at[k] /\ out'[k] = out[k]
        BY <1>5, <2>2, <2>4, <4>1, ZenonT(20)
      <4>. QED  BY <1>4, <4>1, <4>2, Zenon DEF ListedAt
    <3>. QED  BY <3>1, <3>2
  <2>8. ASSUME NEW j \in 1 .. m + 1, Listable(air[j]) PROVE \E k \in 1 .. n : bt[k] = j
    <3>1. CASE j = m + 1
      BY <2>3, <2>4, <3>1
    <3>2. CASE j # m + 1
      <4>1. j \in 1 .. m /\ ~(Len(out) = OutCap)
        BY <1>1, <1>8, <3>2
      <4>2. PICK k \in DOMAIN out : at[k] = j
        BY <1>4, <2>8, <4>1, Zenon DEF ListedAt
      <4>. QED  BY <2>4, <4>2
    <3>. QED  BY <3>1, <3>2
  <2>9. ListedAt(bt, m + 1)'
    BY <2>2, <2>6, <2>7, <2>8, Zenon DEF ListedAt
  <2>10. Len(out') <= OutCap
    <3>1. L < C /\ n = L + 1
      BY <1>8, <1>9, <2>3, Zenon
    <3>2. n <= C
      BY <1>9, <3>1
    <3>. QED  BY <1>9, <2>2, <3>2, Zenon
  <2>. QED  BY <2>2, <2>4, <2>9, <2>10, Zenon DEF Listed
<1>. QED  BY <1>7, <1>8

\* A hit is not 0: no band has the frequency 0.
LEMMA WantedNotZero ==
    ASSUME NEW k, NEW band, IsWanted(k, band)
    PROVE  air[k].freq # 0
BY DEF IsWanted, InBand, In5, In24

\* One more block is searched.
LEMMA HitStep ==
    ASSUME NEW hit, NEW hit2, NEW band, NEW m \in Nat, FirstHit(hit, band, m),
           hit2 = IF IsWanted(m + 1, band) /\ hit = 0 THEN air[m + 1].freq ELSE hit
    PROVE  FirstHit(hit2, band, m + 1)
<1>1. 1 .. m + 1 = (1 .. m) \cup {m + 1} /\ m + 1 \in 1 .. m + 1
      /\ \A j \in 1 .. (m + 1) - 1 : j \in 1 .. m
  OBVIOUS
<1>2. CASE hit = 0 /\ \A k \in 1 .. m : ~IsWanted(k, band)
  BY <1>1, <1>2, Zenon DEF FirstHit
<1>3. CASE \E k \in 1 .. m : /\ IsWanted(k, band) /\ hit = air[k].freq
                             /\ \A j \in 1 .. k - 1 : ~IsWanted(j, band)
  BY <1>1, <1>3, WantedNotZero, Zenon DEF FirstHit
<1>. QED  BY <1>2, <1>3, Zenon DEF FirstHit

\* The hit at the end of the walk is the first BSS of those wanted.
LEMMA FirstIs ==
    ASSUME NEW hit, NEW band, FirstHit(hit, band, Len(air)), air \in Seq(Bss)
    PROVE  /\ Wanted(band) = {} <=> hit = 0
           /\ Wanted(band) # {} => air[First(Wanted(band))].freq = hit
<1>1. DOMAIN air = 1 .. Len(air)
  OBVIOUS
<1>2. CASE hit = 0 /\ \A k \in 1 .. Len(air) : ~IsWanted(k, band)
  BY <1>1, <1>2, Zenon DEF Wanted
<1>3. CASE \E k \in 1 .. Len(air) : /\ IsWanted(k, band) /\ hit = air[k].freq
                                    /\ \A j \in 1 .. k - 1 : ~IsWanted(j, band)
  <2>1. PICK k \in 1 .. Len(air) : /\ IsWanted(k, band) /\ hit = air[k].freq
                                   /\ \A j \in 1 .. k - 1 : ~IsWanted(j, band)
    BY <1>3
  <2>2. k \in Wanted(band) /\ hit # 0
    BY <1>1, <2>1, WantedNotZero, Zenon DEF Wanted
  <2>3. ASSUME NEW j \in Wanted(band) PROVE k <= j
    <3>1. j \in 1 .. Len(air) /\ j \notin 1 .. k - 1
      BY <1>1, <2>1, <2>3, Zenon DEF Wanted
    <3>. QED  BY <2>1, <3>1
  <2>4. \A x \in Wanted(band) : (\A j \in Wanted(band) : x <= j) => x = k
    <3>. TAKE x \in Wanted(band)
    <3>. HAVE \A j \in Wanted(band) : x <= j
    <3>1. x <= k /\ k <= x
      BY <2>2, <2>3, Zenon
    <3>2. x \in 1 .. Len(air)
      BY <1>1, Zenon DEF Wanted
    <3>. QED  BY <2>1, <3>1, <3>2
  <2>5. First(Wanted(band)) = k
    BY <2>2, <2>3, <2>4, Zenon DEF First
  <2>. QED  BY <2>1, <2>2, <2>5, Zenon
<1>. QED  BY <1>2, <1>3, Zenon DEF FirstHit

\* The line that is read is a header exactly at the beginning of a block.
LEMMA AtHeader ==
    ASSUME Reading, AtLine
    PROVE  air[blk] \in Bss /\ (CurLine.key = "BSS" <=> ln = 1)
<1>1. blk \in 1 .. Len(air) /\ air \in Seq(Bss) /\ ln \in 1 .. 7
  BY DEF Reading, AtLine, BlockLen
<1>2. air[blk] \in Bss
  BY <1>1
<1>3. CASE ln = 1
  <2>1. Block(air[blk])[1] = Line("BSS", 0, {})
    BY <1>2, Lines, Zenon
  <2>. QED  BY <1>2, <1>3, <2>1 DEF CurLine, Line
<1>4. CASE ln # 1
  <2>1. PICK n \in 1 .. 6 : ln = n + 1
    <3>1. ln - 1 \in 1 .. 6 /\ ln = (ln - 1) + 1
      BY <1>1, <1>4, SMTT(20)
    <3>. QED  BY <3>1, Zenon
  <2>. QED  BY <1>2, <1>4, <2>1, KnownNext, Zenon DEF CurLine
<1>. QED  BY <1>3, <1>4

\* The header of the first block commits nothing.
LEMMA NothingCommitted ==
    commit_bss(Cleared) = out
BY DEF commit_bss, Cleared

\* A header, or the end of the text, commits what has been read.
LEMMA HeaderCommits ==
    ASSUME ParseInv, ln = 1, walk = "lines", out' = commit_bss(cur), air' = air,
           NEW m, m = blk - 1
    PROVE  out' \in Seq(Entry) /\ Listed(m)'
<1>1. /\ Reading /\ Listed(Committed) /\ blk \in 1 .. Len(air) + 1 /\ Len(air) \in Nat
      /\ out \in Seq(Entry)
  <2>1. /\ Reading /\ Listed(Committed) /\ blk \in 1 .. Len(air) + 1 /\ air \in Seq(Bss)
        /\ out \in Seq(Entry)
    BY ZenonT(20) DEF ParseInv, Reading
  <2>2. Len(air) \in Nat
    BY <2>1
  <2>. QED  BY <2>1, <2>2, Zenon
<1>2. CASE blk = 1
  <2>1. cur = Cleared /\ Committed = m
    <3>1. cur = Cleared
      <4>1. cur = IF ln > 1 THEN Known(air[blk], ln - 1)
                  ELSE IF blk > 1 THEN Known(air[blk - 1], BlockLen) ELSE Cleared
        BY <1>1, Zenon DEF Reading
      <4>2. ~(ln > 1) /\ ~(blk > 1)
        BY <1>2
      <4>. QED  BY <4>1, <4>2, Zenon
    <3>2. Committed = m
      BY <1>2, SMTT(20) DEF Committed
    <3>. QED  BY <3>1, <3>2
  <2>2. out' = out
    BY <2>1, NothingCommitted
  <2>3. Listed(m)
    BY <1>1, <2>1, Zenon
  <2>. QED  BY <1>1, <2>2, <2>3, SMTT(20) DEF Listed, ListedAt
<1>3. CASE blk # 1
  <2>1. PICK p \in Nat : p = blk - 2 /\ p + 1 = m /\ p + 1 <= Len(air)
    BY <1>1, <1>3, SMTT(20)
  <2>2. cur = Known(air[p + 1], BlockLen) /\ Committed = p
    BY <1>1, <1>3, <2>1 DEF Reading, Committed
  <2>3. Listed(p)
    BY <1>1, <2>2, Zenon
  <2>4. out' = commit_bss(Known(air[p + 1], BlockLen))
    BY <2>2, Zenon
  <2>5. out' \in Seq(Entry) /\ Listed(p + 1)'
    BY <1>1, <2>1, <2>3, <2>4, CommitKeeps, Zenon
  <2>. QED  BY <2>1, <2>5, Zenon
<1>. QED  BY <1>2, <1>3, SMTT(20)

\* Each step of the walk keeps the invariant.
LEMMA BssLineKeepsInv ==
    ASSUME ParseInv, BssLine
    PROVE  ParseInv'
<1>1. /\ AtLine /\ ln = 1 /\ walk = "lines" /\ blk \in 1 .. Len(air) /\ air[blk] \in Bss
  <2>1. AtLine /\ Reading /\ CurLine.key = "BSS"
    BY Zenon DEF BssLine, ParseInv
  <2>2. blk \in 1 .. Len(air) + 1 /\ blk <= Len(air) /\ walk = "lines" /\ air \in Seq(Bss)
    BY <2>1, Zenon DEF Reading, AtLine
  <2>3. blk \in 1 .. Len(air)
    BY <2>2
  <2>. QED  BY <2>1, <2>2, <2>3, AtHeader, Zenon
<1>2. /\ out' = commit_bss(cur) /\ cur' = Cleared /\ cur_freq' = 0 /\ ln' = 2 /\ blk' = blk
      /\ UNCHANGED <<air, want, hit_24, hit_5, walk>>
  BY <1>1, SMTT(20) DEF BssLine, NextLine, BlockLen
<1>3. PICK m \in Nat : m = blk - 1
  <2>1. blk - 1 \in Nat
    BY <1>1
  <2>. QED  BY <2>1, Zenon
<1>4. out' \in Seq(Entry) /\ Listed(m)'
  BY <1>1, <1>2, <1>3, HeaderCommits
<1>5. Committed' = m /\ Searched = m /\ Searched' = m
  BY <1>1, <1>2, <1>3, SMTT(20) DEF Committed, Searched
<1>6. Reading'
  <2>1. cur' = Known(air[blk], 1)
    BY <1>1, <1>2, KnownFirst
  <2>2. air \in Seq(Bss)
    BY Zenon DEF ParseInv, Reading
  <2>3. air' \in Seq(Bss) /\ air'[blk'] = air[blk] /\ walk' = "lines"
    BY <1>1, <1>2, <2>2, Zenon
  <2>4. /\ ln' \in 1 .. BlockLen /\ ln' > 1 /\ ~(ln' > 2) /\ ln' - 1 = 1
        /\ blk' \in 1 .. Len(air') + 1 /\ ~(blk' > Len(air'))
    <3>1. Len(air) \in Nat /\ Len(air') = Len(air)
      BY <1>2, <2>2
    <3>. QED  BY <1>1, <1>2, <3>1 DEF BlockLen
  <2>. QED  BY <1>2, <1>4, <2>1, <2>3, <2>4, ZenonT(20) DEF Reading
<1>7. Listed(Committed)'
  BY <1>4, <1>5, Zenon DEF Listed, ListedAt
<1>8. want' \notin Escaped => FirstHit(hit_5, "5G", Searched)' /\ FirstHit(hit_24, "2.4G", Searched)'
  BY <1>2, <1>5, ZenonT(20) DEF ParseInv, FirstHit, IsWanted
<1>. QED  BY <1>6, <1>7, <1>8, ZenonT(20) DEF ParseInv

\* (the end of the text)
LEMMA LastLineKeepsInv ==
    ASSUME ParseInv, LastLine
    PROVE  ParseInv'
<1>1. ln = 1 /\ walk = "lines" /\ blk = Len(air) + 1 /\ Len(air) \in Nat
  <2>1. /\ air \in Seq(Bss) /\ blk \in 1 .. Len(air) + 1
        /\ blk > Len(air) => ln = 1
    BY Zenon DEF ParseInv, Reading
  <2>2. walk = "lines" /\ blk > Len(air)
    BY Zenon DEF LastLine
  <2>. QED  BY <2>1, <2>2
<1>2. /\ out' = commit_bss(cur) /\ walk' = "done"
      /\ UNCHANGED <<air, want, blk, ln, cur_freq, hit_24, hit_5>>
  BY DEF LastLine
<1>3. PICK m \in Nat : m = blk - 1
  BY <1>1
<1>4. out' \in Seq(Entry) /\ Listed(m)'
  BY <1>1, <1>2, <1>3, HeaderCommits
<1>5. Committed' = m /\ Searched' = Searched
  BY <1>1, <1>2, <1>3, SMTT(20) DEF Committed, Searched
<1>6. Reading'
  BY <1>1, <1>2, <1>4, ZenonT(20) DEF ParseInv, Reading
<1>7. Listed(Committed)'
  BY <1>4, <1>5, Zenon DEF Listed, ListedAt
<1>8. want' \notin Escaped => FirstHit(hit_5, "5G", Searched)' /\ FirstHit(hit_24, "2.4G", Searched)'
  BY <1>2, <1>5, ZenonT(20) DEF ParseInv, FirstHit, IsWanted
<1>. QED  BY <1>6, <1>7, <1>8, Zenon DEF ParseInv

\* (a line inside a block)
LEMMA FieldLineKeepsInv ==
    ASSUME ParseInv, FieldLine
    PROVE  ParseInv'
<1>1. AtLine /\ Reading /\ ln # 1 /\ air[blk] \in Bss
  BY AtHeader, Zenon DEF FieldLine, ParseInv
<1>2. /\ walk = "lines" /\ blk \in 1 .. Len(air) /\ ln \in 2 .. 7 /\ Len(air) \in Nat
  BY <1>1 DEF Reading, AtLine, BlockLen
<1>3. PICK b \in Bss, n \in 1 .. 6 : b = air[blk] /\ ln = n + 1
  <2>1. ln - 1 \in 1 .. 6 /\ ln = (ln - 1) + 1
    BY <1>2
  <2>. QED  BY <1>1, <2>1, Zenon
<1>4. PICK c, l : c = cur /\ l = CurLine
  BY ZenonT(20)
<1>5. c = Known(b, n) /\ l = Block(b)[n + 1]
      /\ cur_freq = IF ln > 2 THEN b.freq ELSE 0
  BY <1>1, <1>2, <1>3, <1>4 DEF Reading, CurLine
<1>. DEFINE hit == l.key = "SSID" /\ cur_freq # 0 /\ l.val = [esc |-> FALSE, of |-> want]
<1>6. /\ cur' = Learn(c, l)
      /\ cur_freq' = IF l.key = "freq" THEN l.val ELSE cur_freq
      /\ hit_24' = IF hit /\ In24(cur_freq) /\ hit_24 = 0 THEN cur_freq ELSE hit_24
      /\ hit_5' = IF hit /\ In5(cur_freq) /\ hit_5 = 0 THEN cur_freq ELSE hit_5
      /\ NextLine /\ UNCHANGED <<air, want, out, walk>>
  BY <1>4, Zenon DEF FieldLine, SearchLine
<1>. HIDE DEF hit
<1>7. /\ l.key = "SSID" <=> n = 4
      /\ n = 4 => l.val = Printed(b.ssid)
      /\ l.key = "freq" => n = 1 /\ l.val = b.freq
      /\ n = 1 /\ l.key # "freq" => b.freq = 0
      /\ cur' = Known(b, n + 1)
  <2>1. /\ l.key = "SSID" <=> n = 4
        /\ n = 4 => l.val = Printed(b.ssid)
        /\ l.key = "freq" => n = 1 /\ l.val = b.freq
        /\ n = 1 /\ l.key # "freq" => b.freq = 0
    BY <1>5, KnownNext, ZenonT(60)
  <2>2. Known(b, n + 1) = Learn(Known(b, n), Block(b)[n + 1])
    BY Learned, Zenon
  <2>. QED  BY <1>5, <1>6, <2>1, <2>2, Zenon
<1>8. \/ n < 6 /\ ln' = n + 2 /\ blk' = blk
      \/ n = 6 /\ ln' = 1 /\ blk' = blk + 1
  BY <1>3, <1>6 DEF NextLine, BlockLen
<1>9. cur_freq' = b.freq
  <2>1. CASE l.key = "freq"
    BY <1>6, <1>7, <2>1, Zenon
  <2>2. CASE l.key # "freq" /\ n = 1
    <3>1. ~(ln > 2)
      BY <1>3, <2>2
    <3>. QED  BY <1>5, <1>6, <1>7, <2>2, <3>1, Zenon
  <2>3. CASE l.key # "freq" /\ n # 1
    <3>1. ln > 2
      BY <1>3, <2>3
    <3>. QED  BY <1>5, <1>6, <2>3, <3>1, Zenon
  <2>. QED  BY <2>1, <2>2, <2>3
<1>10. Reading'
  <2>0. /\ air' \in Seq(Bss) /\ out' \in Seq(Entry) /\ walk' = "lines"
        /\ air' = air /\ Len(air') = Len(air)
    <3>1. air \in Seq(Bss) /\ out \in Seq(Entry)
      BY <1>1, ZenonT(20) DEF Reading
    <3>. QED  BY <1>2, <1>6, <3>1, ZenonT(20)
  <2>1. CASE n < 6 /\ ln' = n + 2 /\ blk' = blk
    <3>1. ln' - 1 = n + 1 /\ ln' \in 1 .. BlockLen /\ ln' > 1 /\ ln' > 2
      BY <1>3, <2>1, SMTT(20) DEF BlockLen
    <3>2. blk' \in 1 .. Len(air') + 1 /\ ~(blk' > Len(air'))
      BY <1>2, <2>0, <2>1, SMTT(20)
    <3>3. air'[blk'] = b
      BY <1>3, <2>0, <2>1, Zenon
    <3>4. cur' = Known(air'[blk'], ln' - 1) /\ cur_freq' = air'[blk'].freq
      BY <1>7, <1>9, <3>1, <3>3, ZenonT(20)
    <3>. QED  BY <2>0, <3>1, <3>2, <3>4, ZenonT(20) DEF Reading
  <2>2. CASE n = 6 /\ ln' = 1 /\ blk' = blk + 1
    <3>1. n + 1 = BlockLen /\ ln' \in 1 .. BlockLen /\ ~(ln' > 1)
      BY <2>2, SMTT(20) DEF BlockLen
    <3>2. blk' \in 1 .. Len(air') + 1 /\ blk' > 1 /\ blk' - 1 = blk
      BY <1>2, <2>0, <2>2, SMTT(20)
    <3>3. air'[blk' - 1] = b
      BY <1>3, <2>0, <3>2, Zenon
    <3>4. cur' = Known(air'[blk' - 1], BlockLen)
      BY <1>7, <3>1, <3>3, ZenonT(20)
    <3>. QED  BY <2>0, <2>2, <3>1, <3>2, <3>4, ZenonT(20) DEF Reading
  <2>. QED  BY <1>8, <2>1, <2>2
<1>11. Listed(Committed)'
  <2>1. Committed' = Committed
    BY <1>2, <1>3, <1>6, <1>8 DEF Committed
  <2>2. Listed(Committed) /\ out' = out /\ air' = air
    BY <1>6 DEF ParseInv
  <2>. QED  BY <2>1, <2>2 DEF Listed, ListedAt
<1>12. ASSUME want \notin Escaped
       PROVE  FirstHit(hit_5, "5G", Searched)' /\ FirstHit(hit_24, "2.4G", Searched)'
  <2>1. FirstHit(hit_5, "5G", Searched) /\ FirstHit(hit_24, "2.4G", Searched)
    BY <1>12 DEF ParseInv
  <2>5. PICK h5, h24, g5, g24 :
           h5 = hit_5 /\ h24 = hit_24 /\ g5 = hit_5' /\ g24 = hit_24'
    OBVIOUS
  <2>2. PICK m \in Nat : m = Searched'
    <3>1. Searched' \in Nat
      BY <1>2, <1>3, <1>8 DEF Searched
    <3>. QED  BY <3>1, Zenon
  <2>3. CASE n # 4
    <3>1. Searched' = Searched
      BY <1>2, <1>3, <1>8, <2>3, SMTT(20) DEF Searched
    <3>2. ~hit
      BY <1>7, <2>3 DEF hit
    <3>3. hit_5' = hit_5 /\ hit_24' = hit_24
      BY <1>6, <3>2, Zenon
    <3>. QED  BY <1>6, <2>1, <3>1, <3>3, ZenonT(20) DEF FirstHit, IsWanted
  <2>4. CASE n = 4
    <3>1. PICK p \in Nat : p = Searched /\ p + 1 = blk /\ m = p + 1
      BY <1>2, <1>3, <1>8, <2>2, <2>4 DEF Searched
    <3>2. cur_freq = b.freq
      BY <1>3, <1>5, <2>4
    <3>3. hit <=> b.freq # 0 /\ b.ssid = want
      <4>1. Printed(b.ssid) = [esc |-> FALSE, of |-> want] <=> b.ssid = want
        <5>1. CASE b.ssid = want
          <6>1. (b.ssid \in Escaped) = FALSE
            BY <1>12, <5>1, SMTT(20)
          <6>. QED  BY <5>1, <6>1, Zenon DEF Printed
        <5>2. CASE b.ssid # want
          BY <5>2 DEF Printed
        <5>. QED  BY <5>1, <5>2
      <4>. QED  BY <1>7, <2>4, <3>2, <4>1, Zenon DEF hit
    <3>4. /\ IsWanted(p + 1, "5G") <=> b.ssid = want /\ In5(b.freq)
          /\ IsWanted(p + 1, "2.4G") <=> b.ssid = want /\ In24(b.freq)
          /\ air[p + 1].freq = b.freq
      BY <1>3, <3>1 DEF IsWanted, InBand
    <3>5. ~In5(0) /\ ~In24(0)
      BY DEF In5, In24
    <3>6. /\ g5 = IF IsWanted(p + 1, "5G") /\ h5 = 0 THEN air[p + 1].freq ELSE h5
          /\ g24 = IF IsWanted(p + 1, "2.4G") /\ h24 = 0 THEN air[p + 1].freq ELSE h24
      BY <1>6, <2>5, <3>2, <3>3, <3>4, <3>5, Zenon
    <3>7. FirstHit(h5, "5G", p) /\ FirstHit(h24, "2.4G", p)
      BY <2>1, <2>5, <3>1, Zenon
    <3>8. FirstHit(g5, "5G", m) /\ FirstHit(g24, "2.4G", m)
      BY <3>1, <3>6, <3>7, HitStep, Zenon
    <3>. QED  BY <1>6, <2>2, <2>5, <3>8, ZenonT(20) DEF FirstHit, IsWanted
  <2>. QED  BY <2>3, <2>4
<1>. QED  BY <1>6, <1>10, <1>11, <1>12, Zenon DEF ParseInv

\* ParseInv is an invariant of the walk.
LEMMA ParseStep == ParseInv /\ [ParseNext]_parseVars => ParseInv'
<1>. SUFFICES ASSUME ParseInv, [ParseNext]_parseVars PROVE ParseInv'
  OBVIOUS
<1>1. CASE UNCHANGED parseVars
  <2>1. Reading' <=> Reading
    BY <1>1, ZenonT(20) DEF parseVars, Reading
  <2>2. Committed' = Committed /\ Searched' = Searched
    BY <1>1, SMTT(20) DEF parseVars, Committed, Searched
  <2>3. Listed(Committed)' <=> Listed(Committed)
    BY <1>1, <2>2 DEF parseVars, Listed, ListedAt
  <2>4. /\ FirstHit(hit_5, "5G", Searched)' <=> FirstHit(hit_5, "5G", Searched)
        /\ FirstHit(hit_24, "2.4G", Searched)' <=> FirstHit(hit_24, "2.4G", Searched)
    BY <1>1, <2>2, Zenon DEF parseVars, FirstHit, IsWanted
  <2>. QED  BY <1>1, <2>1, <2>3, <2>4, ZenonT(20) DEF parseVars, ParseInv
<1>. QED  BY <1>1, BssLineKeepsInv, FieldLineKeepsInv, LastLineKeepsInv, Zenon DEF ParseNext

\* (at the start)
LEMMA ParseStart == ParseInit => ParseInv
<1>. SUFFICES ASSUME ParseInit PROVE ParseInv
  OBVIOUS
<1>1. air \in Seq(Bss) /\ Len(air) \in Nat
  BY DEF ParseInit
<1>2. /\ blk = 1 /\ ln = 1 /\ cur = Cleared /\ out = <<>> /\ hit_24 = 0 /\ hit_5 = 0
      /\ walk = "lines"
  BY DEF ParseInit
<1>3. Reading
  BY <1>1, <1>2 DEF Reading, BlockLen
<1>4. Committed = 0 /\ Searched = 0
  BY <1>2 DEF Committed, Searched
<1>5. Listed(0)
  <2>1. Len(out) = 0 /\ DOMAIN out = {} /\ 0 <= OutCap
    BY <1>2, AirAssumption
  <2>2. PICK at : at \in [{} -> 1 .. 0]
    <3>1. [x \in {} |-> x] \in [{} -> 1 .. 0]
      OBVIOUS
    <3>. QED  BY <3>1, Zenon
  <2>3. ListedAt(at, 0)
    BY <2>1 DEF ListedAt
  <2>. QED  BY <2>1, <2>2, <2>3, Zenon DEF Listed
<1>6. FirstHit(hit_5, "5G", 0) /\ FirstHit(hit_24, "2.4G", 0)
  BY <1>2 DEF FirstHit
<1>. QED  BY <1>3, <1>4, <1>5, <1>6 DEF ParseInv

-----------------------------------------------------------------------------
\* At the end of the walk every block has been committed.
LEMMA ListDone == ParseInv => ListsTheAir
<1>. SUFFICES ASSUME ParseInv, walk = "done" PROVE Listed(Len(air))
  BY Zenon DEF ListsTheAir
<1>1. Committed = Len(air)
  BY DEF ParseInv, Reading, Committed
<1>. QED  BY <1>1, Zenon DEF ParseInv

\* What freq_to_channel accepts, and what write_wpa_config lists of it.
LEMMA ChannelIs ==
    ASSUME NEW f \in Nat, OnChannel(f), NEW band \in {"5G", "2.4G"},
           NEW ch, ch = freq_to_channel(f, band)
    PROVE  /\ ch < 0 <=> ch <= 0
           /\ ~(ch < 0) /\ ch \notin 12 .. 14 => f \in freq_list(band)
<1>1. CASE band = "5G"
  <2>1. CASE f \in 5180 .. 5240
    BY <1>1, <2>1, SMTT(20) DEF OnChannel, freq_to_channel, freq_list
  <2>2. CASE f \in 5745 .. 5825
    BY <1>1, <2>2 DEF OnChannel, freq_to_channel, freq_list
  <2>3. CASE ~(f \in 5180 .. 5240 \cup 5745 .. 5825)
    BY <1>1, <2>3 DEF freq_to_channel
  <2>. QED  BY <2>1, <2>2, <2>3, SMTT(20)
<1>2. CASE band = "2.4G"
  <2>1. CASE f \in 2412 .. 2472
    BY <1>2, <2>1 DEF OnChannel, freq_to_channel, freq_list
  <2>2. CASE ~(f \in 2412 .. 2472)
    BY <1>2, <2>2 DEF freq_to_channel
  <2>. QED  BY <2>1, <2>2, SMTT(20)
<1>. QED  BY <1>1, <1>2, SMTT(20)

\* At the end of the walk every block has been searched.
LEMMA TargetDone == ParseInv => FindsTarget
<1>. SUFFICES ASSUME ParseInv, walk = "done", want \notin Escaped PROVE FindsTarget
  BY ZenonT(20) DEF FindsTarget
<1>1. Searched = Len(air) /\ air \in Seq(Bss)
  BY DEF ParseInv, Reading, Searched
<1>2. FirstHit(hit_5, "5G", Len(air)) /\ FirstHit(hit_24, "2.4G", Len(air))
  BY <1>1 DEF ParseInv
<1>3. PICK band : band = IF Wanted("5G") # {} THEN "5G" ELSE "2.4G"
  OBVIOUS
<1>4. PICK freq : freq = IF hit_5 # 0 THEN hit_5 ELSE hit_24
  OBVIOUS
<1>5. PICK ch : ch = freq_to_channel(freq, band)
  OBVIOUS
<1>6. /\ Wanted("5G") = {} <=> hit_5 = 0
      /\ Wanted("5G") # {} => air[First(Wanted("5G"))].freq = hit_5
      /\ Wanted("2.4G") = {} <=> hit_24 = 0
      /\ Wanted("2.4G") # {} => air[First(Wanted("2.4G"))].freq = hit_24
  BY <1>1, <1>2, FirstIs, Zenon
<1>7. /\ Wanted(band) = {} <=> freq = 0
      /\ Wanted(band) # {} => air[First(Wanted(band))].freq = freq
      /\ band = IF hit_5 # 0 THEN "5G" ELSE "2.4G"
  BY <1>3, <1>4, <1>6, Zenon
<1>8. scan_target_band = IF freq = 0 \/ ch <= 0 THEN [rc |-> -1]
                         ELSE [rc |-> 0, band |-> band, freq |-> freq]
  BY <1>4, <1>5, <1>7, Zenon DEF scan_target_band
<1>9. CASE Wanted(band) = {}
  BY <1>3, <1>7, <1>8, <1>9, Zenon DEF FindsTarget
<1>10. CASE Wanted(band) # {}
  <2>0. FirstHit(freq, band, Len(air)) /\ freq # 0
    BY <1>2, <1>4, <1>7, <1>10, ZenonT(20)
  <2>1. PICK k \in DOMAIN air : freq = air[k].freq
    BY <1>1, <2>0 DEF FirstHit
  <2>2. freq \in Nat /\ OnChannel(freq) /\ band \in {"5G", "2.4G"}
    BY <1>1, <1>3, <2>1, AirAssumption
  <2>3. /\ ch < 0 <=> ch <= 0
        /\ ~(ch < 0) /\ ch \notin 12 .. 14 => freq \in freq_list(band)
    BY <1>5, <2>2, ChannelIs
  <2>. QED  BY <1>3, <1>5, <1>7, <1>8, <1>10, <2>3, Zenon DEF FindsTarget
<1>. QED  BY <1>9, <1>10, Zenon

\* For a scan of any number of BSSs, whatever is on the air and whatever size
\* the list has, parse_iw_scan makes the list of the first ones that can be
\* shown, and nothing of a block gets into the entry of another.
THEOREM AlwaysListsTheAir == ParseSpec => []ListsTheAir
BY ParseStart, ParseStep, ListDone, PTL DEF ParseSpec

\* scan_target_band finds the first BSS of the wanted network on the preferred
\* band in every scan, and a channel that write_wpa_config lists (or 12 to 14).
THEOREM AlwaysFindsTarget == ParseSpec => []FindsTarget
BY ParseStart, ParseStep, TargetDone, PTL DEF ParseSpec
=============================================================================
