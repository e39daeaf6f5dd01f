--------------------------- MODULE WifiSwitchProofs ---------------------------
(***************************************************************************)
(* Proofs about WifiSwitch, for any number of callers, networks and        *)
(* failures: the inductive invariant Inv, from it that nobody steps on a   *)
(* join and that the mutex is held exactly inside the switch, and that     *)
(* only a network that was joined is stored.  Each conjunct of Inv has a   *)
(* lemma with a step for every action, or for actions of one kind.         *)
(***************************************************************************)
EXTENDS WifiSwitch, TLAPS

USE ProcAssumption, NetAssumption, BudgetAssumption

\* TypeOK in three parts.
RadioTypes ==
    /\ hostapd \in BOOLEAN /\ assoc \in BOOLEAN /\ ip \in BOOLEAN /\ primed \in BOOLEAN
    /\ wpa \in Networks \cup {None} /\ home \in Networks \cup {None}
    /\ band \in Bands
    /\ ready \in {"none", "STA", "AP"}
    /\ onAir \subseteq Networks
    /\ proven \subseteq Networks

CountTypes == miss \in 0 .. 2 /\ faults \in 0 .. MaxFaults /\ calls \in 0 .. MaxCalls

ThreadTypes ==
    /\ pc \in [Procs -> Labels]
    /\ op \in [Procs -> Ops]
    /\ arg \in [Procs -> Networks \cup {None}]
    /\ req \in [Procs -> Networks \cup {None}]
    /\ apWasUp \in [Procs -> BOOLEAN]
    /\ status \in [Procs -> Statuses]

MutexType == mutex \in Procs \cup {None}

LEMMA TypeParts == TypeOK <=> RadioTypes /\ CountTypes /\ ThreadTypes /\ MutexType
BY Zenon DEF TypeOK, RadioTypes, CountTypes, ThreadTypes, MutexType
-----------------------------------------------------------------------------
(* The parts of the threads' steps keep the types *)

LEMMA GotoTypes ==
    ASSUME ThreadTypes, NEW p \in Procs, NEW l \in Labels, Goto(p, l), UNCHANGED <<local, status>>
    PROVE  ThreadTypes'
BY Zenon DEF ThreadTypes, Goto, local

LEMMA ReturnTypes ==
    ASSUME ThreadTypes, NEW p \in Procs, NEW st \in Statuses, Return(p, st)
    PROVE  ThreadTypes'
<1>1. pc' \in [Procs -> Labels] /\ op' \in [Procs -> Ops] /\ status' \in [Procs -> Statuses]
  BY Zenon DEF ThreadTypes, Return, Goto, Labels, Ops
<1>2. /\ arg' \in [Procs -> Networks \cup {None}]
      /\ req' \in [Procs -> Networks \cup {None}]
  BY Zenon DEF ThreadTypes, Return
<1>3. apWasUp' \in [Procs -> BOOLEAN]
  BY Zenon DEF ThreadTypes, Return
<1>. QED  BY <1>1, <1>2, <1>3, Zenon DEF ThreadTypes

LEMMA ToMonitorTypes ==
    ASSUME ThreadTypes, ToMonitor
    PROVE  ThreadTypes'
BY Zenon DEF ThreadTypes, ToMonitor, Goto, Labels, Ops, Procs

LEMMA NotJoinedTypes ==
    ASSUME ThreadTypes, NEW p \in Procs, NEW st \in Statuses, NotJoined(p, st)
    PROVE  ThreadTypes'
<1>1. CASE op[p] \in {"boot", "mon"} \/ apWasUp[p]
  BY <1>1 DEF ThreadTypes, NotJoined, Goto, Labels, Critical, local
<1>2. CASE ~(op[p] \in {"boot", "mon"} \/ apWasUp[p])
  BY <1>2, ReturnTypes, Zenon DEF NotJoined
<1>. QED  BY <1>1, <1>2, ZenonT(20)

LEMMA JoinedTypes ==
    ASSUME ThreadTypes, NEW p \in Procs, Joined(p)
    PROVE  ThreadTypes'
<1>1. CASE op[p] = "mon"
  BY <1>1, ToMonitorTypes, Zenon DEF Joined
<1>2. CASE op[p] # "mon"
  BY <1>2 DEF ThreadTypes, Joined, Goto, Labels, Statuses, local
<1>. QED  BY <1>1, <1>2, Zenon

LEMMA ApDoneTypes ==
    ASSUME ThreadTypes, NEW p \in Procs, NEW up \in BOOLEAN, ApDone(p, up)
    PROVE  ThreadTypes'
<1>1. CASE p = Sw
  BY <1>1, ToMonitorTypes, Zenon DEF ApDone
<1>2. CASE p # Sw
  <2>1. \E st \in Statuses : Return(p, st)
    BY <1>2, SMTT(20) DEF ApDone, ThreadTypes, Statuses
  <2>. QED  BY <2>1, ReturnTypes, Zenon
<1>. QED  BY <1>1, <1>2, Zenon
-----------------------------------------------------------------------------
(* Type correctness *)

\* The radio and the files.
LEMMA RadioTypesStep ==
    ASSUME Inv, Next
    PROVE  RadioTypes'
<1>. USE TypeParts, ZenonT(60) DEF Inv, RadioTypes, Bands, Shape, Procs, JoinLabels,
                                   StaLabels, Goto, radio, files, local
<1>1. ASSUME NEW p \in Procs, StaKill(p) PROVE RadioTypes'
  BY <1>1 DEF StaKill, NotJoined, Return
<1>2. ASSUME NEW p \in Procs, StaScan(p) PROVE RadioTypes'
  BY <1>2, ZenonT(60) DEF StaScan, NotJoined, Return
<1>3. ASSUME NEW p \in Procs, StaStart(p) PROVE RadioTypes'
  BY <1>3, ZenonT(60) DEF StaStart, NotJoined, Return
<1>4. ASSUME NEW p \in Procs, StaAssoc(p) PROVE RadioTypes'
  BY <1>4, ZenonT(20) DEF StaAssoc, NotJoined, Return
<1>5. ASSUME NEW p \in Procs, StaDhcp(p) PROVE RadioTypes'
  BY <1>5, ZenonT(60) DEF StaDhcp, Joined, ToMonitor, NotJoined, Return
<1>6. ASSUME NEW p \in Procs, EnterAp(p) PROVE RadioTypes'
  BY <1>6 DEF EnterAp
<1>7. ASSUME NEW p \in Procs, ApUp(p) PROVE RadioTypes'
  BY <1>7, ZenonT(60) DEF ApUp, ApDone, ToMonitor, Return
<1>8. ASSUME NEW p \in Procs, RunReady(p) \/ ApReady(p) \/ ScanDone(p) PROVE RadioTypes'
  BY <1>8, ZenonT(60) DEF RunReady, ApReady, ScanDone, Return
<1>9. ASSUME NEW p \in Procs, RunCheck(p) \/ Persist(p) PROVE RadioTypes'
  BY <1>9, ZenonT(60) DEF RunCheck, Persist, Return
<1>10. ASSUME NEW p \in Callers, Busy(p) \/ Scan(p) PROVE RadioTypes'
  BY <1>10, ZenonT(20) DEF Busy, Scan
<1>11. ASSUME NEW p \in Callers, EnsureAp(p) PROVE RadioTypes'
  BY <1>11 DEF EnsureAp, Return
<1>12. ASSUME NEW p \in Callers, NEW n \in Networks \cup {None}, RunNow(p, n) PROVE RadioTypes'
  BY <1>12 DEF RunNow, Return
<1>13. ASSUME BootStep PROVE RadioTypes'
  BY <1>13, ZenonT(20) DEF BootStep, Boot, BootReady, BootLock, BootPlan, BootMark, ToMonitor
<1>14. ASSUME MonCheckAp \/ MonCheckLink \/ MonLock PROVE RadioTypes'
  BY <1>14, ZenonT(60) DEF MonCheckAp, MonCheckLink, MonLock
<1>15. ASSUME MonRecover PROVE RadioTypes'
  BY <1>15, ZenonT(20) DEF MonRecover, ToMonitor
<1>16. ASSUME LinkLost \/ LinkBack \/ HostapdDies \/ \E n \in Networks : RouterOn(n)
       PROVE  RadioTypes'
  BY <1>16, ZenonT(60) DEF LinkLost, LinkBack, HostapdDies, RouterOn
<1>17. ASSUME Restart PROVE RadioTypes'
  BY <1>17 DEF Restart
<1>. HIDE DEF Inv, RadioTypes
<1>. QED  BY <1>1, <1>2, <1>3, <1>4, <1>5, <1>6, <1>7, <1>8, <1>9, <1>10,
             <1>11, <1>12, <1>13, <1>14, <1>15, <1>16, <1>17
          DEF Next, Step, Request, Monitor, Environment

\* The counters: the monitor never counts beyond two misses.
LEMMA CountTypesStep ==
    ASSUME Inv, Next
    PROVE  CountTypes'
<1>. USE TypeParts, SMTT(20) DEF Inv, CountTypes, Shape, Fault, Goto, radio, files, local
<1>1. ASSUME NEW p \in Procs, StaKill(p) PROVE CountTypes'
  BY <1>1 DEF StaKill, NotJoined, Return, budget
<1>2. ASSUME NEW p \in Procs, StaScan(p) PROVE CountTypes'
  BY <1>2 DEF StaScan, NotJoined, Return, budget
<1>3. ASSUME NEW p \in Procs, StaStart(p) PROVE CountTypes'
  BY <1>3 DEF StaStart, NotJoined, Return, budget
<1>4. ASSUME NEW p \in Procs, StaAssoc(p) PROVE CountTypes'
  BY <1>4 DEF StaAssoc, NotJoined, Return, budget
<1>5. ASSUME NEW p \in Procs, StaDhcp(p) PROVE CountTypes'
  BY <1>5 DEF StaDhcp, Joined, ToMonitor, NotJoined, Return, budget
<1>6. ASSUME NEW p \in Procs, EnterAp(p) PROVE CountTypes'
  BY <1>6, Zenon DEF EnterAp, budget
<1>7. ASSUME NEW p \in Procs, ApUp(p) PROVE CountTypes'
  BY <1>7 DEF ApUp, ApDone, ToMonitor, Return, budget
<1>8. ASSUME NEW p \in Procs, RunReady(p) \/ ApReady(p) \/ ScanDone(p) PROVE CountTypes'
  BY <1>8 DEF RunReady, ApReady, ScanDone, Return, budget
<1>9. ASSUME NEW p \in Procs, RunCheck(p) \/ Persist(p) PROVE CountTypes'
  BY <1>9 DEF RunCheck, Persist, Return, budget
<1>10. ASSUME NEW p \in Callers, Busy(p) \/ Scan(p) PROVE CountTypes'
  BY <1>10 DEF Busy, Scan, Call, Callers, Procs
<1>11. ASSUME NEW p \in Callers, EnsureAp(p) PROVE CountTypes'
  BY <1>11 DEF EnsureAp, Return, Call, Callers, Procs
<1>12. ASSUME NEW p \in Callers, NEW n \in Networks \cup {None}, RunNow(p, n) PROVE CountTypes'
  BY <1>12 DEF RunNow, Return, Call, Callers, Procs
<1>13. ASSUME BootStep PROVE CountTypes'
  BY <1>13 DEF BootStep, Boot, BootReady, BootLock, BootPlan, BootMark, ToMonitor, budget
<1>14. ASSUME MonCheckAp \/ MonCheckLink \/ MonLock PROVE CountTypes'
  BY <1>14 DEF MonCheckAp, MonCheckLink, MonLock, budget
<1>15. ASSUME MonRecover PROVE CountTypes'
  BY <1>15, SMTT(20) DEF MonRecover, ToMonitor, budget
<1>16. ASSUME LinkLost \/ LinkBack \/ HostapdDies \/ \E n \in Networks : RouterOn(n)
       PROVE  CountTypes'
  BY <1>16 DEF LinkLost, LinkBack, HostapdDies, RouterOn, budget
<1>17. ASSUME Restart PROVE CountTypes'
  BY <1>17 DEF Restart, budget
<1>. HIDE DEF Inv, CountTypes
<1>. QED  BY <1>1, <1>2, <1>3, <1>4, <1>5, <1>6, <1>7, <1>8, <1>9, <1>10,
             <1>11, <1>12, <1>13, <1>14, <1>15, <1>16, <1>17, Zenon
          DEF Next, Step, Request, Monitor, Environment

\* The threads.
LEMMA ThreadTypesStep ==
    ASSUME Inv, Next
    PROVE  ThreadTypes'
<1>. ThreadTypes /\ RadioTypes
  BY TypeParts, Zenon DEF Inv
<1>1. ASSUME NEW p \in Procs, StaKill(p) PROVE ThreadTypes'
  BY <1>1, GotoTypes, NotJoinedTypes, Zenon DEF StaKill, Labels, Critical, Statuses
<1>2. ASSUME NEW p \in Procs, StaScan(p) PROVE ThreadTypes'
  BY <1>2, GotoTypes, NotJoinedTypes, Zenon DEF StaScan, Labels, Critical, Statuses
<1>3. ASSUME NEW p \in Procs, StaStart(p) PROVE ThreadTypes'
  BY <1>3, GotoTypes, NotJoinedTypes, Zenon DEF StaStart, Labels, Critical, Statuses
<1>4. ASSUME NEW p \in Procs, StaAssoc(p) PROVE ThreadTypes'
  BY <1>4, GotoTypes, NotJoinedTypes, Zenon DEF StaAssoc, Labels, Critical, Statuses
<1>5. ASSUME NEW p \in Procs, StaDhcp(p) PROVE ThreadTypes'
  BY <1>5, JoinedTypes, NotJoinedTypes, Zenon DEF StaDhcp, Statuses
<1>6. ASSUME NEW p \in Procs, EnterAp(p) PROVE ThreadTypes'
  BY <1>6, GotoTypes, Zenon DEF EnterAp, Labels, Critical
<1>7. ASSUME NEW p \in Procs, ApUp(p) PROVE ThreadTypes'
  BY <1>7, GotoTypes, ApDoneTypes, Zenon DEF ApUp, Labels, Critical
<1>8. ASSUME NEW p \in Procs, RunReady(p) \/ ApReady(p) \/ ScanDone(p) PROVE ThreadTypes'
  BY <1>8, GotoTypes, ReturnTypes, Zenon DEF RunReady, ApReady, ScanDone, Labels, Critical, Statuses
<1>9. ASSUME NEW p \in Procs, RunCheck(p) \/ Persist(p) PROVE ThreadTypes'
  <2>1. CASE RunCheck(p)
    BY <2>1, Zenon DEF RunCheck, RadioTypes, ThreadTypes, Goto, Labels, Critical
  <2>2. CASE Persist(p)
    BY <2>2, ReturnTypes, Zenon DEF Persist, Statuses
  <2>. QED  BY <1>9, <2>1, <2>2, Zenon
<1>10. ASSUME NEW p \in Callers, Busy(p) \/ Scan(p) PROVE ThreadTypes'
  BY <1>10 DEF ThreadTypes, Busy, Scan, Goto, Labels, Critical, Ops, Statuses, Procs, local
<1>11. ASSUME NEW p \in Callers, EnsureAp(p) PROVE ThreadTypes'
  <2>1. CASE Return(p, "OK")
    BY <2>1, ReturnTypes, Zenon DEF Procs, Statuses
  <2>2. CASE ~Return(p, "OK")
    BY <1>11, <2>2 DEF ThreadTypes, EnsureAp, Goto, Labels, Critical, Ops, Procs
  <2>. QED  BY <2>1, <2>2, Zenon
<1>12. ASSUME NEW p \in Callers, NEW n \in Networks \cup {None}, RunNow(p, n) PROVE ThreadTypes'
  <2>1. CASE Return(p, "UNKNOWN")
    BY <2>1, ReturnTypes, Zenon DEF Procs, Statuses
  <2>2. CASE ~Return(p, "UNKNOWN")
    BY <1>12, <2>2 DEF ThreadTypes, RadioTypes, RunNow, Goto, Labels, Critical, Ops, Procs
  <2>. QED  BY <2>1, <2>2, Zenon
<1>13. ASSUME BootStep PROVE ThreadTypes'
  <2>1. CASE Boot
    BY <2>1, Zenon DEF ThreadTypes, RadioTypes, Boot, Goto, Labels, Procs
  <2>2. CASE BootReady \/ BootLock \/ BootPlan
    BY <2>2 DEF ThreadTypes, BootReady, BootLock, BootPlan, Goto, Labels, Critical, Procs, local
  <2>3. CASE BootMark
    BY <2>3, ToMonitorTypes, Zenon DEF BootMark
  <2>. QED  BY <1>13, <2>1, <2>2, <2>3, Zenon DEF BootStep
<1>14. ASSUME MonCheckAp \/ MonCheckLink \/ MonLock PROVE ThreadTypes'
  BY <1>14 DEF ThreadTypes, MonCheckAp, MonCheckLink, MonLock, Goto, Labels, Critical, Procs
<1>15. ASSUME MonRecover PROVE ThreadTypes'
  <2>1. CASE ToMonitor
    BY <2>1, ToMonitorTypes, Zenon
  <2>2. CASE ~ToMonitor
    BY <1>15, <2>2 DEF ThreadTypes, RadioTypes, MonRecover, Goto, Labels, Critical, Procs, local
  <2>. QED  BY <2>1, <2>2, Zenon
<1>16. ASSUME LinkLost \/ LinkBack \/ HostapdDies \/ \E n \in Networks : RouterOn(n)
       PROVE  ThreadTypes'
  BY <1>16, Zenon DEF ThreadTypes, LinkLost, LinkBack, HostapdDies, RouterOn, local
<1>17. ASSUME Restart PROVE ThreadTypes'
  BY <1>17, Zenon DEF ThreadTypes, Restart, Labels, Ops, Statuses
<1>. QED  BY <1>1, <1>2, <1>3, <1>4, <1>5, <1>6, <1>7, <1>8, <1>9, <1>10,
             <1>11, <1>12, <1>13, <1>14, <1>15, <1>16, <1>17, Zenon
          DEF Next, Step, Request, Monitor, Environment

\* The mutex is taken by a thread or given back.
LEMMA MutexTypeStep ==
    ASSUME Inv, Next
    PROVE  MutexType'
<1>. USE TypeParts, SMTT(20) DEF Inv, MutexType, Procs, Goto, radio, files, local
<1>1. ASSUME NEW p \in Procs, StaKill(p) PROVE MutexType'
  BY <1>1, Zenon DEF StaKill, NotJoined, Return
<1>2. ASSUME NEW p \in Procs, StaScan(p) PROVE MutexType'
  BY <1>2, Zenon DEF StaScan, NotJoined, Return
<1>3. ASSUME NEW p \in Procs, StaStart(p) PROVE MutexType'
  BY <1>3, Zenon DEF StaStart, NotJoined, Return
<1>4. ASSUME NEW p \in Procs, StaAssoc(p) PROVE MutexType'
  BY <1>4, Zenon DEF StaAssoc, NotJoined, Return
<1>5. ASSUME NEW p \in Procs, StaDhcp(p) PROVE MutexType'
  BY <1>5, Zenon DEF StaDhcp, Joined, ToMonitor, NotJoined, Return
<1>6. ASSUME NEW p \in Procs, EnterAp(p) PROVE MutexType'
  BY <1>6, Zenon DEF EnterAp
<1>7. ASSUME NEW p \in Procs, ApUp(p) PROVE MutexType'
  BY <1>7, Zenon DEF ApUp, ApDone, ToMonitor, Return
<1>8. ASSUME NEW p \in Procs, RunReady(p) \/ ApReady(p) \/ ScanDone(p) PROVE MutexType'
  BY <1>8, Zenon DEF RunReady, ApReady, ScanDone, Return
<1>9. ASSUME NEW p \in Procs, RunCheck(p) \/ Persist(p) PROVE MutexType'
  BY <1>9, Zenon DEF RunCheck, Persist, Return
<1>10. ASSUME NEW p \in Callers, Busy(p) \/ Scan(p) PROVE MutexType'
  BY <1>10, Zenon DEF Busy, Scan
<1>11. ASSUME NEW p \in Callers, EnsureAp(p) PROVE MutexType'
  BY <1>11, Zenon DEF EnsureAp, Return
<1>12. ASSUME NEW p \in Callers, NEW n \in Networks \cup {None}, RunNow(p, n) PROVE MutexType'
  BY <1>12, Zenon DEF RunNow, Return
<1>13. ASSUME BootStep PROVE MutexType'
  BY <1>13, Zenon DEF BootStep, Boot, BootReady, BootLock, BootPlan, BootMark, ToMonitor
<1>14. ASSUME MonCheckAp \/ MonCheckLink \/ MonLock PROVE MutexType'
  BY <1>14, Zenon DEF MonCheckAp, MonCheckLink, MonLock
<1>15. ASSUME MonRecover PROVE MutexType'
  BY <1>15, Zenon DEF MonRecover, ToMonitor
<1>16. ASSUME LinkLost \/ LinkBack \/ HostapdDies \/ \E n \in Networks : RouterOn(n)
       PROVE  MutexType'
  BY <1>16, Zenon DEF LinkLost, LinkBack, HostapdDies, RouterOn
<1>17. ASSUME Restart PROVE MutexType'
  BY <1>17, Zenon DEF Restart
<1>. HIDE DEF Inv, MutexType
<1>. QED  BY <1>1, <1>2, <1>3, <1>4, <1>5, <1>6, <1>7, <1>8, <1>9, <1>10,
             <1>11, <1>12, <1>13, <1>14, <1>15, <1>16, <1>17, Zenon
          DEF Next, Step, Request, Monitor, Environment
-----------------------------------------------------------------------------
(* The conjuncts of the invariant *)

\* Every early return gives the mutex back; only its owner is inside.
LEMMA LockedStep ==
    ASSUME Inv, Next
    PROVE  Locked'
<1>0. /\ Locked /\ Shape /\ mutex \in Procs \cup {None}
      /\ pc \in [Procs -> Labels] /\ op \in [Procs -> Ops]
  BY Zenon DEF Inv, TypeOK
<1>. USE <1>0, SMTT(20) DEF Locked, Procs, Critical, Goto, radio, files, local
<1>1. ASSUME NEW p \in Procs, StaKill(p) PROVE Locked'
  BY <1>1 DEF StaKill, NotJoined, Return
<1>2. ASSUME NEW p \in Procs, StaScan(p) PROVE Locked'
  BY <1>2 DEF StaScan, NotJoined, Return
<1>3. ASSUME NEW p \in Procs, StaStart(p) PROVE Locked'
  BY <1>3 DEF StaStart, NotJoined, Return
<1>4. ASSUME NEW p \in Procs, StaAssoc(p) PROVE Locked'
  BY <1>4 DEF StaAssoc, NotJoined, Return
<1>5. ASSUME NEW p \in Procs, StaDhcp(p) PROVE Locked'
  BY <1>5 DEF StaDhcp, Joined, ToMonitor, NotJoined, Return, Shape, JoinLabels, StaLabels
<1>6. ASSUME NEW p \in Procs, EnterAp(p) PROVE Locked'
  BY <1>6 DEF EnterAp
<1>7. ASSUME NEW p \in Procs, ApUp(p) PROVE Locked'
  BY <1>7 DEF ApUp, ApDone, ToMonitor, Return
<1>8. ASSUME NEW p \in Procs, RunReady(p) \/ ApReady(p) \/ ScanDone(p) PROVE Locked'
  <2>1. CASE RunReady(p)
    BY <2>1 DEF RunReady, Return
  <2>2. CASE ApReady(p)
    BY <2>2 DEF ApReady, Return
  <2>3. CASE ScanDone(p)
    BY <2>3 DEF ScanDone, Return
  <2>. QED  BY <1>8, <2>1, <2>2, <2>3, Zenon
<1>9. ASSUME NEW p \in Procs, RunCheck(p) \/ Persist(p) PROVE Locked'
  BY <1>9 DEF RunCheck, Persist, Return
<1>10. ASSUME NEW p \in Callers, Busy(p) \/ Scan(p) PROVE Locked'
  BY <1>10 DEF Busy, Scan
<1>11. ASSUME NEW p \in Callers, EnsureAp(p) PROVE Locked'
  BY <1>11 DEF EnsureAp, Return
<1>12. ASSUME NEW p \in Callers, NEW n \in Networks \cup {None}, RunNow(p, n) PROVE Locked'
  BY <1>12 DEF RunNow, Return
<1>13. ASSUME BootStep PROVE Locked'
  BY <1>13 DEF BootStep, Boot, BootReady, BootLock, BootPlan, BootMark, ToMonitor
<1>14. ASSUME MonCheckAp \/ MonCheckLink \/ MonLock PROVE Locked'
  BY <1>14 DEF MonCheckAp, MonCheckLink, MonLock
<1>15. ASSUME MonRecover PROVE Locked'
  BY <1>15 DEF MonRecover, ToMonitor
<1>16. ASSUME LinkLost \/ LinkBack \/ HostapdDies \/ \E n \in Networks : RouterOn(n)
       PROVE  Locked'
  BY <1>16, Zenon DEF LinkLost, LinkBack, HostapdDies, RouterOn
<1>17. ASSUME Restart PROVE Locked'
  BY <1>17 DEF Restart
<1>. HIDE <1>0 DEF Locked
<1>. QED  BY <1>1, <1>2, <1>3, <1>4, <1>5, <1>6, <1>7, <1>8, <1>9, <1>10,
             <1>11, <1>12, <1>13, <1>14, <1>15, <1>16, <1>17
          DEF Next, Step, Request, Monitor, Environment

\* Only the mutex's owner touches the daemons, and it has stopped both before it
\* starts one of them.
LEMMA NotSteppedOnStep ==
    ASSUME Inv, Next
    PROVE  NotSteppedOn'
<1>0. /\ Locked /\ NotSteppedOn /\ CleanRadio /\ Shape /\ mutex \in Procs \cup {None}
      /\ hostapd \in BOOLEAN /\ wpa \in Networks \cup {None}
      /\ pc \in [Procs -> Labels] /\ op \in [Procs -> Ops]
      /\ arg \in [Procs -> Networks \cup {None}]
  BY Zenon DEF Inv, TypeOK
<1>. USE <1>0, SMTT(20) DEF Locked, NotSteppedOn, CleanRadio, Critical, Procs, Goto, radio, files,
                            local
<1>1. ASSUME NEW p \in Procs, StaKill(p) PROVE NotSteppedOn'
  BY <1>1 DEF StaKill, NotJoined, Return
<1>2. ASSUME NEW p \in Procs, StaScan(p) PROVE NotSteppedOn'
  BY <1>2 DEF StaScan, NotJoined, Return
<1>3. ASSUME NEW p \in Procs, StaStart(p) PROVE NotSteppedOn'
  BY <1>3 DEF StaStart, NotJoined, Return
<1>4. ASSUME NEW p \in Procs, StaAssoc(p) PROVE NotSteppedOn'
  BY <1>4 DEF StaAssoc, NotJoined, Return
<1>5. ASSUME NEW p \in Procs, StaDhcp(p) PROVE NotSteppedOn'
  BY <1>5 DEF StaDhcp, Joined, ToMonitor, NotJoined, Return
<1>6. ASSUME NEW p \in Procs, EnterAp(p) PROVE NotSteppedOn'
  BY <1>6 DEF EnterAp
<1>7. ASSUME NEW p \in Procs, ApUp(p) PROVE NotSteppedOn'
  BY <1>7, SMTT(20) DEF ApUp, ApDone, ToMonitor, Return
<1>8. ASSUME NEW p \in Procs, RunReady(p) \/ ApReady(p) \/ ScanDone(p) PROVE NotSteppedOn'
  <2>1. CASE RunReady(p)
    BY <2>1 DEF RunReady, Return
  <2>2. CASE ApReady(p)
    BY <2>2 DEF ApReady, Return
  <2>3. CASE ScanDone(p)
    BY <2>3 DEF ScanDone, Return
  <2>. QED  BY <1>8, <2>1, <2>2, <2>3, Zenon
<1>9. ASSUME NEW p \in Procs, RunCheck(p) \/ Persist(p) PROVE NotSteppedOn'
  BY <1>9 DEF RunCheck, Persist, Return
<1>10. ASSUME NEW p \in Callers, Busy(p) \/ Scan(p) PROVE NotSteppedOn'
  BY <1>10 DEF Busy, Scan
<1>11. ASSUME NEW p \in Callers, EnsureAp(p) PROVE NotSteppedOn'
  BY <1>11 DEF EnsureAp, Return
<1>12. ASSUME NEW p \in Callers, NEW n \in Networks \cup {None}, RunNow(p, n) PROVE NotSteppedOn'
  BY <1>12, SMTT(20) DEF RunNow, Return
<1>13. ASSUME BootStep PROVE NotSteppedOn'
  BY <1>13 DEF BootStep, Boot, BootReady, BootLock, BootPlan, BootMark, ToMonitor
<1>14. ASSUME MonCheckAp \/ MonCheckLink \/ MonLock PROVE NotSteppedOn'
  BY <1>14 DEF MonCheckAp, MonCheckLink, MonLock
<1>15. ASSUME MonRecover PROVE NotSteppedOn'
  BY <1>15 DEF MonRecover, ToMonitor
<1>16. ASSUME LinkLost \/ LinkBack \/ HostapdDies \/ \E n \in Networks : RouterOn(n)
       PROVE  NotSteppedOn'
  BY <1>16 DEF LinkLost, LinkBack, HostapdDies, RouterOn
<1>17. ASSUME Restart PROVE NotSteppedOn'
  BY <1>17, Zenon DEF Restart
<1>. HIDE <1>0 DEF NotSteppedOn
<1>. QED  BY <1>1, <1>2, <1>3, <1>4, <1>5, <1>6, <1>7, <1>8, <1>9, <1>10,
             <1>11, <1>12, <1>13, <1>14, <1>15, <1>16, <1>17, ZenonT(20)
          DEF Next, Step, Request, Monitor, Environment

\* Between the kill and the start nobody else starts a daemon.
LEMMA CleanRadioStep ==
    ASSUME Inv, Next
    PROVE  CleanRadio'
<1>0. /\ Locked /\ CleanRadio /\ Shape /\ mutex \in Procs \cup {None}
      /\ hostapd \in BOOLEAN /\ wpa \in Networks \cup {None}
      /\ pc \in [Procs -> Labels] /\ op \in [Procs -> Ops]
  BY Zenon DEF Inv, TypeOK
<1>. USE <1>0, SMTT(20) DEF Locked, CleanRadio, Critical, Procs, Goto, radio, files, local
<1>1. ASSUME NEW p \in Procs, StaKill(p) PROVE CleanRadio'
  BY <1>1, Zenon DEF StaKill, NotJoined, Return
<1>2. ASSUME NEW p \in Procs, StaScan(p) PROVE CleanRadio'
  BY <1>2, ZenonT(20) DEF StaScan, NotJoined, Return
<1>3. ASSUME NEW p \in Procs, StaStart(p) PROVE CleanRadio'
  BY <1>3 DEF StaStart, NotJoined, Return
<1>4. ASSUME NEW p \in Procs, StaAssoc(p) PROVE CleanRadio'
  BY <1>4 DEF StaAssoc, NotJoined, Return
<1>5. ASSUME NEW p \in Procs, StaDhcp(p) PROVE CleanRadio'
  BY <1>5 DEF StaDhcp, Joined, ToMonitor, NotJoined, Return
<1>6. ASSUME NEW p \in Procs, EnterAp(p) PROVE CleanRadio'
  BY <1>6, ZenonT(20) DEF EnterAp
<1>7. ASSUME NEW p \in Procs, ApUp(p) PROVE CleanRadio'
  BY <1>7, SMTT(20) DEF ApUp, ApDone, ToMonitor, Return
<1>8. ASSUME NEW p \in Procs, RunReady(p) \/ ApReady(p) \/ ScanDone(p) PROVE CleanRadio'
  <2>1. CASE RunReady(p)
    BY <2>1 DEF RunReady, Return
  <2>2. CASE ApReady(p)
    BY <2>2 DEF ApReady, Return
  <2>3. CASE ScanDone(p)
    BY <2>3 DEF ScanDone, Return
  <2>. QED  BY <1>8, <2>1, <2>2, <2>3, Zenon
<1>9. ASSUME NEW p \in Procs, RunCheck(p) \/ Persist(p) PROVE CleanRadio'
  BY <1>9 DEF RunCheck, Persist, Return
<1>10. ASSUME NEW p \in Callers, Busy(p) \/ Scan(p) PROVE CleanRadio'
  BY <1>10 DEF Busy, Scan
<1>11. ASSUME NEW p \in Callers, EnsureAp(p) PROVE CleanRadio'
  BY <1>11 DEF EnsureAp, Return
<1>12. ASSUME NEW p \in Callers, NEW n \in Networks \cup {None}, RunNow(p, n) PROVE CleanRadio'
  BY <1>12, SMTT(20) DEF RunNow, Return
<1>13. ASSUME BootStep PROVE CleanRadio'
  BY <1>13 DEF BootStep, Boot, BootReady, BootLock, BootPlan, BootMark, ToMonitor
<1>14. ASSUME MonCheckAp \/ MonCheckLink \/ MonLock PROVE CleanRadio'
  BY <1>14 DEF MonCheckAp, MonCheckLink, MonLock
<1>15. ASSUME MonRecover PROVE CleanRadio'
  BY <1>15, SMTT(20) DEF MonRecover, ToMonitor
<1>16. ASSUME LinkLost \/ LinkBack \/ HostapdDies \/ \E n \in Networks : RouterOn(n)
       PROVE  CleanRadio'
  BY <1>16 DEF LinkLost, LinkBack, HostapdDies, RouterOn
<1>17. ASSUME Restart PROVE CleanRadio'
  BY <1>17, SMTT(20) DEF Restart
<1>. HIDE <1>0 DEF CleanRadio
<1>. QED  BY <1>1, <1>2, <1>3, <1>4, <1>5, <1>6, <1>7, <1>8, <1>9, <1>10,
             <1>11, <1>12, <1>13, <1>14, <1>15, <1>16, <1>17, Zenon
          DEF Next, Step, Request, Monitor, Environment

\* A thread that joins has a network to join, and a worker that goes on to store
\* it has joined it.
LEMMA ShapeStep ==
    ASSUME Inv, Next
    PROVE  Shape'
<1>0. /\ Shape /\ miss \in 0 .. 2 /\ proven \subseteq Networks /\ home \in Networks \cup {None}
      /\ pc \in [Procs -> Labels] /\ op \in [Procs -> Ops]
      /\ arg \in [Procs -> Networks \cup {None}] /\ req \in [Procs -> Networks \cup {None}]
  BY ZenonT(20) DEF Inv, TypeOK
<1>. USE <1>0, SMTT(20) DEF Shape, Procs, StaLabels, JoinLabels, CallerLabels, Goto, radio, files,
                            local
<1>1. ASSUME NEW p \in Procs, StaKill(p) PROVE Shape'
  BY <1>1, SMTT(20) DEF StaKill, NotJoined, Return
<1>2. ASSUME NEW p \in Procs, StaScan(p) PROVE Shape'
  BY <1>2, SMTT(20) DEF StaScan, NotJoined, Return
<1>3. ASSUME NEW p \in Procs, StaStart(p) PROVE Shape'
  BY <1>3, SMTT(20) DEF StaStart, NotJoined, Return
<1>4. ASSUME NEW p \in Procs, StaAssoc(p) PROVE Shape'
  BY <1>4 DEF StaAssoc, NotJoined, Return
<1>5. ASSUME NEW p \in Procs, StaDhcp(p) PROVE Shape'
  BY <1>5, SMTT(20) DEF StaDhcp, Joined, ToMonitor, NotJoined, Return
<1>6. ASSUME NEW p \in Procs, EnterAp(p) PROVE Shape'
  BY <1>6, SMTT(20) DEF EnterAp
<1>7. ASSUME NEW p \in Procs, ApUp(p) PROVE Shape'
  BY <1>7, SMTT(20) DEF ApUp, ApDone, ToMonitor, Return
<1>8. ASSUME NEW p \in Procs, RunReady(p) \/ ApReady(p) \/ ScanDone(p) PROVE Shape'
  <2>1. CASE RunReady(p)
    BY <2>1, SMTT(20) DEF RunReady, Return
  <2>2. CASE ApReady(p)
    BY <2>2, SMTT(20) DEF ApReady, Return
  <2>3. CASE ScanDone(p)
    BY <2>3, SMTT(20) DEF ScanDone, Return
  <2>. QED  BY <1>8, <2>1, <2>2, <2>3, ZenonT(20)
<1>9. ASSUME NEW p \in Procs, RunCheck(p) \/ Persist(p) PROVE Shape'
  BY <1>9, SMTT(20) DEF RunCheck, Persist, Return
<1>10. ASSUME NEW p \in Callers, Busy(p) \/ Scan(p) PROVE Shape'
  BY <1>10, SMTT(20) DEF Busy, Scan
<1>11. ASSUME NEW p \in Callers, EnsureAp(p) PROVE Shape'
  BY <1>11, SMTT(20) DEF EnsureAp, Return
<1>12. ASSUME NEW p \in Callers, NEW n \in Networks \cup {None}, RunNow(p, n) PROVE Shape'
  BY <1>12, SMTT(20) DEF RunNow, Return
<1>13. ASSUME BootStep PROVE Shape'
  <2>1. CASE Boot \/ BootReady
    BY <2>1, SMTT(20) DEF Boot, BootReady
  <2>2. CASE BootLock \/ BootMark
    BY <2>2, SMTT(20) DEF BootLock, BootMark, ToMonitor
  <2>3. CASE BootPlan
    BY <2>3, SMTT(20) DEF BootPlan, ToMonitor
  <2>. QED  BY <1>13, <2>1, <2>2, <2>3, Zenon DEF BootStep
<1>14. ASSUME MonCheckAp \/ MonCheckLink \/ MonLock PROVE Shape'
  <2>1. CASE MonCheckAp
    BY <2>1, SMTT(20) DEF MonCheckAp
  <2>2. CASE MonCheckLink
    BY <2>2, SMTT(20) DEF MonCheckLink, Connected
  <2>3. CASE MonLock
    BY <2>3, SMTT(20) DEF MonLock
  <2>. QED  BY <1>14, <2>1, <2>2, <2>3, Zenon
<1>15. ASSUME MonRecover PROVE Shape'
  BY <1>15, SMTT(20) DEF MonRecover, ToMonitor
<1>16. ASSUME LinkLost \/ LinkBack \/ HostapdDies \/ \E n \in Networks : RouterOn(n)
       PROVE  Shape'
  BY <1>16, SMTT(20) DEF LinkLost, LinkBack, HostapdDies, RouterOn
<1>17. ASSUME Restart PROVE Shape'
  BY <1>17 DEF Restart
<1>. HIDE <1>0 DEF Shape
<1>. QED  BY <1>1, <1>2, <1>3, <1>4, <1>5, <1>6, <1>7, <1>8, <1>9, <1>10,
             <1>11, <1>12, <1>13, <1>14, <1>15, <1>16, <1>17, Zenon
          DEF Next, Step, Request, Monitor, Environment
-----------------------------------------------------------------------------
(* The steps that the action properties are about *)

\* What RestoresAp says of a step.
Restores ==
    \A p \in Callers :
        /\ op[p] = "run_now" /\ apWasUp[p] /\ pc[p] # "idle" /\ pc'[p] = "idle"
        /\ status'[p] \in {"NO_SSID", "BAD_PASSWORD", "CONNECT_FAIL"}
        => hostapd' \/ faults' # faults

\* A failed join that found the AP up goes on to enter_ap_mode; the other early
\* returns with a failure are themselves failures of the board.
LEMMA RestoresApStep ==
    ASSUME Inv, Next
    PROVE  Restores
<1>0. /\ hostapd \in BOOLEAN /\ faults \in 0 .. MaxFaults
      /\ pc \in [Procs -> Labels] /\ op \in [Procs -> Ops]
      /\ status \in [Procs -> Statuses] /\ apWasUp \in [Procs -> BOOLEAN]
  BY Zenon DEF Inv, TypeOK
<1>. USE <1>0, SMTT(20) DEF Procs, Restores, Goto, radio, files, local
<1>1. ASSUME NEW p \in Procs, StaKill(p) PROVE Restores
  BY <1>1, SMTT(20) DEF StaKill, NotJoined, Return, Fault
<1>2. ASSUME NEW p \in Procs, StaScan(p) PROVE Restores
  BY <1>2, SMTT(20) DEF StaScan, NotJoined, Return, Fault
<1>3. ASSUME NEW p \in Procs, StaStart(p) PROVE Restores
  BY <1>3, SMTT(20) DEF StaStart, NotJoined, Return, Fault
<1>4. ASSUME NEW p \in Procs, StaAssoc(p) PROVE Restores
  BY <1>4 DEF StaAssoc, NotJoined, Return, Fault
<1>5. ASSUME NEW p \in Procs, StaDhcp(p) PROVE Restores
  BY <1>5 DEF StaDhcp, Joined, ToMonitor, NotJoined, Return, Fault
<1>6. ASSUME NEW p \in Procs, EnterAp(p) PROVE Restores
  BY <1>6, ZenonT(20) DEF EnterAp
<1>7. ASSUME NEW p \in Procs, ApUp(p) PROVE Restores
  BY <1>7, SMTT(20) DEF ApUp, ApDone, ToMonitor, Return, Fault
<1>8. ASSUME NEW p \in Procs, RunReady(p) \/ ApReady(p) \/ ScanDone(p) PROVE Restores
  <2>1. CASE RunReady(p)
    BY <2>1, SMTT(20) DEF RunReady, Return, Fault
  <2>2. CASE ApReady(p)
    BY <2>2, SMTT(20) DEF ApReady, Return, Fault
  <2>3. CASE ScanDone(p)
    BY <2>3, SMTT(20) DEF ScanDone, Return, Fault
  <2>. QED  BY <1>8, <2>1, <2>2, <2>3, ZenonT(20)
<1>9. ASSUME NEW p \in Procs, RunCheck(p) \/ Persist(p) PROVE Restores
  <2>1. CASE RunCheck(p)
    BY <2>1, SMTT(20) DEF RunCheck, Return
  <2>2. CASE Persist(p)
    BY <2>2, SMTT(20) DEF Persist, Return
  <2>. QED  BY <1>9, <2>1, <2>2, Zenon
<1>10. ASSUME NEW p \in Callers, Busy(p) \/ Scan(p) PROVE Restores
  BY <1>10, SMTT(20) DEF Busy, Scan
<1>11. ASSUME NEW p \in Callers, EnsureAp(p) PROVE Restores
  BY <1>11, SMTT(20) DEF EnsureAp, Return
<1>12. ASSUME NEW p \in Callers, NEW n \in Networks \cup {None}, RunNow(p, n) PROVE Restores
  BY <1>12, SMTT(20) DEF RunNow, Return
<1>13. ASSUME BootStep PROVE Restores
  <2>1. CASE Boot \/ BootReady
    BY <2>1, SMTT(20) DEF Boot, BootReady
  <2>2. CASE BootLock \/ BootMark
    BY <2>2, SMTT(20) DEF BootLock, BootMark, ToMonitor
  <2>3. CASE BootPlan
    BY <2>3, SMTT(20) DEF BootPlan, ToMonitor
  <2>. QED  BY <1>13, <2>1, <2>2, <2>3, Zenon DEF BootStep
<1>14. ASSUME MonCheckAp \/ MonCheckLink \/ MonLock PROVE Restores
  <2>1. CASE MonCheckAp
    BY <2>1, SMTT(20) DEF MonCheckAp
  <2>2. CASE MonCheckLink
    BY <2>2, SMTT(20) DEF MonCheckLink
  <2>3. CASE MonLock
    BY <2>3, SMTT(20) DEF MonLock
  <2>. QED  BY <1>14, <2>1, <2>2, <2>3, Zenon
<1>15. ASSUME MonRecover PROVE Restores
  BY <1>15 DEF MonRecover, ToMonitor
<1>16. ASSUME LinkLost \/ LinkBack \/ HostapdDies \/ \E n \in Networks : RouterOn(n)
       PROVE  Restores
  BY <1>16, Zenon DEF LinkLost, LinkBack, HostapdDies, RouterOn
<1>17. ASSUME Restart PROVE Restores
  BY <1>17, Zenon DEF Restart, Fault
<1>. HIDE <1>0 DEF Restores
<1>. QED  BY <1>1, <1>2, <1>3, <1>4, <1>5, <1>6, <1>7, <1>8, <1>9, <1>10,
             <1>11, <1>12, <1>13, <1>14, <1>15, <1>16, <1>17, Zenon
          DEF Next, Step, Request, Monitor, Environment

\* The credential file is written by wifi_connect_worker alone.
LEMMA HomeFrame ==
    ASSUME Next
    PROVE  UNCHANGED home \/ \E p \in Procs : Persist(p)
BY ZenonT(20)
   DEF Next, Step, Request, Monitor, Environment, BootStep, StaKill, StaScan, StaStart, StaAssoc,
       StaDhcp, EnterAp, ApUp, RunReady, RunCheck, ApReady, ScanDone, Busy, EnsureAp, Scan, RunNow,
       Boot, BootReady, BootLock, BootPlan, BootMark, MonCheckAp, MonCheckLink, MonLock, MonRecover,
       LinkLost, LinkBack, HostapdDies, RouterOn, Restart, files
-----------------------------------------------------------------------------
(* The theorems *)

LEMMA InvInit == Init => Inv
<1>. SUFFICES ASSUME Init PROVE Inv
  OBVIOUS
<1>1. RadioTypes
  BY ZenonT(20) DEF Init, RadioTypes, Bands
<1>2. CountTypes /\ MutexType
  BY DEF Init, CountTypes, MutexType
<1>3. ThreadTypes
  BY Zenon DEF Init, ThreadTypes, Labels, Ops, Statuses
<1>4. Locked /\ NotSteppedOn /\ CleanRadio
  BY Zenon DEF Init, Locked, NotSteppedOn, CleanRadio, Critical, Procs
<1>5. Shape
  BY Zenon DEF Init, Shape, JoinLabels, StaLabels, CallerLabels, Procs
<1>. QED  BY <1>1, <1>2, <1>3, <1>4, <1>5, TypeParts, Zenon DEF Inv

LEMMA InvStep == Inv /\ [Next]_vars => Inv'
<1>1. ASSUME Inv, Next PROVE Inv'
  <2>1. TypeOK'
    BY <1>1, RadioTypesStep, CountTypesStep, ThreadTypesStep, MutexTypeStep, SMTT(20)
       DEF TypeOK, RadioTypes, CountTypes, ThreadTypes, MutexType
  <2>. QED  BY <1>1, <2>1, LockedStep, NotSteppedOnStep, CleanRadioStep, ShapeStep, Zenon DEF Inv
<1>2. ASSUME Inv, UNCHANGED vars PROVE Inv'
  <2>. USE <1>2, ZenonT(20) DEF vars, radio, files, local, budget, Inv
  <2>1. TypeOK'
    BY ZenonT(20) DEF TypeOK
  <2>2. Locked' /\ NotSteppedOn' /\ CleanRadio'
    BY DEF Locked, NotSteppedOn, CleanRadio
  <2>3. Shape'
    BY DEF Shape
  <2>. QED  BY <2>1, <2>2, <2>3
<1>. QED  BY <1>1, <1>2, Zenon

\* The inductive invariant: the mutex's owner is the one thread inside the
\* switch, and it alone starts and stops the daemons (wifi_switch.c:1163-2048).
THEOREM InvAlways == Spec => []Inv
BY InvInit, InvStep, PTL DEF Spec

\* The mutex is held exactly at the labels inside the switch, whichever of its
\* early returns a thread takes (wifi_switch.c:1583-1803).
THEOREM MutexHeldInside == Spec => []Locked
<1>1. Inv => Locked
  BY Zenon DEF Inv
<1>. QED  BY <1>1, InvAlways, PTL

\* "cannot step on each other" (wifi_switch.h:25), for any number of callers,
\* restarts and failures: AP and station never share wlan0, and nobody replaces
\* the supplicant of a thread that waits for its association or its address.
THEOREM NeverSteppedOn == Spec => []NotSteppedOn
<1>1. Inv => NotSteppedOn
  BY Zenon DEF Inv
<1>. QED  BY <1>1, InvAlways, PTL

\* The stored network changes only to one that has been joined
\* (wifi_switch.h:62, proto_dispatch.c:162-191).
THEOREM OnlyProvenIsStored == Spec => OnlyProvenStored
<1>1. ASSUME Inv, [Next]_vars PROVE home' # home => home' \in proven
  <2>1. CASE UNCHANGED home
    BY <2>1, Zenon
  <2>2. ASSUME NEW p \in Procs, Persist(p) PROVE home' # home => home' \in proven
    BY <1>1, <2>2, Zenon DEF Inv, Shape, Persist, Procs
  <2>3. CASE UNCHANGED vars
    BY <2>3, Zenon DEF vars, files
  <2>. QED  BY <1>1, <2>1, <2>2, <2>3, HomeFrame, Zenon
<1>2. Inv /\ [Next]_vars => [home' # home => home' \in proven]_vars
  BY <1>1, Zenon
<1>. QED  BY <1>2, InvAlways, PTL DEF Spec, OnlyProvenStored

\* A call that found the AP up and reports a failed join has brought it up
\* again, unless the board failed at that (wifi_switch.c:1752-1772).
THEOREM ApIsRestored == Spec => RestoresAp
<1>1. Inv /\ [Next]_vars => [Restores]_vars
  BY RestoresApStep, Zenon
<1>2. Spec => [][Restores]_vars
  BY <1>1, InvAlways, PTL DEF Spec
<1>. QED  BY <1>2 DEF RestoresAp, Restores
=============================================================================
