----------------------------- MODULE FilesProofs -----------------------------
(***************************************************************************)
(* Proofs about what the daemon keeps on the disk, one part after the      *)
(* other: the rotation of the log (LogRotate), the threads that write it   *)
(* (LogPrint), the kernel's log (KmsgLog), the home network's credentials  *)
(* (HomeFile) and the time zone (TimeSync).  Each has its inductive        *)
(* invariant.                                                              *)
(***************************************************************************)
EXTENDS LogPrint, KmsgLog, SysStat, HomeFile, TimeSync,
        FiniteSetTheorems, WellFoundedInduction, TLAPS

-----------------------------------------------------------------------------
(* LogRotate *)

\* read_index, NextSlot and the distance of a slot are in range, and the slot
\* that log_init takes next is the farthest one.
LEMMA NextIsFarthest ==
    ASSUME TypeOK
    PROVE  /\ read_index \in 0 .. MAX_SLOTS
           /\ NextSlot \in Slots
           /\ \A s \in Slots : Distance(s) \in 0 .. MAX_SLOTS - 1
           /\ Distance(NextSlot) = MAX_SLOTS - 1
<1>1. read_index \in 0 .. MAX_SLOTS
  BY SlotAssumption DEF TypeOK, read_index
<1> QED
  BY <1>1, SlotAssumption DEF NextSlot, Slots, Distance

\* Before the first boot there is no log.
LEMMA RotateInit == Init => Inv
<1> SUFFICES ASSUME Init PROVE Inv
  OBVIOUS
<1>1. TypeOK
  BY SlotAssumption DEF Init, TypeOK, Slots
<1>2. Ring
  BY Zenon DEF Init, Ring
<1>3. Ahead
  BY Zenon DEF Init, Ahead
<1> QED
  BY <1>1, <1>2, <1>3, Zenon DEF Inv

\* Steps that leave the index file and the logs alone, or remove a log.
LEMMA QuietInv ==
    ASSUME Inv, UNCHANGED <<now_index, later, since>>, file' \in [Slots -> BOOLEAN],
           \A s \in Slots : file'[s] => file[s],
           slot' \in Slots,
           pc' \in {"off", "open", "index", "rename", "run", "stderr"},
           pc' \in {"open", "index", "rename"} => slot' = NextSlot
    PROVE  Inv'
<1>1. TypeOK'
  BY Zenon DEF Inv, TypeOK
<1>2. Ring'
  BY Zenon DEF Inv, Ring, Distance, read_index
<1>3. Ahead'
  BY Zenon DEF Ahead, NextSlot, read_index
<1> QED
  BY <1>1, <1>2, <1>3, Zenon DEF Inv

\* read_index and the next slot.
LEMMA BootInv == ASSUME Inv, Boot PROVE Inv'
  BY QuietInv, NextIsFarthest, Zenon DEF Boot, Inv, TypeOK

\* The oldest log is removed.
LEMMA OpenInv == ASSUME Inv, Open \/ OpenFails PROVE Inv'
<1>1. /\ pc = "open" /\ UNCHANGED <<now_index, slot, later, since>>
      /\ file' = [file EXCEPT ![slot] = FALSE] /\ pc' \in {"index", "stderr"}
  BY Zenon DEF Open, OpenFails
<1>2. /\ file \in [Slots -> BOOLEAN] /\ slot \in Slots /\ slot = NextSlot
  BY <1>1, Zenon DEF Inv, TypeOK, Ahead
<1>3. file' \in [Slots -> BOOLEAN] /\ \A s \in Slots : file'[s] => file[s]
  BY <1>1, <1>2, Zenon
<1> QED
  BY <1>1, <1>2, <1>3, QuietInv, Zenon

\* The temporary file does not matter until it is renamed.
LEMMA WriteTmpInv == ASSUME Inv, WriteTmp \/ Crash PROVE Inv'
<1>1. /\ UNCHANGED <<now_index, file, slot, later, since>>
      /\ (pc = "index" /\ pc' = "rename") \/ pc' = "off"
  BY Zenon DEF WriteTmp, Crash
<1>2. /\ file \in [Slots -> BOOLEAN] /\ slot \in Slots
      /\ pc = "index" => slot = NextSlot
  BY Zenon DEF Inv, TypeOK, Ahead
<1> QED
  BY <1>1, <1>2, QuietInv, Zenon

\* The slot is published: every other slot gets one boot older and one step
\* farther away.
LEMMA RenameInv == ASSUME Inv, Rename PROVE Inv'
<1>1. /\ pc = "rename" /\ now_index' = slot /\ file' = file /\ slot' = slot
      /\ later' = [s \in Slots |-> IF s = slot THEN 0 ELSE UpTo(later[s] + 1, MAX_SLOTS - 1)]
      /\ since' = UpTo(since + 1, MAX_SLOTS) /\ pc' = "banner"
  BY Zenon DEF Rename
<1>2. /\ MAX_SLOTS \in Nat \ {0} /\ slot \in 1 .. MAX_SLOTS /\ slot = NextSlot
      /\ since \in 0 .. MAX_SLOTS /\ later \in [Slots -> 0 .. MAX_SLOTS - 1]
      /\ file \in [Slots -> BOOLEAN]
  BY <1>1, SlotAssumption, Zenon DEF Inv, TypeOK, Ahead, Slots
<1>3. read_index' = slot /\ read_index \in 0 .. MAX_SLOTS
  BY <1>1, <1>2, NextIsFarthest DEF read_index, Inv
<1>4. TypeOK'
  <2>1. later' \in [Slots -> 0 .. MAX_SLOTS - 1]
    BY <1>1, <1>2 DEF UpTo
  <2>2. since' \in 0 .. MAX_SLOTS
    BY <1>1, <1>2 DEF UpTo
  <2>3. now_index' \in 0 .. MAX_SLOTS + 1
    BY <1>1, <1>2
  <2> QED
    BY <1>1, <1>2, <2>1, <2>2, <2>3, Zenon DEF TypeOK, Slots
<1>5. Ring'
  <2> SUFFICES ASSUME NEW s \in Slots, file[s], Distance(s)' < since'
               PROVE  later'[s] >= Distance(s)'
    BY <1>1, Zenon DEF Ring
  <2>1. s \in 1 .. MAX_SLOTS
    BY Zenon DEF Slots
  <2>2. CASE s = slot
    BY <1>1, <1>2, <1>3, <2>2 DEF Distance
  <2>3. CASE s # slot
    <3>1. Distance(s)' = Distance(s) + 1 /\ Distance(s) \in 0 .. MAX_SLOTS - 2
      BY <1>2, <1>3, <2>1, <2>3 DEF Distance, NextSlot
    <3>2. Distance(s) < since
      BY <1>1, <1>2, <3>1 DEF UpTo
    <3>3. later[s] >= Distance(s)
      BY <3>2, Zenon DEF Inv, Ring
    <3>4. later'[s] = UpTo(later[s] + 1, MAX_SLOTS - 1) /\ later[s] \in 0 .. MAX_SLOTS - 1
      BY <1>1, <1>2, <2>3, Zenon
    <3> QED
      BY <1>2, <3>1, <3>3, <3>4 DEF UpTo
  <2> QED
    BY <2>2, <2>3, Zenon
<1>6. Ahead'
  BY <1>1, <1>3, Zenon DEF Ahead
<1> QED
  BY <1>4, <1>5, <1>6, Zenon DEF Inv

\* The index file is spoilt: nothing is known of the order of the slots.
LEMMA SpoiltInv == ASSUME Inv, WriteIndexFails \/ PowerLoss PROVE Inv'
<1>1. /\ now_index' \in {now_index, 0} /\ since' = 0 /\ pc' \in {"banner", "off"}
      /\ UNCHANGED <<file, slot, later>>
  BY Zenon DEF WriteIndexFails, PowerLoss
<1>2. TypeOK'
  BY <1>1, SlotAssumption DEF Inv, TypeOK
<1>3. Ring'
  <2>1. \A s \in Slots : Distance(s)' \in 0 .. MAX_SLOTS - 1
    <3>1. read_index' \in 0 .. MAX_SLOTS
      BY <1>2, SlotAssumption DEF read_index, TypeOK
    <3>2. PICK v \in 0 .. MAX_SLOTS : v = read_index'
      BY Zenon, <3>1
    <3>3. ASSUME NEW s \in 1 .. MAX_SLOTS
          PROVE  (IF s <= v THEN v - s ELSE v - s + MAX_SLOTS) \in 0 .. MAX_SLOTS - 1
      BY SlotAssumption
    <3> QED
      BY Zenon, <3>2, <3>3 DEF Distance, Slots
  <2> QED
    BY <1>1, <2>1, SlotAssumption DEF Ring
<1>4. Ahead'
  BY <1>1, Zenon DEF Ahead
<1> QED
  BY <1>2, <1>3, <1>4, Zenon DEF Inv

\* The first line of a boot makes its slot the newest.
LEMMA BannerInv == ASSUME Inv, Banner PROVE Inv'
<1>1. /\ pc = "banner" /\ file' = [file EXCEPT ![slot] = TRUE]
      /\ later' = [later EXCEPT ![slot] = 0] /\ pc' = "run"
      /\ UNCHANGED <<now_index, slot, since>>
  BY Zenon DEF Banner
<1>2. /\ MAX_SLOTS \in Nat \ {0} /\ slot \in Slots /\ since \in 0 .. MAX_SLOTS
      /\ later \in [Slots -> 0 .. MAX_SLOTS - 1] /\ file \in [Slots -> BOOLEAN]
      /\ since = 0 \/ read_index = slot
  BY <1>1, SlotAssumption, Zenon DEF Inv, TypeOK, Ahead
<1>3. TypeOK'
  <2>1. later' \in [Slots -> 0 .. MAX_SLOTS - 1] /\ file' \in [Slots -> BOOLEAN]
    BY <1>1, <1>2
  <2> QED
    BY <1>1, <2>1, Zenon DEF Inv, TypeOK
<1>4. Ring'
  <2>1. \A s \in Slots : Distance(s)' = Distance(s)
    BY <1>1, Zenon DEF Distance, read_index
  <2> SUFFICES ASSUME NEW s \in Slots, file'[s], Distance(s) < since
               PROVE  later'[s] >= Distance(s)
    BY <1>1, <2>1, Zenon DEF Ring
  <2>2. Distance(s) \in 0 .. MAX_SLOTS - 1
    BY NextIsFarthest, Zenon DEF Inv
  <2>3. CASE s = slot
    <3>1. read_index = s
      BY <1>2, <2>2, <2>3
    <3>2. Distance(s) = 0
      BY <1>2, <2>3, <3>1 DEF Distance, Slots
    <3> QED
      BY <1>1, <1>2, <2>3, <3>2
  <2>4. CASE s # slot
    BY <1>1, <1>2, <2>4, Zenon DEF Inv, Ring
  <2> QED
    BY <2>3, <2>4, Zenon
<1>5. Ahead'
  BY <1>1, Zenon DEF Ahead
<1> QED
  BY <1>3, <1>4, <1>5, Zenon DEF Inv

\* Every step of log_init, and the end of the daemon, preserves the invariant.
LEMMA RotateStep == Inv /\ [Next]_vars => Inv'
<1> SUFFICES ASSUME Inv, [Next]_vars PROVE Inv'
  OBVIOUS
<1>1. CASE UNCHANGED vars
  BY <1>1, Zenon DEF vars, Inv, TypeOK, Ring, Ahead, Distance, NextSlot, read_index
<1> QED
  BY <1>1, BootInv, OpenInv, WriteTmpInv, RenameInv, SpoiltInv, BannerInv, Zenon DEF Next

\* The inductive invariant of the rotation (log_init) holds for every number of
\* slots.
THEOREM InvAlways == Spec => []Inv
  BY RotateInit, RotateStep, PTL DEF Spec

\* log_init removes a log only when MAX_SLOTS - 1 later boots have taken a slot.
THEOREM RecentKept == Spec => KeepsRecent
<1>1. Inv /\ [Next]_vars =>
        [\A s \in Slots :
            file[s] /\ ~file'[s] /\ since = MAX_SLOTS => later[s] = MAX_SLOTS - 1]_vars
  <2> SUFFICES ASSUME Inv, Next, NEW s \in Slots,
                      file[s], ~file'[s], since = MAX_SLOTS
               PROVE  later[s] = MAX_SLOTS - 1
    OBVIOUS
  <2>1. /\ file \in [Slots -> BOOLEAN] /\ slot \in Slots
        /\ later[s] \in 0 .. MAX_SLOTS - 1
    BY Zenon DEF Inv, TypeOK
  <2>2. s = slot /\ pc = "open"
    BY <2>1, Zenon DEF Next, Boot, Open, OpenFails, WriteTmp, Rename, WriteIndexFails,
                Banner, Crash, PowerLoss
  <2>3. Distance(s) = MAX_SLOTS - 1
    BY <2>2, NextIsFarthest, Zenon DEF Inv, Ahead
  <2>4. later[s] >= MAX_SLOTS - 1
    BY <2>3, SlotAssumption DEF Inv, Ring
  <2> QED
    BY <2>1, <2>4, SlotAssumption
<1> QED
  BY <1>1, InvAlways, PTL DEF Spec, KeepsRecent
-----------------------------------------------------------------------------
(* LogPrint *)

\* A slot is opened empty.
LEMMA PrintInit == LogInit => PrintInv
<1> SUFFICES ASSUME LogInit PROVE PrintInv
  OBVIOUS
<1>1. PrintTypeOK
  <2>1. wrote \in [Threads -> 1 .. MaxLine]
    BY LogAssumption DEF LogInit, Idle, NoLine
  <2>2. at \in [Threads -> {"idle", "lock", "write", "count", "unlock"}]
    BY Zenon DEF LogInit, Idle, NoLine
  <2>3. g_written \in Nat /\ size \in Nat /\ markers \in 0 .. 1
    BY DEF LogInit
  <2>4. g_full \in BOOLEAN /\ owner \in Threads \cup {Nobody}
    BY Zenon DEF LogInit
  <2> QED
    BY Zenon, <2>1, <2>2, <2>3, <2>4 DEF PrintTypeOK
<1>2. LockGuards
  BY LogAssumption DEF LogInit, Idle, NoLine, LockGuards
<1>3. SlotBounded
  BY LogAssumption DEF LogInit, Idle, NoLine, SlotBounded
<1> QED
  BY <1>1, <1>2, <1>3, Zenon DEF LogInit, PrintInv, Running

\* A line is formatted outside the lock, on the thread's own stack.
LEMMA FormatInv ==
    ASSUME PrintInv, NEW t \in Threads, Format(t), pc' = "run"
    PROVE  PrintInv'
<1>1. PICK m \in 1 .. MaxLine : wrote' = [wrote EXCEPT ![t] = m]
  BY Zenon DEF Format
<1>2. /\ at[t] = "idle" /\ at' = [at EXCEPT ![t] = "lock"]
      /\ UNCHANGED <<g_written, g_full, size, markers, owner>>
  BY Zenon DEF Format
<1>3. PrintTypeOK'
  BY <1>1, <1>2, Zenon DEF PrintInv, PrintTypeOK
<1>4. LockGuards'
  BY <1>1, <1>2, Zenon DEF PrintInv, PrintTypeOK, LockGuards
<1> QED
  BY <1>2, <1>3, <1>4, Zenon DEF PrintInv, SlotBounded, Running

\* The lock is free, so no line is between its fputs and its count.
LEMMA LockInv ==
    ASSUME PrintInv, NEW t \in Threads, Lock(t), pc' = "run"
    PROVE  PrintInv'
<1>1. /\ at[t] = "lock" /\ owner = Nobody /\ owner' = t
      /\ at' = [at EXCEPT ![t] = IF g_full THEN "unlock" ELSE "write"]
      /\ UNCHANGED <<g_written, g_full, size, markers, wrote>>
  BY Zenon DEF Lock
<1>2. PrintTypeOK'
  BY <1>1, Zenon DEF PrintInv, PrintTypeOK
<1>3. \A u \in Threads : at[u] \notin {"write", "count", "unlock"}
  BY <1>1, LogAssumption, Zenon DEF PrintInv, LockGuards
<1>4. LockGuards'
  BY <1>1, <1>3, Zenon DEF PrintInv, PrintTypeOK, LockGuards
<1> QED
  BY <1>1, <1>2, <1>4, Zenon DEF PrintInv, SlotBounded, Running

\* A slot that is not full has room for a line, less one byte of the limit.
LEMMA WriteInv ==
    ASSUME PrintInv, NEW t \in Threads, Write(t), pc' = "run"
    PROVE  PrintInv'
<1>1. /\ at[t] = "write" /\ size' = size + wrote[t]
      /\ at' = [at EXCEPT ![t] = "count"]
      /\ UNCHANGED <<g_written, g_full, markers, owner, wrote>>
  BY Zenon DEF Write
<1>2. owner = t /\ ~g_full /\ g_written < PER_SLOT_CAP
  BY <1>1, Zenon DEF PrintInv, LockGuards
<1>3. \A u \in Threads \ {t} : at[u] \notin {"write", "count", "unlock"}
  BY <1>2, Zenon DEF PrintInv, LockGuards
<1>4. size = g_written
  BY <1>1, <1>3, Zenon DEF PrintInv, LockGuards
<1>5. PrintTypeOK'
  BY <1>1, LogAssumption DEF PrintInv, PrintTypeOK
<1>6. LockGuards'
  BY <1>1, <1>2, <1>3, <1>4, Zenon DEF PrintInv, PrintTypeOK, LockGuards
<1>7. wrote[t] \in 1 .. MaxLine
  BY Zenon DEF PrintInv, PrintTypeOK
<1>8. SlotBounded'
  BY <1>1, <1>2, <1>4, <1>7, LogAssumption DEF PrintInv, PrintTypeOK, SlotBounded
<1> QED
  BY <1>5, <1>6, <1>8, Zenon DEF PrintInv, Running

\* The count catches up with the slot, and the line that reaches the limit
\* closes it.
LEMMA CountInv ==
    ASSUME PrintInv, NEW t \in Threads, Count(t), pc' = "run"
    PROVE  PrintInv'
<1>1. /\ at[t] = "count" /\ g_written' = g_written + wrote[t]
      /\ at' = [at EXCEPT ![t] = "unlock"]
      /\ UNCHANGED <<size, owner, wrote>>
  BY Zenon DEF Count
<1>2. owner = t /\ ~g_full /\ markers = 0 /\ size = g_written + wrote[t]
  BY <1>1 DEF PrintInv, PrintTypeOK, LockGuards
<1>3. \A u \in Threads \ {t} : at[u] \notin {"write", "count", "unlock"}
  BY <1>2, Zenon DEF PrintInv, LockGuards
<1>4. \/ g_written' >= PER_SLOT_CAP /\ markers' = 1 /\ g_full' = TRUE
      \/ ~(g_written' >= PER_SLOT_CAP) /\ markers' = 0 /\ g_full' = FALSE
  BY <1>2 DEF Count, PrintInv, PrintTypeOK
<1>5. PrintTypeOK'
  <2>1. g_written' \in Nat
    BY <1>1, LogAssumption DEF PrintInv, PrintTypeOK
  <2>2. markers' \in 0 .. 1
    BY <1>4
  <2>3. g_full' \in BOOLEAN
    BY Zenon, <1>4
  <2>4. at' \in [Threads -> {"idle", "lock", "write", "count", "unlock"}]
    BY <1>1, Zenon DEF PrintInv, PrintTypeOK
  <2> QED
    BY Zenon, <1>1, <2>1, <2>2, <2>3, <2>4 DEF PrintInv, PrintTypeOK
<1>6. g_written' \in Nat /\ g_written' < PER_SLOT_CAP + MaxLine
  BY <1>1, <1>2, <1>5, Zenon DEF PrintInv, PrintTypeOK, SlotBounded
<1>7. \A u \in Threads : at'[u] \notin {"write", "count"}
  BY <1>1, <1>3, Zenon DEF PrintInv, PrintTypeOK
<1>8. \A u \in Threads : at'[u] = "unlock" => owner' = u
  BY <1>1, <1>2, <1>3, ZenonT(20) DEF PrintInv, PrintTypeOK
<1>9. LockGuards'
  BY <1>1, <1>2, <1>4, <1>6, <1>7, <1>8, LogAssumption DEF LockGuards
<1> QED
  BY <1>1, <1>5, <1>9, Zenon DEF PrintInv, SlotBounded, Running

\* funlockfile.
LEMMA UnlockInv ==
    ASSUME PrintInv, NEW t \in Threads, Unlock(t), pc' = "run"
    PROVE  PrintInv'
<1>1. /\ at[t] = "unlock" /\ owner' = Nobody
      /\ at' = [at EXCEPT ![t] = "idle"]
      /\ UNCHANGED <<g_written, g_full, size, markers, wrote>>
  BY Zenon DEF Unlock
<1>2. \A u \in Threads \ {t} : at[u] \notin {"write", "count", "unlock"}
  BY <1>1, Zenon DEF PrintInv, LockGuards
<1>3. PrintTypeOK'
  BY <1>1, Zenon DEF PrintInv, PrintTypeOK
<1>4. LockGuards'
  BY <1>1, <1>2, Zenon DEF PrintInv, PrintTypeOK, LockGuards
<1> QED
  BY <1>1, <1>3, <1>4, Zenon DEF PrintInv, SlotBounded, Running

\* A new process starts with an empty slot.
LEMMA RotateInv ==
    ASSUME Rotate
    PROVE  PrintInv'
<1>1. /\ g_written' = 0 /\ g_full' = FALSE /\ size' = 0 /\ markers' = 0
      /\ owner' = Nobody
      /\ at' = [t \in Threads |-> "idle"] /\ wrote' = [t \in Threads |-> 1]
  BY Zenon DEF Rotate, Idle, NoLine
<1>2. PrintTypeOK'
  <2>1. wrote' \in [Threads -> 1 .. MaxLine]
    BY <1>1, LogAssumption
  <2>2. at' \in [Threads -> {"idle", "lock", "write", "count", "unlock"}]
    BY <1>1, Zenon
  <2>3. g_written' \in Nat /\ size' \in Nat /\ markers' \in 0 .. 1
    BY <1>1
  <2>4. g_full' \in BOOLEAN /\ owner' \in Threads \cup {Nobody}
    BY Zenon, <1>1
  <2> QED
    BY Zenon, <2>1, <2>2, <2>3, <2>4 DEF PrintTypeOK
<1>3. LockGuards'
  BY <1>1, LogAssumption DEF LockGuards
<1>4. SlotBounded'
  BY <1>1, LogAssumption DEF SlotBounded
<1> QED
  BY <1>1, <1>2, <1>3, <1>4, Zenon DEF PrintInv, Running

LEMMA PrintStep == PrintInv /\ [LogNext]_logVars => PrintInv'
<1> SUFFICES ASSUME PrintInv, [LogNext]_logVars PROVE PrintInv'
  OBVIOUS
<1>1. CASE Rotate
  BY <1>1, RotateInv, Zenon
<1>2. CASE pc = "run" /\ (\E t \in Threads : log_print(t)) /\ UNCHANGED vars
  <2>1. pc' = "run"
    BY <1>2, Zenon DEF vars
  <2> QED
    BY <1>2, <2>1, FormatInv, LockInv, WriteInv, CountInv, UnlockInv, ZenonT(20) DEF log_print
<1>3. CASE UNCHANGED logVars
  BY <1>3, Zenon DEF logVars, vars, printVars, PrintInv, PrintTypeOK, LockGuards, SlotBounded, Running
<1> QED
  BY <1>1, <1>2, <1>3, Zenon DEF LogNext

\* The invariant of log_print holds in every boot, for any number of threads.
THEOREM PrintInvAlways == LogSpec => []PrintInv
<1> QED
  BY PrintInit, PrintStep, PTL DEF LogSpec

\* However many threads log, a slot exceeds PER_SLOT_CAP by less than a line.
THEOREM SlotStaysBounded == LogSpec => []SlotBounded
<1>1. PrintInv => SlotBounded
  BY Zenon DEF PrintInv
<1> QED
  BY <1>1, PrintInvAlways, PTL

\* Nothing is written to a slot after the line that says it is full.
THEOREM NothingAfterMarker == LogSpec => MarkerIsLast
<1>1. PrintInv /\ [LogNext]_logVars =>
        [markers = 1 => pc' = "off" \/ (size' = size /\ markers' = 1)]_logVars
  <2> SUFFICES ASSUME PrintInv, LogNext, markers = 1
               PROVE  pc' = "off" \/ (size' = size /\ markers' = 1)
    OBVIOUS
  <2>1. /\ pc = "run"
        /\ \A t \in Threads : at[t] \notin {"write", "count"}
    BY Zenon DEF PrintInv, LockGuards, Running
  <2>2. CASE Rotate
    BY <2>1, <2>2, ZenonT(20) DEF Rotate, Next, Boot, Open, OpenFails, WriteTmp, Rename,
       WriteIndexFails, Banner, Crash, PowerLoss
  <2>3. CASE \E t \in Threads : log_print(t)
    BY <2>1, <2>3, Zenon DEF log_print, Format, Lock, Write, Count, Unlock
  <2> QED
    BY <2>2, <2>3, Zenon DEF LogNext
<1> QED
  BY <1>1, PrintInvAlways, PTL DEF LogSpec, MarkerIsLast

\* With its threads the daemon still rotates as LogRotate says, so what is proved
\* of LogRotate holds of it.
THEOREM RotatesUnderneath == LogSpec => Spec
<1>1. LogInit => Init
  BY Zenon DEF LogInit
<1>2. [LogNext]_logVars => [Next]_vars
  BY Zenon DEF LogNext, Rotate, logVars
<1> QED
  BY <1>1, <1>2, PTL DEF LogSpec, Spec
-----------------------------------------------------------------------------
(* KmsgLog *)

\* The record that is being written is the one read last, and there was room
\* for it; all others in the slot were read before it.
Copying ==
    /\ logged \in Nat /\ next \in Nat \ {0} /\ r \in Nat /\ w \in Nat /\ written \in Nat
    /\ copied \in Seq(Nat \X Nat)
    /\ kat \in {"open", "read", "write", "end"}
    /\ kat = "open" => next = 1 /\ copied = <<>>
    /\ \A k \in DOMAIN copied : copied[k][1] < next
    /\ IF kat = "write"
         THEN /\ r = next - 1 /\ w < RecLen /\ written < KMSG_CAP
              /\ \A k \in DOMAIN copied : copied[k][1] < r
         ELSE r = 0 /\ w = 0

KmsgInv == Copying /\ NothingSkipped

\* A record is put behind the others.
LEMMA AppendRecord ==
    ASSUME NEW S, NEW c \in Seq(S), NEW e \in S
    PROVE  /\ Append(c, e) \in Seq(S)
           /\ DOMAIN c = 1 .. Len(c) /\ Len(c) \in Nat
           /\ DOMAIN Append(c, e) = 1 .. Len(c) + 1
           /\ \A k \in 1 .. Len(c) : Append(c, e)[k] = c[k]
           /\ Append(c, e)[Len(c) + 1] = e
OBVIOUS

LEMMA EndRecordKeeps ==
    ASSUME KmsgInv, kat = "write", NEW b \in 0 .. RecLen, EndRecord(b),
           failed \subseteq failed', r \in failed' \/ b = RecLen
    PROVE  KmsgInv'
<1>. USE KmsgAssumption
<1>1. /\ logged \in Nat /\ next \in Nat \ {0} /\ r \in Nat /\ written \in Nat
      /\ copied \in Seq(Nat \X Nat) /\ r = next - 1 /\ written < KMSG_CAP
      /\ \A k \in DOMAIN copied : copied[k][1] < r
  BY Zenon DEF KmsgInv, Copying
<1>2. /\ copied' = (IF b > 0 THEN Append(copied, <<r, b>>) ELSE copied) /\ written' = written + b
      /\ kat' = "read" /\ r' = 0 /\ w' = 0
      /\ logged' = logged /\ next' = next /\ overrun' = overrun /\ broken' = broken
  BY Zenon DEF EndRecord
<1>3. /\ copied' \in Seq(Nat \X Nat)
      /\ \A k \in DOMAIN copied : k \in DOMAIN copied' /\ copied'[k] = copied[k]
      /\ \A k \in DOMAIN copied' : \/ k \in DOMAIN copied
                                   \/ /\ copied'[k][1] = r /\ copied'[k][2] = b
                                      /\ \A j \in DOMAIN copied' : k < j => FALSE
      /\ b > 0 => \E k \in DOMAIN copied' : copied'[k][1] = r
  <2>1. CASE b > 0
    <3>1. <<r, b>> \in Nat \X Nat /\ <<r, b>>[1] = r /\ <<r, b>>[2] = b
      BY <1>1
    <3>2. copied' = Append(copied, <<r, b>>)
      BY <1>2, <2>1, Zenon
    <3>3. PICK L \in Nat :
             /\ copied' \in Seq(Nat \X Nat) /\ DOMAIN copied = 1 .. L /\ DOMAIN copied' = 1 .. L + 1
             /\ \A k \in 1 .. L : copied'[k] = copied[k]
             /\ copied'[L + 1] = <<r, b>>
      <4>1. PICK c \in Seq(Nat \X Nat), e \in Nat \X Nat : c = copied /\ e = <<r, b>>
        BY <1>1, <3>1, Zenon
      <4>2. /\ Append(c, e) \in Seq(Nat \X Nat) /\ DOMAIN c = 1 .. Len(c) /\ Len(c) \in Nat
            /\ DOMAIN Append(c, e) = 1 .. Len(c) + 1
            /\ \A k \in 1 .. Len(c) : Append(c, e)[k] = c[k]
            /\ Append(c, e)[Len(c) + 1] = e
        BY <4>1, AppendRecord
      <4>3. copied' = Append(c, e)
        BY <3>2, <4>1, Zenon
      <4>. QED  BY <4>1, <4>2, <4>3, ZenonT(20)
    <3>4. ASSUME NEW k \in 1 .. L PROVE k \in 1 .. L + 1
      BY <3>4
    <3>5. ASSUME NEW k \in 1 .. L + 1 PROVE (k \in 1 .. L \/ k = L + 1) /\ ~(L + 1 < k)
      BY <3>5
    <3>6. L + 1 \in 1 .. L + 1
      OBVIOUS
    <3>. QED  BY <3>1, <3>3, <3>4, <3>5, <3>6, ZenonT(20)
  <2>2. CASE ~(b > 0)
    BY <1>1, <1>2, <2>2, Zenon
  <2>. QED  BY <2>1, <2>2, Zenon
<1>5. \A k \in DOMAIN copied' : copied'[k][1] < next
  <2>1. r < next
    BY <1>1
  <2>. QED  BY <1>3, <2>1, Zenon DEF KmsgInv, Copying
<1>6. \A j, k \in DOMAIN copied' : j < k => copied'[j][1] < copied'[k][1]
  <2>. SUFFICES ASSUME NEW j \in DOMAIN copied', NEW k \in DOMAIN copied', j < k
                PROVE  copied'[j][1] < copied'[k][1]
    OBVIOUS
  <2>1. j \in DOMAIN copied /\ copied'[j] = copied[j]
    BY <1>3, Zenon
  <2>2. CASE k \in DOMAIN copied
    <3>1. copied'[k] = copied[k]
      BY <1>3, <2>2, Zenon
    <3>. QED  BY <2>1, <2>2, <3>1, Zenon DEF KmsgInv, NothingSkipped
  <2>3. CASE copied'[k][1] = r
    BY <1>1, <2>1, <2>3, Zenon
  <2>. QED  BY <1>3, <2>2, <2>3, Zenon
<1>7. \A k \in DOMAIN copied' : copied'[k][2] < RecLen => copied'[k][1] \in failed'
  <2>1. ~(RecLen < RecLen)
    OBVIOUS
  <2>. SUFFICES ASSUME NEW k \in DOMAIN copied', copied'[k][2] < RecLen
                PROVE  copied'[k][1] \in failed'
    OBVIOUS
  <2>2. CASE k \in DOMAIN copied
    <3>1. copied'[k] = copied[k]
      BY <1>3, <2>2, Zenon
    <3>. QED  BY <2>2, <3>1, Zenon DEF KmsgInv, NothingSkipped
  <2>3. CASE copied'[k][1] = r /\ copied'[k][2] = b
    BY <2>1, <2>3, Zenon
  <2>. QED  BY <1>3, <2>2, <2>3, Zenon
<1>8. ASSUME NEW m \in 1 .. next - 1
      PROVE  m \in overrun \cup failed' \/ \E k \in DOMAIN copied' : copied'[k][1] = m
  <2>1. CASE m = r
    <3>1. b > 0 \/ r \in failed'
      OBVIOUS
    <3>. QED  BY <1>3, <2>1, <3>1, Zenon
  <2>2. ASSUME NEW k \in DOMAIN copied, copied[k][1] = m
        PROVE  \E l \in DOMAIN copied' : copied'[l][1] = m
    BY <1>3, <2>2, Zenon
  <2>3. ~(written >= KMSG_CAP)
    BY <1>1
  <2>. QED  BY <1>8, <2>1, <2>2, <2>3, ZenonT(20) DEF KmsgInv, NothingSkipped
<1>9. written' + w' < KMSG_CAP + RecLen /\ written' \in Nat
  BY <1>1, <1>2, SMTT(20)
<1>10. NothingSkipped'
  BY <1>2, <1>6, <1>7, <1>8, <1>9, Zenon DEF NothingSkipped
<1>. QED  BY <1>1, <1>2, <1>3, <1>5, <1>9, <1>10, ZenonT(20) DEF KmsgInv, Copying

LEMMA KmsgStep ==
    ASSUME KmsgInv, [KmsgNext]_kmsgVars
    PROVE  KmsgInv'
<1>. USE KmsgAssumption DEF KmsgInv, Copying, NothingSkipped
<1>1. CASE Printk
  BY <1>1 DEF Printk
<1>2. CASE ReadRecord
  <2>0. kat = "read" /\ next' = next + 1 /\ r = 0 /\ w = 0 /\ next <= logged
    BY <1>2 DEF ReadRecord, Oldest
  <2>1. UNCHANGED <<logged, written, copied, overrun, failed, broken>>
    BY <1>2, ZenonT(20) DEF ReadRecord
  <2>2. /\ next \in Nat \ {0}
        /\ \A k \in DOMAIN copied : copied[k][1] \in Nat /\ copied[k][1] < next
    BY SMTT(20)
  <2>3. /\ \A m \in 1 .. next : m \in 1 .. next - 1 \/ m = next
        /\ \A k \in DOMAIN copied : copied[k][1] < next + 1
    <3>. HIDE DEF KmsgInv, Copying, NothingSkipped
    <3>. QED  BY <2>2
  <2>4. next' - 1 = next /\ next' \in Nat \ {0}
    BY <2>0
  <2>5. CASE written >= KMSG_CAP
    <3>1. UNCHANGED <<r, w, kat>>
      BY <1>2, <2>5, Zenon DEF ReadRecord
    <3>2. Copying'
      BY <2>0, <2>1, <2>3, <2>4, <3>1, Zenon
    <3>3. NothingSkipped'
      BY <2>0, <2>1, <2>2, <2>3, <2>4, <2>5, <3>1, ZenonT(20)
    <3>. QED  BY <3>2, <3>3, Zenon
  <2>6. CASE ~(written >= KMSG_CAP)
    <3>1. r' = next /\ w' = 0 /\ kat' = "write"
      BY <1>2, <2>6, Zenon DEF ReadRecord
    <3>2. written < KMSG_CAP /\ 0 < RecLen /\ written + 0 < KMSG_CAP + RecLen
      BY <2>6
    <3>3. Copying'
      BY <2>0, <2>1, <2>3, <2>4, <3>1, <3>2, Zenon
    <3>4. \A m \in 1 .. next' - 1 :
             \/ m \in overrun \cup failed \/ m = next \/ (\E k \in DOMAIN copied : copied[k][1] = m)
      <4>1. \A m \in 1 .. next - 1 : m # r
        BY <2>0
      <4>. QED  BY <2>3, <2>4, <2>6, <4>1, ZenonT(20)
    <3>. QED  BY <2>0, <2>1, <3>1, <3>2, <3>3, <3>4, Zenon
  <2>. QED  BY <2>5, <2>6, ZenonT(20)
<1>3. CASE ReadOverrun
  <2>0. /\ kat = "read" /\ r = 0 /\ next' \in Nat \ {0} /\ next < next'
        /\ overrun' = overrun \cup (next .. next' - 1)
    BY <1>3, SMTT(20) DEF ReadOverrun, Oldest
  <2>1. UNCHANGED <<logged, r, w, written, kat, copied, failed, broken>>
    BY <1>3, Zenon DEF ReadOverrun
  <2>2. /\ next \in Nat \ {0}
        /\ \A k \in DOMAIN copied : copied[k][1] \in Nat /\ copied[k][1] < next
    BY SMTT(20)
  <2>3. /\ \A m \in 1 .. next' - 1 : m \in 1 .. next - 1 \/ m \in next .. next' - 1
        /\ \A k \in DOMAIN copied : copied[k][1] < next'
    <3>. HIDE DEF KmsgInv, Copying, NothingSkipped
    <3>. QED  BY <2>0, <2>2
  <2>. QED  BY <2>0, <2>1, <2>2, <2>3, ZenonT(20)
<1>4. CASE ReadFails \/ CannotOpen
  BY <1>4, Zenon DEF ReadFails, CannotOpen
<1>5. CASE WriteSome
  <2>1. PICK b \in 1 .. RecLen - w :
          IF w + b < RecLen
          THEN /\ w' = w + b
               /\ UNCHANGED <<logged, next, r, written, kat, copied, overrun, failed, broken>>
          ELSE EndRecord(RecLen) /\ failed' = failed
    BY <1>5, ZenonT(20) DEF WriteSome
  <2>2. CASE w + b < RecLen
    BY <1>5, <2>1, <2>2, SMTT(20) DEF WriteSome
  <2>3. CASE ~(w + b < RecLen)
    <3>1. RecLen \in 0 .. RecLen
      OBVIOUS
    <3>2. kat = "write" /\ EndRecord(RecLen) /\ failed \subseteq failed'
      BY <1>5, <2>1, <2>3, Zenon DEF WriteSome
    <3>. HIDE DEF KmsgInv
    <3>. QED  BY <3>1, <3>2, EndRecordKeeps, Zenon
  <2>. QED  BY <2>2, <2>3, Zenon
<1>6. CASE WriteError
  <2>1. w \in 0 .. RecLen
    BY <1>6 DEF WriteError
  <2>2. kat = "write" /\ EndRecord(w) /\ failed \subseteq failed' /\ r \in failed'
    BY <1>6, Zenon DEF WriteError
  <2>. HIDE DEF KmsgInv
  <2>. QED  BY <2>1, <2>2, EndRecordKeeps, Zenon
<1>7. CASE OpenLogs
  <2>1. /\ next' \in Nat \ {0} /\ overrun' = 1 .. next' - 1 /\ kat' = "read"
        /\ UNCHANGED <<logged, r, w, written, copied, failed, broken>>
        /\ kat = "open"
    BY <1>7, SMTT(20) DEF OpenLogs, Oldest
  <2>2. copied = <<>> /\ DOMAIN copied = {} /\ r = 0 /\ w = 0
    BY <2>1
  <2>. QED  BY <2>1, <2>2, ZenonT(20)
<1>8. CASE UNCHANGED kmsgVars
  BY <1>8, Zenon DEF kmsgVars
<1>. HIDE DEF KmsgInv
<1>. QED  BY <1>1, <1>2, <1>3, <1>4, <1>5, <1>6, <1>7, <1>8, ZenonT(20) DEF KmsgNext

\* A kernel record is missing from the slot, or cut short, only if the kernel had
\* overwritten it, a write of it failed or the slot was full, for any ring, record
\* length and limit and however short the writes are (uart_log_thread).
THEOREM NeverSkipped == KmsgSpec => []NothingSkipped
<1>1. KmsgInit => KmsgInv
  BY KmsgAssumption DEF KmsgInit, KmsgInv, Copying, NothingSkipped
<1>2. KmsgInv => NothingSkipped
  BY Zenon DEF KmsgInv
<1>. QED  BY <1>1, <1>2, KmsgStep, PTL DEF KmsgSpec
-----------------------------------------------------------------------------
(* HomeFile.  The argument: whoever leaves atomic_write_file takes the      *)
(* temporary name away with it, so a writer that is alone and finds a file  *)
(* under that name has opened, and truncated, it itself (Alone).  Only such *)
(* a writer renames while spoilt is or becomes FALSE, and what it has open  *)
(* is never the file readers see.                                           *)

LEMMA HomeInitially == HomeInit => HomeInv
BY HomeAssumption, ZenonT(20)
   DEF HomeInit, HomeInv, HomeTypeOK, Alone, Others, Outside, NoFd

LEMMA FopenTmpKeeps ==
    ASSUME HomeInv, NEW u \in Writers, FopenTmp(u) PROVE HomeInv'
<1>. USE HomeAssumption DEF HomeInv, HomeTypeOK, FopenTmp
<1>1. PICK m \in Inodes :
          /\ tmp # 0 => m = tmp
          /\ m # conf /\ m # 0
          /\ tmp' = m
          /\ wfd' = [wfd EXCEPT ![u] = m]
          /\ body' = [body EXCEPT ![m] = Empty]
  BY Zenon
<1>2. HomeTypeOK'
  BY <1>1, Zenon
<1>3. Alone'
  <2>. SUFFICES ASSUME NEW v \in Writers, (Others(v) = {})'
               PROVE  v = u
    BY <1>1, Zenon DEF Alone
  <2>. QED
    BY Zenon DEF Others
<1>4. ~spoilt' => \A v \in Writers : /\ wat'[v] # "out" => v = u
                                     /\ wat'[v] # "out" => Others(v)' = {}
  <2>1. wat' = [wat EXCEPT ![u] = "write"] /\ (~spoilt' => Others(u) = {})
    BY Zenon
  <2>. HIDE DEF FopenTmp
  <2>. QED
    BY <2>1, ZenonT(20) DEF Others
<1>. QED
  BY <1>1, <1>2, <1>3, <1>4

LEMMA FopenFailsKeeps ==
    ASSUME HomeInv, NEW u \in Writers, FopenFails(u) PROVE HomeInv'
<1>. USE DEF HomeInv, HomeTypeOK, FopenFails
<1>1. Alone'
  <2>. SUFFICES ASSUME NEW v \in Writers, (Others(v) = {})'
               PROVE  v = u
    BY Zenon DEF Alone
  <2>. QED
    BY DEF Others
<1>2. ~spoilt' => \A v \in Writers : /\ wat'[v] # "out" => v = u
                                     /\ wat'[v] # "out" => Others(v)' = {}
  BY Zenon DEF Others
<1>. QED
  BY <1>1, <1>2, Zenon

\* A writer that closes its file stays inside, so who is alone stays the same.
LEMMA CloseKeepsOthers ==
    ASSUME HomeInv, NEW u \in Writers, wat[u] # "out",
           NEW l \in {"rename", "unlink"}, wat' = [wat EXCEPT ![u] = l]
    PROVE  \A v \in Writers : Others(v)' = Others(v)
BY ZenonT(20) DEF HomeInv, HomeTypeOK, Others

LEMMA WriteBodyKeeps ==
    ASSUME HomeInv, NEW u \in Writers, WriteBody(u) PROVE HomeInv'
<1>. USE HomeAssumption DEF HomeInv, HomeTypeOK, WriteBody, Close
<1>1. \A v \in Writers : Others(v)' = Others(v)
  BY CloseKeepsOthers, Zenon
<1>2. PICK b \in {u, Torn} : /\ body' = [body EXCEPT ![wfd[u]] = b]
                             /\ body[wfd[u]] = Empty => b = u
  BY Zenon
<1>3. HomeTypeOK'
  BY <1>2, Zenon
<1>4. Alone'
  <2>. SUFFICES ASSUME NEW v \in Writers, Others(v) = {}, tmp # 0
               PROVE  /\ wat'[v] = "write" => wfd'[v] = tmp /\ body'[tmp] = Empty
                      /\ wat'[v] = "rename" => body'[tmp] = v
    BY <1>1, ZenonT(20) DEF Alone
  <2>1. v = u
    BY ZenonT(20) DEF Others
  <2>. QED
    BY <2>1, <1>2, ZenonT(20) DEF Alone
<1>5. ~spoilt => wfd[u] # conf
  OBVIOUS
<1>. QED
  BY <1>1, <1>2, <1>3, <1>4, <1>5, SMTT(20)

LEMMA WriteFailsKeeps ==
    ASSUME HomeInv, NEW u \in Writers, WriteFails(u) PROVE HomeInv'
<1>. USE HomeAssumption DEF HomeInv, HomeTypeOK, WriteFails, Close
<1>1. \A v \in Writers : Others(v)' = Others(v)
  BY CloseKeepsOthers, Zenon
<1>2. PICK b \in {body[wfd[u]], Torn} : body' = [body EXCEPT ![wfd[u]] = b]
  BY Zenon
<1>3. HomeTypeOK'
  BY <1>2, Zenon
<1>4. Alone'
  <2>. SUFFICES ASSUME NEW v \in Writers, Others(v) = {}
               PROVE  v = u
    BY <1>1, ZenonT(20) DEF Alone
  <2>. QED
    BY Zenon DEF Others
<1>5. ~spoilt => wfd[u] # conf
  OBVIOUS
<1>. QED
  BY <1>1, <1>2, <1>3, <1>4, <1>5, SMTT(20)

LEMMA RenameTmpKeeps ==
    ASSUME HomeInv, NEW u \in Writers, RenameTmp(u) PROVE HomeInv'
<1>. USE HomeAssumption DEF HomeInv, HomeTypeOK, RenameTmp
<1>1. CASE tmp = 0
  <2>1. \A v \in Writers : Others(v)' = Others(v)
    BY <1>1, CloseKeepsOthers, Zenon
  <2>. QED
    BY <1>1, <2>1 DEF Alone
<1>2. CASE tmp # 0
  <2>1. ~spoilt' => Others(u) = {}
    BY <1>2, Zenon
  <2>2. ~spoilt' => \A v \in Writers : wat'[v] = "out"
    BY <1>2, <2>1 DEF Others
  <2>3. ~spoilt' => body'[conf'] = u
    BY <1>2, <2>1, Zenon DEF Alone
  <2>. QED
    BY <1>2, <2>2, <2>3, ZenonT(20) DEF Alone
<1>. QED
  BY <1>1, <1>2, ZenonT(20)

LEMMA RenameFailsKeeps ==
    ASSUME HomeInv, NEW u \in Writers, RenameFails(u) PROVE HomeInv'
<1>1. \A v \in Writers : Others(v)' = Others(v)
  BY CloseKeepsOthers, Zenon DEF RenameFails, HomeInv, HomeTypeOK
<1>. QED
  BY <1>1, Zenon DEF HomeInv, HomeTypeOK, Alone, RenameFails

LEMMA UnlinkTmpKeeps ==
    ASSUME HomeInv, NEW u \in Writers, UnlinkTmp(u) PROVE HomeInv'
<1>. USE HomeAssumption DEF HomeInv, HomeTypeOK, UnlinkTmp
<1>1. ~spoilt => \A v \in Writers : wat'[v] = "out"
  BY Zenon DEF Others
<1>. QED
  BY <1>1, Zenon DEF Alone

LEMMA KillDaemonKeeps ==
    ASSUME HomeInv, KillDaemon PROVE HomeInv'
BY Zenon DEF HomeInv, HomeTypeOK, Alone, KillDaemon, Outside, NoFd

LEMMA LosePowerKeeps ==
    ASSUME HomeInv, LosePower PROVE HomeInv'
<1>1. /\ wat' = [u \in Writers |-> "out"] /\ wfd' = [u \in Writers |-> 0] /\ conf' = conf
      /\ tmp' \in {tmp, 0}
      /\ (body' = body /\ spoilt' = spoilt) \/ (body' = [body EXCEPT ![conf] = Empty] /\ spoilt' = TRUE)
  BY Zenon DEF LosePower, Outside, NoFd
<1>2. HomeTypeOK'
  BY <1>1, ZenonT(20) DEF HomeInv, HomeTypeOK
<1>3. tmp' # conf'
  BY <1>1, HomeAssumption, Zenon DEF HomeInv, HomeTypeOK
<1>4. \A u \in Writers : wat'[u] = "out"
  BY <1>1, Zenon
<1>5. ASSUME ~spoilt' PROVE body'[conf'] \in Writers
  <2>1. body' = body /\ spoilt' = spoilt /\ conf' = conf
    BY <1>1, <1>5
  <2>. QED  BY <1>5, <2>1, Zenon DEF HomeInv
<1>. QED
  BY <1>2, <1>3, <1>4, <1>5, Zenon DEF HomeInv, Alone

LEMMA HomeStep ==
    ASSUME HomeInv, [HomeNext]_homeVars PROVE HomeInv'
<1>1. CASE UNCHANGED homeVars
  BY <1>1, ZenonT(20) DEF homeVars, HomeInv, HomeTypeOK, Alone, Others
<1>2. CASE KillDaemon \/ LosePower
  BY <1>2, KillDaemonKeeps, LosePowerKeeps, Zenon
<1>3. ASSUME NEW u \in Writers,
             \/ FopenTmp(u) \/ FopenFails(u) \/ WriteBody(u) \/ WriteFails(u)
             \/ RenameTmp(u) \/ RenameFails(u) \/ UnlinkTmp(u)
      PROVE  HomeInv'
  BY <1>3, FopenTmpKeeps, FopenFailsKeeps, WriteBodyKeeps, WriteFailsKeeps,
     RenameTmpKeeps, RenameFailsKeeps, UnlinkTmpKeeps, SMTT(20)
<1>. QED
  BY <1>1, <1>2, <1>3, Zenon DEF HomeNext

\* Every reachable state of the file, its temporary name and the workers inside
\* atomic_write_file satisfies the invariant.
THEOREM HomeInvAlways == HomeSpec => []HomeInv
<1>. QED
  BY HomeInitially, HomeStep, PTL DEF HomeSpec

\* "a crash mid-write cannot leave an empty file" (wifi_switch.h:61-62), for any
\* number of workers: the file holds one worker's whole text unless two of them
\* have met in atomic_write_file, or it was lost with the power, since a lone one
\* last wrote it.
THEOREM HomeAlwaysWhole == HomeSpec => []HomeWhole
<1>1. HomeInv => HomeWhole
  BY ZenonT(20) DEF HomeInv, HomeWhole
<1>. QED
  BY <1>1, HomeInvAlways, PTL

\* A step changes what a reader finds only by being the rename of a call that
\* returns 0, and to that call's text (atomic_write_file).
LEMMA StepHonest ==
    ASSUME HomeInv, HomeNext
    PROVE  Honest
<1>. SUFFICES ASSUME ~spoilt, ~spoilt'
              PROVE  \/ body'[conf'] = body[conf]
                     \/ \E u \in Writers :
                           wat[u] = "rename" /\ wat'[u] = "out" /\ body'[conf'] = u
  BY ZenonT(20) DEF Honest
<1>. USE HomeAssumption DEF HomeInv, HomeTypeOK
<1>1. ASSUME NEW u \in Writers, FopenTmp(u) PROVE body'[conf'] = body[conf]
  BY <1>1, SMTT(20) DEF FopenTmp
<1>2. ASSUME NEW u \in Writers, WriteBody(u) \/ WriteFails(u)
      PROVE  body'[conf'] = body[conf]
  BY <1>2 DEF WriteBody, WriteFails, Close
<1>3. ASSUME NEW u \in Writers, RenameTmp(u), tmp # 0
      PROVE  wat[u] = "rename" /\ wat'[u] = "out" /\ body'[conf'] = u
  BY <1>3, Zenon DEF RenameTmp, Alone
<1>4. ASSUME NEW u \in Writers,
             FopenFails(u) \/ (RenameTmp(u) /\ tmp = 0) \/ RenameFails(u) \/ UnlinkTmp(u)
      PROVE  body'[conf'] = body[conf]
  BY <1>4, Zenon DEF FopenFails, RenameTmp, RenameFails, UnlinkTmp
<1>5. KillDaemon \/ LosePower => body'[conf'] = body[conf]
  BY Zenon DEF KillDaemon, LosePower
<1>. QED
  BY <1>1, <1>2, <1>3, <1>4, <1>5, ZenonT(20) DEF HomeNext

\* A lone worker that gets -1 from atomic_write_file has left the home file as it
\* was, and one that gets 0 has left its own text there.
THEOREM PersistIsHonest == HomeSpec => PersistHonest
<1>1. HomeInv /\ [HomeNext]_homeVars => [Honest]_homeVars
  BY StepHonest, Zenon
<1>. QED
  BY <1>1, HomeInvAlways, PTL DEF HomeSpec, PersistHonest
-----------------------------------------------------------------------------
(* TimeSync *)

\* What the steps of set_system_timezone have established.
ZoneInv ==
    /\ ZoneIsSet
    /\ tat \in {"unlink", "symlink", "rename", "setenv"} => installed
    /\ tat = "symlink" /\ ~refused => new = NoFile
    /\ tat = "rename" => new = Zone
    /\ tat = "setenv" => localtime = Zone

LEMMA ZoneStep ==
    ASSUME ZoneInv, [TimeNext]_timeVars
    PROVE  ZoneInv'
<1>. USE DEF ZoneInv, ZoneIsSet, TzStep, zoneVars
<1>1. CASE Access \/ UnlinkNew
  BY <1>1 DEF Access, UnlinkNew
<1>2. CASE Symlink
  BY <1>2, Zenon DEF Symlink
<1>3. CASE RenameLink
  BY <1>3, Zenon DEF RenameLink
<1>4. CASE SetEnv
  BY <1>4, ZenonT(20) DEF SetEnv
<1>5. CASE CheckInternet \/ SyncTime \/ WriteRtc
  BY <1>5 DEF CheckInternet, SyncTime, WriteRtc
<1>6. CASE KillTime
  BY <1>6, Zenon DEF KillTime
<1>7. CASE UNCHANGED timeVars
  BY <1>7, ZenonT(20) DEF timeVars
<1>. HIDE DEF ZoneInv
<1>. QED  BY <1>1, <1>2, <1>3, <1>4, <1>5, <1>6, <1>7, ZenonT(20) DEF TimeNext

\* Wherever the daemon is killed, /etc/localtime points at a zone that exists,
\* and what a killed daemon left behind does not stand in the way of the next
\* one (set_system_timezone).
THEOREM ZoneAlwaysSet == TimeSpec => []ZoneIsSet
<1>1. TimeInit => ZoneInv
  BY Zenon DEF TimeInit, ZoneInv, ZoneIsSet
<1>2. ZoneInv => ZoneIsSet
  BY Zenon DEF ZoneInv
<1>. QED  BY <1>1, <1>2, ZoneStep, PTL DEF TimeSpec

-----------------------------------------------------------------------------
(* SysStat: places in a set of numbers *)

LEMMA Least ==
    ASSUME NEW T, T \subseteq Nat, T # {}
    PROVE  \E x \in T : \A y \in T : x <= y
<1>1. PICK x \in T : \A y \in T : ~(<<y, x>> \in OpToRel(<, Nat))
  BY WFMin, NatLessThanWellFounded, Zenon
<1>2. ASSUME NEW y \in T PROVE x <= y
  <2>1. <<y, x>> \in Nat \X Nat /\ <<y, x>>[1] = y /\ <<y, x>>[2] = x /\ y \in Nat /\ x \in Nat
    BY <1>2, Zenon
  <2>2. ~(y < x)
    BY <1>1, <1>2, <2>1, ZenonT(20) DEF OpToRel
  <2>. QED  BY <2>1, <2>2
<1>. QED  BY <1>2, Zenon

\* The elements up to one of them.
Below(S, x) == {y \in S : y <= x}

LEMMA RankOf ==
    ASSUME NEW S, S \subseteq Nat, IsFiniteSet(S), NEW x \in S
    PROVE  /\ IsFiniteSet(Below(S, x)) /\ Cardinality(Below(S, x)) \in 1 .. Cardinality(S)
           /\ \A y \in S : Cardinality(Below(S, y)) = Cardinality(Below(S, x)) => y = x
<1>1. ASSUME NEW y \in S
      PROVE  /\ IsFiniteSet(Below(S, y)) /\ Cardinality(Below(S, y)) \in Nat
             /\ Cardinality(Below(S, y)) <= Cardinality(S)
  <2>1. Below(S, y) \in SUBSET S
    BY Zenon DEF Below
  <2>. QED  BY <2>1, FS_Subset, FS_CardinalityType, Zenon
<1>2. Cardinality(Below(S, x)) # 0
  <2>1. x \in Below(S, x)
    BY DEF Below
  <2>. QED  BY <1>1, <2>1, FS_EmptySet, Zenon
<1>3. ASSUME NEW y \in S, NEW z \in S, y < z PROVE Cardinality(Below(S, y)) # Cardinality(Below(S, z))
  <2>1. Below(S, y) \in SUBSET Below(S, z) /\ z \in Below(S, z) /\ z \notin Below(S, y)
    <3>1. ASSUME NEW e \in S, e <= y PROVE e <= z
      BY <1>3, <3>1
    <3>2. z <= z /\ ~(z <= y)
      BY <1>3
    <3>. QED  BY <3>1, <3>2, Zenon DEF Below
  <2>. QED  BY <1>1, <2>1, FS_Subset, Zenon
<1>4. ASSUME NEW y \in S, Cardinality(Below(S, y)) = Cardinality(Below(S, x)) PROVE y = x
  <2>1. y < x \/ x < y \/ x = y
    OBVIOUS
  <2>. QED  BY <1>3, <1>4, <2>1, Zenon
<1>5. Cardinality(S) \in Nat
  BY FS_CardinalityType, Zenon
<1>. QED  BY <1>1, <1>2, <1>4, <1>5

\* Every place has its element: the ranks of the elements are different
\* numbers up to their number, so that none is left out.
LEMMA NthIs ==
    ASSUME NEW S, S \subseteq Nat, IsFiniteSet(S), NEW k \in 1 .. Cardinality(S)
    PROVE  Nth(S, k) \in S /\ Cardinality(Below(S, Nth(S, k))) = k
<1>. DEFINE N == Cardinality(S)
            f == [x \in S |-> Cardinality(Below(S, x))]
<1>1. N \in Nat
  BY FS_CardinalityType, Zenon
<1>2. ASSUME ~ \E x \in S : Cardinality(Below(S, x)) = k PROVE FALSE
  <2>1. f \in [S -> (1 .. N) \ {k}]
    BY <1>2, RankOf, Zenon
  <2>2. IsFiniteSet(1 .. N) /\ Cardinality(1 .. N) = N
    BY <1>1, FS_Interval
  <2>3. IsFiniteSet((1 .. N) \ {k}) /\ Cardinality((1 .. N) \ {k}) = N - 1
    BY <2>2, FS_RemoveElement, Zenon
  <2>4. \E x, y \in S : x # y /\ f[x] = f[y]
    <3>1. Cardinality((1 .. N) \ {k}) < Cardinality(S)
      BY <1>1, <2>3
    <3>. HIDE DEF f, N
    <3>. QED  BY <2>1, <2>3, <3>1, FS_PigeonHole, Zenon
  <2>. QED  BY <2>4, RankOf, Zenon
<1>. QED  BY <1>2, Zenon DEF Nth, Below

LEMMA NthOf ==
    ASSUME NEW S, S \subseteq Nat, IsFiniteSet(S), NEW x \in S
    PROVE  \E k \in 1 .. Cardinality(S) : Nth(S, k) = x
<1>. DEFINE k == Cardinality(Below(S, x))
<1>1. k \in 1 .. Cardinality(S)
  BY RankOf, Zenon
<1>2. Nth(S, k) \in S /\ Cardinality(Below(S, Nth(S, k))) = k
  <2>. HIDE DEF k
  <2>. QED  BY <1>1, NthIs, Zenon
<1>. QED  BY <1>1, <1>2, RankOf, Zenon
-----------------------------------------------------------------------------
(* SysStat: the samples and the sort *)

Entry == [pid : Pids, dt : 0 .. MaxTicks]

\* The ticks of a process in a sample.
TicksIn(s, pid) ==
    LET places == {k \in DOMAIN s : s[k].pid = pid}
    IN  IF places = {} THEN 0 ELSE s[CHOOSE k \in places : TRUE].ticks

Procs ==
    /\ procs \in [Pids -> -1 .. MaxTicks] /\ used \in [Pids -> Nat]
    /\ base \in [Pids -> {"same", "other", "missed"}]

\* What a process has used since the sample, and while the entries are sorted
\* the sample is the one just taken.
Charged ==
    \A p \in Pids :
        /\ find_prev_ticks(p) \in Nat
        /\ procs[p] = -1 => used[p] = 0
        /\ n = -1 /\ procs[p] >= 0 =>
              /\ base[p] = "same" => procs[p] - find_prev_ticks(p) = used[p]
              /\ base[p] = "other" => procs[p] = used[p]
        /\ n # -1 /\ InSample(prev_procs, p) => find_prev_ticks(p) = procs[p]

\* The entries are of different processes and charged as they should be, and no
\* process is forgotten,
Fair ==
    /\ list \in Seq(Entry)
    /\ \A j, k \in DOMAIN list : list[j].pid = list[k].pid => j = k
    /\ \A k \in DOMAIN list : ChargeIsTrue(list[k])
    /\ \A p \in Pids : WasBusy(p) => InSample(list, p)

\* and the first n are in their place.
Sorted ==
    /\ top \in Seq(Entry) /\ Len(top) = n
    /\ \A k \in 1 .. n : top[k] = list[k]
    /\ \A j, k \in DOMAIN list : j < k /\ j <= n => list[j].dt >= list[k].dt

StatInv ==
    /\ Procs /\ Charged
    /\ n \in -1 .. Want
    /\ n # -1 => Fair /\ Sorted

LEMMA LiveIs ==
    ASSUME Procs
    PROVE  /\ Live \subseteq Pids /\ Live \subseteq Nat /\ IsFiniteSet(Live)
           /\ Sampled \in Nat /\ \A k \in 1 .. Sampled : k \in 1 .. Cardinality(Live)
<1>1. Live \in SUBSET Pids
  BY Zenon DEF Live
<1>2. IsFiniteSet(Live)
  BY <1>1, StatAssumption, FS_Subset, Zenon
<1>3. Cardinality(Live) \in Nat
  BY <1>2, FS_CardinalityType, Zenon
<1>4. Sampled \in Nat /\ Sampled <= Cardinality(Live)
  BY <1>3, StatAssumption DEF Sampled
<1>5. \A k \in 1 .. Sampled : k \in 1 .. Cardinality(Live)
  BY <1>3, <1>4
<1>. QED  BY <1>1, <1>2, <1>4, <1>5, StatAssumption, Zenon

\* A sample has running processes, each at most once.
TrueSample(s) ==
    /\ DOMAIN s = 1 .. Sampled
    /\ \A k \in DOMAIN s : /\ s[k].pid \in Live /\ s[k].ticks = procs[s[k].pid]
                           /\ \A j \in DOMAIN s : s[j].pid = s[k].pid => j = k

LEMMA SampleIs ==
    ASSUME Procs, NEW s, s = sample_all_procs
    PROVE  TrueSample(s)
<1>1. DOMAIN s = 1 .. Sampled
  BY Zenon DEF sample_all_procs
<1>2. ASSUME NEW k \in DOMAIN s
      PROVE  s[k].pid = Nth(Live, k) /\ s[k].ticks = procs[Nth(Live, k)]
  BY <1>2, Zenon DEF sample_all_procs
<1>3. ASSUME NEW k \in DOMAIN s
      PROVE  Nth(Live, k) \in Live /\ Cardinality(Below(Live, Nth(Live, k))) = k
  BY <1>1, <1>3, LiveIs, NthIs, Zenon
<1>. QED  BY <1>1, <1>2, <1>3, ZenonT(20) DEF TrueSample

\* The ticks of a process in a sample are those it has; one that is not in the
\* sample has none there.
LEMMA SampleTicks ==
    ASSUME Procs, NEW s, s = sample_all_procs, NEW p \in Pids
    PROVE  /\ InSample(s, p) => TicksIn(s, p) = procs[p] /\ procs[p] >= 0
           /\ ~InSample(s, p) => TicksIn(s, p) = 0
<1>. DEFINE places == {k \in DOMAIN s : s[k].pid = p}
<1>0. TrueSample(s)
  BY SampleIs, Zenon
<1>1. CASE InSample(s, p)
  <2>2. PICK k \in places : TRUE
    BY <1>1, Zenon DEF InSample
  <2>3. (CHOOSE j \in places : TRUE) \in places
    BY <2>2, Zenon
  <2>4. ASSUME NEW j \in places PROVE s[j].ticks = procs[p] /\ p \in Live
    <3>1. j \in DOMAIN s /\ s[j].pid = p
      BY <2>4, Zenon
    <3>2. s[j].ticks = procs[s[j].pid] /\ s[j].pid \in Live
      BY <1>0, <3>1, Zenon DEF TrueSample
    <3>. QED  BY <3>1, <3>2, Zenon
  <2>5. s[CHOOSE j \in places : TRUE].ticks = procs[p] /\ p \in Live
    <3>. HIDE DEF places
    <3>. QED  BY <2>3, <2>4, Zenon
  <2>. QED  BY <1>1, <2>2, <2>5, Zenon DEF TicksIn, Live
<1>2. CASE ~InSample(s, p)
  <2>1. places = {}
    BY <1>2, Zenon DEF InSample
  <2>. QED  BY <1>2, <2>1, Zenon DEF TicksIn
<1>. QED  BY <1>1, <1>2, Zenon

\* The entries of a period.
LEMMA EntriesAre ==
    ASSUME StatInv, n = -1, NEW l, l = Entries(sample_all_procs)
    PROVE  /\ l \in Seq(Entry)
           /\ \A j, k \in DOMAIN l : l[j].pid = l[k].pid => j = k
           /\ \A k \in DOMAIN l : ChargeIsTrue(l[k])
           /\ \A p \in Pids : InSample(sample_all_procs, p) /\ base[p] = "same" /\ used[p] > 0
                              => InSample(l, p)
<1>. PICK s : s = sample_all_procs
  OBVIOUS
<1>. DEFINE up == {k \in DOMAIN s : s[k].ticks > find_prev_ticks(s[k].pid)}
<1>0. Procs /\ TrueSample(s)
  <2>1. Procs
    BY Zenon DEF StatInv
  <2>. QED  BY <2>1, SampleIs, Zenon
<1>1. up \subseteq Nat /\ IsFiniteSet(up) /\ Cardinality(up) \in Nat
  <2>1. up \in SUBSET (1 .. Sampled) /\ Sampled \in Nat
    BY <1>0, LiveIs, Zenon DEF TrueSample
  <2>2. IsFiniteSet(1 .. Sampled)
    BY <2>1, FS_Interval
  <2>3. IsFiniteSet(up)
    BY <2>1, <2>2, FS_Subset, Zenon
  <2>. HIDE DEF up
  <2>. QED  BY <2>1, <2>3, FS_CardinalityType
<1>2. l = [k \in 1 .. Cardinality(up) |->
             [pid |-> s[Nth(up, k)].pid,
              dt |-> s[Nth(up, k)].ticks - find_prev_ticks(s[Nth(up, k)].pid)]]
  BY Zenon DEF Entries
<1>3. ASSUME NEW k \in 1 .. Cardinality(up)
      PROVE  Nth(up, k) \in up /\ Cardinality(Below(up, Nth(up, k))) = k
  <2>. HIDE DEF up
  <2>. QED  BY <1>1, <1>3, NthIs, Zenon
<1>4. ASSUME NEW x \in up
      PROVE  /\ s[x].pid \in Pids
             /\ s[x].ticks - find_prev_ticks(s[x].pid) \in 0 .. MaxTicks
             /\ base[s[x].pid] = "same" => s[x].ticks - find_prev_ticks(s[x].pid) = used[s[x].pid]
             /\ base[s[x].pid] = "other" => s[x].ticks - find_prev_ticks(s[x].pid) <= used[s[x].pid]
             /\ \A j \in up : s[j].pid = s[x].pid => j = x
  <2>1. x \in DOMAIN s /\ s[x].ticks > find_prev_ticks(s[x].pid)
    BY <1>4, Zenon
  <2>2. /\ s[x].pid \in Live /\ s[x].ticks = procs[s[x].pid]
        /\ \A j \in DOMAIN s : s[j].pid = s[x].pid => j = x
    BY <1>0, <2>1, Zenon DEF TrueSample
  <2>3. PICK p \in Pids : p = s[x].pid /\ procs[p] >= 0
    BY <2>2, Zenon DEF Live
  <2>4. procs[p] \in -1 .. MaxTicks /\ find_prev_ticks(p) \in Nat /\ used[p] \in Nat
    BY <1>0, Zenon DEF StatInv, Charged, Procs
  <2>5. /\ base[p] = "same" => procs[p] - find_prev_ticks(p) = used[p]
        /\ base[p] = "other" => procs[p] = used[p]
    BY <2>3, ZenonT(20) DEF StatInv, Charged
  <2>6. procs[p] - find_prev_ticks(p) \in 0 .. MaxTicks /\ procs[p] - find_prev_ticks(p) <= procs[p]
    BY <2>1, <2>2, <2>3, <2>4, StatAssumption, SMTT(20)
  <2>. QED  BY <2>2, <2>3, <2>5, <2>6, ZenonT(20)
<1>. HIDE DEF up
<1>5. ASSUME NEW k \in DOMAIN l
      PROVE  /\ k \in 1 .. Cardinality(up) /\ Nth(up, k) \in up
             /\ l[k] = [pid |-> s[Nth(up, k)].pid,
                        dt |-> s[Nth(up, k)].ticks - find_prev_ticks(s[Nth(up, k)].pid)]
             /\ l[k].pid = s[Nth(up, k)].pid
             /\ l[k].dt = s[Nth(up, k)].ticks - find_prev_ticks(s[Nth(up, k)].pid)
  BY <1>2, <1>3, <1>5, SMTT(20)
<1>6. l \in Seq(Entry)
  <2>1. \A k \in 1 .. Cardinality(up) : l[k] \in Entry
    <3>. SUFFICES ASSUME NEW k \in 1 .. Cardinality(up) PROVE l[k] \in Entry
      OBVIOUS
    <3>1. k \in DOMAIN l
      BY <1>2, Zenon
    <3>2. PICK a \in Pids, d \in 0 .. MaxTicks : l[k] = [pid |-> a, dt |-> d]
      BY <1>4, <1>5, <3>1, Zenon
    <3>. QED  BY <3>2 DEF Entry
  <2>. QED  BY <1>1, <1>2, <2>1, SMTT(20)
<1>7. ASSUME NEW j \in DOMAIN l, NEW k \in DOMAIN l, l[j].pid = l[k].pid PROVE j = k
  <2>1. Nth(up, j) \in up /\ Nth(up, k) \in up /\ s[Nth(up, j)].pid = s[Nth(up, k)].pid
    BY <1>5, <1>7, Zenon
  <2>2. Nth(up, j) = Nth(up, k)
    BY <1>4, <2>1, Zenon
  <2>. QED  BY <1>3, <1>5, <2>2, Zenon
<1>8. ASSUME NEW k \in DOMAIN l PROVE ChargeIsTrue(l[k])
  <2>1. PICK x \in up : /\ l[k].pid = s[x].pid
                        /\ l[k].dt = s[x].ticks - find_prev_ticks(s[x].pid)
    BY <1>5, <1>8, Zenon
  <2>2. /\ base[s[x].pid] = "same" => l[k].dt = used[s[x].pid]
        /\ base[s[x].pid] = "other" => l[k].dt <= used[s[x].pid]
    BY <1>4, <2>1, Zenon
  <2>. QED  BY <2>1, <2>2, Zenon DEF ChargeIsTrue
<1>9. ASSUME NEW p \in Pids, InSample(s, p), base[p] = "same", used[p] > 0
      PROVE  InSample(l, p)
  <2>1. PICK x \in DOMAIN s : s[x].pid = p
    BY <1>9, Zenon DEF InSample
  <2>2. p \in Live /\ s[x].ticks = procs[p]
    BY <1>0, <2>1, Zenon DEF TrueSample
  <2>3. procs[p] >= 0 /\ procs[p] - find_prev_ticks(p) = used[p]
    BY <1>9, <2>2, ZenonT(20) DEF StatInv, Charged, Live
  <2>4. procs[p] \in Int /\ find_prev_ticks(p) \in Nat
    <3>1. procs[p] \in -1 .. MaxTicks /\ find_prev_ticks(p) \in Nat
      BY <1>0, Zenon DEF StatInv, Charged, Procs
    <3>. QED  BY <3>1, StatAssumption
  <2>5. procs[p] > find_prev_ticks(p)
    BY <1>9, <2>3, <2>4
  <2>6. x \in up
    BY <2>1, <2>2, <2>5, Zenon DEF up
  <2>7. PICK k \in 1 .. Cardinality(up) : Nth(up, k) = x
    BY <1>1, <2>6, NthOf, Zenon
  <2>8. k \in DOMAIN l
    BY <1>2, Zenon
  <2>. QED  BY <1>5, <2>1, <2>7, <2>8, Zenon DEF InSample
<1>. QED  BY <1>6, <1>7, <1>8, <1>9, Zenon

LEMMA PrevTicks ==
    ASSUME NEW p
    PROVE  find_prev_ticks(p) = TicksIn(prev_procs, p) /\ find_prev_ticks(p)' = TicksIn(prev_procs', p)
BY Zenon DEF find_prev_ticks, TicksIn

\* A list that is not empty has a first largest entry.
LEMMA BestIs ==
    ASSUME list \in Seq(Entry), NEW k \in 1 .. Len(list)
    PROVE  /\ Best(k) \in k .. Len(list)
           /\ \A j \in k .. Len(list) : list[Best(k)].dt >= list[j].dt
<1>1. ASSUME NEW j \in k .. Len(list) PROVE list[j].dt \in 0 .. MaxTicks /\ j \in Nat
  <2>1. j \in 1 .. Len(list) /\ j \in Nat
    BY <1>1
  <2>2. list[j] \in Entry
    BY <2>1
  <2>. QED  BY <2>1, <2>2, Zenon DEF Entry
<1>. DEFINE D == {MaxTicks - list[j].dt : j \in k .. Len(list)}
<1>2. D \subseteq Nat /\ D # {}
  <2>1. k \in k .. Len(list)
    OBVIOUS
  <2>2. ASSUME NEW j \in k .. Len(list) PROVE MaxTicks - list[j].dt \in Nat
    BY <1>1, <2>2, StatAssumption
  <2>. QED  BY <2>1, <2>2, Zenon
<1>3. PICK d \in D : \A e \in D : d <= e
  <2>. HIDE DEF D
  <2>. QED  BY <1>2, Least, Zenon
<1>4. PICK m \in k .. Len(list) : d = MaxTicks - list[m].dt
  BY <1>3, ZenonT(20)
<1>5. ASSUME NEW j \in k .. Len(list) PROVE list[m].dt >= list[j].dt
  <2>1. d <= MaxTicks - list[j].dt
    BY <1>3, <1>5, Zenon
  <2>2. list[j].dt \in 0 .. MaxTicks /\ list[m].dt \in 0 .. MaxTicks
    BY <1>1, <1>4, <1>5, Zenon
  <2>3. MaxTicks - list[m].dt <= MaxTicks - list[j].dt
    BY <1>4, <2>1, Zenon
  <2>. QED  BY <2>2, <2>3, StatAssumption, SMTT(20)
<1>. DEFINE M == {j \in k .. Len(list) : list[j].dt = list[m].dt}
<1>6. PICK b \in M : \A j \in M : b <= j
  <2>1. M \subseteq Nat /\ M # {}
    BY <1>1, <1>4, Zenon
  <2>. HIDE DEF M
  <2>. QED  BY <2>1, Least, Zenon
<1>7. b \in k .. Len(list) /\ \A j \in k .. Len(list) : list[b].dt >= list[j].dt
  BY <1>5, <1>6, ZenonT(20)
<1>8. ASSUME NEW j \in k .. b - 1 PROVE list[j].dt < list[b].dt
  <2>1. j \in k .. Len(list) /\ ~(b <= j)
    BY <1>7, <1>8
  <2>2. list[j].dt # list[b].dt
    BY <1>6, <2>1, Zenon
  <2>. QED  BY <1>1, <1>7, <2>1, <2>2, SMTT(20)
<1>. QED  BY <1>7, <1>8, Zenon DEF Best

\* One round of the sort puts the largest of the rest into its place.
LEMMA SelectKeeps ==
    ASSUME StatInv, Select
    PROVE  StatInv'
<1>1. n \in Nat /\ n < Len(list) /\ n < TOP_N /\ Len(list) \in Nat /\ Fair /\ Sorted
  BY StatAssumption, SMTT(20) DEF StatInv, Select, Want, Fair
<1>. PICK b : b = Best(n + 1)
  OBVIOUS
<1>2. b \in n + 1 .. Len(list) /\ \A j \in n + 1 .. Len(list) : list[b].dt >= list[j].dt
  <2>1. n + 1 \in 1 .. Len(list) /\ list \in Seq(Entry)
    BY <1>1 DEF Fair
  <2>2. PICK k \in 1 .. Len(list) : k = n + 1
    BY <2>1, Zenon
  <2>. QED  BY <2>1, <2>2, BestIs, Zenon
<1>3. /\ list' = [list EXCEPT ![n + 1] = list[b], ![b] = list[n + 1]]
      /\ top' = Append(top, list[b]) /\ n' = n + 1
      /\ procs' = procs /\ used' = used /\ base' = base /\ prev_procs' = prev_procs
  BY ZenonT(20) DEF Select
<1>. DEFINE Was(k) == IF k = b THEN n + 1 ELSE IF k = n + 1 THEN b ELSE k
<1>4. /\ list' \in Seq(Entry) /\ Len(list') = Len(list) /\ DOMAIN list' = 1 .. Len(list)
      /\ DOMAIN list = 1 .. Len(list)
      /\ \A k \in 1 .. Len(list) : Was(k) \in 1 .. Len(list) /\ list'[k] = list[Was(k)]
      /\ \A k \in 1 .. Len(list) : Was(Was(k)) = k
  BY <1>1, <1>2, <1>3 DEF Fair
<1>5. Fair'
  <2>1. ASSUME NEW j \in 1 .. Len(list), NEW k \in 1 .. Len(list), list'[j].pid = list'[k].pid
        PROVE  j = k
    <3>1. Was(j) = Was(k)
      <4>. HIDE DEF Was
      <4>1. Was(j) \in DOMAIN list /\ Was(k) \in DOMAIN list
        BY <1>4, Zenon
      <4>2. list[Was(j)].pid = list[Was(k)].pid
        BY <1>4, <2>1, Zenon
      <4>. QED  BY <1>1, <4>1, <4>2, Zenon DEF Fair
    <3>. QED  BY <3>1
  <2>. HIDE DEF Was
  <2>2. ASSUME NEW k \in 1 .. Len(list) PROVE ChargeIsTrue(list[k])'
    <3>1. ChargeIsTrue(list[Was(k)]) /\ list'[k] = list[Was(k)]
      BY <1>1, <1>4, <2>2, Zenon DEF Fair
    <3>. QED  BY <1>3, <3>1, Zenon DEF ChargeIsTrue
  <2>3. ASSUME NEW p \in Pids, WasBusy(p)' PROVE InSample(list, p)'
    <3>1. WasBusy(p)
      BY <1>3, <2>3, Zenon DEF WasBusy, InSample
    <3>2. PICK k \in 1 .. Len(list) : list[k].pid = p
      BY <1>1, <1>4, <3>1, Zenon DEF Fair, InSample
    <3>3. Was(k) \in DOMAIN list' /\ list'[Was(k)] = list[k]
      BY <1>4, Zenon
    <3>. QED  BY <3>2, <3>3, Zenon DEF InSample
  <2>. QED  BY <1>4, <2>1, <2>2, <2>3, Zenon DEF Fair
<1>6. /\ top' \in Seq(Entry) /\ Len(top') = n + 1
      /\ \A k \in 1 .. n : top'[k] = list[k]
      /\ top'[n + 1] = list[b]
  <2>1. top \in Seq(Entry) /\ Len(top) = n /\ list[b] \in Entry
    BY <1>1, <1>2 DEF Fair, Sorted
  <2>2. \A k \in 1 .. n : top[k] = list[k]
    BY <1>1, ZenonT(20) DEF Sorted
  <2>. QED  BY <1>1, <1>3, <2>1, <2>2, SMTT(20)
<1>7. \A k \in 1 .. n + 1 : top'[k] = list'[k]
  <2>. SUFFICES ASSUME NEW k \in 1 .. n + 1 PROVE top'[k] = list'[k]
    BY Zenon
  <2>1. /\ k \in 1 .. Len(list)
        /\ \/ k \in 1 .. n /\ Was(k) = k
           \/ k = n + 1 /\ Was(k) = b
    BY <1>1, <1>2, SMTT(20)
  <2>. HIDE DEF Was
  <2>. QED  BY <1>4, <1>6, <2>1, ZenonT(20)
<1>8. ASSUME NEW j \in 1 .. Len(list), NEW k \in 1 .. Len(list), j < k, j <= n + 1
      PROVE  list'[j].dt >= list'[k].dt
  <2>1. CASE j = n + 1
    <3>1. Was(k) \in n + 1 .. Len(list) /\ Was(j) = b
      BY <1>1, <1>2, <1>8, <2>1, SMTT(20)
    <3>. HIDE DEF Was
    <3>. QED  BY <1>2, <1>4, <1>8, <3>1, ZenonT(20)
  <2>2. CASE j # n + 1
    <3>1. Was(j) = j /\ j <= n /\ j < Was(k)
      BY <1>1, <1>2, <1>8, <2>2, SMTT(20)
    <3>. HIDE DEF Was
    <3>. QED  BY <1>1, <1>4, <1>8, <3>1, ZenonT(20) DEF Sorted
  <2>. QED  BY <2>1, <2>2, Zenon
<1>9. Sorted'
  <2>1. ASSUME NEW j \in DOMAIN list', NEW k \in DOMAIN list', j < k, j <= n'
        PROVE  list'[j].dt >= list'[k].dt
    <3>1. j \in 1 .. Len(list) /\ k \in 1 .. Len(list) /\ j <= n + 1
      BY <1>3, <1>4, <2>1, Zenon
    <3>. HIDE DEF Was
    <3>. QED  BY <1>8, <2>1, <3>1, Zenon
  <2>2. \A k \in 1 .. n' : top'[k] = list'[k]
    BY <1>3, <1>7, Zenon
  <2>3. top' \in Seq(Entry) /\ Len(top') = n'
    BY <1>3, <1>6, ZenonT(20)
  <2>. QED  BY <2>1, <2>2, <2>3, Zenon DEF Sorted
<1>10. n' \in -1 .. Want'
  BY <1>1, <1>3, <1>4, StatAssumption, SMTT(20) DEF Want
<1>11. Procs' /\ Charged'
  <2>1. \A p \in Pids : find_prev_ticks(p)' = find_prev_ticks(p)
    BY <1>3, PrevTicks, ZenonT(20)
  <2>2. n # -1 /\ n' # -1
    BY <1>1, <1>3
  <2>. QED  BY <1>3, <2>1, <2>2, ZenonT(20) DEF StatInv, Procs, Charged, InSample
<1>. QED  BY <1>5, <1>9, <1>10, <1>11, ZenonT(20) DEF StatInv

\* The entries are made from two samples.
LEMMA SampleKeeps ==
    ASSUME StatInv, Sample
    PROVE  StatInv'
<1>1. PICK s, l : s = sample_all_procs /\ l = Entries(sample_all_procs)
  OBVIOUS
<1>2. /\ n = -1 /\ n' = 0 /\ list' = l /\ prev_procs' = s /\ top' = <<>>
      /\ procs' = procs /\ used' = used /\ base' = base
  BY <1>1, Zenon DEF Sample
<1>3. Procs
  BY Zenon DEF StatInv
<1>4. Fair'
  <2>1. /\ l \in Seq(Entry)
        /\ \A j, k \in DOMAIN l : l[j].pid = l[k].pid => j = k
        /\ \A k \in DOMAIN l : ChargeIsTrue(l[k])
        /\ \A p \in Pids : InSample(s, p) /\ base[p] = "same" /\ used[p] > 0 => InSample(l, p)
    BY <1>1, <1>2, EntriesAre, Zenon
  <2>2. \A k \in DOMAIN l : ChargeIsTrue(list[k])'
    BY <1>2, <2>1, Zenon DEF ChargeIsTrue
  <2>3. \A p \in Pids : WasBusy(p)' => InSample(list, p)'
    BY <1>2, <2>1, Zenon DEF WasBusy, InSample
  <2>. QED  BY <1>2, <2>1, <2>2, <2>3, Zenon DEF Fair
<1>5. Sorted'
  <2>1. \A j \in DOMAIN l : ~(j <= 0)
    BY <1>2, <1>4 DEF Fair
  <2>2. <<>> \in Seq(Entry) /\ Len(<<>>) = 0 /\ 1 .. 0 = {}
    OBVIOUS
  <2>. QED  BY <1>2, <2>1, <2>2, ZenonT(20) DEF Sorted
<1>6. ASSUME NEW p \in Pids
      PROVE  /\ find_prev_ticks(p)' \in Nat
             /\ InSample(s, p) => find_prev_ticks(p)' = procs[p]
  <2>1. /\ InSample(s, p) => find_prev_ticks(p)' = procs[p] /\ procs[p] >= 0
        /\ ~InSample(s, p) => find_prev_ticks(p)' = 0
    BY <1>1, <1>2, <1>3, PrevTicks, SampleTicks, ZenonT(20)
  <2>2. procs[p] \in -1 .. MaxTicks
    BY <1>3, ZenonT(20) DEF Procs
  <2>. QED  BY <2>1, <2>2, StatAssumption
<1>7. n' # -1 /\ n' \in -1 .. Want'
  BY <1>2, <1>4, StatAssumption DEF Want, Fair
<1>8. Procs' /\ Charged'
  <2>1. \A p \in Pids : procs[p] = -1 => used[p] = 0
    BY Zenon DEF StatInv, Charged
  <2>2. \A p \in Pids : InSample(prev_procs, p)' => InSample(s, p)
    BY <1>2, Zenon DEF InSample
  <2>. QED  BY <1>2, <1>3, <1>6, <1>7, <2>1, <2>2, ZenonT(20) DEF Procs, Charged
<1>. QED  BY <1>4, <1>5, <1>7, <1>8, Zenon DEF StatInv

\* A process runs, ends or starts.
LEMMA ProcessKeeps ==
    ASSUME StatInv, NEW p \in Pids, Runs(p) \/ Exits(p) \/ Starts(p)
    PROVE  StatInv'
<1>1. /\ n = -1 /\ n' = -1 /\ list' = list /\ top' = top /\ prev_procs' = prev_procs /\ Procs
      /\ n' \in -1 .. Want'
  BY Zenon DEF Runs, Exits, Starts, StatInv, Want
<1>2. ASSUME NEW q \in Pids
      PROVE  /\ find_prev_ticks(q)' = find_prev_ticks(q) /\ find_prev_ticks(q) \in Nat
             /\ procs[q] = -1 => used[q] = 0
             /\ procs[q] >= 0 => /\ base[q] = "same" => procs[q] - find_prev_ticks(q) = used[q]
                                 /\ base[q] = "other" => procs[q] = used[q]
             /\ procs[q] \in -1 .. MaxTicks /\ used[q] \in Nat
             /\ ~InSample(prev_procs, q) => find_prev_ticks(q) = 0
  <2>1. find_prev_ticks(q)' = find_prev_ticks(q)
    BY <1>1, PrevTicks, Zenon
  <2>2. ~InSample(prev_procs, q) => find_prev_ticks(q) = 0
    BY ZenonT(20) DEF find_prev_ticks, InSample
  <2>3. procs[q] \in -1 .. MaxTicks /\ used[q] \in Nat
    BY <1>1, Zenon DEF Procs
  <2>. QED  BY <1>1, <2>1, <2>2, <2>3, ZenonT(20) DEF StatInv, Charged
<1>3. Procs'
  BY <1>1, StatAssumption DEF Procs, Runs, Exits, Starts
<1>4. ASSUME NEW q \in Pids, q # p
      PROVE  procs'[q] = procs[q] /\ used'[q] = used[q] /\ base'[q] = base[q]
  BY <1>1, <1>4, Zenon DEF Procs, Runs, Exits, Starts
<1>5. \/ /\ procs[p] \in 0 .. MaxTicks - 1 /\ procs'[p] = procs[p] + 1
         /\ used'[p] = used[p] + 1 /\ base'[p] = base[p]
      \/ procs'[p] = -1 /\ used'[p] = 0
      \/ /\ procs[p] = -1 /\ procs'[p] = 0 /\ used'[p] = used[p]
         /\ base'[p] = IF InSample(prev_procs, p) THEN "other" ELSE "same"
  BY <1>1, ZenonT(20) DEF Procs, Runs, Exits, Starts
<1>6. /\ procs'[p] = -1 => used'[p] = 0
      /\ procs'[p] >= 0 => /\ base'[p] = "same" => procs'[p] - find_prev_ticks(p) = used'[p]
                           /\ base'[p] = "other" => procs'[p] = used'[p]
  <2>1. CASE /\ procs[p] \in 0 .. MaxTicks - 1 /\ procs'[p] = procs[p] + 1
             /\ used'[p] = used[p] + 1 /\ base'[p] = base[p]
    BY <1>2, <2>1, StatAssumption, SMTT(20)
  <2>2. CASE procs'[p] = -1 /\ used'[p] = 0
    BY <2>2
  <2>3. CASE /\ procs[p] = -1 /\ procs'[p] = 0 /\ used'[p] = used[p]
             /\ base'[p] = IF InSample(prev_procs, p) THEN "other" ELSE "same"
    <3>1. used'[p] = 0
      BY <1>2, <2>3, Zenon
    <3>2. base'[p] = "same" => find_prev_ticks(p) = 0
      BY <1>2, <2>3, Zenon
    <3>. QED  BY <2>3, <3>1, <3>2
  <2>. QED  BY <1>5, <2>1, <2>2, <2>3, Zenon
<1>7. Charged'
  <2>. SUFFICES ASSUME NEW q \in Pids
                PROVE  /\ find_prev_ticks(q)' \in Nat
                       /\ procs'[q] = -1 => used'[q] = 0
                       /\ procs'[q] >= 0 =>
                             /\ base'[q] = "same" => procs'[q] - find_prev_ticks(q)' = used'[q]
                             /\ base'[q] = "other" => procs'[q] = used'[q]
    BY <1>1, Zenon DEF Charged
  <2>1. CASE q = p
    BY <1>2, <1>6, <2>1, Zenon
  <2>2. CASE q # p
    BY <1>2, <1>4, <2>2, Zenon
  <2>. QED  BY <2>1, <2>2, Zenon
<1>. QED  BY <1>1, <1>3, <1>7, Zenon DEF StatInv

LEMMA PrintKeeps ==
    ASSUME StatInv, PrintTop
    PROVE  StatInv'
<1>1. /\ n # -1 /\ n' = -1 /\ procs' = procs /\ prev_procs' = prev_procs /\ Procs
      /\ used' = [p \in Pids |-> 0] /\ list' = <<>> /\ base' = BaseOf(prev_procs)
  BY DEF PrintTop, StatInv
<1>2. ASSUME NEW p \in Pids
      PROVE  /\ find_prev_ticks(p)' = find_prev_ticks(p) /\ find_prev_ticks(p) \in Nat
             /\ InSample(prev_procs, p) => find_prev_ticks(p) = procs[p]
  BY <1>1, PrevTicks, Zenon DEF StatInv, Charged
<1>3. ASSUME NEW p \in Pids, procs[p] >= 0
      PROVE  /\ base'[p] = "same" => procs[p] - find_prev_ticks(p) = 0
             /\ base'[p] # "other"
  <2>1. procs[p] # -1 /\ procs[p] \in Int
    BY <1>1, <1>3, StatAssumption DEF Procs
  <2>2. base'[p] = IF InSample(prev_procs, p) THEN "same" ELSE "missed"
    BY <1>1, <2>1, Zenon DEF BaseOf
  <2>3. InSample(prev_procs, p) => procs[p] - find_prev_ticks(p) = 0
    BY <1>2, <2>1
  <2>. QED  BY <2>2, <2>3
<1>4. Procs' /\ n' \in -1 .. Want'
  <2>1. base' \in [Pids -> {"same", "other", "missed"}]
    BY <1>1, Zenon DEF BaseOf
  <2>2. n' \in -1 .. Want'
    BY <1>1, StatAssumption DEF Want
  <2>3. used' \in [Pids -> Nat] /\ procs' \in [Pids -> -1 .. MaxTicks]
    BY <1>1 DEF Procs
  <2>. QED  BY <2>1, <2>2, <2>3, Zenon DEF Procs
<1>5. Charged'
  BY <1>1, <1>2, <1>3, ZenonT(20) DEF Charged
<1>. QED  BY <1>1, <1>4, <1>5, Zenon DEF StatInv

LEMMA StatStep ==
    ASSUME StatInv, [StatNext]_statVars
    PROVE  StatInv'
<1>1. CASE UNCHANGED statVars
  <2>1. /\ procs' = procs /\ used' = used /\ base' = base /\ prev_procs' = prev_procs
        /\ list' = list /\ n' = n /\ top' = top
    BY <1>1, Zenon DEF statVars
  <2>2. \A p \in Pids : find_prev_ticks(p)' = find_prev_ticks(p)
    BY <2>1, PrevTicks, Zenon
  <2>3. Procs' /\ Charged'
    BY <2>1, <2>2, ZenonT(20) DEF StatInv, Procs, Charged, InSample
  <2>4. (n \in -1 .. Want)'
    BY <2>1, Zenon DEF StatInv, Want
  <2>5. (Fair => Fair') /\ (Sorted => Sorted')
    BY <2>1, Zenon DEF Fair, Sorted, ChargeIsTrue, WasBusy, InSample
  <2>. QED  BY <2>1, <2>3, <2>4, <2>5, Zenon DEF StatInv
<1>. QED
  BY <1>1, SampleKeeps, SelectKeeps, ProcessKeeps, PrintKeeps, ZenonT(20) DEF StatNext

LEMMA StatStart ==
    ASSUME StatInit
    PROVE  StatInv
<1>1. /\ procs \in [Pids -> -1 .. MaxTicks] /\ prev_procs = sample_all_procs
      /\ used = [p \in Pids |-> 0] /\ list = <<>> /\ n = -1 /\ base = BaseOf(prev_procs)
  BY Zenon DEF StatInit
<1>2. Procs
  <2>1. base \in [Pids -> {"same", "other", "missed"}]
    BY <1>1, Zenon DEF BaseOf
  <2>2. used \in [Pids -> Nat]
    BY <1>1
  <2>. QED  BY <1>1, <2>1, <2>2, Zenon DEF Procs
<1>3. Charged
  <2>. SUFFICES ASSUME NEW p \in Pids
                PROVE  /\ find_prev_ticks(p) \in Nat
                       /\ procs[p] >= 0 => /\ base[p] = "same" => procs[p] - find_prev_ticks(p) = 0
                                           /\ base[p] # "other"
    BY <1>1, Zenon DEF Charged
  <2>1. /\ InSample(prev_procs, p) => find_prev_ticks(p) = procs[p] /\ procs[p] >= 0
        /\ ~InSample(prev_procs, p) => find_prev_ticks(p) = 0
    BY <1>1, <1>2, PrevTicks, SampleTicks, ZenonT(20)
  <2>2. procs[p] \in Int
    BY <1>2, StatAssumption DEF Procs
  <2>3. base[p] = IF procs[p] = -1 \/ InSample(prev_procs, p) THEN "same" ELSE "missed"
    BY <1>1, Zenon DEF BaseOf
  <2>. QED  BY <2>1, <2>2, <2>3, SMTT(20)
<1>4. n \in -1 .. Want
  BY <1>1, StatAssumption DEF Want
<1>. QED  BY <1>1, <1>2, <1>3, <1>4, Zenon DEF StatInv

\* When the sort is done.
LEMMA TopDone ==
    ASSUME StatInv
    PROVE  TopIsTop
<1>. SUFFICES ASSUME n = Want
              PROVE  /\ \A j, k \in DOMAIN top :
                          j < k => top[j].dt >= top[k].dt /\ top[j].pid # top[k].pid
                     /\ \A k \in DOMAIN top : ChargeIsTrue(top[k])
                     /\ \A p \in Pids : WasBusy(p) =>
                           InSample(top, p) \/ (Len(top) = TOP_N /\ used[p] <= top[TOP_N].dt)
  BY Zenon DEF TopIsTop
<1>1. Fair /\ Sorted
  <2>1. n # -1
    BY StatAssumption, SMTT(20) DEF StatInv, Want
  <2>. QED  BY <2>1, Zenon DEF StatInv
<1>2. /\ list \in Seq(Entry) /\ DOMAIN list = 1 .. Len(list) /\ Len(list) \in Nat
      /\ n \in Nat /\ n <= Len(list) /\ n <= TOP_N /\ (n < Len(list) => n = TOP_N)
      /\ DOMAIN top = 1 .. n
  BY <1>1, StatAssumption, SMTT(20) DEF Fair, Sorted, Want
<1>3. ASSUME NEW k \in DOMAIN top PROVE k \in DOMAIN list /\ k <= n /\ top[k] = list[k]
  BY <1>1, <1>2, <1>3 DEF Sorted
<1>4. ASSUME NEW j \in DOMAIN top, NEW k \in DOMAIN top, j < k
      PROVE  top[j].dt >= top[k].dt /\ top[j].pid # top[k].pid
  <2>1. j # k
    BY <1>2, <1>4
  <2>. QED  BY <1>1, <1>3, <1>4, <2>1, ZenonT(20) DEF Fair, Sorted
<1>5. ASSUME NEW k \in DOMAIN list
      PROVE  \/ InSample(top, list[k].pid)
             \/ Len(top) = TOP_N /\ list[k].dt <= top[TOP_N].dt
  <2>1. CASE k \in DOMAIN top
    BY <1>3, <2>1, Zenon DEF InSample
  <2>2. CASE k \notin DOMAIN top
    <3>1. n = TOP_N /\ TOP_N \in DOMAIN top /\ TOP_N < k /\ TOP_N <= n
      BY <1>2, <1>5, <2>2, StatAssumption
    <3>2. list[TOP_N].dt >= list[k].dt
      BY <1>1, <1>3, <1>5, <3>1, ZenonT(20) DEF Sorted
    <3>3. list[TOP_N] \in Entry /\ list[k] \in Entry
      BY <1>2, <1>3, <1>5, <3>1
    <3>4. list[k].dt <= list[TOP_N].dt
      BY <3>2, <3>3, Zenon DEF Entry
    <3>. QED  BY <1>1, <1>3, <3>1, <3>4, ZenonT(20) DEF Sorted
  <2>. QED  BY <2>1, <2>2, Zenon
<1>6. ASSUME NEW k \in DOMAIN top PROVE ChargeIsTrue(top[k])
  BY <1>1, <1>3, <1>6, Zenon DEF Fair
<1>7. ASSUME NEW p \in Pids, WasBusy(p)
      PROVE  InSample(top, p) \/ (Len(top) = TOP_N /\ used[p] <= top[TOP_N].dt)
  <2>1. PICK k \in DOMAIN list : list[k].pid = p
    BY <1>1, <1>7, Zenon DEF Fair, InSample
  <2>2. list[k].dt = used[p]
    BY <1>1, <1>7, <2>1, Zenon DEF Fair, ChargeIsTrue, WasBusy
  <2>. QED  BY <1>5, <2>1, <2>2, Zenon
<1>. QED  BY <1>4, <1>6, <1>7, Zenon

\* The TOP5 line, for any number of processes, also more than fit in a sample, of
\* lines and of ticks: every process on it that can be compared with itself is
\* charged with what it used, none that has an old number is charged with more,
\* and none that was busier is left out (compute_top5).
THEOREM TopAlwaysTop == StatSpec => []TopIsTop
<1>1. StatInit => StatInv
  BY StatStart, Zenon
<1>2. StatInv /\ [StatNext]_statVars => StatInv'
  BY StatStep, Zenon
<1>3. StatInv => TopIsTop
  BY TopDone, Zenon
<1>. QED  BY <1>1, <1>2, <1>3, PTL DEF StatSpec
=============================================================================
