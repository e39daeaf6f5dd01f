----------------------------- MODULE WireProofs -----------------------------
(***************************************************************************)
(* Proofs about what passes between the board and the phone.  BleSetup and *)
(* BleTx: the advertisement of a live application, and the value that is   *)
(* notified as long as no two threads overlap.  ScanPush: for every list a *)
(* scan can return, of any length up to 1280 and with any SSID lengths,    *)
(* the frames carry every entry once and are all full but the last.        *)
(* ProtoCodec: for frames of any number and size, and however the stream   *)
(* is cut, a read handles exactly the frames that it has whole.            *)
(***************************************************************************)
EXTENDS BleTx, ScanPush, ProtoCodec, TLAPS

-----------------------------------------------------------------------------
(* BleSetup *)

\* Where the two threads can be when, and what BlueZ has answered by then.
SetupInv ==
    /\ reg # "none" => main \in {"inline", "loop"}
    /\ main \in {"spawn", "inline", "loop"} => exported
    /\ reg \in {"adv", "ready"} => app = "live"
    /\ adv => reg = "ready"

LEMMA SetupStep ==
    ASSUME SetupInv, [Next]_vars
    PROVE  SetupInv'
<1>. USE DEF SetupInv, busVars
<1>1. CASE Main
  BY <1>1
     DEF Main, Connect, FindAdapter, Export, Spawn, SpawnFails, EnterLoop, GetManagedObjects
<1>2. CASE Register
  BY <1>2 DEF Register, RegisterAgent, RegisterApp, AppAnswered, AppTimeout, RegisterAdv
<1>3. CASE BlueZ
  BY <1>3 DEF BlueZ
<1>4. CASE AdapterUp \/ UNCHANGED vars
  BY <1>4 DEF AdapterUp, vars
<1>. QED  BY <1>1, <1>2, <1>3, <1>4, ZenonT(20) DEF Next

\* However often the adapter is looked for, whatever fails and whether or not
\* there is a registration thread: a board that advertises has exported its
\* objects and BlueZ has accepted them (bluez_register_worker).
THEOREM AlwaysAdvertisesLiveApp == BleSpec => []AdvertisesLiveApp
<1>1. BleInit => SetupInv
  BY Zenon DEF BleInit, Init, SetupInv
<1>2. SetupInv /\ [BleNext]_bleVars => SetupInv'
  <2>1. [BleNext]_bleVars => [Next]_vars
    BY Zenon DEF BleNext, bleVars
  <2>. QED  BY <2>1, SetupStep, Zenon
<1>3. SetupInv => AdvertisesLiveApp
  BY Zenon DEF SetupInv, AdvertisesLiveApp
<1>. QED  BY <1>1, <1>2, <1>3, PTL DEF BleSpec
-----------------------------------------------------------------------------
(* BleTx: threads that do not overlap *)

LiveBufs == {b \in Bufs : heap[b] # Freed}

\* Where every thread is before it has freed the value, or after it has emitted.
Untouched == \A t \in Threads : pc[t] \in {"idle", "read", "load", "free"}

\* Where a thread is, alone, between two sends and on the way from one to the
\* next.
Holds(t) ==
    /\ pc[t] = "read" => ptr[t] = s_tx_value
    /\ pc[t] = "free" => ptr[t] = s_tx_value /\ s_tx_value # None
    /\ pc[t] = "new" => LiveBufs = {}
    /\ pc[t] \in {"append", "emit"} => s_tx_value # None /\ LiveBufs = {s_tx_value}
    /\ pc[t] = "emit" => heap[s_tx_value] = data[t]

TxTypes ==
    /\ s_tx_value \in Bufs \cup {None}
    /\ heap \in [Bufs -> Frames \cup {Empty, Freed}]
    /\ pc \in [Threads -> {"idle", "read", "load", "free", "new", "append", "emit"}]
    /\ data \in [Threads -> Frames \cup {None}]
    /\ ptr \in [Threads -> Bufs \cup {None}]
    /\ raced \in BOOLEAN
    /\ \A t \in Threads : pc[t] \in {"load", "free", "new", "append", "emit"} => data[t] \in Frames

Serial ==
    /\ \A t, u \in Threads : pc[t] # "idle" /\ pc[u] # "idle" => t = u
    /\ Untouched => /\ LiveBufs = {s_tx_value} \ {None}
                    /\ s_tx_value # None => heap[s_tx_value] = emitted \/ lost
    /\ \A t \in Threads : Holds(t)

TxInv == TxTypes /\ (~raced => Serial)

\* A thread that comes in is alone, or there is a race.
LEMMA EnterAlone ==
    ASSUME TxInv, NEW t \in Threads, Enter(t), ~raced', pc[t] = "idle"
    PROVE  ~raced /\ Serial /\ \A u \in Threads : pc[u] = "idle"
BY Zenon DEF TxInv, Enter

LEMMA TxTypesStep ==
    ASSUME TxTypes, [BleNext]_bleVars
    PROVE  TxTypes'
<1>. USE DEF TxTypes, Goto
<1>0. Loop \in Threads
  BY DEF Threads
<1>1. ASSUME NEW on \in BOOLEAN, Notify(on) PROVE TxTypes'
  BY <1>1, Zenon DEF Notify
<1>2. CASE ReadValue \/ CopyValue
  BY <1>0, <1>2, ZenonT(20) DEF ReadValue, CopyValue, Enter
<1>3. ASSUME NEW t \in Threads, Send(t) PROVE TxTypes'
  BY <1>3 DEF Send, Enter
<1>4. ASSUME NEW t \in Threads, Load(t) PROVE TxTypes'
  BY <1>4 DEF Load
<1>5. ASSUME NEW t \in Threads, Free(t) PROVE TxTypes'
  BY <1>5, ZenonT(20) DEF Free
<1>6. ASSUME NEW t \in Threads, New(t) PROVE TxTypes'
  BY <1>6 DEF New
<1>7. ASSUME NEW t \in Threads, AppendData(t) PROVE TxTypes'
  BY <1>7, ZenonT(20) DEF AppendData
<1>8. ASSUME NEW t \in Threads, Emit(t) PROVE TxTypes'
  BY <1>8 DEF Emit
<1>9. CASE UNCHANGED txVars
  BY <1>9, Zenon DEF txVars
<1>. HIDE DEF TxTypes
<1>. QED
  BY <1>1, <1>2, <1>3, <1>4, <1>5, <1>6, <1>7, <1>8, <1>9, Zenon DEF BleNext, Tx, bleVars

\* A step of the thread that is inside, or of one that comes in alone.
LEMMA SerialStep ==
    ASSUME TxInv, [BleNext]_bleVars, ~raced'
    PROVE  Serial'
<1>0. /\ TxTypes /\ TxTypes' /\ Loop \in Threads
      /\ Freed \notin Frames /\ Empty # Freed /\ None \notin Bufs
  BY TxTypesStep, BleAssumption DEF TxInv, Threads, Empty, Freed
<1>1. ASSUME NEW on \in BOOLEAN, Notify(on) PROVE Serial'
  <2>1. Serial /\ UNCHANGED <<s_tx_value, heap, pc, data, ptr, emitted, lost, raced>>
    BY <1>1, Zenon DEF Notify, TxInv
  <2>. QED  BY <2>1, Zenon DEF Serial, Untouched, LiveBufs, Holds
<1>2. CASE ReadValue
  <2>1. Serial /\ \A u \in Threads : pc[u] = "idle"
    BY <1>0, <1>2, EnterAlone, Zenon DEF ReadValue
  <2>2. /\ pc' = [pc EXCEPT ![Loop] = "read"] /\ ptr' = [ptr EXCEPT ![Loop] = s_tx_value]
        /\ UNCHANGED <<s_tx_value, heap, data, emitted, lost>>
    BY <1>2, Zenon DEF ReadValue, Goto
  <2>. QED  BY <1>0, <2>1, <2>2, SMTT(20) DEF Serial, Untouched, LiveBufs, Holds, TxTypes
<1>3. CASE CopyValue
  <2>1. Serial
    BY <1>3, Zenon DEF CopyValue, TxInv
  <2>. QED  BY <1>0, <1>3, <2>1, SMTT(20) DEF CopyValue, Goto, Serial, Untouched, LiveBufs, Holds, TxTypes
<1>4. ASSUME NEW t \in Threads, Send(t) PROVE Serial'
  <2>1. Serial /\ \A u \in Threads : pc[u] = "idle"
    BY <1>4, EnterAlone, Zenon DEF Send
  <2>2. PICK f \in Frames : /\ pc' = [pc EXCEPT ![t] = "load"] /\ data' = [data EXCEPT ![t] = f]
                            /\ UNCHANGED <<s_tx_value, heap, ptr, emitted, lost>>
    BY <1>4, Zenon DEF Send, Goto
  <2>. QED  BY <1>0, <2>1, <2>2, SMTT(20) DEF Serial, Untouched, LiveBufs, Holds, TxTypes
<1>5. ASSUME NEW t \in Threads, Load(t) PROVE Serial'
  <2>1. Serial
    BY <1>5, Zenon DEF Load, TxInv
  <2>. QED  BY <1>0, <1>5, <2>1, SMTT(20) DEF Load, Goto, Serial, Untouched, LiveBufs, Holds, TxTypes
<1>6. ASSUME NEW t \in Threads, Free(t) PROVE Serial'
  <2>1. Serial
    BY <1>6, Zenon DEF Free, TxInv
  <2>. QED  BY <1>0, <1>6, <2>1, SMTT(20) DEF Free, Goto, Serial, Untouched, LiveBufs, Holds, TxTypes
<1>7. ASSUME NEW t \in Threads, New(t) PROVE Serial'
  <2>1. Serial
    <3>1. raced' = raced
      BY <1>7, Zenon DEF New
    <3>. QED  BY <3>1, Zenon DEF TxInv
  <2>. QED  BY <1>0, <1>7, <2>1, SMTT(20) DEF New, Goto, Serial, Untouched, LiveBufs, Holds, TxTypes
<1>8. ASSUME NEW t \in Threads, AppendData(t) PROVE Serial'
  <2>1. Serial
    BY <1>8, Zenon DEF AppendData, TxInv
  <2>. QED  BY <1>0, <1>8, <2>1, SMTT(20) DEF AppendData, Goto, Serial, Untouched, LiveBufs, Holds, TxTypes
<1>9. ASSUME NEW t \in Threads, Emit(t) PROVE Serial'
  <2>1. Serial
    BY <1>9, Zenon DEF Emit, TxInv
  <2>. QED  BY <1>0, <1>9, <2>1, SMTT(20) DEF Emit, Goto, Serial, Untouched, LiveBufs, Holds, TxTypes
<1>10. CASE UNCHANGED txVars
  <2>1. Serial /\ UNCHANGED <<s_tx_value, heap, pc, data, ptr, emitted, lost, raced>>
    BY <1>10, Zenon DEF txVars, TxInv
  <2>. QED  BY <2>1, Zenon DEF Serial, Untouched, LiveBufs, Holds
<1>. QED
  BY <1>1, <1>2, <1>3, <1>4, <1>5, <1>6, <1>7, <1>8, <1>9, <1>10, Zenon DEF BleNext, Tx, bleVars

\* Any number of workers sends beside the thread of the main loop: as long as no
\* two of them overlap, what they free, fill or copy is allocated, and between
\* two sends there is one byte array, which holds the frame of the last
\* PropertiesChanged unless that could not be emitted (ble_gatt_send,
\* char_method).  It is the part of "Safe to call from any thread" that holds.
THEOREM SerialSendsAlwaysKeepValue == BleSpec => []SerialSendsKeepValue
<1>1. BleInit => TxInv
  BY BleAssumption, ZenonT(20) DEF BleInit, TxInit, TxInv, TxTypes, Serial, Untouched, Holds, LiveBufs
<1>2. TxInv /\ [BleNext]_bleVars => TxInv'
  BY TxTypesStep, SerialStep, Zenon DEF TxInv
<1>3. TxInv => SerialSendsKeepValue
  <2>. SUFFICES ASSUME TxInv, ~raced PROVE UsesLiveValue /\ SerialSendsKeepValue
    BY Zenon DEF SerialSendsKeepValue
  <2>1. TxTypes /\ Serial /\ None \notin Bufs
    BY BleAssumption, Zenon DEF TxInv
  <2>2. UsesLiveValue
    BY <2>1, SMTT(20) DEF TxTypes, Serial, Untouched, Holds, LiveBufs, UsesLiveValue
  <2>3. AtRest => Untouched
    BY Zenon DEF AtRest, Untouched
  <2>. QED  BY <2>1, <2>2, <2>3, Zenon DEF Serial, LiveBufs, SerialSendsKeepValue
<1>. QED  BY <1>1, <1>2, <1>3, PTL DEF BleSpec
-----------------------------------------------------------------------------
(* ScanPush *)

USE DEF SCAN_PUSH_PAYLOAD_CAP, SCAN_PUSH_ENTRIES_PER_FRAME, WIFI_SCAN_SSID_MAX, IndexRange

\* What a scan returns is a sequence of SSID lengths.
LEMMA ListsAreSeqs ==
    ASSUME NEW e \in Lists
    PROVE  e \in Seq(1 .. WIFI_SCAN_SSID_MAX) /\ Len(e) <= MaxEntries
<1>1. PICK d \in 0 .. MaxEntries : e \in [1 .. d -> Lens]
  BY Zenon DEF Lists
<1>2. d \in Nat /\ e \in [1 .. d -> 1 .. 32]
  <2>1. d \in Nat /\ Lens \subseteq 1 .. 32
    BY EntryAssumption
  <2> QED
    BY Zenon, <1>1, <2>1
<1>3. e \in Seq(1 .. 32) /\ Len(e) = d
  BY <1>2
<1> QED
  BY <1>1, <1>3, EntryAssumption

LEMMA ElementIn ==
    ASSUME NEW S, NEW e \in Seq(S), NEW k \in 1 .. Len(e)
    PROVE  e[k] \in S
OBVIOUS

\* The entry the loop looks at has an SSID of 1 to 32 bytes.
LEMMA NextEntry ==
    ASSUME PushTypeOK, i < Len(entries)
    PROVE  entries[i + 1] \in 1 .. 32
<1>1. entries \in Seq(1 .. 32) /\ i \in Nat /\ Len(entries) \in Nat
  BY DEF PushTypeOK
<1>2. i + 1 \in 1 .. Len(entries)
  BY <1>1
<1> QED
  BY <1>1, <1>2, ElementIn, Zenon

\* A payload with k of the longest entries grows by at most one of them, and
\* there is room for five.
LEMMA Room ==
    ASSUME NEW p \in Nat, NEW k \in Nat, NEW e \in 1 .. 32, p <= 3 + (32 + 4) * k
    PROVE  /\ p + (e + 4) <= 3 + (32 + 4) * (k + 1)
           /\ k < 5 => e + 4 <= 220 - p
OBVIOUS

\* Before the first entry is taken.
LEMMA PushStart == PushInit => PushInv
<1> SUFFICES ASSUME PushInit PROVE PushInv
  OBVIOUS
<1>1. entries \in Seq(1 .. 32) /\ Len(entries) <= MaxEntries
  BY ListsAreSeqs, Zenon DEF PushInit
<1>2. frames = <<>> /\ Len(frames) = 0 /\ frames \in Seq(Frame) /\ DOMAIN frames = {}
  BY DEF PushInit
<1>3. PushTypeOK
  BY <1>1, <1>2 DEF PushInit, PushTypeOK
<1>4. EachEntryOnce /\ EndsOnce /\ FramesFull
  BY <1>2, Zenon DEF PushInit, EachEntryOnce, EndsOnce, FramesFull
<1>5. Filling
  BY <1>2 DEF PushInit, Filling
<1> QED
  BY <1>3, <1>4, <1>5, Zenon DEF PushInv

\* One more entry in the payload.
LEMMA AddEntryInv ==
    ASSUME PushInv, AddEntry
    PROVE  PushInv'
<1>1. /\ push = "fill" /\ i < Len(entries) /\ entry_count < 5
      /\ entries[i + 1] + 4 <= 220 - pos
      /\ pos' = pos + (entries[i + 1] + 4)
      /\ entry_count' = entry_count + 1 /\ i' = i + 1
      /\ UNCHANGED <<entries, frame_index, push, frames>>
  BY Zenon DEF AddEntry, Fits, Need
<1>2. /\ i \in Nat /\ Len(entries) \in Nat /\ pos \in Nat /\ pos >= 3 /\ entry_count \in Nat
      /\ Len(frames) \in Nat
  BY DEF PushInv, PushTypeOK
<1>3. entries[i + 1] \in 1 .. 32
  BY <1>1, NextEntry, Zenon DEF PushInv
<1>4. PushTypeOK'
  <2>1. i' \in 0 .. Len(entries) /\ entry_count' \in 0 .. 5
    BY <1>1, <1>2
  <2>2. pos' \in 3 .. 220
    <3>1. PICK e \in 1 .. 32 : e = entries[i + 1]
      BY <1>3, Zenon
    <3>2. pos' = pos + (e + 4) /\ e + 4 <= 220 - pos
      BY <1>1, <3>1, Zenon
    <3> QED
      BY <1>2, <3>2
  <2> QED
    BY <1>1, <2>1, <2>2, Zenon DEF PushInv, PushTypeOK
<1>5. EachEntryOnce' /\ EndsOnce' /\ FramesFull'
  BY <1>1, Zenon DEF PushInv, EachEntryOnce, EndsOnce, FramesFull
<1>6. Filling'
  <2>1. /\ i = 5 * Len(frames) + entry_count /\ pos <= 3 + (32 + 4) * entry_count
        /\ Len(frames) > 0 => i - entry_count < Len(entries)
        /\ frame_index = Len(frames)
        /\ frames # <<>> =>
              frames[Len(frames)].from + frames[Len(frames)].count = i - entry_count
    BY <1>1, Zenon DEF PushInv, Filling
  <2>2. i' = 5 * Len(frames) + entry_count' /\ i' - entry_count' = i - entry_count
    BY <1>1, <1>2, <2>1
  <2>3. pos' <= 3 + (32 + 4) * entry_count'
    <3>1. PICK e \in 1 .. 32 : e = entries[i + 1]
      BY <1>3, Zenon
    <3>2. pos + (e + 4) <= 3 + (32 + 4) * (entry_count + 1)
      BY <1>2, <2>1, Room
    <3> QED
      BY <1>1, <3>1, <3>2, Zenon
  <2> QED
    BY Zenon, <1>1, <2>1, <2>2, <2>3 DEF Filling
<1> QED
  BY <1>4, <1>5, <1>6, Zenon DEF PushInv

\* A frame is pushed only when it is full or the list is at its end: the
\* payload limit leaves room for five of the longest entries.
LEMMA FullOrEnd ==
    ASSUME PushInv, push = "fill", ~Fits
    PROVE  i >= Len(entries) \/ entry_count = 5
<1> SUFFICES ASSUME i < Len(entries), entry_count < 5 PROVE FALSE
  BY DEF PushInv, PushTypeOK
<1>1. i \in Nat /\ Len(entries) \in Nat /\ pos \in Nat /\ entry_count \in Nat
  BY DEF PushInv, PushTypeOK
<1>2. entries[i + 1] \in 1 .. 32
  BY NextEntry, Zenon DEF PushInv
<1>3. pos <= 3 + (32 + 4) * entry_count
  BY Zenon DEF PushInv, Filling
<1>4. entries[i + 1] + 4 <= 220 - pos
  BY ZenonT(20), <1>1, <1>2, <1>3, Room
<1> QED
  BY Zenon, <1>4 DEF Fits, Need

\* A frame is pushed: it carries what was filled in since the last one.
LEMMA PushFrameInv ==
    ASSUME PushInv, PushFrame
    PROVE  PushInv'
<1>1. PICK f : f = [index |-> frame_index, end |-> i >= Len(entries),
                    from |-> i - entry_count, count |-> entry_count, plen |-> pos]
  BY Zenon
<1>2. /\ f.index = frame_index /\ f.end = (i >= Len(entries))
      /\ f.from = i - entry_count /\ f.count = entry_count
  BY <1>1, Zenon
<1>3. PICK d : d = Len(frames)
  BY Zenon
<1>4. /\ push = "fill" /\ frames' = Append(frames, f)
      /\ frame_index' = (frame_index + 1) % 256
      /\ pos' = 3 /\ entry_count' = 0 /\ entries' = entries /\ i' = i
      /\ push' = IF i < Len(entries) THEN "fill" ELSE "done"
  BY <1>1, Zenon DEF PushFrame
<1>5. PICK m \in Nat : m = Len(entries)
  BY DEF PushInv, PushTypeOK
<1>6. /\ i \in 0 .. m /\ m <= MaxEntries /\ MaxEntries \in 0 .. 1280
      /\ pos \in 3 .. 220 /\ entry_count \in 0 .. 5 /\ frame_index \in 0 .. 255
  <2>1. PushTypeOK
    BY Zenon DEF PushInv
  <2>2. /\ i \in 0 .. m /\ m <= MaxEntries /\ pos \in 3 .. 220
        /\ entry_count \in 0 .. 5 /\ frame_index \in 0 .. 256 - 1
    BY <1>5, <2>1, ZenonT(20) DEF PushTypeOK
  <2>3. MaxEntries \in 0 .. 1280
    BY EntryAssumption, SMTT(20)
  <2>4. ASSUME NEW n \in 0 .. 256 - 1 PROVE n \in 0 .. 255
    BY SMTT(20)
  <2>5. frame_index \in 0 .. 255
    BY <2>2, <2>4, Zenon
  <2>. QED  BY <2>2, <2>3, <2>5
<1>7. d \in Nat /\ frames \in Seq(Frame) /\ DOMAIN frames = 1 .. d
  BY <1>3 DEF PushInv, PushTypeOK
<1>8. /\ i = 5 * d + entry_count /\ frame_index = d
      /\ d > 0 => i - entry_count < m
      /\ frames # <<>> => frames[d].from + frames[d].count = i - entry_count
  BY <1>3, <1>4, <1>5, ZenonT(20) DEF PushInv, Filling
<1>9. f \in Frame
  <2>1. i - entry_count \in Nat
    <3>1. i - entry_count = 5 * d
      BY <1>6, <1>7, <1>8
    <3> QED
      BY <1>7, <3>1
  <2> QED
    BY <1>1, <1>6, <2>1, SMTT(20) DEF Frame
<1>10. /\ frames' \in Seq(Frame) /\ Len(frames') = d + 1 /\ DOMAIN frames' = 1 .. d + 1
       /\ \A k \in 1 .. d : frames'[k] = frames[k]
       /\ frames'[d + 1] = f
  BY <1>3, <1>4, <1>7, <1>9
<1>11. i >= m \/ entry_count = 5
  BY <1>4, <1>5, FullOrEnd, Zenon DEF PushFrame
<1>12. push' = IF i < m THEN "fill" ELSE "done"
  BY <1>4, <1>5, Zenon
<1>13. f.end <=> push' = "done"
  <2>1. f.end <=> i >= m
    BY Zenon, <1>2, <1>5
  <2>2. i >= m <=> push' = "done"
    BY <1>5, <1>6, <1>12
  <2> QED
    BY Zenon, <2>1, <2>2
<1>14. f.from + f.count = i
  BY <1>2, <1>6
<1>15. PushTypeOK'
  <2>1. (frame_index + 1) % 256 \in 0 .. 255
    BY <1>6
  <2>2. push' \in {"fill", "done"}
    BY <1>12, Zenon
  <2> QED
    BY <1>4, <1>10, <2>1, <2>2, SMTT(20) DEF PushInv, PushTypeOK
<1>16. EachEntryOnce'
  <2>1. ASSUME NEW k \in 1 .. d + 1
        PROVE  frames'[k].from = IF k = 1 THEN 0 ELSE frames'[k - 1].from + frames'[k - 1].count
    <3>1. CASE k \in 1 .. d
      <4>1. k # 1 => k - 1 \in 1 .. d
        BY <1>7, <3>1
      <4>2. frames[k].from = IF k = 1 THEN 0 ELSE frames[k - 1].from + frames[k - 1].count
        BY Zenon, <1>7, <3>1 DEF PushInv, EachEntryOnce
      <4> QED
        BY <1>10, <3>1, <4>1, <4>2, Zenon
    <3>2. CASE k = d + 1 /\ d > 0
      <4>1. k # 1 /\ k - 1 = d /\ d \in 1 .. d
        BY <1>7, <3>2
      <4>2. frames # <<>>
        BY <1>3, <3>2
      <4> QED
        BY <1>2, <1>8, <1>10, <3>2, <4>1, <4>2, Zenon
    <3>3. CASE k = 1 /\ d = 0
      <4>1. i - entry_count = 0
        BY <1>6, <1>8, <3>3
      <4> QED
        BY <1>2, <1>10, <3>3, <4>1
    <3> QED
      BY <1>7, <3>1, <3>2, <3>3
  <2>2. push' = "done" => f.from + f.count = m
    BY <1>6, <1>12, <1>14
  <2>3. frames' # <<>>
    BY <1>7, <1>10
  <2> QED
    BY <1>4, <1>5, <1>10, <2>1, <2>2, <2>3, SMTT(20) DEF EachEntryOnce
<1>17. EndsOnce'
  <2>1. ASSUME NEW k \in 1 .. d + 1
        PROVE  frames'[k].end <=> k = d + 1 /\ push' = "done"
    <3>1. CASE k \in 1 .. d
      <4>1. ~frames[k].end
        BY <1>4, <1>7, <3>1, Zenon DEF PushInv, EndsOnce
      <4>2. k # d + 1
        BY <1>7, <3>1
      <4> QED
        BY <1>10, <3>1, <4>1, <4>2, Zenon
    <3>2. CASE k = d + 1
      BY <1>10, <1>13, <3>2, Zenon
    <3> QED
      BY <1>7, <3>1, <3>2
  <2> QED
    BY Zenon, <1>10, <2>1 DEF EndsOnce
<1>18. FramesFull'
  <2>1. ASSUME NEW k \in 1 .. d + 1
        PROVE  /\ frames'[k].index = k - 1
               /\ frames'[k].count = 5 \/ frames'[k].end
               /\ frames'[k].count = 0 => entries = <<>>
    <3>1. CASE k \in 1 .. d
      <4>1. /\ frames[k].index = k - 1
            /\ frames[k].count = 5 \/ frames[k].end
            /\ frames[k].count = 0 => entries = <<>>
        BY <1>7, <3>1, Zenon DEF PushInv, FramesFull
      <4> QED
        BY <1>10, <3>1, <4>1, Zenon
    <3>2. CASE k = d + 1
      <4>1. d = k - 1
        BY <1>7, <3>2
      <4>2. entry_count = 5 \/ f.end
        BY ZenonT(20), <1>2, <1>5, <1>11
      <4>3. entry_count = 0 => m = 0
        BY <1>6, <1>7, <1>8, <1>11
      <4>4. entry_count = 0 => entries = <<>>
        BY <1>5, <4>3 DEF PushInv, PushTypeOK
      <4> QED
        BY <1>2, <1>8, <1>10, <3>2, <4>1, <4>2, <4>4, Zenon
    <3> QED
      BY <1>7, <3>1, <3>2
  <2> QED
    BY Zenon, <1>4, <1>10, <2>1 DEF FramesFull
<1>19. Filling'
  <2> SUFFICES ASSUME push' = "fill" PROVE Filling'
    BY Zenon DEF Filling
  <2>1. i < m
    BY <1>12, Zenon
  <2>2. i = 5 * (d + 1) + 0
    BY <1>6, <1>7, <1>8, <1>11, <2>1
  <2>3. (d + 1) % 256 = d + 1
    <3>1. d + 1 \in 0 .. 255
      BY <1>6, <1>7, <2>1, <2>2
    <3> QED
      BY <3>1
  <2>4. i - 0 = i /\ 3 <= 3 + (32 + 4) * 0
    BY <1>6
  <2> QED
    BY <1>4, <1>5, <1>8, <1>10, <1>14, <2>1, <2>2, <2>3, <2>4, ZenonT(20) DEF Filling
<1> QED
  BY <1>15, <1>16, <1>17, <1>18, <1>19, Zenon DEF PushInv

\* The invariant holds after every turn of the loops.
LEMMA PushStep == PushInv /\ [PushNext]_pushVars => PushInv'
<1> SUFFICES ASSUME PushInv, [PushNext]_pushVars PROVE PushInv'
  OBVIOUS
<1>1. CASE UNCHANGED pushVars
  BY <1>1, ZenonT(20) DEF pushVars, PushInv, PushTypeOK, EachEntryOnce, EndsOnce, FramesFull, Filling
<1> QED
  BY <1>1, AddEntryInv, PushFrameInv, Zenon DEF PushNext

\* PushInv is an invariant of send_scan_results.
THEOREM PushInvAlways == PushSpec => []PushInv
  BY PushStart, PushStep, PTL DEF PushSpec

\* Every entry of the list is pushed once, in order (send_scan_results).
THEOREM ListComplete == PushSpec => []EachEntryOnce
<1>1. PushInv => EachEntryOnce
  BY Zenon DEF PushInv
<1> QED
  BY <1>1, PushInvAlways, PTL

\* end_of_list is on the last frame only.
THEOREM EndFlagOnce == PushSpec => []EndsOnce
<1>1. PushInv => EndsOnce
  BY Zenon DEF PushInv
<1> QED
  BY <1>1, PushInvAlways, PTL

\* SCAN_PUSH_PAYLOAD_CAP never cuts a frame short and frame_index never wraps.
THEOREM AllFramesFull == PushSpec => []FramesFull
<1>1. PushInv => FramesFull
  BY Zenon DEF PushInv
<1> QED
  BY <1>1, PushInvAlways, PTL
-----------------------------------------------------------------------------
(* ProtoCodec *)

\* The frames a client can write, and the bytes of one of them.
ClientFrame == [h : Headers, payload : Payloads]
Bytes(f) == Encode(f.h, f.payload, FrameSize(f))

\* What is where in a concatenation.
LEMMA Concat ==
    ASSUME NEW s \in Seq(Byte), NEW t \in Seq(Byte)
    PROVE  /\ s \o t \in Seq(Byte) /\ Len(s \o t) = Len(s) + Len(t)
           /\ \A x \in 1 .. Len(s) : (s \o t)[x] = s[x]
           /\ \A x \in 1 .. Len(t) : (s \o t)[Len(s) + x] = t[x]
OBVIOUS

\* The ten bytes before a payload whose length has the bytes hi and lo.
Head10(h, hi, lo) ==
    <<PROTO_MAGIC_0, PROTO_MAGIC_1, 0, 0, h.type, h.seq, h.command_set, h.command_id, hi, lo>>

\* The ten bytes before a payload.
LEMMA HeadIs ==
    ASSUME NEW h \in [type : Byte, seq : Byte, command_set : Byte, command_id : Byte],
           NEW hi \in Byte, NEW lo \in Byte
    PROVE  /\ Head10(h, hi, lo) \in Seq(Byte) /\ Len(Head10(h, hi, lo)) = 10
<1>1. 0 \in Byte /\ PROTO_MAGIC_0 \in Byte /\ PROTO_MAGIC_1 \in Byte
  BY DEF Byte, PROTO_MAGIC_0, PROTO_MAGIC_1
<1>2. /\ h.type \in Byte /\ h.seq \in Byte
      /\ h.command_set \in Byte /\ h.command_id \in Byte
  OBVIOUS
<1>. QED  BY <1>1, <1>2 DEF Head10

\* The size of a frame of the client.
LEMMA FrameIs ==
    ASSUME NEW f \in ClientFrame
    PROVE  /\ f.h \in [type : Byte, seq : Byte, command_set : Byte, command_id : Byte]
           /\ f.payload \in Seq(Byte)
           /\ Len(f.payload) \in Nat
           /\ \E hi, lo \in Byte : Len(f.payload) = 256 * hi + lo
           /\ f = [h |-> f.h, payload |-> f.payload]
           /\ FrameSize(f) \in Nat /\ FrameSize(f) = 10 + Len(f.payload)
<1>1. f.payload \in Payloads
  BY DEF ClientFrame
<1>2. f.h \in Headers /\ f = [h |-> f.h, payload |-> f.payload]
  BY DEF ClientFrame
<1>3. f.payload \in Seq(Byte) /\ Len(f.payload) \in Nat
      /\ \E hi, lo \in Byte : Len(f.payload) = 256 * hi + lo
  BY <1>1, CodecAssumption
<1>. QED  BY <1>2, <1>3, CodecAssumption DEF FrameSize, PROTO_HDR_LEN

\* What proto_encode writes, byte by byte (protocol.c:50).
LEMMA BytesAre ==
    ASSUME NEW f \in ClientFrame
    PROVE  LET p == Len(f.payload) IN
           /\ Bytes(f) \in Seq(Byte) /\ Len(Bytes(f)) = 10 + p
           /\ Bytes(f)[1] = PROTO_MAGIC_0 /\ Bytes(f)[2] = PROTO_MAGIC_1
           /\ Bytes(f)[5] = f.h.type /\ Bytes(f)[6] = f.h.seq
           /\ Bytes(f)[7] = f.h.command_set /\ Bytes(f)[8] = f.h.command_id
           /\ 256 * Bytes(f)[9] + Bytes(f)[10] = p
           /\ \A x \in 1 .. p : Bytes(f)[10 + x] = f.payload[x]
<1>1. /\ f.h \in [type : Byte, seq : Byte, command_set : Byte, command_id : Byte]
      /\ f.payload \in Seq(Byte) /\ Len(f.payload) \in Nat
  BY FrameIs
<1>2. PICK hi \in Byte, lo \in Byte : Len(f.payload) = 256 * hi + lo
  BY FrameIs
<1>3. (Len(f.payload) \div 256) % 256 = hi /\ Len(f.payload) % 256 = lo
  BY <1>2 DEF Byte
<1>4. Bytes(f) = Head10(f.h, hi, lo) \o f.payload
  <2>1. ~(PROTO_HDR_LEN + Len(f.payload) > FrameSize(f))
    BY <1>1 DEF FrameSize, PROTO_HDR_LEN
  <2>. QED  BY <1>3, <2>1, ZenonT(20) DEF Bytes, Encode, Head10
<1>5. PICK hd \in Seq(Byte), q \in Seq(Byte) : hd = Head10(f.h, hi, lo) /\ q = f.payload
  BY <1>1, HeadIs, Zenon
<1>6. /\ Bytes(f) \in Seq(Byte) /\ Len(Bytes(f)) = 10 + Len(f.payload)
      /\ \A x \in 1 .. 10 : Bytes(f)[x] = hd[x]
      /\ \A x \in 1 .. Len(f.payload) : Bytes(f)[10 + x] = f.payload[x]
  <2>1. Len(hd) = 10
    BY <1>1, <1>5, HeadIs
  <2>2. /\ hd \o q \in Seq(Byte) /\ Len(hd \o q) = Len(hd) + Len(q)
        /\ \A x \in 1 .. Len(hd) : (hd \o q)[x] = hd[x]
        /\ \A x \in 1 .. Len(q) : (hd \o q)[Len(hd) + x] = q[x]
    BY Concat, Zenon
  <2>. QED  BY <1>4, <1>5, <2>1, <2>2, Zenon
<1>7. /\ Bytes(f)[1] = hd[1] /\ Bytes(f)[2] = hd[2] /\ Bytes(f)[5] = hd[5]
      /\ Bytes(f)[6] = hd[6] /\ Bytes(f)[7] = hd[7] /\ Bytes(f)[8] = hd[8]
      /\ Bytes(f)[9] = hd[9] /\ Bytes(f)[10] = hd[10]
  BY <1>6
<1>8. /\ hd[1] = PROTO_MAGIC_0 /\ hd[2] = PROTO_MAGIC_1 /\ hd[9] = hi /\ hd[10] = lo
      /\ hd[5] = f.h.type /\ hd[6] = f.h.seq
      /\ hd[7] = f.h.command_set /\ hd[8] = f.h.command_id
  BY <1>5 DEF Head10
<1>. QED  BY <1>2, <1>6, <1>7, <1>8, ZenonT(60)

\* proto_decode takes a frame for what proto_encode has made of it, if the
\* bytes begin with as much of one as they have room for (protocol.c:14).
LEMMA Decodes ==
    ASSUME NEW f \in ClientFrame, NEW d \in Seq(Byte),
           \A x \in 1 .. FrameSize(f) : x <= Len(d) => d[x] = Bytes(f)[x]
    PROVE  /\ Status(d) = "OK" <=> /\ FrameSize(f) <= Len(d)
                                   /\ Len(f.payload) <= PROTO_PAYLOAD_MAX
           /\ Status(d) = "OK" => Decode(d) = f
<1>. DEFINE p == Len(f.payload)
<1>1. p \in Nat /\ FrameSize(f) = 10 + p /\ f.payload \in Seq(Byte)
  BY FrameIs
<1>2. CASE Len(d) < 10
  BY <1>1, <1>2 DEF Status, PROTO_HDR_LEN
<1>3. CASE Len(d) >= 10
  <2>1. \A x \in 1 .. 10 : d[x] = Bytes(f)[x]
    BY <1>1, <1>3
  <2>11. /\ d[1] = Bytes(f)[1] /\ d[2] = Bytes(f)[2] /\ d[5] = Bytes(f)[5]
        /\ d[6] = Bytes(f)[6] /\ d[7] = Bytes(f)[7] /\ d[8] = Bytes(f)[8]
        /\ d[9] = Bytes(f)[9] /\ d[10] = Bytes(f)[10]
    BY <2>1
  <2>2. /\ d[1] = PROTO_MAGIC_0 /\ d[2] = PROTO_MAGIC_1
        /\ d[5] = f.h.type /\ d[6] = f.h.seq
        /\ d[7] = f.h.command_set /\ d[8] = f.h.command_id
        /\ 256 * d[9] + d[10] = p
    BY <2>11, BytesAre, ZenonT(60)
  <2>3. Status(d) = "OK" <=> 10 + p <= Len(d) /\ p <= PROTO_PAYLOAD_MAX
    BY <1>1, <1>3, <2>2, SMTT(20) DEF Status, PROTO_HDR_LEN, PROTO_PAYLOAD_MAX
  <2>4. ASSUME 10 + p <= Len(d) PROVE Decode(d) = f
    <3>1. SubSeq(d, 11, 10 + p) \in Seq(Byte) /\ Len(SubSeq(d, 11, 10 + p)) = p
      BY <1>1, <2>4
    <3>2. \A x \in 1 .. p : SubSeq(d, 11, 10 + p)[x] = f.payload[x]
      <4>. TAKE x \in 1 .. p
      <4>1. SubSeq(d, 11, 10 + p)[x] = d[10 + x]
        BY <1>1, <2>4
      <4>2. d[10 + x] = Bytes(f)[10 + x]
        BY <1>1, <2>4
      <4>. QED  BY <4>1, <4>2, BytesAre, Zenon
    <3>3. SubSeq(d, 11, 10 + p) = f.payload
      BY <1>1, <3>1, <3>2, SMTT(60)
    <3>4. f.h = [type |-> d[5], seq |-> d[6], command_set |-> d[7], command_id |-> d[8]]
      BY <2>2, FrameIs
    <3>5. Decode(d) = [h |-> f.h, payload |-> f.payload]
      <4>1. PROTO_HDR_LEN + 1 = 11 /\ PROTO_HDR_LEN + p = 10 + p
        BY DEF PROTO_HDR_LEN
      <4>. QED  BY <2>2, <3>3, <3>4, <4>1, ZenonT(20) DEF Decode
    <3>. QED  BY <3>5, FrameIs
  <2>. QED  BY <1>1, <2>3, <2>4
<1>. QED  BY <1>1, <1>2, <1>3

\* The stream: where every frame begins and ends, and the bytes it is made of;
\* the buffer has lost at most the end of it.
Streamed ==
    /\ sent \in Seq(ClientFrame) /\ ends \in Seq(Nat) /\ Len(ends) = Len(sent)
    /\ buf \in Seq(Byte) /\ Len(buf) <= Start(Len(sent) + 1)
    /\ codec = "write" => Len(buf) = Start(Len(sent) + 1)
    /\ \A k \in 1 .. Len(sent) : ends[k] = Start(k) + FrameSize(sent[k])
    /\ \A j, k \in 1 .. Len(sent) : j < k => ends[j] < ends[k]
    /\ \A k \in 1 .. Len(sent) : \A x \in 1 .. FrameSize(sent[k]) :
          Start(k) + x <= Len(buf) => buf[Start(k) + x] = Bytes(sent[k])[x]

\* The loop: it is at the beginning of a frame, has handled all the frames
\* before it, and has stopped at one that is cut off or too long.
Taken ==
    /\ codec \in {"write", "loop", "done"}
    /\ handled \in Seq(ClientFrame) /\ Len(handled) <= Len(sent)
    /\ off = Start(Len(handled) + 1) /\ off <= Len(buf)
    /\ codec = "write" => handled = <<>>
    /\ \A k \in 1 .. Len(handled) :
          handled[k] = sent[k] /\ Len(sent[k].payload) <= PROTO_PAYLOAD_MAX
    /\ codec = "done" /\ Len(handled) < Len(sent) =>
          \/ ends[Len(handled) + 1] > Len(buf)
          \/ Len(sent[Len(handled) + 1].payload) > PROTO_PAYLOAD_MAX

CodecInv == Streamed /\ Taken

\* What is where in a part of a sequence.
LEMMA Part ==
    ASSUME NEW s \in Seq(Byte), NEW m \in Nat, NEW n \in Nat, m <= n, n <= Len(s)
    PROVE  /\ SubSeq(s, m + 1, n) \in Seq(Byte) /\ Len(SubSeq(s, m + 1, n)) = n - m
           /\ \A x \in 1 .. n - m : SubSeq(s, m + 1, n)[x] = s[m + x]
OBVIOUS

\* Where a frame begins.
LEMMA StartIn ==
    ASSUME Streamed, NEW k \in 1 .. Len(sent) + 1
    PROVE  Start(k) \in Nat
<1>1. CASE k = 1
  BY <1>1 DEF Start
<1>2. CASE k # 1
  BY <1>2 DEF Start, Streamed
<1>. QED  BY <1>1, <1>2

\* What the invariant says of one frame.
LEMMA FrameAt ==
    ASSUME Streamed, NEW k \in 1 .. Len(sent)
    PROVE  /\ sent[k] \in ClientFrame /\ ends[k] \in Nat /\ Start(k) \in Nat
           /\ ends[k] = Start(k) + FrameSize(sent[k])
           /\ \A j \in 1 .. Len(sent) : k < j => ends[k] < ends[j]
<1>1. Len(sent) \in Nat /\ k \in 1 .. Len(sent) + 1
  BY DEF Streamed
<1>2. sent[k] \in ClientFrame /\ ends[k] \in Nat
  BY DEF Streamed
<1>3. /\ ends[k] = Start(k) + FrameSize(sent[k])
      /\ \A j \in 1 .. Len(sent) : k < j => ends[k] < ends[j]
  BY Zenon DEF Streamed
<1>. QED  BY <1>1, <1>2, <1>3, StartIn, Zenon

\* The lengths, and where the loop is.
LEMMA Lengths ==
    ASSUME CodecInv
    PROVE  /\ Len(sent) \in Nat /\ Len(buf) \in Nat /\ Len(handled) \in Nat
           /\ Len(handled) <= Len(sent) /\ Len(buf) <= Start(Len(sent) + 1)
           /\ off = Start(Len(handled) + 1) /\ off <= Len(buf) /\ Streamed
<1>1. sent \in Seq(ClientFrame) /\ buf \in Seq(Byte) /\ handled \in Seq(ClientFrame)
  BY Zenon DEF CodecInv, Streamed, Taken
<1>2. /\ Len(handled) <= Len(sent) /\ Len(buf) <= Start(Len(sent) + 1)
      /\ off = Start(Len(handled) + 1) /\ off <= Len(buf) /\ Streamed
  BY Zenon DEF CodecInv, Streamed, Taken
<1>. QED  BY <1>1, <1>2

\* Where the loop is: what proto_decode finds there is the next frame of the
\* client, or as much of it as there is.
LEMMA AtFrame ==
    ASSUME CodecInv, off < Len(buf)
    PROVE  LET k == Len(handled) + 1 IN
           /\ k \in 1 .. Len(sent)
           /\ Status(Rest) = "OK" <=> /\ ends[k] <= Len(buf)
                                      /\ Len(sent[k].payload) <= PROTO_PAYLOAD_MAX
           /\ Status(Rest) = "OK" => Decode(Rest) = sent[k]
<1>. DEFINE k == Len(handled) + 1
<1>1. /\ k \in Nat \ {0} /\ k <= Len(sent) + 1 /\ Len(sent) \in Nat /\ Len(buf) \in Nat
      /\ off = Start(k) /\ Len(buf) <= Start(Len(sent) + 1)
  BY DEF CodecInv, Streamed, Taken
<1>2. k \in 1 .. Len(sent) /\ off \in Nat
  BY <1>1, StartIn DEF CodecInv
<1>. HIDE DEF k
<1>3. PICK f \in ClientFrame : f = sent[k]
  BY <1>2 DEF CodecInv, Streamed
<1>4. PICK d \in Seq(Byte) :
         d = Rest /\ Len(d) = Len(buf) - off /\ \A x \in 1 .. Len(d) : d[x] = buf[off + x]
  <2>1. buf \in Seq(Byte)
    BY DEF CodecInv, Streamed
  <2>2. Rest \in Seq(Byte) /\ Len(Rest) = Len(buf) - off
        /\ \A x \in 1 .. Len(buf) - off : Rest[x] = buf[off + x]
    BY <1>1, <1>2, <2>1, Part, SMTT(20) DEF Rest
  <2>. QED  BY <2>2, Zenon
<1>5. FrameSize(f) \in Nat /\ ends[k] = off + FrameSize(f)
  BY <1>1, <1>2, <1>3, FrameIs DEF CodecInv, Streamed
<1>6. \A x \in 1 .. FrameSize(f) : x <= Len(d) => d[x] = Bytes(f)[x]
  <2>1. \A x \in 1 .. FrameSize(f) : off + x <= Len(buf) => buf[off + x] = Bytes(f)[x]
    BY <1>1, <1>2, <1>3, SMTT(20) DEF CodecInv, Streamed
  <2>. TAKE x \in 1 .. FrameSize(f)
  <2>. HAVE x <= Len(d)
  <2>2. x \in 1 .. Len(d) /\ off + x <= Len(buf)
    BY <1>1, <1>2, <1>4, <1>5, SMTT(20)
  <2>. QED  BY <1>4, <2>1, <2>2, Zenon
<1>7. /\ Status(d) = "OK" <=> FrameSize(f) <= Len(d) /\ Len(f.payload) <= PROTO_PAYLOAD_MAX
      /\ Status(d) = "OK" => Decode(d) = f
  BY <1>6, Decodes
<1>8. FrameSize(f) <= Len(d) <=> ends[k] <= Len(buf)
  BY <1>1, <1>2, <1>4, <1>5, SMTT(20)
<1>. QED  BY <1>2, <1>3, <1>4, <1>7, <1>8, Zenon DEF k

\* Each step of the reader and of the client keeps the invariant.
LEMMA HandleFrameKeeps ==
    ASSUME CodecInv, HandleFrame
    PROVE  CodecInv'
<1>. DEFINE k == Len(handled) + 1
<1>1. /\ k \in 1 .. Len(sent) /\ ends[k] <= Len(buf)
      /\ Len(sent[k].payload) <= PROTO_PAYLOAD_MAX /\ Decode(Rest) = sent[k]
  BY AtFrame, Zenon DEF HandleFrame
<1>2. /\ handled' = Append(handled, sent[k]) /\ off' = off + FrameSize(sent[k])
      /\ UNCHANGED <<sent, ends, buf, codec>> /\ codec = "loop"
  BY <1>1 DEF HandleFrame, stream
<1>3. Streamed'
  BY <1>2, ZenonT(20) DEF CodecInv, Streamed, Start
<1>4. off' = ends[k]
  <2>1. off = Start(k) /\ ends[k] = Start(k) + FrameSize(sent[k])
    BY <1>1 DEF CodecInv, Streamed, Taken
  <2>. QED  BY <1>2, <2>1
<1>5. /\ handled' \in Seq(ClientFrame) /\ Len(handled') = k
      /\ \A j \in 1 .. Len(handled') : handled'[j] = IF j = k THEN sent[k] ELSE handled[j]
  BY <1>1, <1>2, SMTT(20) DEF CodecInv, Streamed, Taken
<1>6. \A j \in 1 .. Len(handled') :
         handled'[j] = sent'[j] /\ Len(sent'[j].payload) <= PROTO_PAYLOAD_MAX
  <2>. TAKE j \in 1 .. Len(handled')
  <2>1. j = k \/ j \in 1 .. Len(handled)
    BY <1>5 DEF CodecInv, Taken
  <2>. QED  BY <1>1, <1>2, <1>5, <2>1, ZenonT(20) DEF CodecInv, Taken
<1>7. off' = Start(Len(handled) + 1)'
  <2>1. Len(handled') + 1 # 1 /\ Len(handled') + 1 - 1 = k
    BY <1>1, <1>5
  <2>. QED  BY <1>2, <1>4, <2>1 DEF Start
<1>8. Taken'
  <2>1. Len(handled') <= Len(sent') /\ off' <= Len(buf') /\ codec' = "loop"
    BY <1>1, <1>2, <1>4, <1>5
  <2>. QED  BY <1>5, <1>6, <1>7, <2>1 DEF Taken
<1>. QED  BY <1>3, <1>8 DEF CodecInv

\* (the two ends of the loop)
LEMMA EndKeeps ==
    ASSUME CodecInv, DropRest \/ EndOfBuffer
    PROVE  CodecInv'
<1>. DEFINE k == Len(handled) + 1
<1>1. UNCHANGED <<sent, ends, buf, off, handled>> /\ codec = "loop" /\ codec' = "done"
  BY DEF DropRest, EndOfBuffer, stream
<1>2. Streamed'
  BY <1>1, ZenonT(20) DEF CodecInv, Streamed, Start
<1>3. ASSUME k <= Len(sent)
      PROVE  ends[k] > Len(buf) \/ Len(sent[k].payload) > PROTO_PAYLOAD_MAX
  <2>1. k \in 1 .. Len(sent) /\ sent[k] \in ClientFrame
    BY <1>3 DEF CodecInv, Streamed, Taken
  <2>2. /\ ends[k] \in Nat /\ Len(buf) \in Nat /\ Len(sent[k].payload) \in Nat
        /\ FrameSize(sent[k]) = 10 + Len(sent[k].payload)
    <3>1. ends[k] \in Nat /\ Len(buf) \in Nat
      BY <2>1 DEF CodecInv, Streamed
    <3>. QED  BY <2>1, <3>1, FrameIs, ZenonT(20)
  <2>3. CASE DropRest
    <3>1. ~(ends[k] <= Len(buf) /\ Len(sent[k].payload) <= PROTO_PAYLOAD_MAX)
      BY <2>3, AtFrame, Zenon DEF DropRest
    <3>. QED  BY <2>2, <3>1 DEF PROTO_PAYLOAD_MAX
  <2>4. CASE EndOfBuffer
    <3>1. ends[k] = off + FrameSize(sent[k]) /\ off = Len(buf)
      <4>1. /\ ends[k] = Start(k) + FrameSize(sent[k]) /\ off = Start(k) /\ off <= Len(buf)
            /\ Start(k) \in Nat
        BY <2>1, Lengths, FrameAt, Zenon
      <4>2. off >= Len(buf)
        BY <2>4 DEF EndOfBuffer
      <4>. QED  BY <2>2, <4>1, <4>2
    <3>. QED  BY <2>2, <3>1
  <2>. QED  BY <2>3, <2>4
<1>4. Taken'
  BY <1>1, <1>3 DEF CodecInv, Taken, Start
<1>. QED  BY <1>2, <1>4 DEF CodecInv

\* (one more frame of the client)
LEMMA WriteFrameKeeps ==
    ASSUME CodecInv, WriteFrame
    PROVE  CodecInv'
<1>1. PICK h \in Headers, p \in Payloads :
         /\ sent' = Append(sent, [h |-> h, payload |-> p])
         /\ ends' = Append(ends, Len(buf) + FrameSize([h |-> h, payload |-> p]))
         /\ buf' = buf \o Bytes([h |-> h, payload |-> p])
  BY Zenon DEF WriteFrame, Bytes
<1>2. PICK f \in ClientFrame : f = [h |-> h, payload |-> p]
  BY Zenon DEF ClientFrame
<1>3. PICK e \in Seq(Byte) : e = Bytes(f) /\ Len(e) = FrameSize(f)
  BY BytesAre, FrameIs
<1>4. PICK N \in Nat, L \in Nat : N = Len(sent) /\ L = Len(buf) /\ L = Start(N + 1)
  BY DEF CodecInv, Streamed, WriteFrame
<1>5. FrameSize(f) \in Nat /\ FrameSize(f) > 0
  BY FrameIs
<1>6. /\ sent' \in Seq(ClientFrame) /\ Len(sent') = N + 1 /\ sent'[N + 1] = f
      /\ \A k \in 1 .. N : sent'[k] = sent[k]
  <2>1. sent \in Seq(ClientFrame) /\ sent' = Append(sent, f)
    BY <1>1, <1>2 DEF CodecInv, Streamed
  <2>. QED  BY <1>4, <2>1, SMTT(20)
<1>7. /\ ends' \in Seq(Nat) /\ Len(ends') = N + 1 /\ ends'[N + 1] = L + FrameSize(f)
      /\ \A k \in 1 .. N : ends'[k] = ends[k]
  <2>1. ends \in Seq(Nat) /\ Len(ends) = N /\ ends' = Append(ends, L + FrameSize(f))
    BY <1>1, <1>2, <1>4, ZenonT(20) DEF CodecInv, Streamed
  <2>. QED  BY <1>4, <1>5, <2>1, SMTT(20)
<1>8. /\ buf' \in Seq(Byte) /\ Len(buf') = L + FrameSize(f)
      /\ \A x \in 1 .. L : buf'[x] = buf[x]
      /\ \A x \in 1 .. FrameSize(f) : buf'[L + x] = Bytes(f)[x]
  <2>1. buf \in Seq(Byte) /\ buf' = buf \o e
    BY <1>1, <1>2, <1>3 DEF CodecInv, Streamed
  <2>2. /\ buf \o e \in Seq(Byte) /\ Len(buf \o e) = Len(buf) + Len(e)
        /\ \A x \in 1 .. Len(buf) : (buf \o e)[x] = buf[x]
        /\ \A x \in 1 .. Len(e) : (buf \o e)[Len(buf) + x] = e[x]
    BY <2>1, Concat, Zenon
  <2>. QED  BY <1>3, <1>4, <2>1, <2>2, ZenonT(20)
<1>9. ASSUME NEW k \in 1 .. N + 1 PROVE Start(k)' = Start(k)
  BY <1>4, <1>7, SMTT(60) DEF Start
<1>10. Start(Len(sent) + 1)' = L + FrameSize(f)
  BY <1>4, <1>6, <1>7 DEF Start
<1>11. \A k \in 1 .. Len(sent') : ends'[k] = Start(k)' + FrameSize(sent'[k])
  <2>. TAKE k \in 1 .. Len(sent')
  <2>1. CASE k = N + 1
    BY <1>4, <1>6, <1>7, <1>9, <2>1, SMTT(20)
  <2>2. CASE k # N + 1
    <3>1. k \in 1 .. N /\ ends[k] = Start(k) + FrameSize(sent[k])
      BY <1>4, <1>6, <2>2 DEF CodecInv, Streamed
    <3>2. Start(k)' = Start(k)
      BY <1>9, <3>1
    <3>. QED  BY <1>6, <1>7, <3>1, <3>2, SMTT(20)
  <2>. QED  BY <2>1, <2>2
<1>12. \A j, k \in 1 .. Len(sent') : j < k => ends'[j] < ends'[k]
  <2>. TAKE j \in 1 .. Len(sent'), k \in 1 .. Len(sent')
  <2>. HAVE j < k
  <2>1. j \in 1 .. N /\ N \in 1 .. N
    BY <1>4, <1>6, SMTT(20)
  <2>5. /\ ends \in Seq(Nat) /\ Len(ends) = N
        /\ \A a, b \in 1 .. N : a < b => ends[a] < ends[b]
    BY <1>4 DEF CodecInv, Streamed
  <2>2. ends[j] \in Nat /\ ends[N] = L /\ (j < N => ends[j] < ends[N])
    BY <1>4, <2>1, <2>5, SMTT(20) DEF Start
  <2>3. CASE k = N + 1
    BY <1>4, <1>5, <1>7, <2>1, <2>2, <2>3, SMTT(20)
  <2>4. CASE k # N + 1
    <3>1. k \in 1 .. N
      BY <1>4, <1>6, <2>4, SMTT(20)
    <3>. QED  BY <1>7, <2>1, <2>5, <3>1, Zenon
  <2>. QED  BY <2>3, <2>4
<1>13. \A k \in 1 .. Len(sent') : \A x \in 1 .. FrameSize(sent'[k]) :
          Start(k)' + x <= Len(buf') => buf'[Start(k)' + x] = Bytes(sent'[k])[x]
  <2>. TAKE k \in 1 .. Len(sent')
  <2>1. CASE k = N + 1
    BY <1>4, <1>6, <1>8, <1>9, <2>1, SMTT(20)
  <2>2. CASE k # N + 1
    <3>1. k \in 1 .. N /\ sent[k] \in ClientFrame
      BY <1>4, <1>6, <2>2 DEF CodecInv, Streamed
    <3>2. /\ ends[k] \in Nat /\ ends[k] = Start(k) + FrameSize(sent[k]) /\ ends[k] <= L
          /\ Start(k) \in Nat /\ FrameSize(sent[k]) \in Nat
      <4>1. ends[k] \in Nat /\ ends[k] = Start(k) + FrameSize(sent[k])
        BY <1>4, <3>1, SMTT(20) DEF CodecInv, Streamed
      <4>2. ends[N] = L /\ (k < N => ends[k] < ends[N])
        <5>1. N \in 1 .. Len(sent) /\ k \in 1 .. Len(sent) /\ N + 1 # 1 /\ (N + 1) - 1 = N
          BY <1>4, <3>1
        <5>2. k < N => ends[k] < ends[N]
          BY <5>1, FrameAt, Zenon DEF CodecInv
        <5>3. Start(N + 1) = ends[N]
          BY <5>1, Zenon DEF Start
        <5>. QED  BY <1>4, <5>2, <5>3
      <4>3. Start(k) \in Nat /\ FrameSize(sent[k]) \in Nat
        BY <1>4, <3>1, StartIn, FrameIs, SMTT(20) DEF CodecInv
      <4>. QED  BY <1>4, <3>1, <4>1, <4>2, <4>3, SMTT(20)
    <3>3. Start(k)' = Start(k) /\ sent'[k] = sent[k]
      BY <1>6, <1>9, <3>1
    <3>4. ASSUME NEW x \in 1 .. FrameSize(sent[k])
          PROVE  buf'[Start(k) + x] = Bytes(sent[k])[x]
      <4>1. Start(k) + x \in 1 .. L
        BY <1>4, <3>2, SMTT(20)
      <4>2. buf[Start(k) + x] = Bytes(sent[k])[x]
        <5>1. Start(k) + x <= Len(buf) /\ k \in 1 .. Len(sent)
          BY <1>4, <3>1, <4>1
        <5>. QED  BY <5>1, Zenon DEF CodecInv, Streamed
      <4>. QED  BY <1>8, <4>1, <4>2
    <3>. QED  BY <3>3, <3>4, SMTT(20)
  <2>. QED  BY <2>1, <2>2, SMTT(20)
<1>14. Streamed'
  <2>1. Len(buf') = Start(Len(sent) + 1)' /\ Len(buf') <= Start(Len(sent) + 1)'
    BY <1>4, <1>5, <1>8, <1>10, SMTT(20)
  <2>. QED  BY <1>6, <1>7, <1>8, <1>11, <1>12, <1>13, <2>1, ZenonT(20) DEF Streamed
<1>15. Taken'
  <2>1. off = 0 /\ handled = <<>> /\ codec = "write" /\ UNCHANGED <<off, handled, codec>>
    BY DEF WriteFrame, CodecInv, Taken, Start
  <2>. QED  BY <1>4, <1>5, <1>6, <1>8, <2>1, SMTT(20) DEF Taken, Start
<1>. QED  BY <1>14, <1>15 DEF CodecInv

\* (the read that ends anywhere)
LEMMA ReadBufferKeeps ==
    ASSUME CodecInv, ReadBuffer
    PROVE  CodecInv'
<1>1. PICK c \in 1 .. Len(buf) : buf' = SubSeq(buf, 1, c)
  BY SMTT(20) DEF ReadBuffer
<1>2. buf \in Seq(Byte) /\ c \in Nat /\ c <= Len(buf) /\ 0 + 1 = 1 /\ c - 0 = c
  BY <1>1 DEF CodecInv, Streamed
<1>3. buf' \in Seq(Byte) /\ Len(buf') = c /\ \A x \in 1 .. c : buf'[x] = buf[x]
  BY <1>1, <1>2, Part
<1>4. UNCHANGED <<sent, ends, off, handled>> /\ codec = "write" /\ codec' = "loop"
  BY DEF ReadBuffer
<1>5. \A k \in 1 .. Len(sent') : \A x \in 1 .. FrameSize(sent'[k]) :
          Start(k)' + x <= Len(buf') => buf'[Start(k)' + x] = Bytes(sent'[k])[x]
  <2>. TAKE k \in 1 .. Len(sent')
  <2>. TAKE x \in 1 .. FrameSize(sent'[k])
  <2>. HAVE Start(k)' + x <= Len(buf')
  <2>1. Start(k)' = Start(k) /\ k \in 1 .. Len(sent) /\ sent'[k] = sent[k] /\ Len(sent) \in Nat
    BY <1>4, SMTT(20) DEF Start, CodecInv, Streamed
  <2>2. Start(k) \in Nat
    BY <2>1, StartIn DEF CodecInv
  <2>3. Start(k) + x \in 1 .. c /\ Start(k) + x <= Len(buf)
    BY <1>2, <1>3, <2>1, <2>2, SMTT(20)
  <2>4. buf[Start(k) + x] = Bytes(sent[k])[x]
    BY <2>1, <2>3, SMTT(20) DEF CodecInv, Streamed
  <2>. QED  BY <1>3, <2>1, <2>3, <2>4, SMTT(20)
<1>6. Streamed'
  <2>1. \A k \in 1 .. Len(sent) + 1 : Start(k)' = Start(k)
    BY <1>4 DEF Start
  <2>2. Len(buf') <= Start(Len(sent) + 1)'
    <3>1. /\ Len(sent) + 1 \in 1 .. Len(sent) + 1 /\ Len(sent) \in Nat
          /\ Len(buf) <= Start(Len(sent) + 1) /\ Len(buf) \in Nat /\ Streamed
      BY Lengths
    <3>2. Start(Len(sent) + 1) \in Nat /\ Start(Len(sent) + 1)' = Start(Len(sent) + 1)
      BY <1>4, <3>1, StartIn DEF Start
    <3>. QED  BY <1>2, <1>3, <3>1, <3>2
  <2>3. Streamed /\ Len(sent) \in Nat
    BY Lengths, Zenon
  <2>4. \A k \in 1 .. Len(sent) : Start(k)' = Start(k)
    BY <2>1, <2>3, SMTT(20)
  <2>. QED  BY <1>3, <1>4, <1>5, <2>2, <2>3, <2>4, ZenonT(20) DEF Streamed
<1>7. Taken'
  BY <1>1, <1>2, <1>3, <1>4 DEF CodecInv, Taken, Start
<1>. QED  BY <1>6, <1>7 DEF CodecInv

\* CodecInv is an invariant.
LEMMA CodecStep == CodecInv /\ [CodecNext]_codecVars => CodecInv'
<1>. SUFFICES ASSUME CodecInv, [CodecNext]_codecVars PROVE CodecInv'
  OBVIOUS
<1>1. CASE UNCHANGED codecVars
  BY <1>1, ZenonT(20) DEF codecVars, stream, CodecInv, Streamed, Taken, Start
<1>. QED  BY <1>1, WriteFrameKeeps, ReadBufferKeeps, HandleFrameKeeps, EndKeeps, Zenon DEF CodecNext

\* Stopping at the first frame that is cut off or too long is stopping after
\* all the frames of Whole: the ends increase.
LEMMA CodecDone == CodecInv => HandlesWholeFrames
<1>. SUFFICES ASSUME CodecInv PROVE HandlesWholeFrames
  OBVIOUS
<1>. DEFINE m == Len(handled)
<1>1. /\ m \in Nat /\ Len(sent) \in Nat /\ m <= Len(sent) /\ DOMAIN handled = 1 .. m
      /\ Len(buf) \in Nat
  BY Lengths DEF CodecInv, Taken
<1>2. ASSUME NEW k \in 1 .. m PROVE k \in Whole /\ handled[k] = sent[k]
  <2>1. ends[k] <= Len(buf)
    <3>1. ends[k] \in Nat /\ ends[m] \in Nat /\ (k < m => ends[k] < ends[m])
      <4>1. k \in 1 .. Len(sent) /\ m \in 1 .. Len(sent)
        BY <1>1, <1>2
      <4>. QED  BY <4>1, FrameAt, Zenon DEF CodecInv
    <3>2. ends[m] <= Len(buf)
      BY <1>1, <1>2 DEF CodecInv, Taken, Start
    <3>. QED  BY <1>1, <1>2, <3>1, <3>2
  <2>2. \A j \in 1 .. k : j \in 1 .. m
    BY <1>1, <1>2
  <2>. QED  BY <1>1, <1>2, <2>1, <2>2 DEF CodecInv, Taken, Whole
<1>3. ASSUME codec = "done", NEW k \in Whole PROVE k \in 1 .. m
  <2>1. /\ k \in 1 .. Len(sent) /\ ends[k] <= Len(buf)
        /\ \A j \in 1 .. k : Len(sent[j].payload) <= PROTO_PAYLOAD_MAX
    BY <1>3 DEF Whole
  <2>2. SUFFICES ASSUME k > m PROVE FALSE
    BY <1>1, <2>1
  <2>3. m + 1 \in 1 .. k /\ m + 1 \in 1 .. Len(sent)
    BY <1>1, <2>1, <2>2
  <2>4. ends[m + 1] \in Nat /\ ends[k] \in Nat /\ (m + 1 < k => ends[m + 1] < ends[k])
    BY <2>1, <2>3, FrameAt, Zenon DEF CodecInv
  <2>5. Len(sent[m + 1].payload) \in Nat /\ Len(sent[m + 1].payload) <= PROTO_PAYLOAD_MAX
    <3>1. sent[m + 1] \in ClientFrame
      BY <2>3, FrameAt, Zenon DEF CodecInv
    <3>. QED  BY <2>1, <2>3, <3>1, FrameIs, ZenonT(20)
  <2>6. ends[m + 1] > Len(buf) \/ Len(sent[m + 1].payload) > PROTO_PAYLOAD_MAX
    BY <1>1, <1>3, <2>3 DEF CodecInv, Taken
  <2>. QED  BY <1>1, <2>1, <2>2, <2>4, <2>5, <2>6, SMTT(20) DEF PROTO_PAYLOAD_MAX
<1>. QED  BY <1>1, <1>2, <1>3, Zenon DEF HandlesWholeFrames

\* For every sequence of frames a client can write, of any length, and however
\* many bytes of them arrive, proto_dispatch_buffer handles exactly those that
\* are complete, up to the first with more than PROTO_PAYLOAD_MAX bytes, with
\* every field and every byte that was encoded.
THEOREM AlwaysHandlesWholeFrames == CodecSpec => []HandlesWholeFrames
<1>1. CodecInit => CodecInv
  BY DEF CodecInit, CodecInv, Streamed, Taken, Start
<1>. QED  BY <1>1, CodecStep, CodecDone, PTL DEF CodecSpec

=============================================================================
