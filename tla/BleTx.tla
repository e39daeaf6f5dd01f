-------------------------------- MODULE BleTx --------------------------------
(***************************************************************************)
(* The TX characteristic of the GATT server (ble_gatt.c).  ble_gatt_send   *)
(* is the sink of the BLE transport: the thread of the main loop calls it  *)
(* for a RESP, a worker of the dispatcher for a PUSH.  It replaces         *)
(* s_tx_value and emits PropertiesChanged; BlueZ reads s_tx_value back and *)
(* turns the notifications on and off, on the thread of the main loop.     *)
(* All of this needs an application that BlueZ has accepted, so the steps  *)
(* of BleSetup come first.                                                 *)
(***************************************************************************)
EXTENDS BleSetup, FiniteSets

CONSTANTS
    Loop,     \* the thread of the main loop
    Workers,  \* the dispatcher's workers that send
    Frames,   \* the frames that are sent
    Bufs,     \* heap cells a GByteArray can be in
    None

Threads == {Loop} \cup Workers

Empty == "empty"    \* a new GByteArray
Freed == "freed"

ASSUME BleAssumption ==
    /\ Loop \notin Workers
    /\ None \notin Frames \cup Bufs
    /\ {Empty, Freed} \cap Frames = {}
    /\ IsFiniteSet(Bufs)

VARIABLES
    s_tx_notifying,
    s_tx_value,  \* a cell of the heap, or None
    heap,        \* heap[b]: what is in cell b
    pc,          \* pc[t]: where t is in ble_gatt_send, or in ReadValue
    data,        \* data[t]: the frame t sends
    ptr,         \* ptr[t]: the pointer t has loaded from s_tx_value
    emitted,     \* the frame of the last PropertiesChanged
    lost,        \* history: the last send could not emit it
    raced        \* history: a thread has come in while another was inside

txVars == <<s_tx_notifying, s_tx_value, heap, pc, data, ptr, emitted, lost, raced>>

TxInit ==
    /\ s_tx_notifying = FALSE
    /\ s_tx_value = None
    /\ heap = [b \in Bufs |-> Freed]
    /\ pc = [t \in Threads |-> "idle"]
    /\ data = [t \in Threads |-> None]
    /\ ptr = [t \in Threads |-> None]
    /\ emitted = None /\ lost = FALSE /\ raced = FALSE

BleInit == Init /\ TxInit

\* A thread comes in; none waits for another.
Enter(t) == raced' = (raced \/ \E u \in Threads \ {t} : pc[u] # "idle")

Goto(t, l) == pc' = [pc EXCEPT ![t] = l]

\* StartNotify and StopNotify on the TX characteristic.
Notify(on) ==
    /\ pc[Loop] = "idle"
    /\ s_tx_notifying' = on
    /\ UNCHANGED <<s_tx_value, heap, pc, data, ptr, emitted, lost, raced>>

\* ReadValue, or the Value property: the pointer is loaded,
ReadValue ==
    /\ pc[Loop] = "idle"
    /\ ptr' = [ptr EXCEPT ![Loop] = s_tx_value]
    /\ Enter(Loop) /\ Goto(Loop, "read")
    /\ UNCHANGED <<s_tx_notifying, s_tx_value, heap, data, emitted, lost>>

\* and what it points to is copied into the reply.
CopyValue ==
    /\ pc[Loop] = "read"
    /\ ptr' = [ptr EXCEPT ![Loop] = None]
    /\ Goto(Loop, "idle")
    /\ UNCHANGED <<s_tx_notifying, s_tx_value, heap, data, emitted, lost, raced>>

\* ble_gatt_send drops the frame when nobody has subscribed.
Send(t) ==
    \E f \in Frames :
        /\ pc[t] = "idle"
        /\ s_tx_notifying
        /\ Enter(t) /\ Goto(t, "load") /\ data' = [data EXCEPT ![t] = f]
        /\ UNCHANGED <<s_tx_notifying, s_tx_value, heap, ptr, emitted, lost>>

Load(t) ==
    /\ pc[t] = "load"
    /\ ptr' = [ptr EXCEPT ![t] = s_tx_value]
    /\ Goto(t, IF s_tx_value = None THEN "new" ELSE "free")
    /\ UNCHANGED <<s_tx_notifying, s_tx_value, heap, data, emitted, lost, raced>>

\* Mutant: the old value is not freed.
FreeLeaks(t) ==
    /\ pc[t] = "free"
    /\ ptr' = [ptr EXCEPT ![t] = None]
    /\ Goto(t, "new")
    /\ UNCHANGED <<s_tx_notifying, s_tx_value, heap, data, emitted, lost, raced>>

\* g_byte_array_free of what was loaded.
Free(t) ==
    /\ pc[t] = "free"
    /\ heap' = [heap EXCEPT ![ptr[t]] = Freed]
    /\ ptr' = [ptr EXCEPT ![t] = None]
    /\ Goto(t, "new")
    /\ UNCHANGED <<s_tx_notifying, s_tx_value, data, emitted, lost, raced>>

\* Any free cell will do, the one just freed included.
New(t) ==
    \E b \in Bufs :
        /\ pc[t] = "new"
        /\ heap[b] = Freed
        /\ heap' = [heap EXCEPT ![b] = Empty]
        /\ s_tx_value' = b
        /\ Goto(t, "append")
        /\ UNCHANGED <<s_tx_notifying, data, ptr, emitted, lost, raced>>

\* g_byte_array_append loads s_tx_value again.
AppendData(t) ==
    /\ pc[t] = "append"
    /\ heap' = [heap EXCEPT ![s_tx_value] = data[t]]
    /\ Goto(t, "emit")
    /\ UNCHANGED <<s_tx_notifying, s_tx_value, data, ptr, emitted, lost, raced>>

\* PropertiesChanged carries the frame itself; when the signal cannot be emitted
\* that is logged, and the value is the new one all the same.
Emit(t) ==
    /\ pc[t] = "emit"
    /\ \/ emitted' = data[t] /\ lost' = FALSE
       \/ lost' = TRUE /\ UNCHANGED emitted
    /\ data' = [data EXCEPT ![t] = None]
    /\ Goto(t, "idle")
    /\ UNCHANGED <<s_tx_notifying, s_tx_value, heap, ptr, raced>>

\* BlueZ calls the characteristics of an application that it has accepted.
Tx ==
    \/ \E on \in BOOLEAN : Notify(on)
    \/ ReadValue \/ CopyValue
    \/ \E t \in Threads :
          Send(t) \/ Load(t) \/ Free(t) \/ New(t) \/ AppendData(t) \/ Emit(t)

BleNext ==
    \/ Next /\ UNCHANGED txVars
    \/ app = "live" /\ Tx /\ UNCHANGED vars

bleVars == <<vars, txVars>>

\* The fairness of BleSetup; nobody has to call a characteristic.
BleSpec == BleInit /\ [][BleNext]_bleVars /\ Fairness
-----------------------------------------------------------------------------
(* Properties *)

TxTypeOK ==
    /\ TypeOK
    /\ s_tx_notifying \in BOOLEAN
    /\ s_tx_value \in Bufs \cup {None}
    /\ heap \in [Bufs -> Frames \cup {Empty, Freed}]
    /\ pc \in [Threads -> {"idle", "read", "load", "free", "new", "append", "emit"}]
    /\ data \in [Threads -> Frames \cup {None}]
    /\ ptr \in [Threads -> Bufs \cup {None}]
    /\ emitted \in Frames \cup {None}
    /\ lost \in BOOLEAN /\ raced \in BOOLEAN

\* "Safe to call from any thread" (ble_gatt.h:13): what a thread frees, fills
\* or copies is allocated.
UsesLiveValue ==
    \A t \in Threads :
        /\ pc[t] = "free" => heap[ptr[t]] # Freed
        /\ pc[t] = "read" /\ ptr[t] # None => heap[ptr[t]] # Freed
        /\ pc[t] = "append" => heap[s_tx_value] # Freed

AtRest == \A t \in Threads : pc[t] \in {"idle", "read"}

\* As long as no thread has come into ble_gatt_send, or reads the value, while
\* another was inside: what is freed, filled or copied is allocated; between two
\* sends there is one byte array and no other is left over, whichever threads
\* have sent; and what BlueZ reads back is the frame it was last notified of,
\* unless the last send could not notify it.
SerialSendsKeepValue ==
    ~raced =>
        /\ UsesLiveValue
        /\ AtRest => /\ {b \in Bufs : heap[b] # Freed} = {s_tx_value} \ {None}
                     /\ s_tx_value # None => heap[s_tx_value] = emitted \/ lost
=============================================================================
