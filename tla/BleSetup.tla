------------------------------ MODULE BleSetup ------------------------------
(***************************************************************************)
(* How the GATT server comes up (ble_gatt.c): ble_gatt_thread finds the    *)
(* adapter, exports its objects and then runs the main loop; a thread of   *)
(* its own registers the server with BlueZ.  BlueZ answers                 *)
(* RegisterApplication only after it has called GetManagedObjects back,    *)
(* which the main loop has to serve.                                       *)
(***************************************************************************)
EXTENDS Naturals

CONSTANT MaxRetries   \* find_adapter is tried 60 times

ASSUME RetryAssumption == MaxRetries \in Nat \ {0}

VARIABLES
    main,      \* where ble_gatt_thread is
    reg,       \* where bluez_register_worker is
    hci,       \* BlueZ exports an adapter
    retries,
    exported,  \* register_objects is done
    inline,    \* there is no registration thread, its code runs on the main one
    agent,     \* the pairing agent is the default one
    app,       \* RegisterApplication, as BlueZ sees it
    adv,       \* the board advertises
    refused    \* history: BlueZ has refused a call

vars == <<main, reg, hci, retries, exported, inline, agent, app, adv, refused>>
busVars == <<agent, app, adv, refused>>

Init ==
    /\ main = "connect" /\ reg = "none"
    /\ hci \in BOOLEAN
    /\ retries = 0
    /\ exported = FALSE /\ inline = FALSE
    /\ agent = FALSE /\ app = "none" /\ adv = FALSE
    /\ refused = FALSE
-----------------------------------------------------------------------------
(* ble_gatt_thread *)

Connect ==
    /\ main = "connect"
    /\ main' \in {"find", "ended"}
    /\ UNCHANGED <<reg, hci, retries, exported, inline, busVars>>

\* Mutant: the number of tries is not limited.
FindAdapterForever ==
    /\ main = "find"
    /\ main' = IF hci THEN "export" ELSE "find"
    /\ UNCHANGED <<reg, hci, retries, exported, inline, busVars>>

\* One turn of the loop over find_adapter.
FindAdapter ==
    /\ main = "find"
    /\ IF hci
         THEN main' = "export" /\ UNCHANGED retries
         ELSE /\ retries' = retries + 1
              /\ main' = IF retries' < MaxRetries THEN "find" ELSE "ended"
    /\ UNCHANGED <<reg, hci, exported, inline, busVars>>

\* The adapter's properties are set, whether BlueZ takes them or not, and
\* register_objects exports the tree.
Export ==
    /\ main = "export"
    /\ \/ main' = "spawn" /\ exported' = TRUE
       \/ main' = "ended" /\ UNCHANGED exported
    /\ UNCHANGED <<reg, hci, retries, inline, busVars>>

\* Mutant: the registration is queued on the main loop (g_idle_add).
SpawnOnLoop ==
    /\ main = "spawn"
    /\ main' = "inline" /\ reg' = "agent"
    /\ UNCHANGED <<hci, retries, exported, inline, busVars>>

\* The registration thread starts, and the main loop is entered.
Spawn ==
    /\ main = "spawn"
    /\ main' = "loop" /\ reg' = "agent"
    /\ UNCHANGED <<hci, retries, exported, inline, busVars>>

\* pthread_create fails: bluez_register_worker is called before the loop.
SpawnFails ==
    /\ main = "spawn"
    /\ main' = "inline" /\ reg' = "agent"
    /\ inline' = TRUE
    /\ UNCHANGED <<hci, retries, exported, busVars>>

EnterLoop ==
    /\ main = "inline"
    /\ reg \in {"ready", "ended"}
    /\ main' = "loop"
    /\ UNCHANGED <<reg, hci, retries, exported, inline, busVars>>

\* om_method: the main loop answers GetManagedObjects.
GetManagedObjects ==
    /\ main = "loop"
    /\ app = "walking"
    /\ app' = "walked"
    /\ UNCHANGED <<main, reg, hci, retries, exported, inline, agent, adv, refused>>
-----------------------------------------------------------------------------
(* bluez_register_worker *)

\* register_agent may fail, which is only logged.
RegisterAgent ==
    /\ reg = "agent"
    /\ agent' \in BOOLEAN
    /\ reg' = "app"
    /\ UNCHANGED <<main, hci, retries, exported, inline, app, adv, refused>>

RegisterApp ==
    /\ reg = "app"
    /\ app' = "asked"
    /\ reg' = "wait"
    /\ UNCHANGED <<main, hci, retries, exported, inline, agent, adv, refused>>

\* Mutant: a refusal of the application is only logged, as for the agent.
AppAnsweredIgnored ==
    /\ reg = "wait"
    /\ app \in {"live", "refused"}
    /\ reg' = "adv"
    /\ UNCHANGED <<main, hci, retries, exported, inline, busVars>>

\* The call returns with BlueZ's answer.
AppAnswered ==
    /\ reg = "wait"
    /\ app \in {"live", "refused"}
    /\ reg' = IF app = "live" THEN "adv" ELSE "ended"
    /\ UNCHANGED <<main, hci, retries, exported, inline, busVars>>

\* The call times out after 25 s: nobody pumps the reverse call.
AppTimeout ==
    /\ reg = "wait"
    /\ main # "loop"
    /\ reg' = "ended"
    /\ UNCHANGED <<main, hci, retries, exported, inline, busVars>>

RegisterAdv ==
    /\ reg = "adv"
    /\ \/ adv' = TRUE /\ reg' = "ready" /\ UNCHANGED refused
       \/ refused' = TRUE /\ reg' = "ended" /\ UNCHANGED adv
    /\ UNCHANGED <<main, hci, retries, exported, inline, agent, app>>
-----------------------------------------------------------------------------
(* BlueZ *)

AdapterUp ==
    /\ ~hci
    /\ hci' = TRUE
    /\ UNCHANGED <<main, reg, retries, exported, inline, busVars>>

\* BlueZ calls GetManagedObjects, and accepts what it gets, or refuses.
BlueZ ==
    /\ \/ app = "asked" /\ app' = "walking" /\ UNCHANGED refused
       \/ app = "walked" /\ app' = "live" /\ UNCHANGED refused
       \/ app \in {"asked", "walked"} /\ app' = "refused" /\ refused' = TRUE
    /\ UNCHANGED <<main, reg, hci, retries, exported, inline, agent, adv>>

Main == Connect \/ FindAdapter \/ Export \/ Spawn \/ SpawnFails \/ EnterLoop \/ GetManagedObjects
Register == RegisterAgent \/ RegisterApp \/ AppAnswered \/ AppTimeout \/ RegisterAdv

Next == Main \/ Register \/ BlueZ \/ AdapterUp

\* The two threads run and BlueZ answers; an adapter need not show up.
Fairness == WF_vars(Main) /\ WF_vars(Register) /\ WF_vars(BlueZ)

Spec == Init /\ [][Next]_vars /\ Fairness
-----------------------------------------------------------------------------
(* Properties *)

TypeOK ==
    /\ main \in {"connect", "find", "export", "spawn", "inline", "loop", "ended"}
    /\ reg \in {"none", "agent", "app", "wait", "adv", "ready", "ended"}
    /\ hci \in BOOLEAN /\ exported \in BOOLEAN /\ inline \in BOOLEAN
    /\ retries \in 0 .. MaxRetries
    /\ agent \in BOOLEAN /\ adv \in BOOLEAN /\ refused \in BOOLEAN
    /\ app \in {"none", "asked", "walking", "walked", "live", "refused"}

\* A phone that sees the board finds the service on it: the advertisement is
\* registered only for an application that BlueZ has accepted.
AdvertisesLiveApp == adv => exported /\ app = "live"

\* "Splitting the responsibilities across two threads keeps the dispatcher
\* free" (ble_gatt.c:834): with a registration thread the server becomes ready
\* unless BlueZ refuses a call, and RegisterApplication never times out.
ComesUp == (reg = "agent" /\ ~inline) ~> (reg = "ready" \/ refused)

\* Whatever fails, the thread ends or the main loop runs: the fallback without
\* a registration thread does not block it for good.
LoopRuns == <>(main \in {"loop", "ended"})
=============================================================================
