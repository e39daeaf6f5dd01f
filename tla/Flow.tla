--------------------------------- MODULE Flow ---------------------------------
(***************************************************************************)
(* An asynchronous media flow of the tuning server (flow.cc, model         *)
(* ASYNCCOMMON): the flows before it put frames into its input slots, its  *)
(* coroutine's thread fetches and processes them, and the destructor stops *)
(* that thread.                                                            *)
(*                                                                         *)
(* A frame is its producer and its number.  The slots' sizes are read      *)
(* without their mutex by the consumer and by a blocked producer, as in    *)
(* the code.  A flow is destroyed when no upstream list and no snapshot of *)
(* one refers to it any more (the lists hold shared_ptrs).                 *)
(***************************************************************************)
EXTENDS Integers, Sequences, FiniteSets

CONSTANTS
    Producers,     \* threads of the flows before this one
    N,             \* input slots of the coroutine
    SlotOf,        \* SlotOf[p]: the slot that p feeds
    Inputs,        \* pairs of mode_when_full and max_cache_num; 0 is no limit
    MaxSend,       \* bound: the frames of each producer
    None

Slots == 1 .. N

ASSUME FlowAssumption ==
    /\ IsFiniteSet(Producers)
    /\ N \in Nat /\ SlotOf \in [Producers -> Slots]
    /\ Inputs \subseteq {"BLOCKING", "DROPFRONT", "DROPCURRENT"} \X Nat
    /\ MaxSend \in [Producers -> Nat]
    /\ None \notin Producers

VARIABLES
    mode_when_full, max_cache_num,
    cached_buffers,   \* cached_buffers[s]: a sequence of frames
    mtx,              \* mtx[s]: the producer that holds the slot's mutex, or None
    cond,             \* whether the consumer holds cond_mtx
    asleep,           \* the consumer is in cond.wait and was not notified
    enable, quit,
    ppc, seq,         \* per producer: where it is, frames begun
    down,             \* down[p]: p's list of down flows has this flow
    cpc, i,           \* the consumer: where it is, the slot it looks at
    got,              \* the frames fetched into in_vector so far, per slot
    spc               \* the destructor

fixed == <<mode_when_full, max_cache_num>>
producing == <<ppc, seq, down>>
consuming == <<cpc, i, got>>
ctl == <<enable, quit, spc>>
vars == <<fixed, cached_buffers, mtx, cond, asleep, producing, consuming, ctl>>

Frames == UNION {{p} \X (1 .. MaxSend[p]) : p \in Producers}

Init ==
    /\ \E in \in Inputs : mode_when_full = in[1] /\ max_cache_num = in[2]
    /\ cached_buffers = [s \in Slots |-> <<>>]
    /\ mtx = [s \in Slots |-> None]
    /\ cond = FALSE /\ asleep = FALSE
    /\ enable = TRUE /\ quit = FALSE
    /\ ppc = [p \in Producers |-> "idle"]
    /\ seq = [p \in Producers |-> 0]
    /\ down = [p \in Producers |-> TRUE]
    /\ cpc = "loop" /\ i = 1
    /\ got = [s \in Slots |-> <<>>]
    /\ spc = "idle"
-----------------------------------------------------------------------------
(* The producers *)

Size(s) == Len(cached_buffers[s])
Full(s) == max_cache_num > 0 /\ max_cache_num <= Size(s)

Go(p, at) == ppc' = [ppc EXCEPT ![p] = at]
Take(p) == mtx[SlotOf[p]] = None /\ mtx' = [mtx EXCEPT ![SlotOf[p]] = p]
Release(p) == mtx' = [mtx EXCEPT ![SlotOf[p]] = None]

\* RunOnce of the flow before: a snapshot of its list, then SendInput.
SendInput(p) ==
    /\ ppc[p] = "idle" /\ down[p]
    /\ seq[p] < MaxSend[p]
    /\ enable
    /\ Go(p, "lock")
    /\ seq' = [seq EXCEPT ![p] = @ + 1]
    /\ UNCHANGED <<fixed, cached_buffers, mtx, cond, asleep, down, consuming, ctl>>

RemoveDownFlow(p) ==
    /\ down[p]
    /\ down' = [down EXCEPT ![p] = FALSE]
    /\ UNCHANGED <<fixed, cached_buffers, mtx, cond, asleep, ppc, seq, consuming, ctl>>

\* Mutant: the limit is off by one.
LockOffByOne(p) ==
    /\ ppc[p] = "lock"
    /\ Take(p)
    /\ Go(p, IF max_cache_num > 0 /\ max_cache_num < Size(SlotOf[p])
             THEN mode_when_full ELSE "push")
    /\ UNCHANGED <<fixed, cached_buffers, cond, asleep, seq, down, consuming, ctl>>

\* ASyncSendInputCommonBehavior takes mtx and looks at the limit.
Lock(p) ==
    /\ ppc[p] = "lock"
    /\ Take(p)
    /\ Go(p, IF Full(SlotOf[p]) THEN mode_when_full ELSE "push")
    /\ UNCHANGED <<fixed, cached_buffers, cond, asleep, seq, down, consuming, ctl>>

\* ASyncFullDropCurrentBehavior: the frame is not taken.
DropCurrent(p) ==
    /\ ppc[p] = "DROPCURRENT"
    /\ Release(p)
    /\ Go(p, "idle")
    /\ UNCHANGED <<fixed, cached_buffers, cond, asleep, seq, down, consuming, ctl>>

\* Mutant: the mutex is released between the drop and the push.
DropFrontUnlocked(p) ==
    /\ ppc[p] = "DROPFRONT"
    /\ cached_buffers' = [cached_buffers EXCEPT ![SlotOf[p]] = Tail(@)]
    /\ Release(p)
    /\ Go(p, "lock")
    /\ UNCHANGED <<fixed, cond, asleep, seq, down, consuming, ctl>>

\* ASyncFullDropFrontBehavior.
DropFront(p) ==
    /\ ppc[p] = "DROPFRONT"
    /\ cached_buffers' = [cached_buffers EXCEPT ![SlotOf[p]] = Tail(@)]
    /\ Go(p, "push")
    /\ UNCHANGED <<fixed, mtx, cond, asleep, seq, down, consuming, ctl>>

\* ASyncFullBlockingBehavior: unlock and nap,
Nap(p) ==
    /\ ppc[p] = "BLOCKING"
    /\ Release(p)
    /\ Go(p, "nap")
    /\ UNCHANGED <<fixed, cached_buffers, cond, asleep, seq, down, consuming, ctl>>

\* look at the size without the mutex,
Look(p) ==
    /\ ppc[p] = "nap"
    /\ Go(p, IF max_cache_num > Size(SlotOf[p]) THEN "room" ELSE "again")
    /\ UNCHANGED <<fixed, cached_buffers, mtx, cond, asleep, seq, down, consuming, ctl>>

\* Mutant: a slot that is still full gives the frame up.
RelockGivesUp(p) ==
    /\ ppc[p] \in {"room", "again"}
    /\ Take(p)
    /\ Go(p, IF ppc[p] = "room" THEN "push" ELSE "DROPCURRENT")
    /\ UNCHANGED <<fixed, cached_buffers, cond, asleep, seq, down, consuming, ctl>>

\* and lock again, to go on if there was room.
Relock(p) ==
    /\ ppc[p] \in {"room", "again"}
    /\ Take(p)
    /\ Go(p, IF ~enable THEN "DROPCURRENT"
             ELSE IF ppc[p] = "room" THEN "push" ELSE "BLOCKING")
    /\ UNCHANGED <<fixed, cached_buffers, cond, asleep, seq, down, consuming, ctl>>

\* push_back and unlock.
Push(p) ==
    /\ ppc[p] = "push"
    /\ cached_buffers' = [cached_buffers EXCEPT ![SlotOf[p]] = Append(@, <<p, seq[p]>>)]
    /\ Release(p)
    /\ Go(p, "notify")
    /\ UNCHANGED <<fixed, cond, asleep, seq, down, consuming, ctl>>

\* Mutant: notify without cond_mtx.
NotifyUnlocked(p) ==
    /\ ppc[p] = "notify"
    /\ asleep' = FALSE
    /\ Go(p, "idle")
    /\ UNCHANGED <<fixed, cached_buffers, mtx, cond, seq, down, consuming, ctl>>

\* The consumer is woken under cond_mtx; SendInput returns.
Notify(p) ==
    /\ ppc[p] = "notify"
    /\ ~cond
    /\ asleep' = FALSE
    /\ Go(p, "idle")
    /\ UNCHANGED <<fixed, cached_buffers, mtx, cond, seq, down, consuming, ctl>>

Produce(p) ==
    \/ Lock(p) \/ DropCurrent(p) \/ DropFront(p)
    \/ Nap(p) \/ Look(p) \/ Relock(p) \/ Push(p) \/ Notify(p)
-----------------------------------------------------------------------------
(* The coroutine *)

\* The test of quit in WhileRun.
WhileRun ==
    /\ cpc = "loop"
    /\ cpc' = IF quit THEN "end" ELSE "fetch"
    /\ UNCHANGED <<fixed, cached_buffers, mtx, cond, asleep, producing, i, got, ctl>>

\* ASyncFetchInputCommon takes cond_mtx and looks at the slots;
LookForInput ==
    /\ cpc = "fetch"
    /\ cond' = \A s \in Slots : Size(s) = 0
    /\ cpc' = IF cond' THEN "empty" ELSE "slots"
    /\ UNCHANGED <<fixed, cached_buffers, mtx, asleep, producing, i, got, ctl>>

\* if all are empty it waits, once,
Wait ==
    /\ cpc = "empty"
    /\ asleep' = TRUE /\ cond' = FALSE
    /\ cpc' = "wait"
    /\ UNCHANGED <<fixed, cached_buffers, mtx, producing, i, got, ctl>>

\* until it is notified (or wakes up for no reason), and goes through the slots.
WakeUp ==
    /\ cpc = "wait" /\ ~asleep
    /\ cpc' = "slots"
    /\ UNCHANGED <<fixed, cached_buffers, mtx, cond, asleep, producing, i, got, ctl>>

SpuriousWakeUp ==
    /\ cpc = "wait" /\ asleep
    /\ asleep' = FALSE
    /\ UNCHANGED <<fixed, cached_buffers, mtx, cond, producing, consuming, ctl>>

\* A slot that looks empty is skipped; a disabled flow gets no input at all.
LookAtSlot ==
    /\ cpc = "slots" /\ i <= N
    /\ IF Size(i) = 0 THEN i' = i + 1 /\ UNCHANGED cpc
       ELSE IF ~enable THEN i' = N + 1 /\ UNCHANGED cpc
       ELSE cpc' = "take" /\ UNCHANGED i
    /\ UNCHANGED <<fixed, cached_buffers, mtx, cond, asleep, producing, got, ctl>>

\* assert(!v.empty()), front and pop_front under the slot's mutex.
TakeFront ==
    /\ cpc = "take"
    /\ mtx[i] = None
    /\ got' = [got EXCEPT ![i] = Append(@, Head(cached_buffers[i]))]
    /\ cached_buffers' = [cached_buffers EXCEPT ![i] = Tail(@)]
    /\ i' = i + 1
    /\ cpc' = "slots"
    /\ UNCHANGED <<fixed, mtx, cond, asleep, producing, ctl>>

\* The rest of RunOnce: the frames are processed and in_vector is reset.
Process ==
    /\ cpc = "slots" /\ i > N
    /\ i' = 1
    /\ cpc' = "loop"
    /\ UNCHANGED <<fixed, cached_buffers, mtx, cond, asleep, producing, got, ctl>>

Consume ==
    \/ WhileRun \/ LookForInput \/ Wait \/ WakeUp \/ LookAtSlot \/ Process
-----------------------------------------------------------------------------
(* StopAllThread, from the destructor *)

Unreferenced == \A p \in Producers : ~down[p] /\ ppc[p] = "idle"

Disable ==
    /\ spc = "idle" /\ Unreferenced
    /\ enable' = FALSE
    /\ spc' = "disabled"
    /\ UNCHANGED <<fixed, cached_buffers, mtx, cond, asleep, producing, consuming, quit>>

Quit ==
    /\ spc = "disabled"
    /\ quit' = TRUE
    /\ spc' = "notify"
    /\ UNCHANGED <<fixed, cached_buffers, mtx, cond, asleep, producing, consuming, enable>>

\* Mutant: the sleeper is not notified.
NotifyQuitNot ==
    /\ spc = "notify" /\ ~cond
    /\ spc' = "join"
    /\ UNCHANGED <<fixed, cached_buffers, mtx, cond, asleep, producing, consuming, enable, quit>>

NotifyQuit ==
    /\ spc = "notify" /\ ~cond
    /\ asleep' = FALSE
    /\ spc' = "join"
    /\ UNCHANGED <<fixed, cached_buffers, mtx, cond, producing, consuming, enable, quit>>

\* coroutine.reset() joins the thread.
Join ==
    /\ spc = "join" /\ cpc = "end"
    /\ spc' = "stopped"
    /\ UNCHANGED <<fixed, cached_buffers, mtx, cond, asleep, producing, consuming, enable, quit>>

StopAllThread == Quit \/ NotifyQuit \/ Join

Next ==
    \/ \E p \in Producers : SendInput(p) \/ RemoveDownFlow(p) \/ Produce(p)
    \/ Consume \/ TakeFront \/ SpuriousWakeUp
    \/ Disable \/ StopAllThread

Spec == Init /\ [][Next]_vars

\* The threads keep running.  The consumer gets a slot's mutex that is free
\* again and again: a blocked producer naps 5 ms without it in every round.
FairSpec ==
    /\ Spec
    /\ \A p \in Producers : WF_vars(Produce(p))
    /\ WF_vars(Consume) /\ SF_vars(TakeFront)
    /\ WF_vars(StopAllThread)
-----------------------------------------------------------------------------
(* Properties *)

TypeOK ==
    /\ mode_when_full \in {"BLOCKING", "DROPFRONT", "DROPCURRENT"}
    /\ max_cache_num \in Nat
    /\ cached_buffers \in [Slots -> Seq(Frames)]
    /\ mtx \in [Slots -> Producers \cup {None}]
    /\ ppc \in [Producers -> {"idle", "lock", "BLOCKING", "DROPFRONT", "DROPCURRENT",
                              "nap", "room", "again", "push", "notify"}]
    /\ seq \in [Producers -> Nat]
    /\ down \in [Producers -> BOOLEAN]
    /\ cpc \in {"loop", "fetch", "empty", "wait", "slots", "take", "end"}
    /\ i \in 1 .. N + 1
    /\ cond \in BOOLEAN /\ asleep \in BOOLEAN /\ enable \in BOOLEAN /\ quit \in BOOLEAN

\* The assertion of ASyncFetchInputCommon holds: a slot that looked non-empty
\* without the mutex is not empty when the mutex has been taken, whatever
\* producers drop or push in between.
FetchFinds == cpc = "take" /\ mtx[i] = None => cached_buffers[i] # <<>>

Feeding(s) == {p \in Producers : SlotOf[p] = s}

\* The limit of a slot: exact when frames are dropped, while each producer but
\* one that saw room during its nap may put a frame too many.
Bounded ==
    \A s \in Slots : max_cache_num > 0 =>
        Size(s) <= max_cache_num +
            (IF mode_when_full = "BLOCKING" THEN Cardinality(Feeding(s)) - 1 ELSE 0)

\* What was handed over to slot s, oldest first: fetched or waiting.
Handed(s) == got[s] \o cached_buffers[s]

\* Slots that drop no frame.
Lossless == mode_when_full = "BLOCKING" \/ max_cache_num = 0

\* A producer's frames stay in their order and are never duplicated; a slot
\* that blocks, or has no limit, loses none of them while the flow is in use.
InOrder ==
    \A s \in Slots : LET h == Handed(s) IN
        /\ \A j, k \in DOMAIN h : j < k /\ h[j][1] = h[k][1] => h[j][2] < h[k][2]
        /\ enable /\ Lossless =>
              \A k \in DOMAIN h : \A n \in 1 .. h[k][2] :
                  \E j \in DOMAIN h : h[j] = <<h[k][1], n>>

\* The slots are the queues of FrameQueue: behind the unlocked reads, the naps
\* and the single wait, no frame is lost or reordered, and none stays in a slot
\* because its wake-up was lost.
Queue == INSTANCE FrameQueue WITH
    mode <- mode_when_full, queue <- cached_buffers, open <- enable
QueueSpec == Queue!Spec

\* A destructor whose notification finds the coroutine asleep, or on its way
\* out of the wait, gets to the end of its join.
StopWakesSleeper == (spc = "notify" /\ cpc = "wait") ~> spc = "stopped"

-----------------------------------------------------------------------------
(* The inductive invariants: Inv is behind FetchFinds and the steps of     *)
(* Queue, with RoomBlocking behind Bounded, and with OrderInv behind       *)
(* InOrder.                                                                *)

Holding == {"BLOCKING", "DROPFRONT", "DROPCURRENT", "push"}

\* A slot's mutex belongs to the producer that is between its lock and unlock.
LockHeld ==
    \A p \in Producers, s \in Slots : mtx[s] = p <=> SlotOf[p] = s /\ ppc[p] \in Holding

\* A flow that is being fed has not been disabled.
Sending == \A p \in Producers : ppc[p] # "idle" => enable /\ seq[p] \in 1 .. MaxSend[p]

Dropping ==
    \A p \in Producers :
        ppc[p] = "DROPFRONT" => mode_when_full = "DROPFRONT" /\ cached_buffers[SlotOf[p]] # <<>>

\* A slot that looked non-empty is empty only while a producer has dropped its
\* front and not yet put the new frame, all of it under the mutex.
Fetching ==
    cpc = "take" =>
        /\ i \in Slots
        /\ cached_buffers[i] # <<>> \/ \E p \in Producers : mtx[i] = p /\ ppc[p] = "push"

\* A dropping slot: nobody naps, and whoever puts a frame does so under the
\* mutex it has looked with.
RoomDropping ==
    max_cache_num > 0 /\ mode_when_full # "BLOCKING" =>
        /\ \A s \in Slots : Size(s) <= max_cache_num
        /\ \A p \in Producers :
              /\ ppc[p] \notin {"BLOCKING", "nap", "room", "again"}
              /\ ppc[p] = "push" => Size(SlotOf[p]) < max_cache_num

Inv == TypeOK /\ LockHeld /\ Sending /\ Dropping /\ Fetching /\ RoomDropping

\* The producers that have seen room in s and will put a frame.
Committed(s) == {p \in Feeding(s) : ppc[p] \in {"room", "push"}}

\* A blocking slot: whoever saw room saw it when the slot was below its limit.
RoomBlocking ==
    max_cache_num > 0 /\ mode_when_full = "BLOCKING" =>
        \A s \in Slots :
            Size(s) + Cardinality(Committed(s)) <= max_cache_num - 1 + Cardinality(Feeding(s))

\* Only a slot with a limit loses frames, and not by blocking.
Losing == \A p \in Producers : ppc[p] \in {"DROPFRONT", "DROPCURRENT"} => ~Lossless

\* The frames of p that were put into its slot, or dropped.
Done(p) == IF ppc[p] \in {"idle", "notify"} THEN seq[p] ELSE seq[p] - 1

\* What is in a slot was put there by its producers,
Numbered ==
    \A s \in Slots : \A k \in DOMAIN Handed(s) :
        SlotOf[Handed(s)[k][1]] = s /\ Handed(s)[k][2] <= Done(Handed(s)[k][1])

\* by each in the order of its numbers,
Ascending ==
    \A s \in Slots : \A j, k \in DOMAIN Handed(s) :
        j < k /\ Handed(s)[j][1] = Handed(s)[k][1] => Handed(s)[j][2] < Handed(s)[k][2]

\* and, if the slot loses none, without a gap.
Gapless ==
    enable /\ Lossless =>
        \A p \in Producers : \A n \in 1 .. Done(p) :
            \E k \in DOMAIN Handed(SlotOf[p]) : Handed(SlotOf[p])[k] = <<p, n>>

OrderInv == got \in [Slots -> Seq(Frames)] /\ Losing /\ Numbered /\ Ascending /\ Gapless

\* Every step of the flow is a step of its queues, or changes none of them.
QueueSafe == Queue!Init /\ [][Queue!Next]_(Queue!chan)

-----------------------------------------------------------------------------
(* What a comment says that the code does not do *)

\* "As sub threads may call the variable of child class, we should define this
\* for child class when it deconstruct" (flow.h:324): StopAllThread ends the
\* threads, so that a destructor that calls it returns.
StopsAllThreads == (spc = "disabled") ~> (spc = "stopped")
=============================================================================
