------------------------------ MODULE FlowProofs ------------------------------
(***************************************************************************)
(* Proofs about Flow, for any producers, slots, limits and frames: the     *)
(* inductive invariant Inv, from it the assertion of the fetch and that    *)
(* every step is a step of FrameQueue.  Each conjunct of Inv has a lemma   *)
(* for the producers' steps and one for the others.  OrderInv, the         *)
(* invariant of the frames' order, comes after that.                       *)
(***************************************************************************)
EXTENDS Flow, TLAPS

USE FlowAssumption

ProducerStep(p) == SendInput(p) \/ RemoveDownFlow(p) \/ Produce(p)
OtherStep == Consume \/ TakeFront \/ SpuriousWakeUp \/ Disable \/ StopAllThread
-----------------------------------------------------------------------------
(* What the steps leave alone *)

\* A producer moves neither the consumer nor the destructor.
LEMMA ProducerFrame ==
    ASSUME NEW p \in Producers, ProducerStep(p)
    PROVE  UNCHANGED <<fixed, consuming, ctl>>
BY Zenon DEF ProducerStep, SendInput, RemoveDownFlow, Produce, Lock, DropCurrent, DropFront, Nap,
       Look, Relock, Push, Notify

\* The consumer and the destructor move no producer and hold no slot's mutex
\* across a step; only TakeFront changes a slot and only Disable the flag.
LEMMA OtherFrame ==
    ASSUME OtherStep
    PROVE  /\ UNCHANGED <<mode_when_full, max_cache_num, mtx, ppc, seq>>
           /\ TakeFront \/ UNCHANGED cached_buffers
           /\ Disable \/ UNCHANGED enable
           /\ cpc' # "take" \/ LookAtSlot \/ UNCHANGED <<cpc, i, cached_buffers>>
BY ZenonT(20) DEF OtherStep, Consume, StopAllThread, WhileRun, LookForInput, Wait, WakeUp, LookAtSlot,
       TakeFront, Process, SpuriousWakeUp, Disable, Quit, NotifyQuit, Join,
       fixed, producing, consuming, ctl
-----------------------------------------------------------------------------
(* Type correctness *)

\* Push needs that the frame's number is in range, DropFront that there is a front.
LEMMA TypeOKProducer ==
    ASSUME Inv, NEW p \in Producers, ProducerStep(p)
    PROVE  TypeOK'
<1>. USE DEF Inv, TypeOK, Go, Take, Release, fixed, consuming, ctl
<1>1. CASE SendInput(p)
  BY <1>1 DEF SendInput
<1>2. CASE RemoveDownFlow(p)
  BY <1>2, ZenonT(20) DEF RemoveDownFlow
<1>3. CASE Lock(p)
  BY <1>3, ZenonT(20) DEF Lock
<1>4. CASE DropCurrent(p)
  BY <1>4, ZenonT(20) DEF DropCurrent
<1>5. CASE DropFront(p)
  BY <1>5 DEF Dropping, DropFront
<1>6. CASE Nap(p)
  BY <1>6, ZenonT(20) DEF Nap
<1>7. CASE Look(p)
  BY <1>7, ZenonT(20) DEF Look
<1>8. CASE Relock(p)
  BY <1>8 DEF Relock
<1>9. CASE Push(p)
  <2>1. <<p, seq[p]>> \in Frames
    BY <1>9 DEF Inv, Sending, Push, Frames
  <2>2. Append(cached_buffers[SlotOf[p]], <<p, seq[p]>>) \in Seq(Frames)
    BY <2>1 DEF Inv, TypeOK
  <2>. QED  BY <1>9, <2>2, ZenonT(20) DEF Inv, TypeOK, Push, Release, Go, fixed, consuming, ctl
<1>10. CASE Notify(p)
  BY <1>10, Zenon DEF Notify
<1>. QED  BY <1>1, <1>2, <1>3, <1>4, <1>5, <1>6, <1>7, <1>8, <1>9, <1>10,
             ZenonT(20) DEF ProducerStep, Produce

\* TakeFront needs the slot's front, which is the assertion of the fetch.
LEMMA TypeOKOther ==
    ASSUME Inv, OtherStep
    PROVE  TypeOK'
<1>. USE DEF Inv, TypeOK, Slots, fixed, producing, consuming, ctl
<1>1. CASE WhileRun
  BY <1>1, Zenon DEF WhileRun
<1>2. CASE LookForInput
  BY <1>2, Zenon DEF LookForInput
<1>3. CASE Wait
  BY <1>3, Zenon DEF Wait
<1>4. CASE WakeUp
  BY <1>4, Zenon DEF WakeUp
<1>5. CASE LookAtSlot
  BY <1>5 DEF LookAtSlot
<1>6. CASE TakeFront
  BY <1>6 DEF Fetching, LockHeld, Holding, TakeFront
<1>7. CASE Process
  BY <1>7 DEF Process
<1>8. CASE SpuriousWakeUp
  BY <1>8, Zenon DEF SpuriousWakeUp
<1>9. CASE Disable
  BY <1>9, Zenon DEF Disable
<1>10. CASE Quit
  BY <1>10, Zenon DEF Quit
<1>11. CASE NotifyQuit
  BY <1>11, Zenon DEF NotifyQuit
<1>12. CASE Join
  BY <1>12, SMTT(20) DEF Join
<1>. QED  BY <1>1, <1>2, <1>3, <1>4, <1>5, <1>6, <1>7, <1>8, <1>9, <1>10,
             <1>11, <1>12, ZenonT(20) DEF OtherStep, Consume, StopAllThread
-----------------------------------------------------------------------------
(* The mutexes and the producers *)

\* A producer takes a free mutex and gives back its own.
LEMMA LockHeldProducer ==
    ASSUME Inv, NEW p \in Producers, ProducerStep(p)
    PROVE  LockHeld'
<1>. USE DEF Inv, TypeOK, LockHeld, Holding, Go, Take, Release, fixed, consuming, ctl
<1>1. CASE SendInput(p)
  BY <1>1 DEF SendInput
<1>2. CASE RemoveDownFlow(p)
  BY <1>2 DEF RemoveDownFlow
<1>3. CASE Lock(p)
  BY <1>3 DEF Lock
<1>4. CASE DropCurrent(p)
  BY <1>4 DEF DropCurrent
<1>5. CASE DropFront(p)
  BY <1>5 DEF DropFront
<1>6. CASE Nap(p)
  BY <1>6 DEF Nap
<1>7. CASE Look(p)
  BY <1>7 DEF Look
<1>8. CASE Relock(p)
  BY <1>8 DEF Relock
<1>9. CASE Push(p)
  BY <1>9 DEF Push
<1>10. CASE Notify(p)
  BY <1>10 DEF Notify
<1>. QED  BY <1>1, <1>2, <1>3, <1>4, <1>5, <1>6, <1>7, <1>8, <1>9, <1>10,
             ZenonT(20) DEF ProducerStep, Produce

LEMMA LockHeldOther ==
    ASSUME Inv, OtherStep
    PROVE  LockHeld'
BY OtherFrame, SMTT(20) DEF Inv, LockHeld

LEMMA SendingProducer ==
    ASSUME Inv, NEW p \in Producers, ProducerStep(p)
    PROVE  Sending'
<1>. USE DEF Inv, TypeOK, Sending, Go, Take, Release, fixed, consuming, ctl
<1>1. CASE SendInput(p)
  BY <1>1 DEF SendInput
<1>2. CASE RemoveDownFlow(p)
  BY <1>2, Zenon DEF RemoveDownFlow
<1>3. CASE Lock(p)
  BY <1>3, Zenon DEF Lock
<1>4. CASE DropCurrent(p)
  BY <1>4, Zenon DEF DropCurrent
<1>5. CASE DropFront(p)
  BY <1>5, Zenon DEF DropFront
<1>6. CASE Nap(p)
  BY <1>6, Zenon DEF Nap
<1>7. CASE Look(p)
  BY <1>7, Zenon DEF Look
<1>8. CASE Relock(p)
  BY <1>8, Zenon DEF Relock
<1>9. CASE Push(p)
  BY <1>9, Zenon DEF Push
<1>10. CASE Notify(p)
  BY <1>10, Zenon DEF Notify
<1>. QED  BY <1>1, <1>2, <1>3, <1>4, <1>5, <1>6, <1>7, <1>8, <1>9, <1>10,
             ZenonT(20) DEF ProducerStep, Produce

\* The flow is disabled when no producer is inside it.
LEMMA SendingOther ==
    ASSUME Inv, OtherStep
    PROVE  Sending'
<1>1. CASE Disable
  BY <1>1, OtherFrame, Zenon DEF Inv, Sending, Disable, Unreferenced
<1>2. CASE UNCHANGED enable
  BY <1>2, OtherFrame, SMTT(20) DEF Inv, Sending
<1>. QED  BY <1>1, <1>2, OtherFrame, Zenon

\* A slot that is full is not empty; nobody else changes it under the mutex.
LEMMA DroppingProducer ==
    ASSUME Inv, NEW p \in Producers, ProducerStep(p)
    PROVE  Dropping'
<1>. USE DEF Inv, TypeOK, Dropping, LockHeld, Holding, Go, Take, Release, fixed, consuming, ctl
<1>1. CASE SendInput(p)
  BY <1>1 DEF SendInput
<1>2. CASE RemoveDownFlow(p)
  BY <1>2, Zenon DEF RemoveDownFlow
<1>3. CASE Lock(p)
  BY <1>3 DEF Full, Size, Lock
<1>4. CASE DropCurrent(p)
  BY <1>4 DEF DropCurrent
<1>5. CASE DropFront(p)
  BY <1>5 DEF DropFront
<1>6. CASE Nap(p)
  BY <1>6 DEF Nap
<1>7. CASE Look(p)
  BY <1>7 DEF Look
<1>8. CASE Relock(p)
  BY <1>8, SMTT(20) DEF Relock
<1>9. CASE Push(p)
  BY <1>9 DEF Push
<1>10. CASE Notify(p)
  BY <1>10 DEF Notify
<1>. QED  BY <1>1, <1>2, <1>3, <1>4, <1>5, <1>6, <1>7, <1>8, <1>9, <1>10,
             ZenonT(20) DEF ProducerStep, Produce

LEMMA DroppingOther ==
    ASSUME Inv, OtherStep
    PROVE  Dropping'
<1>1. CASE TakeFront
  BY <1>1, OtherFrame DEF Inv, TypeOK, Dropping, LockHeld, Holding, TakeFront
<1>2. CASE UNCHANGED cached_buffers
  BY <1>2, OtherFrame, SMTT(20) DEF Inv, Dropping
<1>. QED  BY <1>1, <1>2, OtherFrame, SMTT(20)
-----------------------------------------------------------------------------
(* The consumer *)

\* Only DropFront can empty a slot, and it keeps the mutex until it has pushed.
LEMMA FetchingProducer ==
    ASSUME Inv, NEW p \in Producers, ProducerStep(p)
    PROVE  Fetching'
<1>. USE DEF Inv, TypeOK, Fetching, LockHeld, Holding, Dropping, Go, Take, Release, fixed,
             consuming, ctl
<1>1. CASE SendInput(p)
  BY <1>1 DEF SendInput
<1>2. CASE RemoveDownFlow(p)
  BY <1>2, Zenon DEF RemoveDownFlow
<1>3. CASE Lock(p)
  BY <1>3 DEF Lock
<1>4. CASE DropCurrent(p)
  BY <1>4, SMTT(20) DEF DropCurrent
<1>5. CASE DropFront(p)
  BY <1>5 DEF DropFront
<1>6. CASE Nap(p)
  BY <1>6 DEF Nap
<1>7. CASE Look(p)
  BY <1>7, SMTT(20) DEF Look
<1>8. CASE Relock(p)
  BY <1>8, SMTT(20) DEF Relock
<1>9. CASE Push(p)
  <2>1. /\ cached_buffers' = [cached_buffers EXCEPT ![SlotOf[p]] = Append(@, <<p, seq[p]>>)]
        /\ mtx' = [mtx EXCEPT ![SlotOf[p]] = None]
        /\ ppc' = [ppc EXCEPT ![p] = "notify"]
        /\ UNCHANGED <<cpc, i>>
    BY <1>9, Zenon DEF Push, Release, Go, consuming
  <2>2. CASE i = SlotOf[p]
    BY <2>1, <2>2, SMTT(20) DEF Inv, TypeOK, Fetching
  <2>3. CASE i # SlotOf[p]
    BY <1>9, <2>1, <2>3, SMTT(20) DEF Inv, TypeOK, Fetching, LockHeld, Push
  <2>. QED  BY <2>2, <2>3, SMTT(20)
<1>10. CASE Notify(p)
  BY <1>10 DEF Notify
<1>. QED  BY <1>1, <1>2, <1>3, <1>4, <1>5, <1>6, <1>7, <1>8, <1>9, <1>10,
             ZenonT(20) DEF ProducerStep, Produce

LEMMA FetchingOther ==
    ASSUME Inv, OtherStep
    PROVE  Fetching'
<1>1. CASE LookAtSlot
  BY <1>1 DEF Inv, TypeOK, Fetching, LookAtSlot, Slots, Size
<1>2. CASE cpc' # "take"
  BY <1>2, SMTT(20) DEF Fetching
<1>3. CASE UNCHANGED <<cpc, i, cached_buffers>>
  BY <1>3, OtherFrame, SMTT(20) DEF Inv, Fetching
<1>. QED  BY <1>1, <1>2, <1>3, OtherFrame, SMTT(20)
-----------------------------------------------------------------------------
(* The limit *)

\* Whoever pushes has looked, or dropped a frame, under the same lock.
LEMMA RoomDroppingProducer ==
    ASSUME Inv, NEW p \in Producers, ProducerStep(p)
    PROVE  RoomDropping'
<1>. USE DEF Inv, TypeOK, RoomDropping, LockHeld, Holding, Size, Go, Take, Release, fixed,
             consuming, ctl
<1>1. CASE SendInput(p)
  BY <1>1 DEF SendInput
<1>2. CASE RemoveDownFlow(p)
  BY <1>2, SMTT(20) DEF RemoveDownFlow
<1>3. CASE Lock(p)
  BY <1>3, SMTT(20) DEF Full, Lock
<1>4. CASE DropCurrent(p)
  BY <1>4, SMTT(20) DEF DropCurrent
<1>5. CASE DropFront(p)
  BY <1>5, SMTT(20) DEF Dropping, DropFront
<1>6. CASE Nap(p)
  BY <1>6, SMTT(20) DEF Nap
<1>7. CASE Look(p)
  BY <1>7, SMTT(20) DEF Look
<1>8. CASE Relock(p)
  BY <1>8, SMTT(20) DEF Relock
<1>9. CASE Push(p)
  BY <1>9, SMTT(20) DEF Push
<1>10. CASE Notify(p)
  BY <1>10, SMTT(20) DEF Notify
<1>. QED  BY <1>1, <1>2, <1>3, <1>4, <1>5, <1>6, <1>7, <1>8, <1>9, <1>10,
             ZenonT(20) DEF ProducerStep, Produce

LEMMA RoomDroppingOther ==
    ASSUME Inv, OtherStep
    PROVE  RoomDropping'
<1>1. CASE TakeFront
  <2>1. i \in Slots /\ cached_buffers[i] # <<>>
    BY <1>1, Zenon DEF Inv, Fetching, LockHeld, Holding, TakeFront
  <2>2. cached_buffers' = [cached_buffers EXCEPT ![i] = Tail(@)]
    BY <1>1, Zenon DEF TakeFront
  <2>3. \A s \in Slots : Size(s)' \in Nat /\ Size(s) \in Nat /\ Size(s)' <= Size(s)
    BY <2>1, <2>2 DEF Inv, TypeOK, Size
  <2>. QED  BY <2>3, OtherFrame, SMTT(20) DEF Inv, TypeOK, RoomDropping
<1>2. CASE UNCHANGED cached_buffers
  BY <1>2, OtherFrame, SMTT(20) DEF Inv, RoomDropping, Size
<1>. QED  BY <1>1, <1>2, OtherFrame, Zenon

-----------------------------------------------------------------------------
(* The theorems *)

LEMMA InvInit == Init => Inv
<1>. SUFFICES ASSUME Init PROVE Inv
  OBVIOUS
<1>1. TypeOK
  <2>1. mode_when_full \in {"BLOCKING", "DROPFRONT", "DROPCURRENT"} /\ max_cache_num \in Nat
    BY Zenon DEF Init
  <2>2. cached_buffers \in [Slots -> Seq(Frames)] /\ mtx \in [Slots -> Producers \cup {None}]
    BY DEF Init
  <2>3. i \in 1 .. N + 1 /\ seq \in [Producers -> Nat]
    BY DEF Init
  <2>4. /\ ppc \in [Producers -> {"idle", "lock", "BLOCKING", "DROPFRONT", "DROPCURRENT",
                                 "nap", "room", "again", "push", "notify"}]
        /\ cpc \in {"loop", "fetch", "empty", "wait", "slots", "take", "end"}
    BY Zenon DEF Init
  <2>5. /\ down \in [Producers -> BOOLEAN]
        /\ cond \in BOOLEAN /\ asleep \in BOOLEAN /\ enable \in BOOLEAN /\ quit \in BOOLEAN
    BY Zenon DEF Init
  <2>. QED  BY <2>1, <2>2, <2>3, <2>4, <2>5, SMTT(20) DEF TypeOK
<1>2. LockHeld /\ Sending /\ Dropping /\ Fetching
  BY Zenon DEF Init, LockHeld, Holding, Sending, Dropping, Fetching
<1>3. \A s \in Slots : Size(s) = 0
  BY Zenon DEF Init, Size
<1>4. RoomDropping
  BY <1>1, <1>3, SMTT(20) DEF RoomDropping, Init, TypeOK
<1>. QED  BY <1>1, <1>2, <1>4, Zenon DEF Inv

LEMMA InvStep == Inv /\ [Next]_vars => Inv'
<1>. SUFFICES ASSUME Inv, [Next]_vars PROVE Inv'
  OBVIOUS
<1>1. ASSUME NEW p \in Producers, ProducerStep(p) PROVE Inv'
  BY <1>1, TypeOKProducer, LockHeldProducer, SendingProducer, DroppingProducer,
     FetchingProducer, RoomDroppingProducer, SMTT(20) DEF Inv
<1>2. CASE OtherStep
  BY <1>2, TypeOKOther, LockHeldOther, SendingOther, DroppingOther, FetchingOther,
     RoomDroppingOther, SMTT(20) DEF Inv
<1>3. CASE UNCHANGED vars
  <2>. USE <1>3 DEF vars, fixed, producing, consuming, ctl, Inv
  <2>1. TypeOK'
    BY SMTT(20) DEF TypeOK
  <2>2. LockHeld' /\ Sending' /\ Dropping' /\ Fetching'
    BY SMTT(20) DEF LockHeld, Sending, Dropping, Fetching
  <2>3. RoomDropping'
    BY SMTT(20) DEF RoomDropping, Size
  <2>. QED  BY <2>1, <2>2, <2>3, SMTT(20)
<1>. QED  BY <1>1, <1>2, <1>3, Zenon DEF Next, ProducerStep, OtherStep

\* The inductive invariant: the mutexes belong to the producers between lock
\* and unlock, a slot that looked non-empty is empty only under a mutex, and
\* a dropping slot is never over its limit (flow.cc:879-934, 210-243).
THEOREM InvAlways == Spec => []Inv
BY InvInit, InvStep, PTL DEF Spec

\* The assertion of ASyncFetchInputCommon (flow.cc:239) never fails, however
\* many producers and slots there are.
THEOREM FetchAlwaysFinds == Spec => []FetchFinds
<1>1. Inv => FetchFinds
  BY SMTT(20) DEF Inv, Fetching, FetchFinds, LockHeld, Holding
<1>. QED  BY <1>1, InvAlways, PTL

\* The steps of the slots' code that are steps of a queue; all others leave
\* the queues alone.
LEMMA QueueStep == Inv /\ [Next]_vars => [Queue!Next]_(Queue!chan)
<1>. SUFFICES ASSUME Inv, [Next]_vars PROVE [Queue!Next]_(Queue!chan)
  OBVIOUS
<1>. USE DEF Queue!chan, fixed, producing, consuming, ctl
<1>1. ASSUME NEW p \in Producers, DropFront(p) PROVE Queue!DropFront(SlotOf[p])
  BY <1>1, SMTT(20) DEF Inv, Dropping, DropFront, Queue!DropFront
<1>2. ASSUME NEW p \in Producers, Push(p) PROVE Queue!Put(SlotOf[p])
  <2>1. <<p, seq[p]>> \in Frames /\ enable
    BY <1>2, SMTT(20) DEF Inv, Sending, Push, Frames
  <2>. QED  BY <1>2, <2>1, Zenon DEF Push, Queue!Put
<1>3. ASSUME TakeFront PROVE i \in Slots /\ Queue!Get(i)
  BY <1>3, Zenon DEF Inv, Fetching, LockHeld, Holding, TakeFront, Queue!Get
<1>4. ASSUME Disable PROVE Queue!Close \/ UNCHANGED Queue!chan
  BY <1>4, ZenonT(20) DEF Inv, TypeOK, Disable, Queue!Close
<1>5. ASSUME NEW p \in Producers, ProducerStep(p), ~DropFront(p), ~Push(p)
      PROVE  UNCHANGED Queue!chan
  BY <1>5, ZenonT(20) DEF ProducerStep, SendInput, RemoveDownFlow, Produce, Lock, DropCurrent, Nap, Look,
              Relock, Notify
<1>6. ASSUME OtherStep, ~TakeFront, ~Disable PROVE UNCHANGED Queue!chan
  BY <1>6, ZenonT(20) DEF OtherStep, Consume, StopAllThread, WhileRun, LookForInput, Wait, WakeUp,
              LookAtSlot, Process, SpuriousWakeUp, Quit, NotifyQuit, Join
<1>7. CASE UNCHANGED vars
  BY <1>7, ZenonT(20) DEF vars
<1>8. CASE \E p \in Producers : ProducerStep(p)
  BY <1>1, <1>2, <1>5, <1>8, ZenonT(20) DEF Queue!Next
<1>9. CASE OtherStep
  BY <1>3, <1>4, <1>6, <1>9, Zenon DEF Queue!Next
<1>. QED  BY <1>7, <1>8, <1>9, SMTT(20) DEF Next, ProducerStep, OtherStep

\* Any flow implements the queues of FrameQueue (their safety part): a frame
\* is put at the end and fetched from the front, and lost only by a slot that
\* drops its front (flow.cc:210-243, 879-934).
THEOREM SlotsAreQueues == Spec => QueueSafe
<1>1. Init => Queue!Init
  BY Zenon DEF Init, Queue!Init
<1>. QED  BY <1>1, InvAlways, QueueStep, PTL DEF Spec, QueueSafe
-----------------------------------------------------------------------------
(* The order of the frames *)

\* What a step does to the frames handed over: it leaves them alone
HandedStays == \A s \in Slots : Handed(s)' = Handed(s)

\* puts frame e behind those of slot s.
HandedMore(s, e) ==
    /\ \A r \in Slots \ {s} : Handed(r)' = Handed(r)
    /\ Len(Handed(s)) \in Nat /\ DOMAIN Handed(s) = 1 .. Len(Handed(s))
    /\ DOMAIN Handed(s)' = 1 .. Len(Handed(s)) + 1
    /\ \A k \in 1 .. Len(Handed(s)) : Handed(s)'[k] = Handed(s)[k]
    /\ Handed(s)'[Len(Handed(s)) + 1] = e

LEMMA Concat ==
    ASSUME NEW S, NEW g \in Seq(S), NEW c \in Seq(S)
    PROVE  /\ g \o c \in Seq(S) /\ Len(g \o c) \in Nat /\ Len(g) \in Nat
           /\ DOMAIN (g \o c) = 1 .. Len(g \o c) /\ Len(g \o c) = Len(g) + Len(c)
           /\ \A k \in 1 .. Len(g) : (g \o c)[k] = g[k]
           /\ \A k \in 1 .. Len(c) : (g \o c)[Len(g) + k] = c[k]
OBVIOUS

\* A frame put into the slot is behind all that were handed over,
LEMMA ConcatAppend ==
    ASSUME NEW S, NEW g \in Seq(S), NEW c \in Seq(S), NEW e \in S
    PROVE  /\ DOMAIN (g \o Append(c, e)) = 1 .. Len(g \o c) + 1
           /\ \A k \in 1 .. Len(g \o c) : (g \o Append(c, e))[k] = (g \o c)[k]
           /\ (g \o Append(c, e))[Len(g \o c) + 1] = e
OBVIOUS

\* Entry k of t is entry k of u once u's entry d is left out: the data dropped at
\* the front of a full cache
Without(t, u, d, k) ==
    /\ k \in Nat
    /\ k < d => k \in DOMAIN u /\ t[k] = u[k]
    /\ ~(k < d) => k + 1 \in DOMAIN u /\ t[k] = u[k + 1]

\* the one dropped at the front is behind those that were fetched,
LEMMA ConcatTail ==
    ASSUME NEW S, NEW g \in Seq(S), NEW c \in Seq(S), c # <<>>, NEW k \in DOMAIN (g \o Tail(c))
    PROVE  Without(g \o Tail(c), g \o c, Len(g) + 1, k)
BY SMTT(20) DEF Without

\* and the one fetched from the front stays where it is.
LEMMA ConcatMove ==
    ASSUME NEW S, NEW g \in Seq(S), NEW c \in Seq(S), c # <<>>
    PROVE  /\ Append(g, Head(c)) \o Tail(c) = g \o c
           /\ Append(g, Head(c)) \in Seq(S) /\ Tail(c) \in Seq(S)
OBVIOUS

\* The numbers begun and handed over after a step that hands over nothing new.
Even ==
    /\ HandedStays
    /\ \A p \in Producers : Done(p)' >= Done(p)
    /\ enable' /\ Lossless' => enable /\ Lossless /\ \A p \in Producers : Done(p)' = Done(p)

\* A frame is begun, or given up, or none is.
Counts(p) ==
    \/ ppc[p] = "idle" /\ ppc'[p] = "lock" /\ seq'[p] = seq[p] + 1
    \/ DropCurrent(p) /\ ppc[p] = "DROPCURRENT" /\ ppc'[p] = "idle" /\ seq'[p] = seq[p]
    \/ (ppc[p] \in {"idle", "notify"} <=> ppc'[p] \in {"idle", "notify"}) /\ seq'[p] = seq[p]

LEMMA EvenProducer ==
    ASSUME Inv, OrderInv, NEW p \in Producers, ProducerStep(p), ~Push(p), ~DropFront(p)
    PROVE  Even /\ got' = got /\ Losing'
<1>1. UNCHANGED <<cached_buffers, fixed, consuming, ctl>>
  BY ProducerFrame, Zenon
     DEF ProducerStep, SendInput, RemoveDownFlow, Produce, Lock, DropCurrent, Nap, Look, Relock,
         Notify
<1>2. HandedStays /\ (Lossless' <=> Lossless) /\ got' = got /\ enable' = enable
  BY <1>1, Zenon DEF HandedStays, Handed, Lossless, fixed, consuming, ctl
<1>3. ASSUME NEW q \in Producers, q # p PROVE Done(q)' = Done(q) /\ ppc'[q] = ppc[q]
  BY <1>3, Zenon DEF Inv, TypeOK, ProducerStep, SendInput, RemoveDownFlow, Produce, Lock, DropCurrent,
              Nap, Look, Relock, Notify, Go, Done
<1>4. ASSUME ppc'[p] \in {"DROPFRONT", "DROPCURRENT"} PROVE ~Lossless
  <2>1. CASE Lock(p)
    BY <1>4, <2>1 DEF Lock, Go, Inv, TypeOK, Full, Lossless, Size
  <2>2. CASE Relock(p)
    BY <1>4, <2>2, Zenon DEF Relock, Go, Inv, TypeOK, Sending
  <2>3. CASE RemoveDownFlow(p)
    BY <1>4, <2>3, Zenon DEF RemoveDownFlow, OrderInv, Losing
  <2>4. CASE SendInput(p) \/ DropCurrent(p) \/ Nap(p) \/ Look(p) \/ Notify(p)
    BY <1>4, <2>4, ZenonT(20) DEF SendInput, DropCurrent, Nap, Look, Notify, Go, Inv, TypeOK
  <2>. QED  BY <2>1, <2>2, <2>3, <2>4, Zenon DEF ProducerStep, Produce
<1>5. Losing'
  BY <1>2, <1>3, <1>4, Zenon DEF OrderInv, Losing
<1>6. seq[p] \in Nat /\ seq'[p] \in Nat
  <2>1. seq \in [Producers -> Nat]
    BY Zenon DEF Inv, TypeOK
  <2>2. seq' = seq \/ seq' = [seq EXCEPT ![p] = @ + 1]
    BY ZenonT(20) DEF ProducerStep, SendInput, RemoveDownFlow, Produce, Lock, DropCurrent, Nap, Look,
                      Relock, Notify
  <2>. QED  BY <2>1, <2>2, SMTT(20)
<1>7. \/ Done(p)' = Done(p)
      \/ DropCurrent(p) /\ Done(p)' = Done(p) + 1 /\ Done(p) \in Int
  <2>0. /\ ppc \in [Producers -> {"idle", "lock", "BLOCKING", "DROPFRONT", "DROPCURRENT",
                                 "nap", "room", "again", "push", "notify"}]
       /\ seq \in [Producers -> Nat]
       /\ mode_when_full \in {"BLOCKING", "DROPFRONT", "DROPCURRENT"}
    BY Zenon DEF Inv, TypeOK
  <2>1. ASSUME SendInput(p) PROVE Counts(p)
    BY <2>0, <2>1, Zenon DEF SendInput, Go, Counts
  <2>2. ASSUME DropCurrent(p) PROVE Counts(p)
    BY <2>0, <2>2, Zenon DEF DropCurrent, Go, Counts
  <2>3. ASSUME RemoveDownFlow(p) \/ Notify(p) PROVE Counts(p)
    BY <2>0, <2>3, Zenon DEF RemoveDownFlow, Notify, Go, Counts
  <2>4. ASSUME Lock(p) PROVE Counts(p)
    BY <2>0, <2>4, Zenon DEF Lock, Go, Counts
  <2>5. ASSUME Nap(p) \/ Look(p) \/ Relock(p) PROVE Counts(p)
    BY <2>0, <2>5, ZenonT(20) DEF Nap, Look, Relock, Go, Counts
  <2>6. Counts(p)
    BY <2>1, <2>2, <2>3, <2>4, <2>5, Zenon DEF ProducerStep, Produce
  <2>7. ASSUME ppc[p] = "idle" /\ ppc'[p] = "lock" /\ seq'[p] = seq[p] + 1
        PROVE  Done(p)' = Done(p)
    <3>1. Done(p) = seq[p] /\ Done(p)' = seq'[p] - 1
      BY <2>7, Zenon DEF Done
    <3>. QED  BY <1>6, <2>7, <3>1, SMTT(20)
  <2>8. ASSUME ppc[p] = "DROPCURRENT" /\ ppc'[p] = "idle" /\ seq'[p] = seq[p]
        PROVE  Done(p)' = Done(p) + 1 /\ Done(p) \in Int
    <3>1. Done(p) = seq[p] - 1 /\ Done(p)' = seq'[p]
      BY <2>8, Zenon DEF Done
    <3>. QED  BY <1>6, <2>8, <3>1, SMTT(20)
  <2>9. ASSUME (ppc[p] \in {"idle", "notify"} <=> ppc'[p] \in {"idle", "notify"}) /\ seq'[p] = seq[p]
        PROVE  Done(p)' = Done(p)
    BY <2>9, Zenon DEF Done
  <2>. QED  BY <2>6, <2>7, <2>8, <2>9, Zenon DEF Counts
<1>8. DropCurrent(p) => ~Lossless
  BY Zenon DEF DropCurrent, OrderInv, Losing
<1>9. \A q \in Producers : Done(q) \in Int
  BY DEF Inv, TypeOK, Done
<1>10. \A q \in Producers : Done(q)' >= Done(q)
  BY <1>3, <1>7, <1>9
<1>. QED  BY <1>2, <1>3, <1>5, <1>7, <1>8, <1>10, Zenon DEF Even

LEMMA EvenOther ==
    ASSUME Inv, OrderInv, OtherStep
    PROVE  Even /\ got' \in [Slots -> Seq(Frames)] /\ Losing'
<1>1. UNCHANGED <<mode_when_full, max_cache_num, ppc, seq>>
  BY OtherFrame, Zenon
<1>2. enable' = FALSE \/ enable' = enable
  BY OtherFrame, Zenon DEF Disable
<1>. Lossless' = Lossless
  BY <1>1, Zenon DEF Lossless
<1>3. \A p \in Producers : Done(p)' = Done(p) /\ Done(p) \in Int
  BY <1>1 DEF Inv, TypeOK, Done
<1>4. HandedStays /\ got' \in [Slots -> Seq(Frames)]
  <2>1. CASE TakeFront
    <3>1. i \in Slots /\ cached_buffers[i] # <<>>
      BY <2>1, Zenon DEF Inv, Fetching, LockHeld, Holding, TakeFront
    <3>2. got[i] \in Seq(Frames) /\ cached_buffers[i] \in Seq(Frames)
      BY <3>1, Zenon DEF Inv, TypeOK, OrderInv
    <3>3. /\ Append(got[i], Head(cached_buffers[i])) \o Tail(cached_buffers[i]) = Handed(i)
          /\ Append(got[i], Head(cached_buffers[i])) \in Seq(Frames)
      <4>1. PICK g \in Seq(Frames), c \in Seq(Frames) : g = got[i] /\ c = cached_buffers[i]
        BY <3>2, Zenon
      <4>2. Append(g, Head(c)) \o Tail(c) = g \o c /\ Append(g, Head(c)) \in Seq(Frames)
        <5>1. c # <<>>
          BY <3>1, <4>1, Zenon
        <5>. QED  BY <5>1, ConcatMove, SMTT(20)
      <4>. QED  BY <4>1, <4>2, Zenon DEF Handed
    <3>4. /\ got'[i] = Append(got[i], Head(cached_buffers[i]))
          /\ cached_buffers'[i] = Tail(cached_buffers[i])
          /\ \A s \in Slots \ {i} : got'[s] = got[s] /\ cached_buffers'[s] = cached_buffers[s]
          /\ got' \in [Slots -> Seq(Frames)]
      BY <2>1, <3>1, <3>3, Zenon DEF TakeFront, Inv, TypeOK, OrderInv
    <3>5. ASSUME NEW s \in Slots PROVE Handed(s)' = Handed(s)
      BY <3>3, <3>4, Zenon DEF Handed
    <3>. QED  BY <3>4, <3>5, Zenon DEF HandedStays
  <2>2. CASE ~TakeFront
    <3>1. cached_buffers' = cached_buffers
      BY <2>2, OtherFrame, Zenon
    <3>2. got' = got
      BY <2>2, ZenonT(20)
         DEF OtherStep, Consume, StopAllThread, WhileRun, LookForInput, Wait, WakeUp, LookAtSlot,
             Process, SpuriousWakeUp, Disable, Quit, NotifyQuit, Join, consuming
    <3>. QED  BY <3>1, <3>2, Zenon DEF OrderInv, HandedStays, Handed
  <2>. QED  BY <2>1, <2>2, Zenon
<1>5. Losing'
  BY <1>1, <1>2, Zenon DEF OrderInv, Losing
<1>. QED  BY <1>2, <1>3, <1>4, <1>5 DEF Even

\* The frames handed over are frames.
LEMMA HandedIn ==
    ASSUME Inv, OrderInv, NEW s \in Slots
    PROVE  Handed(s) \in Seq(Frames)
BY Concat, ZenonT(30) DEF Inv, TypeOK, OrderInv, Handed

LEMMA FrameParts ==
    ASSUME NEW f \in Frames
    PROVE  f[1] \in Producers /\ f[2] \in Nat /\ f = <<f[1], f[2]>>
BY DEF Frames

LEMMA EvenOrder ==
    ASSUME Inv, OrderInv, Even, \A p \in Producers : Done(p) \in Int /\ Done(p)' \in Int
    PROVE  Numbered' /\ Ascending' /\ Gapless'
<1>1. ASSUME NEW s \in Slots, NEW k \in DOMAIN Handed(s)'
      PROVE  (SlotOf[Handed(s)[k][1]] = s /\ Handed(s)[k][2] <= Done(Handed(s)[k][1]))'
  <2>1. Handed(s)' = Handed(s) /\ k \in DOMAIN Handed(s)
    BY <1>1, Zenon DEF Even, HandedStays
  <2>2. PICK f \in Frames : f = Handed(s)[k]
    BY <2>1, HandedIn
  <2>3. SlotOf[f[1]] = s /\ f[2] <= Done(f[1])
    BY <2>1, <2>2, Zenon DEF OrderInv, Numbered
  <2>4. f[1] \in Producers /\ f[2] \in Nat
    BY FrameParts, Zenon
  <2>5. Done(f[1]) \in Int /\ Done(f[1])' \in Int /\ Done(f[1])' >= Done(f[1])
    BY <2>4, Zenon DEF Even
  <2>6. f[2] <= Done(f[1])'
    BY <2>3, <2>4, <2>5
  <2>. QED  BY <2>1, <2>2, <2>3, <2>6, Zenon
<1>2. Numbered'
  BY <1>1, Zenon DEF Numbered
<1>3. Ascending'
  BY Zenon DEF OrderInv, Ascending, Even, HandedStays
<1>4. Gapless'
  <2>. SUFFICES ASSUME enable', Lossless', NEW p \in Producers, NEW n \in 1 .. Done(p)'
                PROVE  \E k \in DOMAIN Handed(SlotOf[p])' : Handed(SlotOf[p])'[k] = <<p, n>>
    BY Zenon DEF Gapless
  <2>1. SlotOf[p] \in Slots
    BY FlowAssumption, Zenon
  <2>. QED  BY <2>1, Zenon DEF OrderInv, Gapless, Even, HandedStays
<1>. QED  BY <1>2, <1>3, <1>4, Zenon

\* The frame that is put has a number above all of its producer's before it.
LEMMA PutOrder ==
    ASSUME Inv, OrderInv, NEW p \in Producers, Push(p)
    PROVE  OrderInv'
<1>1. SlotOf[p] \in Slots /\ <<p, seq[p]>> \in Frames /\ seq[p] \in Nat
  BY FlowAssumption DEF Inv, TypeOK, Sending, Push, Frames
<1>. SUFFICES ASSUME NEW s \in Slots, NEW e \in Frames, s = SlotOf[p], e = <<p, seq[p]>>
              PROVE  OrderInv'
  BY <1>1, Zenon
<1>2. HandedMore(s, e)
  <2>1. got[s] \in Seq(Frames) /\ cached_buffers[s] \in Seq(Frames)
    BY <1>1, Zenon DEF Inv, TypeOK, OrderInv
  <2>2. /\ got' = got /\ cached_buffers'[s] = Append(cached_buffers[s], e)
        /\ \A r \in Slots \ {s} : cached_buffers'[r] = cached_buffers[r]
    BY <1>1, Zenon DEF Push, Inv, TypeOK, consuming
  <2>3. Handed(s) = got[s] \o cached_buffers[s] /\ Handed(s)' = got[s] \o Append(cached_buffers[s], e)
    BY <2>2, Zenon DEF Handed
  <2>4. /\ Len(Handed(s)) \in Nat /\ DOMAIN Handed(s) = 1 .. Len(Handed(s))
        /\ DOMAIN Handed(s)' = 1 .. Len(Handed(s)) + 1
        /\ \A k \in 1 .. Len(Handed(s)) : Handed(s)'[k] = Handed(s)[k]
        /\ Handed(s)'[Len(Handed(s)) + 1] = e
    <3>1. PICK g \in Seq(Frames), c \in Seq(Frames) : g = got[s] /\ c = cached_buffers[s]
      BY <2>1, Zenon
    <3>2. Handed(s) = g \o c /\ Handed(s)' = g \o Append(c, e)
      BY <2>3, <3>1, Zenon
    <3>3. /\ DOMAIN (g \o Append(c, e)) = 1 .. Len(g \o c) + 1
          /\ \A k \in 1 .. Len(g \o c) : (g \o Append(c, e))[k] = (g \o c)[k]
          /\ (g \o Append(c, e))[Len(g \o c) + 1] = e
      BY SMTT(20)
    <3>4. Len(g \o c) \in Nat /\ DOMAIN (g \o c) = 1 .. Len(g \o c)
      BY Concat, ZenonT(20)
    <3>. QED  BY <3>2, <3>3, <3>4, Zenon
  <2>. QED  BY <2>2, <2>4, Zenon DEF HandedMore, Handed
<1>3. /\ Done(p) = seq[p] - 1 /\ Done(p)' = seq[p]
      /\ \A q \in Producers \ {p} : Done(q)' = Done(q)
  BY <1>1, Zenon DEF Push, Go, Inv, TypeOK, Done
<1>4. UNCHANGED <<fixed, consuming, ctl>>
  BY Zenon DEF Push
<1>5. got' \in [Slots -> Seq(Frames)]
  BY <1>4, Zenon DEF OrderInv, consuming
<1>6. Losing'
  <2>1. ppc'[p] = "notify" /\ \A q \in Producers \ {p} : ppc'[q] = ppc[q]
    BY Zenon DEF Push, Go, Inv, TypeOK
  <2>. QED  BY <1>4, <2>1, Zenon DEF Losing, OrderInv, Lossless, fixed
<1>7. ASSUME NEW r \in Slots, NEW k \in DOMAIN Handed(r)'
      PROVE  \/ k \in DOMAIN Handed(r) /\ Handed(r)'[k] = Handed(r)[k]
             \/ r = s /\ k = Len(Handed(s)) + 1 /\ Handed(r)'[k] = e
  <2>1. CASE r # s
    BY <1>2, <1>7, <2>1, Zenon DEF HandedMore
  <2>2. CASE r = s
    <3>1. k \in 1 .. Len(Handed(s)) + 1 /\ Len(Handed(s)) \in Nat
      BY <1>2, <1>7, <2>2, Zenon DEF HandedMore
    <3>2. k \in 1 .. Len(Handed(s)) \/ k = Len(Handed(s)) + 1
      BY <3>1
    <3>. QED  BY <1>2, <2>2, <3>2, Zenon DEF HandedMore
  <2>. QED  BY <2>1, <2>2, Zenon
<1>8. ASSUME NEW r \in Slots, NEW k \in DOMAIN Handed(r)
      PROVE  /\ Handed(r)[k] \in Frames /\ SlotOf[Handed(r)[k][1]] = r
             /\ Handed(r)[k][2] <= Done(Handed(r)[k][1])
             /\ Handed(r)[k][1] = p => Handed(r)[k][2] < seq[p]
  <2>1. Handed(r)[k] \in Frames
    BY <1>8, HandedIn
  <2>2. SlotOf[Handed(r)[k][1]] = r /\ Handed(r)[k][2] <= Done(Handed(r)[k][1])
    BY <1>8, Zenon DEF OrderInv, Numbered
  <2>. QED  BY <1>1, <1>3, <2>1, <2>2, FrameParts
<1>9. Numbered'
  <2>. SUFFICES ASSUME NEW r \in Slots, NEW k \in DOMAIN Handed(r)'
                PROVE  (SlotOf[Handed(r)[k][1]] = r /\ Handed(r)[k][2] <= Done(Handed(r)[k][1]))'
    BY Zenon DEF Numbered
  <2>1. CASE k \in DOMAIN Handed(r) /\ Handed(r)'[k] = Handed(r)[k]
    <3>1. PICK f \in Frames : f = Handed(r)[k]
      BY <1>8, <2>1, Zenon
    <3>2. f[1] \in Producers /\ f[2] \in Nat
      BY FrameParts, Zenon
    <3>3. f[2] <= Done(f[1])'
      BY <1>1, <1>3, <1>8, <2>1, <3>1, <3>2
    <3>. QED  BY <1>8, <2>1, <3>1, <3>3, Zenon
  <2>2. CASE r = s /\ Handed(r)'[k] = e
    BY <1>1, <1>3, <2>2
  <2>. QED  BY <1>7, <2>1, <2>2, Zenon
<1>10. Ascending'
  <2>. SUFFICES ASSUME NEW r \in Slots, NEW j \in DOMAIN Handed(r)', NEW k \in DOMAIN Handed(r)',
                       j < k, Handed(r)'[j][1] = Handed(r)'[k][1]
                PROVE  Handed(r)'[j][2] < Handed(r)'[k][2]
    BY Zenon DEF Ascending
  <2>1. CASE /\ j \in DOMAIN Handed(r) /\ Handed(r)'[j] = Handed(r)[j]
             /\ k \in DOMAIN Handed(r) /\ Handed(r)'[k] = Handed(r)[k]
    BY <2>1, ZenonT(20) DEF OrderInv, Ascending
  <2>2. CASE /\ j \in DOMAIN Handed(r) /\ Handed(r)'[j] = Handed(r)[j]
             /\ r = s /\ Handed(r)'[k] = e
    BY <1>8, <2>2
  <2>3. CASE r = s /\ j = Len(Handed(s)) + 1
    BY <1>2, <2>3 DEF HandedMore
  <2>. QED  BY <1>7, <2>1, <2>2, <2>3, Zenon
<1>11. Gapless'
  <2>. SUFFICES ASSUME enable', Lossless', NEW q \in Producers, NEW n \in 1 .. Done(q)'
                PROVE  \E k \in DOMAIN Handed(SlotOf[q])' : Handed(SlotOf[q])'[k] = <<q, n>>
    BY Zenon DEF Gapless
  <2>1. enable /\ Lossless /\ SlotOf[q] \in Slots
    BY <1>4, FlowAssumption, Zenon DEF ctl, fixed, Lossless
  <2>2. CASE n \in 1 .. Done(q)
    <3>1. PICK k \in DOMAIN Handed(SlotOf[q]) : Handed(SlotOf[q])[k] = <<q, n>>
      BY <2>1, <2>2, Zenon DEF OrderInv, Gapless
    <3>2. k \in DOMAIN Handed(SlotOf[q])' /\ Handed(SlotOf[q])'[k] = Handed(SlotOf[q])[k]
      <4>1. CASE SlotOf[q] = s
        <5>1. PICK d \in Nat : d = Len(Handed(s)) /\ k \in 1 .. d
          BY <1>2, <3>1, <4>1, Zenon DEF HandedMore
        <5>2. k \in 1 .. d + 1
          BY <5>1
        <5>. QED  BY <1>2, <4>1, <5>1, <5>2, Zenon DEF HandedMore
      <4>2. CASE SlotOf[q] # s
        BY <1>2, <2>1, <3>1, <4>2, Zenon DEF HandedMore
      <4>. QED  BY <4>1, <4>2, Zenon
    <3>. QED  BY <3>1, <3>2, Zenon
  <2>3. CASE q = p /\ n = seq[p]
    <3>1. Len(Handed(s)) + 1 \in 1 .. Len(Handed(s)) + 1
      <4>1. PICK d \in Nat : d = Len(Handed(s))
        BY <1>2, Zenon DEF HandedMore
      <4>2. d + 1 \in 1 .. d + 1
        BY SMTT(20)
      <4>. QED  BY <4>1, <4>2, Zenon
    <3>. QED  BY <1>2, <2>3, <3>1, ZenonT(20) DEF HandedMore
  <2>4. n \in 1 .. Done(q) \/ (q = p /\ n = seq[p])
    BY <1>1, <1>3
  <2>. QED  BY <2>2, <2>3, <2>4, Zenon
<1>. QED  BY <1>5, <1>6, <1>9, <1>10, <1>11, ZenonT(20) DEF OrderInv

\* The frame that is dropped is the oldest that waits, and the slot is lossy.
LEMMA DropOrder ==
    ASSUME Inv, OrderInv, NEW p \in Producers, DropFront(p)
    PROVE  OrderInv'
<1>1. SlotOf[p] \in Slots
  BY FlowAssumption, Zenon
<1>. SUFFICES ASSUME NEW s \in Slots, s = SlotOf[p]
              PROVE  OrderInv'
  BY <1>1, Zenon
<1>2. UNCHANGED <<fixed, consuming, ctl>> /\ seq' = seq
  BY Zenon DEF DropFront
<1>3. ~Lossless /\ ~Lossless'
  BY <1>2, Zenon DEF DropFront, OrderInv, Losing, Lossless, fixed
<1>4. PICK g \in Seq(Frames), c \in Seq(Frames) : g = got[s] /\ c = cached_buffers[s] /\ c # <<>>
  <2>1. cached_buffers[s] # <<>>
    BY Zenon DEF DropFront, Inv, Dropping
  <2>2. got[s] \in Seq(Frames) /\ cached_buffers[s] \in Seq(Frames)
    BY Zenon DEF Inv, TypeOK, OrderInv
  <2>. QED  BY <2>1, <2>2, Zenon
<1>5. /\ cached_buffers'[s] = Tail(c) /\ got' = got
      /\ \A r \in Slots \ {s} : cached_buffers'[r] = cached_buffers[r]
  BY <1>4, Zenon DEF DropFront, Inv, TypeOK, consuming
<1>6. Handed(s) = g \o c /\ Handed(s)' = g \o Tail(c) /\ \A r \in Slots \ {s} : Handed(r)' = Handed(r)
  BY <1>4, <1>5, Zenon DEF Handed
<1>. DEFINE At(r, k) == IF r = s /\ ~(k < Len(g) + 1) THEN k + 1 ELSE k
<1>7. ASSUME NEW r \in Slots, NEW k \in DOMAIN Handed(r)'
      PROVE  k \in Nat /\ At(r, k) \in DOMAIN Handed(r) /\ Handed(r)'[k] = Handed(r)[At(r, k)]
  <2>1. CASE r = s
    <3>1. k \in DOMAIN (g \o Tail(c))
      BY <1>6, <1>7, <2>1, Zenon
    <3>2. /\ k \in Nat /\ At(s, k) \in DOMAIN (g \o c)
          /\ (g \o Tail(c))[k] = (g \o c)[At(s, k)]
      <4>1. c # <<>>
        BY <1>4, ZenonT(20)
      <4>2. Without(g \o Tail(c), g \o c, Len(g) + 1, k)
        BY <3>1, <4>1, ConcatTail, ZenonT(20)
      <4>. QED  BY <4>2, ZenonT(20) DEF Without
    <3>. QED  BY <1>6, <2>1, <3>2, Zenon
  <2>2. CASE r # s
    <3>1. DOMAIN Handed(r) \subseteq Nat
      BY HandedIn
    <3>. QED  BY <1>6, <1>7, <2>2, <3>1, Zenon
  <2>. QED  BY <2>1, <2>2, Zenon
<1>8. Losing' /\ \A q \in Producers : Done(q)' = Done(q)
  <2>1. ppc'[p] = "push" /\ ppc[p] = "DROPFRONT" /\ \A q \in Producers \ {p} : ppc'[q] = ppc[q]
    BY Zenon DEF DropFront, Go, Inv, TypeOK
  <2>2. ASSUME NEW q \in Producers PROVE Done(q)' = Done(q)
    BY <1>2, <2>1, Zenon DEF Done
  <2>. QED  BY <1>3, <2>2, Zenon DEF Losing
<1>9. Numbered'
  <2>. SUFFICES ASSUME NEW r \in Slots, NEW k \in DOMAIN Handed(r)'
                PROVE  (SlotOf[Handed(r)[k][1]] = r /\ Handed(r)[k][2] <= Done(Handed(r)[k][1]))'
    BY Zenon DEF Numbered
  <2>. HIDE DEF At
  <2>1. PICK l \in DOMAIN Handed(r) : Handed(r)'[k] = Handed(r)[l]
    BY <1>7, Zenon
  <2>2. PICK f \in Frames : f = Handed(r)[l]
    BY HandedIn
  <2>3. f[1] \in Producers
    BY FrameParts, Zenon
  <2>4. SlotOf[f[1]] = r /\ f[2] <= Done(f[1])
    BY <2>2, Zenon DEF OrderInv, Numbered
  <2>. QED  BY <1>8, <2>1, <2>2, <2>3, <2>4, Zenon
<1>10. Ascending'
  <2>. SUFFICES ASSUME NEW r \in Slots, NEW j \in DOMAIN Handed(r)', NEW k \in DOMAIN Handed(r)',
                       j < k, Handed(r)'[j][1] = Handed(r)'[k][1]
                PROVE  Handed(r)'[j][2] < Handed(r)'[k][2]
    BY Zenon DEF Ascending
  <2>1. /\ j \in Nat /\ At(r, j) \in DOMAIN Handed(r) /\ Handed(r)'[j] = Handed(r)[At(r, j)]
        /\ k \in Nat /\ At(r, k) \in DOMAIN Handed(r) /\ Handed(r)'[k] = Handed(r)[At(r, k)]
    <3>. HIDE DEF At
    <3>. QED  BY <1>7, Zenon
  <2>2. At(r, j) < At(r, k)
    BY <2>1
  <2>. HIDE DEF At
  <2>. QED  BY <2>1, <2>2, Zenon DEF OrderInv, Ascending
<1>11. Gapless'
  BY <1>3, Zenon DEF Gapless
<1>12. got' \in [Slots -> Seq(Frames)]
  BY <1>5, Zenon DEF OrderInv
<1>. QED  BY <1>8, <1>9, <1>10, <1>11, <1>12, Zenon DEF OrderInv

LEMMA OrderInit ==
    Init => OrderInv
<1>. SUFFICES ASSUME Init PROVE OrderInv
  OBVIOUS
<1>1. got \in [Slots -> Seq(Frames)] /\ Losing
  BY DEF Init, Losing
<1>2. ASSUME NEW s \in Slots PROVE DOMAIN Handed(s) = {}
  BY <1>2 DEF Init, Handed
<1>3. \A p \in Producers : 1 .. Done(p) = {}
  BY DEF Init, Done
<1>. QED  BY <1>1, <1>2, <1>3, Zenon DEF OrderInv, Numbered, Ascending, Gapless

LEMMA OrderStep ==
    ASSUME Inv, OrderInv, [Next]_vars
    PROVE  OrderInv'
<1>1. Inv'
  BY InvStep, Zenon
<1>2. \A p \in Producers : Done(p) \in Int /\ Done(p)' \in Int
  BY <1>1 DEF Inv, TypeOK, Done
<1>3. ASSUME NEW p \in Producers, ProducerStep(p) PROVE OrderInv'
  <2>1. CASE Push(p)
    BY <2>1, PutOrder, Zenon
  <2>2. CASE DropFront(p)
    BY <2>2, DropOrder, Zenon
  <2>3. CASE ~Push(p) /\ ~DropFront(p)
    <3>1. Even /\ got' = got /\ Losing'
      BY <1>3, <2>3, EvenProducer, Zenon
    <3>2. Numbered' /\ Ascending' /\ Gapless'
      BY <1>2, <3>1, EvenOrder, Zenon
    <3>. QED  BY <3>1, <3>2, Zenon DEF OrderInv
  <2>. QED  BY <2>1, <2>2, <2>3, Zenon
<1>4. CASE OtherStep
  <2>1. Even /\ got' \in [Slots -> Seq(Frames)] /\ Losing'
    BY <1>4, EvenOther, Zenon
  <2>2. Numbered' /\ Ascending' /\ Gapless'
    BY <1>2, <2>1, EvenOrder, Zenon
  <2>. QED  BY <2>1, <2>2, Zenon DEF OrderInv
<1>5. CASE UNCHANGED vars
  <2>1. UNCHANGED <<mode_when_full, max_cache_num, cached_buffers, ppc, seq, got, enable>>
    BY <1>5, Zenon DEF vars, fixed, producing, consuming, ctl
  <2>2. /\ \A s \in Slots : Handed(s)' = Handed(s)
        /\ \A p \in Producers : Done(p)' = Done(p)
        /\ Lossless' = Lossless
    BY <2>1, Zenon DEF Handed, Done, Lossless
  <2>3. Even /\ Losing'
    BY <1>2, <2>1, <2>2 DEF Even, HandedStays, OrderInv, Losing
  <2>4. Numbered' /\ Ascending' /\ Gapless'
    BY <1>2, <2>3, EvenOrder, Zenon
  <2>. QED  BY <2>1, <2>3, <2>4, Zenon DEF OrderInv
<1>. QED  BY <1>3, <1>4, <1>5, Zenon DEF Next, ProducerStep, OtherStep

LEMMA OrderGivesInOrder ==
    ASSUME Inv, OrderInv
    PROVE  InOrder
<1>1. ASSUME NEW s \in Slots, enable, Lossless, NEW k \in DOMAIN Handed(s),
             NEW n \in 1 .. Handed(s)[k][2]
      PROVE  \E j \in DOMAIN Handed(s) : Handed(s)[j] = <<Handed(s)[k][1], n>>
  <2>1. PICK f \in Frames : f = Handed(s)[k]
    BY <1>1, HandedIn
  <2>2. f[1] \in Producers /\ f[2] \in Nat
    BY FrameParts, Zenon
  <2>3. SlotOf[f[1]] = s /\ f[2] <= Done(f[1])
    BY <1>1, <2>1, Zenon DEF OrderInv, Numbered
  <2>4. Done(f[1]) \in Int
    BY <2>2 DEF Inv, TypeOK, Done
  <2>5. n \in 1 .. Done(f[1])
    BY <1>1, <2>1, <2>2, <2>3, <2>4
  <2>. QED  BY <1>1, <2>1, <2>2, <2>3, <2>5, Zenon DEF OrderInv, Gapless
<1>. QED  BY <1>1, Zenon DEF OrderInv, Ascending, InOrder

\* Frames arrive in order, for any producers, slots and limits: no frame that
\* a producer has put overtakes another of its frames or arrives twice, and a
\* slot that blocks or has no limit loses none (ASyncSendInputCommonBehavior
\* and ASyncFetchInputCommon).
THEOREM FramesInOrder == Spec => []InOrder
<1>1. Inv /\ OrderInv /\ [Next]_vars => Inv' /\ OrderInv'
  BY InvStep, OrderStep, Zenon
<1>. QED  BY <1>1, InvInit, OrderInit, OrderGivesInOrder, PTL DEF Spec
=============================================================================
