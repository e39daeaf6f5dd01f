--------------------------- MODULE FlowBoundProofs ---------------------------
(***************************************************************************)
(* The limit of a slot, for any finite set of producers: RoomBlocking,     *)
(* which counts the producers that have seen room in a blocking slot, is   *)
(* kept by every step, and gives Bounded.                                  *)
(***************************************************************************)
EXTENDS FlowProofs, FiniteSetTheorems

USE FlowAssumption

\* A set of producers of a slot is no larger than the set of all of them.
LEMMA FeedingCards ==
    ASSUME NEW s \in Slots, NEW T \in SUBSET Feeding(s)
    PROVE  /\ IsFiniteSet(T) /\ Cardinality(T) \in Nat
           /\ Cardinality(Feeding(s)) \in Nat
           /\ Cardinality(T) <= Cardinality(Feeding(s))
<1>1. IsFiniteSet(Feeding(s))
  BY FS_Subset, SMTT(20) DEF Feeding
<1>. QED  BY <1>1, FS_Subset, FS_CardinalityType, SMTT(20)

\* Whoever gets to see room does so below the limit, and all producers
\* together are then one frame over it at most; a push turns one of those
\* that saw room into a frame.
LEMMA RoomBlockingProducer ==
    ASSUME Inv, RoomBlocking, NEW p \in Producers, ProducerStep(p)
    PROVE  RoomBlocking'
<1>. SUFFICES ASSUME max_cache_num > 0, mode_when_full = "BLOCKING", NEW s \in Slots
     PROVE  Size(s)' + Cardinality(Committed(s)') <= max_cache_num - 1 + Cardinality(Feeding(s))
  BY ProducerFrame, SMTT(20) DEF RoomBlocking, fixed, Feeding
<1>. /\ Cardinality(Committed(s)) \in Nat /\ IsFiniteSet(Committed(s))
     /\ Cardinality(Committed(s)') \in Nat
     /\ Cardinality(Feeding(s)) \in Nat
     /\ Cardinality(Committed(s)') <= Cardinality(Feeding(s))
  <2>1. Committed(s) \in SUBSET Feeding(s) /\ Committed(s)' \in SUBSET Feeding(s)
    BY ProducerFrame, ZenonT(20) DEF Committed, Feeding, fixed
  <2>. QED  BY <2>1, FeedingCards, ZenonT(40)
<1>. /\ Size(s) \in Nat /\ max_cache_num \in Nat
     /\ Size(s) + Cardinality(Committed(s)) <= max_cache_num - 1 + Cardinality(Feeding(s))
  BY SMTT(20) DEF Inv, TypeOK, RoomBlocking, Size
<1>1. CASE UNCHANGED cached_buffers /\ Committed(s)' = Committed(s)
  BY <1>1 DEF Size
<1>2. CASE UNCHANGED cached_buffers /\ Size(s) < max_cache_num
  BY <1>2, SMTT(20) DEF Size
<1>3. CASE Push(p) /\ SlotOf[p] = s
  <2>1. p \in Committed(s) /\ Committed(s)' = Committed(s) \ {p}
    BY <1>3, SMTT(20) DEF Inv, TypeOK, Push, Go, Committed, Feeding
  <2>2. Cardinality(Committed(s)') = Cardinality(Committed(s)) - 1
    BY <2>1, FS_RemoveElement, ZenonT(40)
  <2>3. Size(s)' = Size(s) + 1
    BY <1>3, SMTT(20) DEF Inv, TypeOK, Push, Size
  <2>. QED  BY <2>2, <2>3, SMTT(20)
<1>4. CASE SlotOf[p] # s
  <2>1. Committed(s)' = Committed(s)
    <3>1. \A q \in Producers \ {p} : ppc'[q] = ppc[q]
      BY ZenonT(20) DEF Inv, TypeOK, ProducerStep, SendInput, RemoveDownFlow, Produce, Lock,
             DropCurrent, DropFront, Nap, Look, Relock, Push, Notify, Go
    <3>. QED  BY <1>4, <3>1, SMTT(20) DEF Committed, Feeding
  <2>2. Size(s)' = Size(s)
    <3>1. CASE UNCHANGED cached_buffers
      BY <3>1, ZenonT(20) DEF Size
    <3>2. CASE Push(p) \/ DropFront(p)
      BY <1>4, <3>2, SMTT(20) DEF Inv, TypeOK, Size, Push, DropFront
    <3>. QED  BY <3>1, <3>2, ZenonT(20)
              DEF ProducerStep, SendInput, RemoveDownFlow, Produce, Lock, DropCurrent, Nap, Look,
                  Relock, Notify
  <2>. QED  BY <2>1, <2>2, SMTT(20)
<1>5. CASE SlotOf[p] = s /\ ~Push(p)
  <2>1. ~DropFront(p)
    BY SMTT(20) DEF Inv, Dropping, DropFront
  <2>2. CASE Lock(p)
    BY <1>1, <1>2, <1>5, <2>2, SMTT(20) DEF Inv, TypeOK, Lock, Go, Full, Committed, Feeding
  <2>3. CASE Look(p)
    BY <1>1, <1>2, <1>5, <2>3, SMTT(20) DEF Inv, TypeOK, Look, Go, Committed, Feeding
  <2>4. CASE Relock(p)
    BY <1>1, <1>5, <2>4, SMTT(20) DEF Inv, TypeOK, Sending, Relock, Go, Committed, Feeding
  <2>5. CASE SendInput(p) \/ RemoveDownFlow(p) \/ DropCurrent(p) \/ Nap(p) \/ Notify(p)
    <3>1. Committed(s)' = Committed(s)
      BY <2>5, SMTT(20) DEF Inv, TypeOK, SendInput, RemoveDownFlow, DropCurrent, Nap, Notify,
                            Go, Committed, Feeding
    <3>2. Size(s)' = Size(s)
      <4>1. UNCHANGED cached_buffers
        BY <2>5, ZenonT(20) DEF SendInput, RemoveDownFlow, DropCurrent, Nap, Notify
      <4>. QED  BY <4>1, ZenonT(20) DEF Size
    <3>. QED  BY <3>1, <3>2
  <2>. QED  BY <1>5, <2>1, <2>2, <2>3, <2>4, <2>5, SMTT(20) DEF ProducerStep, Produce
<1>. QED  BY <1>3, <1>4, <1>5, SMTT(20)

LEMMA RoomBlockingOther ==
    ASSUME Inv, RoomBlocking, OtherStep
    PROVE  RoomBlocking'
<1>1. \A s \in Slots : Size(s)' \in Nat /\ Size(s) \in Nat /\ Size(s)' <= Size(s)
  <2>1. CASE TakeFront
    <3>1. i \in Slots /\ cached_buffers[i] # <<>>
      BY <2>1, Zenon DEF Inv, Fetching, LockHeld, Holding, TakeFront
    <3>2. cached_buffers' = [cached_buffers EXCEPT ![i] = Tail(@)]
      BY <2>1, Zenon DEF TakeFront
    <3>. QED  BY <3>1, <3>2 DEF Inv, TypeOK, Size
  <2>2. CASE UNCHANGED cached_buffers
    BY <2>2 DEF Inv, TypeOK, Size
  <2>. QED  BY <2>1, <2>2, OtherFrame, ZenonT(20)
<1>2. \A s \in Slots : Committed(s)' = Committed(s)
  BY OtherFrame, SMTT(20) DEF Committed, Feeding
<1>3. \A s \in Slots : Cardinality(Committed(s)) \in Nat /\ Cardinality(Feeding(s)) \in Nat
  BY FeedingCards DEF Committed, Feeding
<1>. SUFFICES ASSUME max_cache_num > 0, mode_when_full = "BLOCKING", NEW s \in Slots
     PROVE  Size(s)' + Cardinality(Committed(s)') <= max_cache_num - 1 + Cardinality(Feeding(s))
  BY OtherFrame, SMTT(20) DEF RoomBlocking, Feeding
<1>4. Size(s) + Cardinality(Committed(s)) <= max_cache_num - 1 + Cardinality(Feeding(s))
  BY DEF Inv, RoomBlocking
<1>5. max_cache_num \in Nat
  BY DEF Inv, TypeOK
<1>6. Cardinality(Committed(s)') = Cardinality(Committed(s))
  BY <1>2
<1>. QED  BY <1>1, <1>3, <1>4, <1>5, <1>6, SMTT(20)
LEMMA RoomInit == Init => RoomBlocking
<1>. SUFFICES ASSUME Init, max_cache_num > 0, NEW s \in Slots
     PROVE  Size(s) + Cardinality(Committed(s)) <= max_cache_num - 1 + Cardinality(Feeding(s))
  BY DEF RoomBlocking
<1>1. Size(s) = 0 /\ Committed(s) = {} /\ max_cache_num \in Nat
  BY DEF Init, Size, Committed, Feeding
<1>2. Cardinality(Committed(s)) = 0
  BY <1>1, FS_EmptySet, ZenonT(20)
<1>3. Cardinality(Feeding(s)) \in Nat
  BY FeedingCards, Zenon
<1>. QED  BY <1>1, <1>2, <1>3, SMTT(20)

LEMMA RoomStep == Inv /\ RoomBlocking /\ [Next]_vars => RoomBlocking'
<1>. SUFFICES ASSUME Inv, RoomBlocking, [Next]_vars PROVE RoomBlocking'
  OBVIOUS
<1>1. CASE UNCHANGED vars
  <2>1. \A s \in Slots : Size(s)' = Size(s) /\ Committed(s)' = Committed(s)
    BY <1>1 DEF vars, fixed, producing, Size, Committed, Feeding
  <2>. QED  BY <1>1, <2>1, SMTT(20) DEF RoomBlocking, Feeding, vars, fixed
<1>. QED  BY <1>1, RoomBlockingProducer, RoomBlockingOther, ZenonT(20)
             DEF Next, ProducerStep, OtherStep

\* A slot keeps its limit: exactly when frames are dropped, and up to one
\* frame for each further producer when they block (flow.cc:879-934).
THEOREM AlwaysBounded == Spec => []Bounded
<1>1. Inv /\ RoomBlocking => Bounded
  <2>. SUFFICES ASSUME Inv, RoomBlocking, NEW s \in Slots, max_cache_num > 0
       PROVE  Size(s) <= max_cache_num +
                (IF mode_when_full = "BLOCKING" THEN Cardinality(Feeding(s)) - 1 ELSE 0)
    BY DEF Bounded
  <2>. Cardinality(Committed(s)) \in Nat /\ Cardinality(Feeding(s)) \in Nat
    BY FeedingCards, SMTT(20) DEF Committed, Feeding
  <2>. max_cache_num \in Nat /\ Size(s) \in Nat
    BY SMTT(20) DEF Inv, TypeOK, Size
  <2>1. CASE mode_when_full = "BLOCKING"
    <3>1. Size(s) + Cardinality(Committed(s)) <= max_cache_num - 1 + Cardinality(Feeding(s))
      BY <2>1 DEF RoomBlocking
    <3>. QED  BY <2>1, <3>1, SMTT(20)
  <2>2. CASE mode_when_full # "BLOCKING"
    BY <2>2, SMTT(20) DEF Inv, RoomDropping
  <2>. QED  BY <2>1, <2>2
<1>2. Inv /\ RoomBlocking /\ [Next]_vars => Inv' /\ RoomBlocking'
  BY InvStep, RoomStep, Zenon
<1>. QED  BY <1>1, <1>2, InvInit, RoomInit, PTL DEF Spec
=============================================================================
