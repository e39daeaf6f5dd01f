---------------------------- MODULE UnixIpcProofs ----------------------------
(***************************************************************************)
(* Proofs about UnixIpc, for any number of connections and workers and any *)
(* bounds: the steps that cannot free a unix_client_t keep the inductive   *)
(* invariant Inv, then the release of a reference and the free; from Inv   *)
(* that the reference count of a unix_client_t keeps it allocated while a  *)
(* thread can reach it, and that the server implements ProtoSink.          *)
(***************************************************************************)
EXTENDS UnixIpc, FiniteSetTheorems, TLAPS

\* There are finitely many threads, so the holders of a sink can be counted.
LEMMA HoldersFinite ==
    \A c \in Clients : IsFiniteSet(Holders(c)) /\ Cardinality(Holders(c)) \in Nat
<1>1. IsFiniteSet(Threads)
  BY Zenon, ClientAssumption, FS_Union DEF Threads
<1>2. \A c \in Clients : Holders(c) \in SUBSET Threads
  BY Zenon DEF Holders
<1> QED
  BY <1>1, <1>2, FS_Subset, FS_CardinalityType, ZenonT(20)

\* A daemon that has not accepted anything yet satisfies the invariant.
LEMMA InitInv == Init => Inv
<1> SUFFICES ASSUME Init PROVE Inv
  OBVIOUS
<1> USE ClientAssumption, BoundAssumption DEF Init, Threads
<1>1. TypeOK
  BY DEF TypeOK, ReaderPc, WorkerPc
<1>2. \A c \in Clients : \A t \in Threads : ~Touches(t, c)
  BY Zenon DEF Touches, Holds, SinkOf
<1>3. NoUseAfterFree /\ OneFreer /\ RefCounted
  BY <1>2, Zenon DEF NoUseAfterFree, OneFreer, RefCounted
<1>4. Life /\ LockOwner /\ FrameOnOpenFd /\ JobShape
  BY Zenon DEF Life, LockOwner, FrameOnOpenFd, JobShape
<1> QED
  BY <1>1, <1>3, <1>4, Zenon DEF Inv

\* Steps that leave the client structs, the locks and the threads alone.
LEMMA QuietInv ==
    ASSUME Inv, TypeOK',
           UNCHANGED <<mem, fd, refcount, lock, closes, pc, job, left>>
    PROVE  Inv'
<1>1. \A c \in Clients : Holders(c)' = Holders(c)
  BY Zenon DEF Holders, Holds, Threads
<1>2. RefCounted'
  BY <1>1, Zenon DEF Inv, RefCounted
<1>3. NoUseAfterFree' /\ OneFreer'
  BY DEF Inv, NoUseAfterFree, OneFreer, Touches, Holds, SinkOf
<1>4. Life' /\ LockOwner' /\ FrameOnOpenFd' /\ JobShape'
  BY DEF Inv, Life, LockOwner, FrameOnOpenFd, JobShape, SinkOf
<1> QED
  BY <1>2, <1>3, <1>4, Zenon DEF Inv

\* Steps after which every sink has the same users as before.
LEMMA SameUsers ==
    ASSUME Inv, UNCHANGED <<mem, refcount>>,
           \A c \in Clients : \A t \in Threads :
              /\ Holds(t, c)' <=> Holds(t, c)
              /\ (pc[t] = "free" /\ SinkOf(t) = c)' <=> (pc[t] = "free" /\ SinkOf(t) = c)
    PROVE  RefCounted' /\ NoUseAfterFree' /\ OneFreer'
<1>1. \A c \in Clients : Holders(c)' = Holders(c)
  BY Zenon DEF Holders, Threads
<1>2. RefCounted'
  BY <1>1, Zenon DEF Inv, RefCounted
<1>3. NoUseAfterFree' /\ OneFreer'
  BY DEF Inv, NoUseAfterFree, OneFreer, Touches
<1> QED
  BY <1>2, <1>3, Zenon

\* A thread that is not idle works on a connection.
LEMMA BusySink ==
    ASSUME Inv, NEW t \in Threads, pc[t] # "idle"
    PROVE  SinkOf(t) \in Clients
BY Zenon DEF Inv, TypeOK, JobShape, SinkOf, Threads

\* The reader of c between two requests.
LEMMA ReaderMovesInv ==
    ASSUME Inv, NEW c \in Clients,
           Read(c) \/ ReadEnds(c) \/ BufferEnds(c) \/ HandleSync(c) \/ CloseFd(c)
    PROVE  Inv'
<1> USE ClientAssumption DEF Threads
<1>0. /\ UNCHANGED <<mem, refcount, lock, job, left>>
      /\ \/ /\ pc[c] \in {"read", "frame"}
            /\ \E l \in {"read", "frame", "lock", "close"} : pc' = [pc EXCEPT ![c] = l]
            /\ UNCHANGED <<fd, closes>>
         \/ /\ pc[c] = "close" /\ lock[c] = NoOne
            /\ pc' = [pc EXCEPT ![c] = "release"]
            /\ fd' = [fd EXCEPT ![c] = FALSE]
            /\ closes' = [closes EXCEPT ![c] = IF fd[c] THEN @ + 1 ELSE @]
  BY Zenon DEF Read, ReadEnds, BufferEnds, HandleSync, CloseFd, Goto, clientVars, jobVars
<1>1. TypeOK'
  <2>1. CASE Read(c)
    BY <2>1, BoundAssumption
       DEF Read, Goto, clientVars, jobVars, Inv, TypeOK, ReaderPc, WorkerPc
  <2>2. CASE ReadEnds(c)
    BY <2>2, ZenonT(20) DEF ReadEnds, Goto, clientVars, peerVars, jobVars, Inv, TypeOK, ReaderPc, WorkerPc
  <2>3. CASE BufferEnds(c) \/ HandleSync(c)
    BY <2>3, BoundAssumption, SMTT(20)
       DEF BufferEnds, HandleSync, Goto, clientVars, peerVars, jobVars, Inv, TypeOK, ReaderPc, WorkerPc
  <2>4. CASE CloseFd(c)
    BY <2>4 DEF CloseFd, Goto, peerVars, jobVars, Inv, TypeOK, ReaderPc, WorkerPc
  <2> QED
    BY <2>1, <2>2, <2>3, <2>4, ZenonT(20)
<1>2. RefCounted' /\ NoUseAfterFree' /\ OneFreer'
  <2>1. \A d \in Clients : \A u \in Threads :
           /\ Holds(u, d)' <=> Holds(u, d)
           /\ (pc[u] = "free" /\ SinkOf(u) = d)' <=> (pc[u] = "free" /\ SinkOf(u) = d)
    BY <1>0 DEF Inv, TypeOK, Holds, SinkOf
  <2> QED
    BY Zenon, <1>0, <2>1, SameUsers
<1>3. Life'
  BY <1>0 DEF Inv, TypeOK, Life
<1>4. JobShape'
  BY <1>0 DEF Inv, TypeOK, JobShape
<1>5. LockOwner'
  BY <1>0 DEF Inv, TypeOK, LockOwner, SinkOf
<1>6. FrameOnOpenFd'
  <2> SUFFICES ASSUME NEW t \in Threads, pc'[t] = "write"
               PROVE  lock[SinkOf(t)] = t /\ fd'[SinkOf(t)]
    BY <1>0, Zenon DEF FrameOnOpenFd, SinkOf
  <2>1. t # c /\ pc[t] = "write"
    BY <1>0 DEF Inv, TypeOK
  <2>2. lock[SinkOf(t)] = t /\ fd[SinkOf(t)] /\ SinkOf(t) \in Clients
    BY <2>1, BusySink, Zenon DEF Inv, FrameOnOpenFd
  <2> QED
    BY <1>0, <2>1, <2>2 DEF Inv, TypeOK
<1> QED
  BY <1>1, <1>2, <1>3, <1>4, <1>5, <1>6, Zenon DEF Inv

\* A new connection has one holder, its reader.
LEMMA AcceptInv ==
    ASSUME Inv, NEW c \in Clients, Accept(c)
    PROVE  Inv'
<1> USE ClientAssumption DEF Threads
<1>0. /\ pc[c] = "none"
      /\ mem' = [mem EXCEPT ![c] = "live"]
      /\ fd' = [fd EXCEPT ![c] = TRUE]
      /\ refcount' = [refcount EXCEPT ![c] = 1]
      /\ peer' = [peer EXCEPT ![c] = "open"]
      /\ pc' = [pc EXCEPT ![c] = "read"]
      /\ UNCHANGED <<listener, closes, inbox, lock, frames, job, left, total>>
  BY Zenon DEF Accept, Goto, jobVars
<1>1. TypeOK'
  BY <1>0, Zenon DEF Inv, TypeOK, ReaderPc, WorkerPc
<1>2. \A t \in Threads : ~Touches(t, c)
  BY <1>0, Zenon DEF Inv, Life, NoUseAfterFree
<1>3. \A d \in Clients : \A t \in Threads :
         /\ Holds(t, d)' <=> (Holds(t, d) \/ (t = c /\ d = c))
         /\ (pc[t] = "free" /\ SinkOf(t) = d)' <=> (pc[t] = "free" /\ SinkOf(t) = d)
  BY <1>0 DEF Inv, TypeOK, Holds, SinkOf
<1>4. RefCounted'
  <2>1. Holders(c)' = {c}
    BY <1>2, <1>3 DEF Holders, Touches
  <2>2. Cardinality(Holders(c)') = 1
    BY Zenon, <2>1, FS_Singleton
  <2>3. \A d \in Clients \ {c} : Holders(d)' = Holders(d)
    BY <1>3, Zenon DEF Holders
  <2> QED
    BY <1>0, <2>2, <2>3 DEF Inv, TypeOK, RefCounted
<1>5. NoUseAfterFree' /\ OneFreer'
  BY <1>0, <1>2, <1>3, SMTT(20) DEF Inv, TypeOK, NoUseAfterFree, OneFreer, Touches
<1>6. Life' /\ JobShape'
  BY <1>0, SMTT(20) DEF Inv, TypeOK, Life, JobShape
<1>7. LockOwner' /\ FrameOnOpenFd'
  BY <1>0 DEF Inv, TypeOK, LockOwner, FrameOnOpenFd, SinkOf
<1> QED
  BY <1>1, <1>4, <1>5, <1>6, <1>7, Zenon DEF Inv

\* A connection that is turned away never has a holder.
LEMMA AcceptFailsInv ==
    ASSUME Inv, NEW c \in Clients, AcceptFails(c)
    PROVE  Inv'
<1> USE ClientAssumption DEF Threads
<1>0. /\ pc[c] = "none"
      /\ mem' = mem \/ mem' = [mem EXCEPT ![c] = "freed"]
      /\ closes' = [closes EXCEPT ![c] = @ + 1]
      /\ pc' = [pc EXCEPT ![c] = "done"]
      /\ UNCHANGED <<listener, fd, refcount, peer, inbox, lock, frames, job, left, total>>
  BY Zenon DEF AcceptFails, Goto, peerVars, jobVars
<1>1. TypeOK'
  BY <1>0 DEF Inv, TypeOK, ReaderPc, WorkerPc
<1>2. \A t \in Threads : ~Touches(t, c)
  BY <1>0, Zenon DEF Inv, Life, NoUseAfterFree
<1>3. \A d \in Clients : \A t \in Threads :
         /\ Holds(t, d)' <=> Holds(t, d)
         /\ (pc[t] = "free" /\ SinkOf(t) = d)' <=> (pc[t] = "free" /\ SinkOf(t) = d)
  BY <1>0 DEF Inv, TypeOK, Holds, SinkOf
<1>4. RefCounted'
  <2>1. \A d \in Clients : Holders(d)' = Holders(d)
    BY <1>3, Zenon DEF Holders
  <2> QED
    BY <1>0, <2>1 DEF Inv, TypeOK, RefCounted, Life
<1>5. NoUseAfterFree' /\ OneFreer'
  BY <1>0, <1>2, <1>3, SMTT(20) DEF Inv, TypeOK, NoUseAfterFree, OneFreer, Touches
<1>6. Life' /\ JobShape'
  BY <1>0 DEF Inv, TypeOK, Life, JobShape
<1>7. LockOwner' /\ FrameOnOpenFd'
  BY <1>0 DEF Inv, TypeOK, LockOwner, FrameOnOpenFd, SinkOf
<1> QED
  BY <1>1, <1>4, <1>5, <1>6, <1>7, Zenon DEF Inv

\* The retain of trigger_wifi_connect / trigger_wifi_scan adds the new worker.
LEMMA HandleAsyncInv ==
    ASSUME Inv, NEW c \in Clients, NEW w \in Workers, HandleAsync(c, w)
    PROVE  Inv'
<1> USE ClientAssumption DEF Threads
<1>0. /\ pc[c] = "frame" /\ frames[c] > 0 /\ pc[w] = "idle"
      /\ refcount' = [refcount EXCEPT ![c] = @ + 1]
      /\ frames' = [frames EXCEPT ![c] = @ - 1]
      /\ job' = [job EXCEPT ![w] = c]
      /\ \E n \in 1 .. MaxPush : left' = [left EXCEPT ![w] = n]
      /\ pc' = [pc EXCEPT ![c] = "spawn", ![w] = "born"]
      /\ UNCHANGED <<listener, mem, fd, closes, peer, inbox, lock, total>>
  BY Zenon DEF HandleAsync, RetainRef, peerVars
<1>1. TypeOK'
  <2>1. refcount' \in [Clients -> Nat] /\ frames' \in [Clients -> 0 .. MaxFrames]
    BY <1>0, BoundAssumption DEF Inv, TypeOK
  <2>2. job' \in [Workers -> Clients \cup {NoOne}] /\ left' \in [Workers -> 0 .. MaxPush]
    BY <1>0, BoundAssumption DEF Inv, TypeOK
  <2>3. pc' \in [Threads -> ReaderPc \cup WorkerPc]
    BY <1>0, Zenon DEF Inv, TypeOK, ReaderPc, WorkerPc
  <2>4. (\A d \in Clients : pc'[d] \in ReaderPc) /\ (\A v \in Workers : pc'[v] \in WorkerPc)
    BY <1>0, Zenon DEF Inv, TypeOK, ReaderPc, WorkerPc
  <2> QED
    BY ZenonT(20), <1>0, <2>1, <2>2, <2>3, <2>4 DEF Inv, TypeOK
<1>2. \A d \in Clients : \A t \in Threads :
         /\ Holds(t, d)' <=> (Holds(t, d) \/ (t = w /\ d = c))
         /\ (pc[t] = "free" /\ SinkOf(t) = d)' <=> (pc[t] = "free" /\ SinkOf(t) = d)
  BY <1>0 DEF Inv, TypeOK, Holds, SinkOf
<1>3. Holds(c, c) /\ ~Holds(w, c)
  BY <1>0, Zenon DEF Inv, TypeOK, Holds
<1>4. RefCounted'
  <2>1. Holders(c)' = Holders(c) \cup {w}
    BY <1>2 DEF Holders
  <2>2. Cardinality(Holders(c)') = Cardinality(Holders(c)) + 1
    BY Zenon, <2>1, <1>3, HoldersFinite, FS_AddElement DEF Holders
  <2>3. \A d \in Clients \ {c} : Holders(d)' = Holders(d)
    BY <1>2, Zenon DEF Holders
  <2> QED
    BY <1>0, <2>2, <2>3 DEF Inv, TypeOK, RefCounted
<1>5. NoUseAfterFree'
  BY <1>0, <1>2, <1>3, SMTT(20) DEF Inv, TypeOK, NoUseAfterFree, Touches
<1>6. OneFreer'
  <2>1. \A t \in Threads : ~(pc[t] = "free" /\ SinkOf(t) = c)
    BY <1>0, <1>3, ZenonT(20) DEF Inv, OneFreer, Touches
  <2> QED
    BY <1>0, <1>2, <2>1 DEF Inv, OneFreer, Touches
<1>7. Life' /\ JobShape'
  BY <1>0 DEF Inv, TypeOK, Life, JobShape
<1>8. LockOwner'
  BY <1>0, SMTT(20) DEF Inv, TypeOK, LockOwner, SinkOf
<1>9. FrameOnOpenFd'
  BY <1>0 DEF Inv, TypeOK, FrameOnOpenFd, SinkOf
<1> QED
  BY <1>1, <1>4, <1>5, <1>6, <1>7, <1>8, <1>9, Zenon DEF Inv

\* pthread_create hands the reference over; it does not change who holds one.
LEMMA SpawnWorkerInv ==
    ASSUME Inv, NEW c \in Clients, NEW w \in Workers, SpawnWorker(c, w)
    PROVE  Inv'
<1> USE ClientAssumption DEF Threads
<1>0. /\ pc[c] = "spawn" /\ pc[w] = "born" /\ job[w] = c
      /\ pc' = [pc EXCEPT ![c] = "lock", ![w] = "run"]
      /\ UNCHANGED <<listener, mem, fd, refcount, lock, closes, peer, inbox, frames, job, left, total>>
  BY Zenon DEF SpawnWorker, clientVars, peerVars, jobVars
<1>1. TypeOK'
  BY <1>0, Zenon DEF Inv, TypeOK, ReaderPc, WorkerPc
<1>2. RefCounted' /\ NoUseAfterFree' /\ OneFreer'
  <2>1. \A d \in Clients : \A u \in Threads :
           /\ Holds(u, d)' <=> Holds(u, d)
           /\ (pc[u] = "free" /\ SinkOf(u) = d)' <=> (pc[u] = "free" /\ SinkOf(u) = d)
    BY <1>0 DEF Inv, TypeOK, Holds, SinkOf
  <2> QED
    BY ZenonT(20), <1>0, <2>1, SameUsers
<1>3. Life'
  BY <1>0 DEF Inv, TypeOK, Life
<1>4. JobShape'
  BY <1>0 DEF Inv, TypeOK, JobShape
<1>5. LockOwner'
  BY <1>0 DEF Inv, TypeOK, LockOwner, FrameOnOpenFd, SinkOf
<1>6. FrameOnOpenFd'
  BY <1>0 DEF Inv, TypeOK, FrameOnOpenFd, SinkOf
<1> QED
  BY <1>1, <1>2, <1>3, <1>4, <1>5, <1>6, Zenon DEF Inv

\* The reader holds its reference beside that of the worker it could not
\* create, so this one is not the last.
LEMMA SpawnFailsKeeps ==
    ASSUME Inv, NEW c \in Clients, NEW w \in Workers, SpawnFails(c, w)
    PROVE  /\ Holds(c, c) /\ Holds(w, c) /\ c # w
           /\ refcount[c] = Cardinality(Holders(c)) /\ refcount[c] > 1
           /\ UNCHANGED <<mem, fd, closes>>
<1> USE ClientAssumption DEF Threads
<1>1. pc[c] = "spawn" /\ pc[w] = "born" /\ job[w] = c
  BY Zenon DEF SpawnFails
<1>2. Holds(c, c) /\ Holds(w, c) /\ c # w
  BY <1>1 DEF Inv, TypeOK, Holds
<1>3. refcount[c] = Cardinality(Holders(c)) /\ refcount[c] > 1
  <2>1. mem[c] = "live"
    BY <1>2, Zenon DEF Inv, NoUseAfterFree, Touches
  <2>2. refcount[c] = Cardinality(Holders(c))
    BY <2>1, Zenon DEF Inv, RefCounted
  <2>3. c \in Holders(c) \ {w} /\ w \in Holders(c)
    BY <1>2, Zenon DEF Holders
  <2>4. Cardinality(Holders(c) \ {w}) = Cardinality(Holders(c)) - 1
    BY Zenon, <2>3, HoldersFinite, FS_RemoveElement
  <2>5. Cardinality(Holders(c) \ {w}) \in Nat /\ Cardinality(Holders(c) \ {w}) # 0
    BY ZenonT(20), <2>3, HoldersFinite, FS_RemoveElement, FS_EmptySet, FS_CardinalityType
  <2> QED
    BY <2>2, <2>4, <2>5, HoldersFinite
<1>4. UNCHANGED <<mem, fd, closes>>
  BY <1>3 DEF SpawnFails, DropRef, Inv, TypeOK
<1> QED
  BY <1>2, <1>3, <1>4, Zenon

\* A worker that could not be created gives its reference back; the reader
\* still has its own, so nothing is freed.
LEMMA SpawnFailsInv ==
    ASSUME Inv, NEW c \in Clients, NEW w \in Workers, SpawnFails(c, w)
    PROVE  Inv'
<1> USE ClientAssumption DEF Threads
<1>1. /\ pc[c] = "spawn" /\ pc[w] = "born" /\ job[w] = c
      /\ job' = [job EXCEPT ![w] = NoOne]
      /\ left' = [left EXCEPT ![w] = 0]
      /\ pc' = [pc EXCEPT ![c] = "lock", ![w] = "idle"]
      /\ refcount' = [refcount EXCEPT ![c] = @ - 1]
      /\ UNCHANGED <<listener, peer, inbox, lock, frames, total>>
  BY Zenon DEF SpawnFails, DropRef, peerVars
<1>2. Holds(c, c) /\ Holds(w, c) /\ c # w
  BY SpawnFailsKeeps, Zenon
<1>3. refcount[c] = Cardinality(Holders(c)) /\ refcount[c] > 1
  BY SpawnFailsKeeps, Zenon
<1>4. UNCHANGED <<mem, fd, closes>>
  BY SpawnFailsKeeps, Zenon
<1>5. TypeOK'
  <2>1. refcount' \in [Clients -> Nat]
    BY <1>1, <1>3, SMTT(20) DEF Inv, TypeOK
  <2>2. job' \in [Workers -> Clients \cup {NoOne}] /\ left' \in [Workers -> 0 .. MaxPush]
    BY <1>1, BoundAssumption DEF Inv, TypeOK
  <2>3. pc' \in [Threads -> ReaderPc \cup WorkerPc]
    BY <1>1, Zenon DEF Inv, TypeOK, ReaderPc, WorkerPc
  <2>4. (\A d \in Clients : pc'[d] \in ReaderPc) /\ (\A v \in Workers : pc'[v] \in WorkerPc)
    BY <1>1, ZenonT(20) DEF Inv, TypeOK, ReaderPc, WorkerPc
  <2> QED
    BY ZenonT(20), <1>1, <1>4, <2>1, <2>2, <2>3, <2>4 DEF Inv, TypeOK
<1>6. \A d \in Clients : \A t \in Threads :
         /\ Holds(t, d)' <=> (Holds(t, d) /\ ~(t = w /\ d = c))
         /\ (pc[t] = "free" /\ SinkOf(t) = d)' <=> (pc[t] = "free" /\ SinkOf(t) = d)
  BY <1>1 DEF Inv, TypeOK, Holds, SinkOf
<1>7. RefCounted'
  <2>1. Holders(c)' = Holders(c) \ {w}
    BY <1>6 DEF Holders
  <2>2. Cardinality(Holders(c)') = Cardinality(Holders(c)) - 1
    BY Zenon, <2>1, <1>2, HoldersFinite, FS_RemoveElement DEF Holders
  <2>3. \A d \in Clients \ {c} : Holders(d)' = Holders(d)
    BY <1>6 DEF Holders
  <2> QED
    BY <1>1, <1>3, <1>4, <2>2, <2>3, SMTT(20) DEF Inv, TypeOK, RefCounted
<1>8. NoUseAfterFree' /\ OneFreer'
  BY <1>4, <1>6, SMTT(20) DEF Inv, NoUseAfterFree, OneFreer, Touches
<1>9. Life' /\ JobShape'
  BY <1>1, <1>4, SMTT(20) DEF Inv, TypeOK, Life, JobShape
<1>10. LockOwner'
  BY <1>1, SMTT(20) DEF Inv, TypeOK, LockOwner, SinkOf
<1>11. FrameOnOpenFd'
  BY <1>1, <1>4 DEF Inv, TypeOK, FrameOnOpenFd, SinkOf
<1> QED
  BY <1>5, <1>7, <1>8, <1>9, <1>10, <1>11 DEF Inv

\* A frame is begun under the lock, or dropped because the client is closed.
LEMMA LockSendInv ==
    ASSUME Inv, NEW t \in Threads, LockSend(t)
    PROVE  Inv'
<1> USE ClientAssumption DEF Threads
<1>c. PICK c \in Clients : c = SinkOf(t)
  BY BusySink, Zenon DEF LockSend
<1>0. /\ c = SinkOf(t) /\ pc[t] = "lock" /\ lock[c] = NoOne
      /\ UNCHANGED <<listener, mem, fd, refcount, closes, peer, inbox, frames, job, total>>
      /\ \/ /\ fd[c]
            /\ lock' = [lock EXCEPT ![c] = t]
            /\ pc' = [pc EXCEPT ![t] = "write"]
            /\ UNCHANGED left
         \/ /\ t \in Clients
            /\ pc' = [pc EXCEPT ![t] = "frame"]
            /\ UNCHANGED <<lock, left>>
         \/ /\ t \in Workers
            /\ pc' = [pc EXCEPT ![t] = IF left[t] > 1 THEN "lock" ELSE "release"]
            /\ left' = [left EXCEPT ![t] = @ - 1]
            /\ UNCHANGED lock
  BY <1>c, SMTT(20) DEF LockSend, AfterSend, Goto, clientVars, peerVars
<1>1. TypeOK'
  <2>1. lock' \in [Clients -> Threads \cup {NoOne}]
    BY <1>0, SMTT(20) DEF Inv, TypeOK
  <2>2. left' \in [Workers -> 0 .. MaxPush]
    BY <1>0, BoundAssumption, SMTT(20) DEF Inv, TypeOK, JobShape
  <2>3. pc' \in [Threads -> ReaderPc \cup WorkerPc]
    BY <1>0, SMTT(20) DEF Inv, TypeOK, ReaderPc, WorkerPc
  <2>4. (\A d \in Clients : pc'[d] \in ReaderPc) /\ (\A w \in Workers : pc'[w] \in WorkerPc)
    BY <1>0, SMTT(20) DEF Inv, TypeOK, ReaderPc, WorkerPc
  <2> QED
    BY <1>0, <2>1, <2>2, <2>3, <2>4, BoundAssumption, SMTT(20) DEF Inv, TypeOK
<1>2. RefCounted' /\ NoUseAfterFree' /\ OneFreer'
  <2>1. \A d \in Clients : \A u \in Threads :
           /\ Holds(u, d)' <=> Holds(u, d)
           /\ (pc[u] = "free" /\ SinkOf(u) = d)' <=> (pc[u] = "free" /\ SinkOf(u) = d)
    BY <1>0, SMTT(20) DEF Inv, TypeOK, Holds, SinkOf
  <2> QED
    BY Zenon, <1>0, <2>1, SameUsers
<1>3. Life'
  BY <1>0, SMTT(20) DEF Inv, TypeOK, Life
<1>4. JobShape'
  BY <1>0, SMTT(20) DEF Inv, TypeOK, JobShape
<1>5. LockOwner'
  BY <1>0 DEF Inv, TypeOK, LockOwner, FrameOnOpenFd, SinkOf
<1>6. FrameOnOpenFd'
  <2> SUFFICES ASSUME NEW u \in Threads, pc'[u] = "write"
               PROVE  lock'[SinkOf(u)] = u /\ fd[SinkOf(u)]
    BY <1>0, ZenonT(20) DEF FrameOnOpenFd, SinkOf
  <2>1. CASE u = t
    BY <1>0, <2>1, SMTT(20) DEF Inv, TypeOK
  <2>2. CASE u # t
    <3>1. pc[u] = "write"
      BY <1>0, <2>2, SMTT(20) DEF Inv, TypeOK
    <3>2. lock[SinkOf(u)] = u /\ fd[SinkOf(u)] /\ SinkOf(u) \in Clients
      BY <3>1, BusySink DEF Inv, FrameOnOpenFd
    <3> QED
      BY <1>0, <3>2, SMTT(20) DEF Inv, TypeOK
  <2> QED
    BY <2>1, <2>2, ZenonT(20)
<1> QED
  BY <1>1, <1>2, <1>3, <1>4, <1>5, <1>6 DEF Inv

\* A frame ends and the lock is given back.
LEMMA UnlockInv ==
    ASSUME Inv, NEW t \in Threads, Unlock(t)
    PROVE  Inv'
<1> USE ClientAssumption DEF Threads
<1>c. PICK c \in Clients : c = SinkOf(t)
  BY BusySink, Zenon DEF Unlock
<1>0. /\ c = SinkOf(t) /\ pc[t] = "write"
      /\ lock' = [lock EXCEPT ![c] = NoOne]
      /\ total' = [total EXCEPT ![t] = 0]
      /\ UNCHANGED <<listener, mem, fd, refcount, closes, peer, inbox, frames, job>>
      /\ \/ /\ t \in Clients
            /\ pc' = [pc EXCEPT ![t] = "frame"]
            /\ UNCHANGED left
         \/ /\ t \in Workers
            /\ pc' = [pc EXCEPT ![t] = IF left[t] > 1 THEN "lock" ELSE "release"]
            /\ left' = [left EXCEPT ![t] = @ - 1]
  BY <1>c, ZenonT(20) DEF Unlock, AfterSend, Goto, clientVars, peerVars
<1>1. TypeOK'
  <2>1. lock' \in [Clients -> Threads \cup {NoOne}]
    BY <1>0, ZenonT(20) DEF Inv, TypeOK
  <2>2. left' \in [Workers -> 0 .. MaxPush]
    BY <1>0, BoundAssumption, SMTT(20) DEF Inv, TypeOK, JobShape
  <2>3. pc' \in [Threads -> ReaderPc \cup WorkerPc]
    BY <1>0, SMTT(20) DEF Inv, TypeOK, ReaderPc, WorkerPc
  <2>4. (\A d \in Clients : pc'[d] \in ReaderPc) /\ (\A w \in Workers : pc'[w] \in WorkerPc)
    BY <1>0, SMTT(20) DEF Inv, TypeOK, ReaderPc, WorkerPc
  <2> QED
    BY <1>0, <2>1, <2>2, <2>3, <2>4, BoundAssumption, SMTT(20) DEF Inv, TypeOK
<1>2. RefCounted' /\ NoUseAfterFree' /\ OneFreer'
  <2>1. \A d \in Clients : \A u \in Threads :
           /\ Holds(u, d)' <=> Holds(u, d)
           /\ (pc[u] = "free" /\ SinkOf(u) = d)' <=> (pc[u] = "free" /\ SinkOf(u) = d)
    BY <1>0, SMTT(20) DEF Inv, TypeOK, Holds, SinkOf
  <2> QED
    BY Zenon, <1>0, <2>1, SameUsers
<1>3. Life'
  BY <1>0 DEF Inv, TypeOK, Life
<1>4. JobShape'
  BY <1>0, SMTT(20) DEF Inv, TypeOK, JobShape
<1>5. LockOwner'
  BY <1>0, SMTT(20) DEF Inv, TypeOK, LockOwner, FrameOnOpenFd, SinkOf
<1>6. FrameOnOpenFd'
  BY <1>0 DEF Inv, TypeOK, FrameOnOpenFd, SinkOf
<1> QED
  BY <1>1, <1>2, <1>3, <1>4, <1>5, <1>6, Zenon DEF Inv

\* A worker gets its result; it keeps its reference.
LEMMA WorkInv ==
    ASSUME Inv, NEW w \in Workers, Work(w)
    PROVE  Inv'
<1> USE ClientAssumption DEF Threads
<1>0. /\ pc[w] = "run"
      /\ pc' = [pc EXCEPT ![w] = "lock"]
      /\ UNCHANGED <<listener, mem, fd, refcount, lock, closes, peer, inbox, frames, job, left, total>>
  BY DEF Work, Goto, clientVars, peerVars, jobVars
<1>1. TypeOK'
  BY <1>0 DEF Inv, TypeOK, ReaderPc, WorkerPc
<1>2. RefCounted' /\ NoUseAfterFree' /\ OneFreer'
  <2>1. \A d \in Clients : \A u \in Threads :
           /\ Holds(u, d)' <=> Holds(u, d)
           /\ (pc[u] = "free" /\ SinkOf(u) = d)' <=> (pc[u] = "free" /\ SinkOf(u) = d)
    BY <1>0, SMTT(20) DEF Inv, TypeOK, Holds, SinkOf
  <2> QED
    BY ZenonT(20), <1>0, <2>1, SameUsers
<1>3. Life'
  BY <1>0 DEF Inv, TypeOK, Life
<1>4. JobShape'
  BY <1>0, SMTT(20) DEF Inv, TypeOK, JobShape
<1>5. LockOwner'
  BY <1>0 DEF Inv, TypeOK, LockOwner, FrameOnOpenFd, SinkOf
<1>6. FrameOnOpenFd'
  BY <1>0, Zenon DEF Inv, TypeOK, FrameOnOpenFd, SinkOf
<1> QED
  BY <1>1, <1>2, <1>3, <1>4, <1>5, <1>6, Zenon DEF Inv
-----------------------------------------------------------------------------
(* The release of a reference, and the theorems *)

\* The last release finds the descriptor closed: the reader closes it before
\* it gives its own reference back.
LEMMA ReleaseKeeps ==
    ASSUME Inv, NEW t \in Threads, ReleaseRef(t), NEW c \in Clients, c = SinkOf(t)
    PROVE  /\ Holds(t, c) /\ mem[c] = "live" /\ t \in Holders(c)
           /\ refcount[c] = Cardinality(Holders(c)) /\ refcount[c] > 0
           /\ refcount[c] = 1 => Holders(c) = {t}
           /\ UNCHANGED <<fd, closes>>
<1> USE ClientAssumption DEF Threads
<1>0. c \in Clients /\ c = SinkOf(t)
  OBVIOUS
<1>1. c = SinkOf(t) /\ pc[t] = "release" /\ lock[c] = NoOne
  BY <1>0, Zenon DEF ReleaseRef, DropRef
<1>2. Holds(t, c)
  BY <1>1, Zenon DEF Holds, SinkOf
<1>3. mem[c] = "live" /\ refcount[c] = Cardinality(Holders(c))
  BY <1>1, <1>2, ZenonT(20) DEF Inv, RefCounted, NoUseAfterFree, Touches
<1>4. t \in Holders(c) /\ refcount[c] > 0
  <2>1. t \in Holders(c)
    BY <1>2, Zenon DEF Holders
  <2> QED
    BY <1>1, <1>3, <2>1, HoldersFinite, FS_EmptySet
<1>5. refcount[c] = 1 => Holders(c) = {t}
  <2>1. Cardinality(Holders(c)) = 1 => \E x : Holders(c) = {x}
    BY Zenon, <1>1, HoldersFinite, FS_Singleton
  <2> QED
    BY <1>3, <1>4, <2>1, Zenon
<1>8. UNCHANGED <<fd, closes>>
  <2>1. fd[c] => c \in Holders(c) /\ pc[c] # "release"
    BY Zenon DEF Inv, Life, Holders, Holds
  <2>2. refcount[c] = 1 => ~fd[c]
    BY <1>1, <1>5, <2>1, Zenon
  <2> QED
    BY <1>0, <2>2, Zenon DEF ReleaseRef, DropRef
<1> QED
  BY <1>2, <1>3, <1>4, <1>5, <1>8, Zenon

\* Giving a reference back.  The count says whether the thread was the last
\* holder; if it was, it closes the descriptor and frees the struct next.
LEMMA ReleaseRefInv ==
    ASSUME Inv, NEW t \in Threads, ReleaseRef(t)
    PROVE  Inv'
<1> USE ClientAssumption DEF Threads
<1>0. PICK c \in Clients : c = SinkOf(t)
  BY BusySink, Zenon DEF ReleaseRef
<1>1. c = SinkOf(t) /\ pc[t] = "release" /\ lock[c] = NoOne
  BY <1>0, Zenon DEF ReleaseRef, DropRef
<1>2. Holds(t, c) /\ t \in Holders(c)
  BY <1>0, ReleaseKeeps, Zenon
<1>3. mem[c] = "live" /\ refcount[c] = Cardinality(Holders(c))
  BY <1>0, ReleaseKeeps, Zenon
<1>4. t \in Holders(c) /\ refcount[c] > 0
  BY <1>0, ReleaseKeeps, Zenon
<1>5. refcount[c] = 1 => Holders(c) = {t}
  BY <1>0, ReleaseKeeps, Zenon
<1>6. /\ refcount' = [refcount EXCEPT ![c] = @ - 1]
      /\ UNCHANGED <<listener, mem, peer, inbox, frames, lock, left, total>>
  BY <1>0, Zenon DEF ReleaseRef, DropRef, peerVars
<1>7. /\ pc' = [pc EXCEPT ![t] = IF refcount[c] = 1 THEN "free"
                                ELSE IF t \in Clients THEN "done" ELSE "idle"]
      /\ IF refcount[c] = 1 \/ t \in Clients
           THEN UNCHANGED job
           ELSE job' = [job EXCEPT ![t] = NoOne]
  BY <1>0, Zenon DEF ReleaseRef, Finish, Goto
<1>8. UNCHANGED <<fd, closes>>
  BY <1>0, ReleaseKeeps, Zenon
<1>type. TypeOK'
  <2>1. pc' \in [Threads -> ReaderPc \cup WorkerPc] /\ job' \in [Workers -> Clients \cup {NoOne}]
    BY <1>7 DEF Inv, TypeOK, ReaderPc, WorkerPc
  <2>2. \A d \in Clients : pc'[d] \in ReaderPc
    BY <1>7, ZenonT(20) DEF Inv, TypeOK, ReaderPc
  <2>3. \A w \in Workers : pc'[w] \in WorkerPc
    BY <1>7, ZenonT(20) DEF Inv, TypeOK, WorkerPc
  <2>4. refcount' \in [Clients -> Nat]
    BY <1>4, <1>6, SMTT(20) DEF Inv, TypeOK
  <2> QED
    BY <1>6, <1>8, <2>1, <2>2, <2>3, <2>4, ZenonT(20) DEF Inv, TypeOK
<1>9. \A d \in Clients : \A u \in Threads :
         Holds(u, d)' <=> (Holds(u, d) /\ ~(u = t /\ d = c))
  BY <1>1, <1>7, SMTT(20) DEF Inv, TypeOK, Holds, SinkOf
<1>10. \A d \in Clients : \A u \in Threads :
         (pc[u] = "free" /\ SinkOf(u) = d)'
            <=> \/ pc[u] = "free" /\ SinkOf(u) = d
                \/ u = t /\ d = c /\ refcount[c] = 1
  BY <1>1, <1>7, SMTT(20) DEF Inv, TypeOK, SinkOf
<1>11. RefCounted'
  <2>1. Holders(c)' = Holders(c) \ {t}
    <3>1. \A u \in Threads : u \in Holders(c)' <=> u \in Holders(c) /\ u # t
      BY <1>9, Zenon DEF Holders
    <3>2. Holders(c) \subseteq Threads /\ Holders(c)' \subseteq Threads
      BY Zenon DEF Holders
    <3> QED
      BY <3>1, <3>2, Zenon
  <2>2. Cardinality(Holders(c)') = Cardinality(Holders(c)) - 1
    <3>1. IsFiniteSet(Holders(c))
      BY HoldersFinite, Zenon
    <3>2. Cardinality(Holders(c) \ {t}) = Cardinality(Holders(c)) - 1
      BY Zenon, <1>4, <3>1, FS_RemoveElement
    <3> QED
      BY Zenon, <2>1, <3>2
  <2>3. \A d \in Clients \ {c} : Holders(d)' = Holders(d)
    BY <1>9, Zenon DEF Holders
  <2> QED
    BY <1>1, <1>3, <1>6, <2>2, <2>3, SMTT(20) DEF Inv, TypeOK, RefCounted
<1>12. NoUseAfterFree'
  BY <1>3, <1>6, <1>9, <1>10, Zenon DEF Inv, NoUseAfterFree, Touches
<1>13. OneFreer'
  <2>1. refcount[c] = 1 => \A u \in Threads : ~Holds(u, c)'
    BY <1>1, <1>5, <1>9, Zenon DEF Holders
  <2>2. \A u \in Threads : ~(pc[u] = "free" /\ SinkOf(u) = c)
    BY <1>1, <1>2, Zenon DEF Inv, OneFreer, Touches
  <2> SUFFICES ASSUME NEW d \in Clients, NEW u \in Threads, NEW v \in Threads,
                      (pc[u] = "free" /\ SinkOf(u) = d)', Touches(v, d)'
               PROVE  v = u
    BY Zenon DEF OneFreer
  <2>3. Holds(v, d)' \/ (pc[v] = "free" /\ SinkOf(v) = d)'
    BY Zenon DEF Touches
  <2>4. CASE pc[u] = "free" /\ SinkOf(u) = d
    <3>1. d # c
      BY <2>2, <2>4, Zenon
    <3>2. Touches(v, d)
      BY <1>9, <1>10, <2>3, <3>1, ZenonT(20) DEF Touches
    <3> QED
      BY <2>4, <3>2, Zenon DEF Inv, OneFreer
  <2>5. CASE u = t /\ d = c /\ refcount[c] = 1
    <3>1. ~Holds(v, d)' /\ ~(pc[v] = "free" /\ SinkOf(v) = d)
      BY <2>1, <2>2, <2>5, Zenon
    <3>2. (pc[v] = "free" /\ SinkOf(v) = d)'
      BY <2>3, <3>1, Zenon
    <3> QED
      BY <1>10, <2>5, <3>1, <3>2, ZenonT(20)
  <2> QED
    BY <1>10, <2>4, <2>5, Zenon
<1>14. Life'
  BY <1>1, <1>6, <1>7, <1>8, ZenonT(20) DEF Inv, TypeOK, Life, SinkOf
<1>15. JobShape'
  BY <1>1, <1>6, <1>7, SMTT(20) DEF Inv, TypeOK, JobShape
<1>16. LockOwner'
  BY <1>1, <1>6, <1>7, SMTT(20) DEF Inv, TypeOK, LockOwner, SinkOf
<1>17. FrameOnOpenFd'
  BY <1>1, <1>6, <1>7, <1>8 DEF Inv, TypeOK, FrameOnOpenFd, SinkOf
<1> QED
  BY <1>type, <1>11, <1>12, <1>13, <1>14, <1>15, <1>16, <1>17, Zenon DEF Inv

\* The last holder frees the struct: nobody else can reach it.
LEMMA FreeInv ==
    ASSUME Inv, NEW t \in Threads, Free(t)
    PROVE  Inv'
<1> USE ClientAssumption DEF Threads
<1>0. PICK c \in Clients : c = SinkOf(t)
  BY BusySink, Zenon DEF Free
<1>1. /\ c = SinkOf(t) /\ pc[t] = "free"
      /\ mem' = [mem EXCEPT ![c] = "freed"]
      /\ UNCHANGED <<listener, fd, refcount, closes, peer, inbox, frames, lock, left, total>>
      /\ pc' = [pc EXCEPT ![t] = IF t \in Clients THEN "done" ELSE "idle"]
      /\ IF t \in Clients THEN UNCHANGED job ELSE job' = [job EXCEPT ![t] = NoOne]
  BY <1>0, Zenon DEF Free, Finish, Goto, peerVars
<1>2. \A u \in Threads : Touches(u, c) => u = t
  BY <1>1, ZenonT(20) DEF Inv, OneFreer
<1>3. TypeOK'
  BY <1>1, SMTT(20) DEF Inv, TypeOK, ReaderPc, WorkerPc
<1>4. \A d \in Clients : \A u \in Threads :
         /\ Holds(u, d)' <=> Holds(u, d)
         /\ (pc[u] = "free" /\ SinkOf(u) = d)' <=> (pc[u] = "free" /\ SinkOf(u) = d /\ u # t)
  BY <1>1, SMTT(20) DEF Inv, TypeOK, Holds, SinkOf
<1>5. RefCounted'
  <2>1. \A d \in Clients : Holders(d)' = Holders(d)
    BY <1>4, ZenonT(20) DEF Holders
  <2> QED
    BY <1>1, <2>1 DEF Inv, TypeOK, RefCounted
<1>6. \A u \in Threads : ~Touches(u, c)'
  <2>1. ~Holds(t, c)
    BY <1>1, Zenon DEF Inv, TypeOK, Holds, SinkOf
  <2> QED
    BY <1>2, <1>4, <2>1 DEF Touches
<1>7. NoUseAfterFree' /\ OneFreer'
  <2>1. NoUseAfterFree'
    BY <1>1, <1>4, <1>6 DEF Inv, TypeOK, NoUseAfterFree, Touches
  <2>2. OneFreer'
    BY <1>4, Zenon DEF Inv, OneFreer, Touches
  <2> QED
    BY <2>1, <2>2, ZenonT(20)
<1>8. Life'
  <2>1. pc[c] # "none"
    BY <1>1, ZenonT(20) DEF Inv, NoUseAfterFree, Touches, Life
  <2> QED
    BY <1>1, <2>1, Zenon DEF Inv, TypeOK, Life, SinkOf
<1>9. JobShape'
  BY <1>1, SMTT(20) DEF Inv, TypeOK, JobShape
<1>10. LockOwner'
  BY <1>1, SMTT(20) DEF Inv, TypeOK, LockOwner, SinkOf
<1>11. FrameOnOpenFd'
  BY <1>1 DEF Inv, TypeOK, FrameOnOpenFd, SinkOf
<1> QED
  BY <1>3, <1>5, <1>7, <1>8, <1>9, <1>10, <1>11, Zenon DEF Inv

\* The invariant holds after every step of the daemon and of its peers.
LEMMA NextInv == Inv /\ [Next]_vars => Inv'
<1> SUFFICES ASSUME Inv, [Next]_vars PROVE Inv'
  OBVIOUS
<1>1. ASSUME NEW c \in Clients, PeerSend(c) \/ PeerHangUp(c) \/ IgnoreFrame(c)
      PROVE  Inv'
  <2>1. TypeOK'
    BY <1>1, BoundAssumption
       DEF PeerSend, PeerHangUp, IgnoreFrame, clientVars, peerVars, jobVars, Inv, TypeOK
  <2> QED
    BY <1>1, <2>1, QuietInv, ZenonT(20)
       DEF PeerSend, PeerHangUp, IgnoreFrame, clientVars, peerVars, jobVars
<1>2. CASE Listen \/ ListenerFails \/ UNCHANGED vars
  <2>1. TypeOK'
    BY <1>2, Zenon DEF Listen, ListenerFails, vars, clientVars, jobVars, Inv, TypeOK
  <2> QED
    BY <1>2, <2>1, QuietInv, Zenon DEF Listen, ListenerFails, vars, clientVars, jobVars
<1>3. ASSUME NEW t \in Threads, WriteChunk(t)
      PROVE  Inv'
  <2>1. TypeOK'
    BY <1>3, BoundAssumption DEF WriteChunk, clientVars, peerVars, jobVars, Inv, TypeOK
  <2> QED
    BY <1>3, <2>1, QuietInv, ZenonT(20) DEF WriteChunk, clientVars, peerVars, jobVars
<1>4. ASSUME NEW c \in Clients, Reader(c) PROVE Inv'
  BY <1>1, <1>4, ReaderMovesInv, HandleAsyncInv, SpawnWorkerInv, SpawnFailsInv, Zenon DEF Reader
<1>5. ASSUME NEW t \in Threads, Sender(t) PROVE Inv'
  BY <1>3, <1>5, LockSendInv, UnlockInv, ReleaseRefInv, FreeInv, Zenon DEF Sender
<1> QED
  BY <1>1, <1>2, <1>4, <1>5, AcceptInv, AcceptFailsInv, WorkInv, Zenon DEF Next

\* Inv is an invariant of the server, for any set of clients and workers.
THEOREM InvAlways == Spec => []Inv
  BY InitInv, NextInv, PTL DEF Spec

\* The state keeps its type; in particular the reference count never goes
\* below zero (unix_sink_release) and the workers push a bounded number of frames.
THEOREM TypeAlways == Spec => []TypeOK
<1>1. Inv => TypeOK
  BY Zenon DEF Inv
<1> QED
  BY <1>1, InvAlways, PTL

\* No thread reaches a freed unix_client_t (unix_ipc.c:14).
THEOREM NeverUsedAfterFree == Spec => []NoUseAfterFree
<1>1. Inv => NoUseAfterFree
  BY Zenon DEF Inv
<1> QED
  BY <1>1, InvAlways, PTL

\* Only one thread frees it, and that thread is alone with it.
THEOREM FreedByOne == Spec => []OneFreer
<1>1. Inv => OneFreer
  BY ZenonT(20) DEF Inv
<1> QED
  BY <1>1, InvAlways, PTL

\* The descriptor is closed once, by the reader or by the accept loop.
THEOREM DescriptorClosedOnce == Spec => []ClosedOnce
<1>1. Inv => ClosedOnce
  BY ClientAssumption, SMTT(20)
     DEF Inv, TypeOK, Life, ClosedOnce, NoUseAfterFree, Touches, Holds, Threads
<1> QED
  BY <1>1, InvAlways, PTL

\* Frames of the reader and of the workers are written one at a time, to an
\* open descriptor (unix_sink_send).
THEOREM FramesNeverMix == Spec => []FrameOnOpenFd
<1>1. Inv => FrameOnOpenFd
  BY Zenon DEF Inv
<1> QED
  BY <1>1, InvAlways, PTL
-----------------------------------------------------------------------------
(* The server as an implementation of ProtoSink *)

\* What a step does to the connection and to the users of c, and of c alone.
ConnBecomes(c, v) == \A d \in Clients : ConnOf(d)' = IF d = c THEN v ELSE ConnOf(d)
UsersBecome(c, S) == \A d \in Clients : Holders(d)' = IF d = c THEN S ELSE Holders(d)

ConnStays == \A d \in Clients : ConnOf(d)' = ConnOf(d)
UsersStay == \A d \in Clients : Holders(d)' = Holders(d)

\* The same for the functions that stand for conn and users.
LEMMA SinkMoves ==
    /\ ConnStays => UNCHANGED [d \in Clients |-> ConnOf(d)]
    /\ UsersStay => UNCHANGED [d \in Clients |-> Holders(d)]
    /\ \A c \in Clients : \A v : ConnBecomes(c, v) =>
          [d \in Clients |-> ConnOf(d)]' = [[d \in Clients |-> ConnOf(d)] EXCEPT ![c] = v]
    /\ \A c \in Clients : \A S : UsersBecome(c, S) =>
          [d \in Clients |-> Holders(d)]' = [[d \in Clients |-> Holders(d)] EXCEPT ![c] = S]
BY Zenon DEF ConnStays, UsersStay, ConnBecomes, UsersBecome

\* A connection is seen through mem, fd and the end of its reader.
LEMMA ConnFollows ==
    ASSUME Inv, UNCHANGED <<mem, fd>>,
           \A d \in Clients : mem[d] = "none" => (pc'[d] = "done" <=> pc[d] = "done")
    PROVE  ConnStays
<1>1. ASSUME NEW d \in Clients PROVE ConnOf(d)' = ConnOf(d)
  BY <1>1 DEF ConnOf, Inv, TypeOK
<1> QED
  BY <1>1, Zenon DEF ConnStays

\* The users of c become S, those of the others stay.
LEMMA UsersFollow ==
    ASSUME NEW c \in Clients, NEW S \in SUBSET Threads,
           \A t \in Threads : Holds(t, c)' <=> t \in S,
           \A d \in Clients \ {c} : \A t \in Threads : Holds(t, d)' <=> Holds(t, d)
    PROVE  UsersBecome(c, S)
<1>1. Holders(c)' = S
  BY DEF Holders
<1>2. \A d \in Clients \ {c} : Holders(d)' = Holders(d)
  BY DEF Holders
<1> QED
  BY <1>1, <1>2, Zenon DEF UsersBecome

\* Threads that go on with the reference they have.
LEMMA NothingToSee ==
    ASSUME Inv, UNCHANGED <<mem, fd, job>>,
           \A t \in Threads :
              \/ pc'[t] = pc[t]
              \/ {pc[t], pc'[t]} \cap {"none", "done", "free", "idle"} = {}
    PROVE  ConnStays /\ UsersStay
<1>1. ConnStays
  BY ConnFollows, Zenon DEF Threads
<1>2. ASSUME NEW d \in Clients, NEW t \in Threads PROVE Holds(t, d)' <=> Holds(t, d)
  BY <1>2, Zenon DEF Holds
<1>3. UsersStay
  BY <1>2 DEF UsersStay, Holders
<1> QED
  BY <1>1, <1>3

\* accept, calloc and pthread_create open a sink whose only user is its reader.
LEMMA AcceptOpens ==
    ASSUME Inv, NEW c \in Clients, Accept(c) PROVE Sink!Open(c)
<1> USE ClientAssumption DEF Threads
<1>1. pc[c] = "none" /\ mem[c] = "none"
  BY Zenon DEF Accept, Inv, Life
<1>2. /\ mem' = [mem EXCEPT ![c] = "live"] /\ fd' = [fd EXCEPT ![c] = TRUE]
      /\ pc' = [pc EXCEPT ![c] = "read"] /\ UNCHANGED <<job, lock>>
  BY Zenon DEF Accept, Goto, jobVars
<1>3. \A t \in Threads : ~Holds(t, c)
  BY <1>1 DEF Inv, NoUseAfterFree, Touches
<1>4. ConnOf(c) = "absent" /\ ConnBecomes(c, "up")
  BY <1>1, <1>2 DEF ConnOf, ConnBecomes, Inv, TypeOK
<1>5. UsersBecome(c, {c})
  <2>1. \A t \in Threads : Holds(t, c)' <=> t \in {c}
    BY <1>2, <1>3 DEF Holds, Inv, TypeOK
  <2>2. \A d \in Clients \ {c} : \A t \in Threads : Holds(t, d)' <=> Holds(t, d)
    BY <1>2 DEF Holds, Inv, TypeOK
  <2> QED
    BY <2>1, <2>2, UsersFollow
<1> QED
  BY <1>2, <1>4, <1>5, SinkMoves, Zenon DEF Sink!Open

\* A connection that gets no struct or no reader is never seen.
LEMMA AcceptFailsRefuses ==
    ASSUME Inv, NEW c \in Clients, AcceptFails(c) PROVE Sink!Refuse(c)
<1> USE ClientAssumption DEF Threads
<1>1. pc[c] = "none" /\ mem[c] = "none"
  BY Zenon DEF AcceptFails, Inv, Life
<1>2. /\ mem' = mem \/ mem' = [mem EXCEPT ![c] = "freed"]
      /\ pc' = [pc EXCEPT ![c] = "done"] /\ UNCHANGED <<job, lock, fd>>
  BY Zenon DEF AcceptFails, Goto, jobVars
<1>3. ConnOf(c) = "absent" /\ ConnBecomes(c, "gone")
  BY <1>1, <1>2 DEF ConnOf, ConnBecomes, Inv, TypeOK
<1>4. \A d \in Clients : \A t \in Threads : Holds(t, d)' <=> Holds(t, d)
  BY <1>1, <1>2 DEF Holds, Inv, TypeOK
<1>5. UsersStay
  BY <1>4 DEF UsersStay, Holders
<1> QED
  BY <1>2, <1>3, <1>5, SinkMoves, Zenon DEF Sink!Refuse

\* The reader retains the sink for a worker that has no reference to it yet.
LEMMA HandleAsyncRetains ==
    ASSUME Inv, NEW c \in Clients, NEW w \in Workers, HandleAsync(c, w)
    PROVE  Sink!Retain(c, c, w)
<1> USE ClientAssumption DEF Threads
<1>1. /\ pc[c] = "frame" /\ pc[w] = "idle"
      /\ job' = [job EXCEPT ![w] = c]
      /\ pc' = [pc EXCEPT ![c] = "spawn", ![w] = "born"]
      /\ UNCHANGED <<mem, fd, lock>>
  BY Zenon DEF HandleAsync
<1>2. c \in Holders(c) /\ w \notin Holders(c)
  BY <1>1 DEF Holders, Holds
<1>3. ConnStays
  BY <1>1, ConnFollows DEF Inv, TypeOK
<1>4. UsersBecome(c, Holders(c) \cup {w})
  <2>1. \A t \in Threads : Holds(t, c)' <=> t \in Holders(c) \cup {w}
    BY <1>1 DEF Holders, Holds, Inv, TypeOK
  <2>2. \A d \in Clients \ {c} : \A t \in Threads : Holds(t, d)' <=> Holds(t, d)
    BY <1>1 DEF Holds, Inv, TypeOK, JobShape
  <2> QED
    BY <2>1, <2>2, UsersFollow DEF Holders
<1> QED
  BY <1>1, <1>2, <1>3, <1>4, SinkMoves, Zenon DEF Sink!Retain

\* The reference of a worker that could not be created is given back.
LEMMA SpawnFailsReleases ==
    ASSUME Inv, NEW c \in Clients, NEW w \in Workers, SpawnFails(c, w)
    PROVE  Sink!Release(c, w)
<1> USE ClientAssumption DEF Threads
<1>1. /\ pc[c] = "spawn" /\ pc[w] = "born" /\ job[w] = c /\ lock[c] = NoOne
      /\ job' = [job EXCEPT ![w] = NoOne]
      /\ pc' = [pc EXCEPT ![c] = "lock", ![w] = "idle"]
      /\ UNCHANGED lock
  BY Zenon DEF SpawnFails, DropRef
<1>2. w \in Holders(c) /\ lock[c] # w
  BY <1>1 DEF Holders, Holds
<1>3. UNCHANGED <<mem, fd>>
  BY SpawnFailsKeeps, Zenon
<1>4. ConnStays
  BY <1>1, <1>3, ConnFollows, SMTT(20) DEF Inv, TypeOK
<1>5. UsersBecome(c, Holders(c) \ {w})
  <2>1. \A t \in Threads : Holds(t, c)' <=> t \in Holders(c) \ {w}
    BY <1>1 DEF Holders, Holds, Inv, TypeOK
  <2>2. \A d \in Clients \ {c} : \A t \in Threads : Holds(t, d)' <=> Holds(t, d)
    BY <1>1 DEF Holds, Inv, TypeOK
  <2> QED
    BY <2>1, <2>2, UsersFollow DEF Holders
<1> QED
  BY <1>1, <1>2, <1>4, <1>5, SinkMoves, Zenon DEF Sink!Release

\* The reader closes the descriptor while nobody is in a frame.
LEMMA CloseFdHangsUp ==
    ASSUME Inv, NEW c \in Clients, CloseFd(c)
    PROVE  Sink!HangUp(c) \/ UNCHANGED Sink!vars
<1> USE ClientAssumption DEF Threads
<1>1. /\ pc[c] = "close" /\ lock[c] = NoOne
      /\ fd' = [fd EXCEPT ![c] = FALSE]
      /\ pc' = [pc EXCEPT ![c] = "release"] /\ UNCHANGED <<mem, lock, job>>
  BY Zenon DEF CloseFd, Goto, jobVars
<1>2. mem[c] = "live"
  BY <1>1 DEF Inv, NoUseAfterFree, Touches, Holds
<1>3. \A d \in Clients : \A t \in Threads : Holds(t, d)' <=> Holds(t, d)
  BY <1>1 DEF Holds, Inv, TypeOK
<1>4. UsersStay
  BY <1>3 DEF UsersStay, Holders
<1>5. CASE fd[c]
  <2>1. ConnOf(c) = "up" /\ ConnBecomes(c, "down")
    BY <1>1, <1>2, <1>5 DEF ConnOf, ConnBecomes, Inv, TypeOK
  <2> QED
    BY <1>1, <1>4, <2>1, SinkMoves, Zenon DEF Sink!HangUp
<1>6. CASE ~fd[c]
  <2>1. ConnStays
    BY <1>1, <1>2, <1>6 DEF ConnOf, ConnStays, Inv, TypeOK
  <2> QED
    BY <1>1, <1>4, <2>1, SinkMoves, Zenon DEF Sink!vars
<1> QED
  BY <1>5, <1>6

\* A frame is begun on an open connection, or dropped.
LEMMA LockSendBegins ==
    ASSUME Inv, NEW t \in Threads, LockSend(t)
    PROVE  (\E c \in Clients : Sink!BeginFrame(c, t)) \/ UNCHANGED Sink!vars
<1> USE ClientAssumption DEF Threads
<1>0. PICK c \in Clients : c = SinkOf(t)
  BY BusySink, Zenon DEF LockSend
<1>1. pc[t] = "lock" /\ lock[c] = NoOne /\ UNCHANGED <<mem, fd, job>>
  BY <1>0, Zenon DEF LockSend, clientVars
<1>2. \E l \in {"write", "frame", "lock", "release"} : pc' = [pc EXCEPT ![t] = l]
  BY Zenon DEF LockSend, AfterSend, Goto
<1>3. ConnStays /\ UsersStay
  BY <1>1, <1>2, NothingToSee DEF Inv, TypeOK
<1>4. CASE fd[c]
  <2>1. t \in Holders(c)
    BY <1>0, <1>1 DEF Holders, Holds, SinkOf
  <2>2. ConnOf(c) = "up"
    BY <1>4, <2>1 DEF Holders, Inv, NoUseAfterFree, Touches, ConnOf
  <2>3. lock' = [lock EXCEPT ![c] = t]
    BY <1>0, <1>4, Zenon DEF LockSend
  <2> QED
    BY <1>1, <1>3, <2>1, <2>2, <2>3, SinkMoves, Zenon DEF Sink!BeginFrame
<1>5. CASE ~fd[c]
  <2>1. UNCHANGED lock
    BY <1>0, <1>5, Zenon DEF LockSend
  <2> QED
    BY <1>3, <2>1, SinkMoves, Zenon DEF Sink!vars
<1> QED
  BY <1>4, <1>5

\* The sender that unlocks is the one in the middle of its frame.
LEMMA UnlockEnds ==
    ASSUME Inv, NEW t \in Threads, Unlock(t) PROVE \E c \in Clients : Sink!EndFrame(c)
<1> USE ClientAssumption DEF Threads
<1>0. PICK c \in Clients : c = SinkOf(t)
  BY BusySink, Zenon DEF Unlock
<1>1. /\ pc[t] = "write" /\ UNCHANGED <<mem, fd, job>>
      /\ lock' = [lock EXCEPT ![c] = NoOne]
  BY <1>0, Zenon DEF Unlock, clientVars
<1>2. \E l \in {"frame", "lock", "release"} : pc' = [pc EXCEPT ![t] = l]
  BY Zenon DEF Unlock, AfterSend, Goto
<1>3. ConnStays /\ UsersStay
  BY <1>1, <1>2, NothingToSee DEF Inv, TypeOK
<1>4. lock[c] # NoOne
  BY <1>0, <1>1 DEF Inv, FrameOnOpenFd
<1> QED
  BY <1>1, <1>3, <1>4, SinkMoves, Zenon DEF Sink!EndFrame

\* A release takes one reference away and leaves the connection alone.
LEMMA ReleaseRefReleases ==
    ASSUME Inv, NEW t \in Threads, ReleaseRef(t) PROVE \E c \in Clients : Sink!Release(c, t)
<1> USE ClientAssumption DEF Threads
<1>0. PICK c \in Clients : c = SinkOf(t)
  BY BusySink, Zenon DEF ReleaseRef
<1>1. pc[t] = "release" /\ lock[c] = NoOne /\ UNCHANGED <<mem, lock>>
  BY <1>0, Zenon DEF ReleaseRef, DropRef
<1>2. t \in Holders(c) /\ mem[c] = "live" /\ UNCHANGED fd
  BY <1>0, ReleaseKeeps, Zenon
<1>3. \/ pc' = [pc EXCEPT ![t] = "free"] /\ UNCHANGED job
      \/ t \in Clients /\ pc' = [pc EXCEPT ![t] = "done"] /\ UNCHANGED job
      \/ t \in Workers /\ pc' = [pc EXCEPT ![t] = "idle"] /\ job' = [job EXCEPT ![t] = NoOne]
  BY Zenon DEF ReleaseRef, Finish, Goto
<1>4. ConnStays
  <2>1. \A d \in Clients : mem[d] = "none" => d # t
    BY <1>0, <1>2 DEF SinkOf
  <2>2. \A d \in Clients : d # t => pc'[d] = pc[d]
    BY <1>3 DEF Inv, TypeOK
  <2> QED
    BY <1>1, <1>2, <2>1, <2>2, ConnFollows, ZenonT(20)
<1>5. UsersBecome(c, Holders(c) \ {t})
  <2>1. \A u \in Threads : Holds(u, c)' <=> u \in Holders(c) \ {t}
    BY <1>0, <1>1, <1>3, SMTT(20) DEF Holders, Holds, SinkOf, Inv, TypeOK
  <2>2. \A d \in Clients \ {c} : \A u \in Threads : Holds(u, d)' <=> Holds(u, d)
    BY <1>0, <1>1, <1>3 DEF Holds, SinkOf, Inv, TypeOK
  <2> QED
    BY <2>1, <2>2, UsersFollow DEF Holders
<1> QED
  BY <1>1, <1>2, <1>4, <1>5, SinkMoves, Zenon DEF Sink!Release

\* The struct is freed when it has no user, no descriptor and no owner of its lock.
LEMMA FreeDestroys ==
    ASSUME Inv, NEW t \in Threads, Free(t) PROVE \E c \in Clients : Sink!Destroy(c)
<1> USE ClientAssumption DEF Threads
<1>0. PICK c \in Clients : c = SinkOf(t)
  BY BusySink, Zenon DEF Free
<1>1. /\ pc[t] = "free" /\ mem' = [mem EXCEPT ![c] = "freed"] /\ UNCHANGED <<fd, lock>>
      /\ \/ t \in Clients /\ pc' = [pc EXCEPT ![t] = "done"] /\ UNCHANGED job
         \/ t \in Workers /\ pc' = [pc EXCEPT ![t] = "idle"] /\ job' = [job EXCEPT ![t] = NoOne]
  BY <1>0, Zenon DEF Free, Finish, Goto
<1>2. \A u \in Threads : ~Holds(u, c)
  <2>1. \A u \in Threads : Holds(u, c) => u = t
    BY <1>0, <1>1, Zenon DEF Inv, OneFreer, Touches
  <2> QED
    BY <1>1, <2>1 DEF Holds
<1>3. Holders(c) = {} /\ mem[c] = "live" /\ ~fd[c]
  <2>1. mem[c] = "live"
    BY <1>0, <1>1, Zenon DEF Inv, NoUseAfterFree, Touches
  <2>2. ~fd[c]
    BY <1>2 DEF Inv, Life, Holds
  <2> QED
    BY <1>2, <2>1, <2>2 DEF Holders
<1>4. lock[c] = NoOne
  BY <1>2 DEF Inv, TypeOK, LockOwner, Holds, SinkOf
<1>5. ConnOf(c) = "down" /\ ConnBecomes(c, "gone")
  <2>1. \A d \in Clients \ {c} : pc'[d] = pc[d]
    BY <1>0, <1>1 DEF Inv, TypeOK, SinkOf
  <2> QED
    BY <1>1, <1>3, <2>1, SMTT(20) DEF ConnOf, ConnBecomes, Inv, TypeOK
<1>6. \A d \in Clients : \A u \in Threads : Holds(u, d)' <=> Holds(u, d)
  BY <1>0, <1>1 DEF Holds, SinkOf, Inv, TypeOK
<1>7. UsersStay
  BY <1>6 DEF UsersStay, Holders
<1> QED
  BY <1>1, <1>3, <1>4, <1>5, <1>7, SinkMoves, Zenon DEF Sink!Destroy

\* Every step of the server is a step of its sinks, or one nobody sees.
LEMMA SinkStep == Inv /\ [Next]_vars => [Sink!Next]_(Sink!vars)
<1> SUFFICES ASSUME Inv, [Next]_vars PROVE Sink!Next \/ UNCHANGED Sink!vars
  BY Zenon
<1> USE ClientAssumption DEF Threads
<1>1. ASSUME UNCHANGED <<mem, fd, pc, job, lock>> PROVE UNCHANGED Sink!vars
  BY <1>1, NothingToSee, SinkMoves DEF Sink!vars
<1>2. ASSUME NEW t \in Threads,
             \E l \in {"frame", "read", "close", "lock"} : pc' = [pc EXCEPT ![t] = l],
             pc[t] \in {"read", "frame", "run"}, UNCHANGED <<mem, fd, job, lock>>
      PROVE  UNCHANGED Sink!vars
  <2>1. ConnStays /\ UsersStay
    BY <1>2, NothingToSee DEF Inv, TypeOK
  <2> QED
    BY <1>2, <2>1, SinkMoves, Zenon DEF Sink!vars
<1>3. ASSUME NEW c \in Clients, NEW w \in Workers, SpawnWorker(c, w) PROVE UNCHANGED Sink!vars
  <2>1. ConnStays /\ UsersStay
    BY <1>3, NothingToSee DEF SpawnWorker, clientVars, jobVars, Inv, TypeOK
  <2> QED
    BY <1>3, <2>1, SinkMoves, Zenon DEF SpawnWorker, Sink!vars
<1>4. CASE Listen \/ ListenerFails \/ UNCHANGED vars
  BY <1>1, <1>4, Zenon DEF Listen, ListenerFails, vars, clientVars, jobVars
<1>5. ASSUME NEW c \in Clients, PeerSend(c) \/ PeerHangUp(c) \/ IgnoreFrame(c)
      PROVE  UNCHANGED Sink!vars
  BY <1>1, <1>5, Zenon DEF PeerSend, PeerHangUp, IgnoreFrame, clientVars, jobVars
<1>6. ASSUME NEW c \in Clients, Read(c) \/ ReadEnds(c) \/ BufferEnds(c) \/ HandleSync(c)
      PROVE  UNCHANGED Sink!vars
  BY <1>2, <1>6, Zenon DEF Read, ReadEnds, BufferEnds, HandleSync, Goto, clientVars, jobVars
<1>7. ASSUME NEW w \in Workers, Work(w) PROVE UNCHANGED Sink!vars
  BY <1>2, <1>7, Zenon DEF Work, Goto, clientVars, jobVars
<1>8. ASSUME NEW t \in Threads, WriteChunk(t) PROVE UNCHANGED Sink!vars
  BY <1>1, <1>8, Zenon DEF WriteChunk, clientVars, jobVars
<1>9. CASE \E c \in Clients : Accept(c) \/ AcceptFails(c) \/ Reader(c)
  BY <1>3, <1>5, <1>6, <1>9, AcceptOpens, AcceptFailsRefuses, HandleAsyncRetains,
     SpawnFailsReleases, CloseFdHangsUp, ZenonT(20) DEF Reader, Sink!Next
<1>10. CASE \E t \in Threads : Sender(t)
  BY <1>8, <1>10, LockSendBegins, UnlockEnds, ReleaseRefReleases, FreeDestroys, ZenonT(20)
     DEF Sender, Sink!Next
<1> QED
  BY <1>4, <1>5, <1>7, <1>9, <1>10, ZenonT(20) DEF Next

\* The server is a sink as proto_sink.h describes it, for any number of clients
\* and workers: it is destroyed once nobody uses it and never earlier, and the
\* connection does not go away in the middle of a frame.
THEOREM ImplementsSink == Spec => SinkSpec
<1>1. Init => Sink!Init
  <2> SUFFICES ASSUME Init PROVE Sink!Init
    OBVIOUS
  <2>1. \A c \in Clients : ConnOf(c) = "absent" /\ Holders(c) = {}
    BY ClientAssumption DEF Init, ConnOf, Holders, Holds, Threads
  <2> QED
    BY <2>1, Zenon DEF Init, Sink!Init
<1> QED
  BY <1>1, InvAlways, SinkStep, PTL DEF Spec, SinkSpec, Sink!Spec
=============================================================================
