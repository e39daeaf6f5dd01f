------------------------------- MODULE UnixIpc -------------------------------
(***************************************************************************)
(* The Unix-domain server of system_service (unix_ipc.c) and the life of a *)
(* unix_client_t: the listener that accepts connections, the reader thread *)
(* of each connection, and the CONNECT and SCAN_WIFI workers that outlive  *)
(* the request that spawned them and push their result through the sink.   *)
(*                                                                         *)
(* A client names the connection, its unix_client_t and its reader thread. *)
(* What a request asks for, and what a worker does before it pushes, is    *)
(* left to ProtoDispatch and WifiSwitch; here a request is answered at     *)
(* once, or spawns a worker and is answered then.                          *)
(***************************************************************************)
EXTENDS Naturals, FiniteSets

CONSTANTS
    Clients,     \* connections
    Workers,     \* slots for detached worker threads
    NoOne,       \* no thread, no sink
    Chunks,      \* write() calls a frame may need
    MaxFrames,   \* frames in one read buffer
    MaxPush,     \* frames one worker pushes
    MaxInbox     \* unread buffers in a socket

ASSUME ClientAssumption ==
    /\ IsFiniteSet(Clients) /\ IsFiniteSet(Workers)
    /\ Clients \cap Workers = {}
    /\ NoOne \notin Clients \cup Workers
ASSUME BoundAssumption ==
    {Chunks, MaxFrames, MaxPush, MaxInbox} \subseteq Nat \ {0}

Threads == Clients \cup Workers

VARIABLES
    listener,   \* the listener thread: "setup", "up" or "down"
    mem,        \* mem[c]: the unix_client_t: "none", "live" or "freed"
    fd,         \* fd[c]: c->fd >= 0
    refcount,   \* refcount[c]
    lock,       \* lock[c]: the owner of c->lock, or NoOne
    closes,     \* closes[c]: how often the descriptor was closed
    peer,       \* peer[c]: the other end: "none", "open" or "hup"
    inbox,      \* inbox[c]: buffers the peer wrote that were not read yet
    frames,     \* frames[c]: frames left in the reader's buffer
    pc,         \* pc[t]: where thread t is
    job,        \* job[w]: the sink worker w was given, or NoOne
    left,       \* left[w]: frames worker w still has to push
    total       \* total[t]: chunks of its current frame t has written

vars == <<listener, mem, fd, refcount, lock, closes, peer, inbox, frames,
          pc, job, left, total>>

clientVars == <<mem, fd, refcount, closes>>
peerVars == <<listener, peer, inbox>>
jobVars == <<job, left>>

ReaderPc == {"none", "read", "frame", "spawn", "lock", "write", "close",
             "release", "free", "done"}
WorkerPc == {"idle", "born", "run", "lock", "write", "release", "free"}

TypeOK ==
    /\ listener \in {"setup", "up", "down"}
    /\ mem \in [Clients -> {"none", "live", "freed"}]
    /\ fd \in [Clients -> BOOLEAN]
    /\ refcount \in [Clients -> Nat]
    /\ lock \in [Clients -> Threads \cup {NoOne}]
    /\ closes \in [Clients -> Nat]
    /\ peer \in [Clients -> {"none", "open", "hup"}]
    /\ inbox \in [Clients -> 0 .. MaxInbox]
    /\ frames \in [Clients -> 0 .. MaxFrames]
    /\ pc \in [Threads -> ReaderPc \cup WorkerPc]
    /\ \A c \in Clients : pc[c] \in ReaderPc
    /\ \A w \in Workers : pc[w] \in WorkerPc
    /\ job \in [Workers -> Clients \cup {NoOne}]
    /\ left \in [Workers -> 0 .. MaxPush]
    /\ total \in [Threads -> 0 .. Chunks]

Init ==
    /\ listener = "setup"
    /\ mem = [c \in Clients |-> "none"]
    /\ fd = [c \in Clients |-> FALSE]
    /\ refcount = [c \in Clients |-> 0]
    /\ lock = [c \in Clients |-> NoOne]
    /\ closes = [c \in Clients |-> 0]
    /\ peer = [c \in Clients |-> "none"]
    /\ inbox = [c \in Clients |-> 0]
    /\ frames = [c \in Clients |-> 0]
    /\ pc = [t \in Threads |-> IF t \in Clients THEN "none" ELSE "idle"]
    /\ job = [w \in Workers |-> NoOne]
    /\ left = [w \in Workers |-> 0]
    /\ total = [t \in Threads |-> 0]

Goto(t, l) == pc' = [pc EXCEPT ![t] = l]

\* The unix_client_t a thread works on.
SinkOf(t) == IF t \in Clients THEN t ELSE job[t]
-----------------------------------------------------------------------------
(* The peer, outside the daemon. *)

PeerSend(c) ==
    /\ peer[c] = "open"
    /\ inbox[c] < MaxInbox
    /\ inbox' = [inbox EXCEPT ![c] = @ + 1]
    /\ UNCHANGED <<clientVars, listener, peer, lock, frames, pc, jobVars, total>>

PeerHangUp(c) ==
    /\ peer[c] = "open"
    /\ peer' = [peer EXCEPT ![c] = "hup"]
    /\ UNCHANGED <<clientVars, listener, inbox, lock, frames, pc, jobVars, total>>
-----------------------------------------------------------------------------
(* unix_ipc_thread *)

\* socket, bind (on the A733 to the fallback path if need be) and listen.
Listen ==
    /\ listener = "setup"
    /\ listener' = "up"
    /\ UNCHANGED <<clientVars, peer, inbox, lock, frames, pc, jobVars, total>>

Accept(c) ==
    /\ listener = "up"
    /\ pc[c] = "none"
    /\ mem' = [mem EXCEPT ![c] = "live"]
    /\ fd' = [fd EXCEPT ![c] = TRUE]
    /\ refcount' = [refcount EXCEPT ![c] = 1]
    /\ peer' = [peer EXCEPT ![c] = "open"]
    /\ Goto(c, "read")
    /\ UNCHANGED <<listener, closes, inbox, lock, frames, jobVars, total>>

\* calloc fails, or pthread_create fails and the struct is freed again.
AcceptFails(c) ==
    /\ listener = "up"
    /\ pc[c] = "none"
    /\ \/ UNCHANGED mem
       \/ mem' = [mem EXCEPT ![c] = "freed"]
    /\ closes' = [closes EXCEPT ![c] = @ + 1]
    /\ Goto(c, "done")
    /\ UNCHANGED <<fd, refcount, peerVars, lock, frames, jobVars, total>>

\* A failed set-up, or any accept() error but EINTR, ends the thread for good.
ListenerFails ==
    /\ listener # "down"
    /\ listener' = "down"
    /\ UNCHANGED <<clientVars, peer, inbox, lock, frames, pc, jobVars, total>>
-----------------------------------------------------------------------------
(* client_thread and the dispatcher it calls *)

Read(c) ==
    /\ pc[c] = "read"
    /\ inbox[c] > 0
    /\ inbox' = [inbox EXCEPT ![c] = @ - 1]
    /\ \E n \in 1 .. MaxFrames : frames' = [frames EXCEPT ![c] = n]
    /\ Goto(c, "frame")
    /\ UNCHANGED <<clientVars, listener, peer, lock, jobVars, total>>

\* read() returns 0, or fails because the peer reset the connection.
ReadEnds(c) ==
    /\ pc[c] = "read"
    /\ peer[c] = "hup"
    /\ Goto(c, "close")
    /\ UNCHANGED <<clientVars, peerVars, lock, frames, jobVars, total>>

\* The end of the buffer, or a frame that does not decode: the rest is dropped.
BufferEnds(c) ==
    /\ pc[c] = "frame"
    /\ frames' = [frames EXCEPT ![c] = 0]
    /\ Goto(c, "read")
    /\ UNCHANGED <<clientVars, peerVars, lock, jobVars, total>>

\* A frame that is not a REQ gets no answer.
IgnoreFrame(c) ==
    /\ pc[c] = "frame"
    /\ frames[c] > 0
    /\ frames' = [frames EXCEPT ![c] = @ - 1]
    /\ UNCHANGED <<clientVars, peerVars, lock, pc, jobVars, total>>

\* A request that is answered at once, or refused before a worker is made.
HandleSync(c) ==
    /\ pc[c] = "frame"
    /\ frames[c] > 0
    /\ frames' = [frames EXCEPT ![c] = @ - 1]
    /\ Goto(c, "lock")
    /\ UNCHANGED <<clientVars, peerVars, lock, jobVars, total>>

\* Mutant: the retain is forgotten.
RetainRefForgotten(c) ==
    /\ lock[c] = NoOne
    /\ UNCHANGED refcount

\* unix_sink_retain
RetainRef(c) ==
    /\ lock[c] = NoOne
    /\ refcount' = [refcount EXCEPT ![c] = @ + 1]

\* CONNECT or SCAN_WIFI: the job is made and the sink retained for it.
HandleAsync(c, w) ==
    /\ pc[c] = "frame"
    /\ frames[c] > 0
    /\ pc[w] = "idle"
    /\ RetainRef(c)
    /\ frames' = [frames EXCEPT ![c] = @ - 1]
    /\ job' = [job EXCEPT ![w] = c]
    /\ \E n \in 1 .. MaxPush : left' = [left EXCEPT ![w] = n]
    /\ pc' = [pc EXCEPT ![c] = "spawn", ![w] = "born"]
    /\ UNCHANGED <<mem, fd, closes, peerVars, lock, total>>

SpawnWorker(c, w) ==
    /\ pc[c] = "spawn"
    /\ pc[w] = "born"
    /\ job[w] = c
    /\ pc' = [pc EXCEPT ![c] = "lock", ![w] = "run"]
    /\ UNCHANGED <<clientVars, peerVars, lock, frames, jobVars, total>>

\* The locked part of unix_sink_release.
DropRef(c) ==
    /\ lock[c] = NoOne
    /\ refcount' = [refcount EXCEPT ![c] = @ - 1]
    /\ IF refcount[c] = 1 /\ fd[c]
         THEN /\ fd' = [fd EXCEPT ![c] = FALSE]
              /\ closes' = [closes EXCEPT ![c] = @ + 1]
         ELSE UNCHANGED <<fd, closes>>

\* Mutant: the failure path frees the job and leaks its reference.
SpawnFailsLeaks(c, w) ==
    /\ pc[c] = "spawn"
    /\ pc[w] = "born"
    /\ job[w] = c
    /\ job' = [job EXCEPT ![w] = NoOne]
    /\ left' = [left EXCEPT ![w] = 0]
    /\ pc' = [pc EXCEPT ![c] = "lock", ![w] = "idle"]
    /\ UNCHANGED <<clientVars, peerVars, lock, frames, total>>

\* pthread_create failed: the job's reference is dropped and the job freed.
SpawnFails(c, w) ==
    /\ pc[c] = "spawn"
    /\ pc[w] = "born"
    /\ job[w] = c
    /\ DropRef(c)
    /\ mem' = [mem EXCEPT ![c] = IF refcount[c] = 1 THEN "freed" ELSE @]
    /\ job' = [job EXCEPT ![w] = NoOne]
    /\ left' = [left EXCEPT ![w] = 0]
    /\ pc' = [pc EXCEPT ![c] = "lock", ![w] = "idle"]
    /\ UNCHANGED <<peerVars, lock, frames, total>>

\* Mutant: the descriptor is closed without c->lock.
CloseFdUnlocked(c) ==
    /\ pc[c] = "close"
    /\ fd' = [fd EXCEPT ![c] = FALSE]
    /\ closes' = [closes EXCEPT ![c] = IF fd[c] THEN @ + 1 ELSE @]
    /\ Goto(c, "release")
    /\ UNCHANGED <<mem, refcount, peerVars, lock, frames, jobVars, total>>

\* The reader marks the descriptor dead before it drops its own reference.
CloseFd(c) ==
    /\ pc[c] = "close"
    /\ lock[c] = NoOne
    /\ fd' = [fd EXCEPT ![c] = FALSE]
    /\ closes' = [closes EXCEPT ![c] = IF fd[c] THEN @ + 1 ELSE @]
    /\ Goto(c, "release")
    /\ UNCHANGED <<mem, refcount, peerVars, lock, frames, jobVars, total>>
-----------------------------------------------------------------------------
(* unix_sink_send, by the reader (a RESP) or a worker (a PUSH) *)

\* What the sender does once its frame is sent or dropped.
AfterSend(t) ==
    IF t \in Clients
    THEN Goto(t, "frame") /\ UNCHANGED left
    ELSE /\ left' = [left EXCEPT ![t] = @ - 1]
         /\ Goto(t, IF left[t] > 1 THEN "lock" ELSE "release")

\* Mutant: the frame is written whether or not the client is still there.
LockSendBlind(t) ==
    /\ pc[t] = "lock"
    /\ lock[SinkOf(t)] = NoOne
    /\ lock' = [lock EXCEPT ![SinkOf(t)] = t]
    /\ Goto(t, "write")
    /\ UNCHANGED <<clientVars, peerVars, frames, total, jobVars>>

\* Take c->lock; a closed client's frame is dropped.
LockSend(t) ==
    /\ pc[t] = "lock"
    /\ lock[SinkOf(t)] = NoOne
    /\ IF fd[SinkOf(t)]
         THEN /\ lock' = [lock EXCEPT ![SinkOf(t)] = t]
              /\ Goto(t, "write")
              /\ UNCHANGED left
         ELSE AfterSend(t) /\ UNCHANGED lock
    /\ UNCHANGED <<clientVars, peerVars, frames, total, job>>

\* One write(); it blocks for as long as the peer does not drain its socket.
WriteChunk(t) ==
    /\ pc[t] = "write"
    /\ total[t] < Chunks
    /\ peer[SinkOf(t)] = "open"
    /\ total' = [total EXCEPT ![t] = @ + 1]
    /\ UNCHANGED <<clientVars, peerVars, frames, lock, pc, jobVars>>

\* The loop is left because everything is written or a write() failed.
Unlock(t) ==
    /\ pc[t] = "write"
    /\ lock' = [lock EXCEPT ![SinkOf(t)] = NoOne]
    /\ total' = [total EXCEPT ![t] = 0]
    /\ AfterSend(t)
    /\ UNCHANGED <<clientVars, peerVars, frames, job>>
-----------------------------------------------------------------------------
(* The workers, and the end of a reference *)

\* The scan or the switch is over and its result is ready to push.
Work(w) ==
    /\ pc[w] = "run"
    /\ Goto(w, "lock")
    /\ UNCHANGED <<clientVars, peerVars, frames, lock, jobVars, total>>

Finish(t) ==
    IF t \in Clients
    THEN Goto(t, "done") /\ UNCHANGED job
    ELSE Goto(t, "idle") /\ job' = [job EXCEPT ![t] = NoOne]

ReleaseRef(t) ==
    /\ pc[t] = "release"
    /\ DropRef(SinkOf(t))
    /\ IF refcount[SinkOf(t)] = 1
         THEN Goto(t, "free") /\ UNCHANGED job
         ELSE Finish(t)
    /\ UNCHANGED <<mem, peerVars, frames, lock, left, total>>

Free(t) ==
    /\ pc[t] = "free"
    /\ mem' = [mem EXCEPT ![SinkOf(t)] = "freed"]
    /\ Finish(t)
    /\ UNCHANGED <<fd, refcount, closes, peerVars, frames, lock, left, total>>
-----------------------------------------------------------------------------
Reader(c) ==
    \/ Read(c) \/ ReadEnds(c) \/ BufferEnds(c) \/ IgnoreFrame(c)
    \/ HandleSync(c) \/ CloseFd(c)
    \/ \E w \in Workers :
          HandleAsync(c, w) \/ SpawnWorker(c, w) \/ SpawnFails(c, w)

Sender(t) ==
    LockSend(t) \/ WriteChunk(t) \/ Unlock(t) \/ ReleaseRef(t) \/ Free(t)

Next ==
    \/ Listen \/ ListenerFails
    \/ \E c \in Clients :
          \/ PeerSend(c) \/ PeerHangUp(c) \/ Accept(c) \/ AcceptFails(c)
          \/ Reader(c)
    \/ \E w \in Workers : Work(w)
    \/ \E t \in Threads : Sender(t)

Spec == Init /\ [][Next]_vars

\* Every thread of the daemon keeps running.  A write() to a peer that is
\* still there but does not read may block for ever, so a sender is only
\* sure to leave its loop once the peer is gone.
UnlockGone(t) == pc[t] = "write" /\ peer[SinkOf(t)] = "hup" /\ Unlock(t)

FairSpec ==
    /\ Spec
    /\ \A c \in Clients : WF_vars(Reader(c))
    /\ \A w \in Workers : WF_vars(Work(w))
    /\ \A t \in Threads :
          /\ WF_vars(LockSend(t) \/ ReleaseRef(t) \/ Free(t))
          /\ WF_vars(UnlockGone(t))
-----------------------------------------------------------------------------
(* Properties *)

\* The threads that hold a reference to c.
Holds(t, c) ==
    \/ t = c /\ pc[t] \notin {"none", "done", "free"}
    \/ t \in Workers /\ job[t] = c /\ pc[t] \notin {"idle", "free"}
Holders(c) == {t \in Threads : Holds(t, c)}

\* The threads that may still touch the unix_client_t of c.
Touches(t, c) == Holds(t, c) \/ (SinkOf(t) = c /\ pc[t] = "free")

\* "no use-after-free" (unix_ipc.c:14): as long as the reader or a worker is
\* going to touch the client, including the thread that is about to free it,
\* the struct is allocated.
NoUseAfterFree ==
    \A c \in Clients : \A t \in Threads : Touches(t, c) => mem[c] = "live"

\* Whoever frees the struct is the only thread that can still reach it, so it
\* is freed once (unix_sink_release's free_now).
OneFreer ==
    \A c \in Clients : \A t, u \in Threads :
        pc[t] = "free" /\ SinkOf(t) = c /\ Touches(u, c) => u = t

\* The descriptor of a connection is closed exactly once: not twice by the
\* reader and the last release, and not forgotten when the struct is freed.
ClosedOnce ==
    \A c \in Clients :
        /\ closes[c] <= 1
        /\ mem[c] = "freed" => closes[c] = 1

\* "send serialises": a thread in the middle of a frame owns the lock of a
\* connection that is still open, so frames of the reader and the workers
\* never mix and no frame is written to a descriptor number that was closed.
FrameOnOpenFd ==
    \A t \in Threads :
        pc[t] = "write" => lock[SinkOf(t)] = t /\ fd[SinkOf(t)]

\* The count is the number of threads that hold a reference.
RefCounted ==
    \A c \in Clients :
        mem[c] = "live" => refcount[c] = Cardinality(Holders(c))

\* Where a connection is in its life: before Accept it has nothing; its
\* descriptor is open only until the reader has passed CloseFd.
Life ==
    \A c \in Clients :
        /\ pc[c] = "none" => mem[c] = "none"
        /\ fd[c] => pc[c] \in {"read", "frame", "spawn", "lock", "write", "close"}
        /\ closes[c] = IF pc[c] = "none" \/ fd[c] THEN 0 ELSE 1

\* c->lock is owned by a thread that writes to c, and by nobody else.
LockOwner ==
    \A c \in Clients : \A t \in Threads :
        lock[c] = t => pc[t] = "write" /\ SinkOf(t) = c

\* A worker has a job as long as it exists, and a frame to push until its last.
JobShape ==
    \A w \in Workers :
        /\ pc[w] = "idle" <=> job[w] = NoOne
        /\ pc[w] \in {"born", "run", "lock", "write"} => left[w] > 0

\* The inductive invariant: what makes the safety properties above hold after
\* any number of connections, frames and workers.
Inv ==
    /\ TypeOK
    /\ RefCounted
    /\ NoUseAfterFree
    /\ OneFreer
    /\ Life
    /\ LockOwner
    /\ FrameOnOpenFd
    /\ JobShape

\* "no leaks beyond worker lifetime" (unix_ipc.c:14): once the peer has gone,
\* the struct is freed, however many workers were in flight.
FreedAfterHangUp ==
    \A c \in Clients : peer[c] = "hup" ~> mem[c] = "freed"
-----------------------------------------------------------------------------
(* The contract the server implements *)

\* The connection behind c, as its users see it.
ConnOf(c) ==
    CASE mem[c] = "live" -> IF fd[c] THEN "up" ELSE "down"
      [] mem[c] = "freed" -> "gone"
      [] OTHER -> IF pc[c] = "done" THEN "gone" ELSE "absent"

Sink == INSTANCE ProtoSink WITH
    Sinks <- Clients,
    conn <- [c \in Clients |-> ConnOf(c)],
    users <- [c \in Clients |-> Holders(c)],
    writer <- lock

\* unix_client_t behaves as proto_sink.h says a sink does.
SinkSpec == Sink!Spec
=============================================================================
