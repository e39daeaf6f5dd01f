------------------------------ MODULE FrameQueue ------------------------------
(***************************************************************************)
(* What the input slots of a media flow promise to the flows before it,    *)
(* without locks, wake-ups and naps: each slot is a queue.  A frame is     *)
(* put at its end or not taken at all, the consumer takes from its front,  *)
(* and only a slot that drops its front loses a frame it has taken.  While *)
(* the flow is open every frame that stays in a slot is fetched.           *)
(***************************************************************************)
EXTENDS Naturals, Sequences

CONSTANTS Slots, Frames

VARIABLES
    mode,    \* what a full slot does
    queue,   \* queue[s]: the frames waiting in slot s
    got,     \* got[s]: the frames fetched from it
    open     \* FALSE once the flow is being destroyed

chan == <<mode, queue, got, open>>

Init ==
    /\ mode \in {"BLOCKING", "DROPFRONT", "DROPCURRENT"}
    /\ queue = [s \in Slots |-> <<>>]
    /\ got = [s \in Slots |-> <<>>]
    /\ open = TRUE

Put(s) ==
    /\ open
    /\ \E f \in Frames : queue' = [queue EXCEPT ![s] = Append(@, f)]
    /\ UNCHANGED <<mode, got, open>>

DropFront(s) ==
    /\ mode = "DROPFRONT"
    /\ queue[s] # <<>>
    /\ queue' = [queue EXCEPT ![s] = Tail(@)]
    /\ UNCHANGED <<mode, got, open>>

Get(s) ==
    /\ queue[s] # <<>>
    /\ got' = [got EXCEPT ![s] = Append(@, Head(queue[s]))]
    /\ queue' = [queue EXCEPT ![s] = Tail(@)]
    /\ UNCHANGED <<mode, open>>

Close == open /\ open' = FALSE /\ UNCHANGED <<mode, queue, got>>

Next == Close \/ \E s \in Slots : Put(s) \/ DropFront(s) \/ Get(s)

Spec ==
    /\ Init /\ [][Next]_chan
    /\ \A s \in Slots : WF_chan(open /\ Get(s))
=============================================================================
