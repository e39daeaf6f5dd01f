------------------------------ MODULE ProtoSink ------------------------------
(***************************************************************************)
(* The contract of a proto_sink_t (system_service/proto_sink.h): what the  *)
(* protocol dispatcher and its asynchronous workers may rely on, whatever  *)
(* transport is behind the sink.                                           *)
(*                                                                         *)
(* A sink is opened with one user, its reader.  Any user may give a        *)
(* reference to a further thread (retain); a user that is finished gives   *)
(* its reference back (release).  The transport may go away at any time,   *)
(* except while a user is in the middle of a frame; from then on frames    *)
(* are dropped.  The sink is destroyed once nobody uses it, never earlier. *)
(***************************************************************************)
CONSTANTS
    Sinks,      \* the connections; a sink's reader is named after the sink
    Threads,    \* everybody who may hold a reference, Sinks included
    NoOne       \* not a thread

VARIABLES
    conn,       \* conn[s]: the connection behind s
    users,      \* users[s]: the threads that hold a reference to s
    writer      \* writer[s]: the thread in the middle of a frame, or NoOne

vars == <<conn, users, writer>>

ConnStates == {"absent", "up", "down", "gone"}

Init ==
    /\ conn = [s \in Sinks |-> "absent"]
    /\ users = [s \in Sinks |-> {}]
    /\ writer = [s \in Sinks |-> NoOne]

Open(s) ==
    /\ conn[s] = "absent"
    /\ conn' = [conn EXCEPT ![s] = "up"]
    /\ users' = [users EXCEPT ![s] = {s}]
    /\ UNCHANGED writer

\* The connection is turned away before it gets a reader.
Refuse(s) ==
    /\ conn[s] = "absent"
    /\ conn' = [conn EXCEPT ![s] = "gone"]
    /\ UNCHANGED <<users, writer>>

Retain(s, t, u) ==
    /\ t \in users[s]
    /\ u \notin users[s]
    /\ users' = [users EXCEPT ![s] = @ \cup {u}]
    /\ UNCHANGED <<conn, writer>>

BeginFrame(s, t) ==
    /\ t \in users[s]
    /\ conn[s] = "up"
    /\ writer[s] = NoOne
    /\ writer' = [writer EXCEPT ![s] = t]
    /\ UNCHANGED <<conn, users>>

EndFrame(s) ==
    /\ writer[s] # NoOne
    /\ writer' = [writer EXCEPT ![s] = NoOne]
    /\ UNCHANGED <<conn, users>>

HangUp(s) ==
    /\ conn[s] = "up"
    /\ writer[s] = NoOne
    /\ conn' = [conn EXCEPT ![s] = "down"]
    /\ UNCHANGED <<users, writer>>

\* Nobody gives a reference back in the middle of its own frame.
Release(s, t) ==
    /\ t \in users[s]
    /\ writer[s] # t
    /\ users' = [users EXCEPT ![s] = @ \ {t}]
    /\ UNCHANGED <<conn, writer>>

Destroy(s) ==
    /\ conn[s] = "down"
    /\ users[s] = {}
    /\ writer[s] = NoOne
    /\ conn' = [conn EXCEPT ![s] = "gone"]
    /\ UNCHANGED <<users, writer>>

Next ==
    \E s \in Sinks :
        \/ Open(s) \/ Refuse(s) \/ HangUp(s) \/ EndFrame(s) \/ Destroy(s)
        \/ \E t \in Threads :
              \/ BeginFrame(s, t)
              \/ Release(s, t)
              \/ \E u \in Threads : Retain(s, t, u)

Spec == Init /\ [][Next]_vars
=============================================================================
