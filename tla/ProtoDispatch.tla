---------------------------- MODULE ProtoDispatch ----------------------------
(***************************************************************************)
(* The transport-agnostic command handler of system_service                *)
(* (proto_dispatch.c).  A transport's thread decodes a frame, handles it   *)
(* and sends the RESP before it takes the next one; CONNECT and SCAN_WIFI  *)
(* leave a detached worker behind that pushes the outcome later, through   *)
(* the sink it was given, under the seq of the request.                    *)
(*                                                                         *)
(* A sink is the sequence of the frames that were sent to it: that send is *)
(* atomic and outlives the connection is what UnixIpc shows.  What the     *)
(* switch does is left to WifiSwitch; here it is a mutex and an outcome.   *)
(* A client numbers its requests 1, 2, ..., as the protocol asks it to.    *)
(***************************************************************************)
EXTENDS Naturals, Sequences, FiniteSets

CONSTANTS
    Conns,       \* the transports' connections, each with its thread
    Workers,     \* slots for worker threads and their jobs
    Ssids,       \* well-formed SSID payloads
    Passwds,     \* well-formed PASSWD payloads
    None,        \* nothing stored, nobody, an ill-formed payload
    Plans,       \* what the clients may send: how many requests of which kind
    MayStall,    \* connections whose client may stop reading
    MaxPush      \* PUSH_SCAN_RESULT frames of one scan

AllCommands == {"GET_WIFI_STATE", "STATUS", "SSID", "PASSWD", "CONNECT",
                "GET_AP_SSID", "GET_AP_PASSWD", "SCAN_WIFI", "SWITCH_TO_AP",
                "OTHER", "NOT_REQ"}

ASSUME ActorAssumption ==
    /\ IsFiniteSet(Conns) /\ IsFiniteSet(Workers)
    /\ Conns \cap Workers = {}
    /\ None \notin Conns \cup Workers \cup Ssids \cup Passwds
    /\ Plans \subseteq [Conns -> [max : Nat, cmds : SUBSET AllCommands]]
    /\ MayStall \subseteq Conns
    /\ MaxPush \in Nat \ {0}

VARIABLES
    ssid,    \* s_pending_ssid, None while s_pending_ssid_len is 0
    passwd,  \* s_pending_passwd
    plan,    \* plan[c]: what the client of c may send in this behaviour
    asked,   \* asked[c]: the requests of c, asked[c][n] has seq n
    pc,      \* pc[t]: where a connection's thread or a worker is
    code,    \* code[t]: the payload of the frame t sends next
    spawned, \* spawned[c]: the slot of the job c has just made
    job,     \* job[w]: the job in slot w, None when it is free
    left,    \* left[w]: PUSH frames the scan in w still has to send
    sw,      \* the owner of the switch's mutex, or None
    sent     \* sent[c]: the frames sent to the sink of c

vars == <<ssid, passwd, plan, asked, pc, code, spawned, job, left, sw, sent>>

Threads == Conns \cup Workers

Requests == [cmd : AllCommands, arg : Ssids \cup Passwds \cup {None}]
Jobs == [conn : Conns, seq : Nat, cmd : {"CONNECT", "SCAN_WIFI"},
         ssid : Ssids \cup {None}, passwd : Passwds \cup {None}]

ASSUME JobAssumption == None \notin Jobs

\* "FAILED" stands for NO_SSID (of a join), BAD_PASSWORD and CONNECT_FAIL,
\* "STATE" for the two answers of GET_WIFI_STATE.
Codes == {"NONE", "BAD_CMD", "NO_SSID", "FAILED", "IN_PROGRESS", "UNKNOWN",
          "STATE", "MORE", "END"}
Frames == [type : {"RESP", "PUSH"}, seq : Nat, cmd : AllCommands, code : Codes]
ConnPc == {"read", "spawn", "log", "reply", "to_ap"}
WorkerPc == {"idle", "born", "begin", "switch", "push", "release", "free"}

TypeOK ==
    /\ ssid \in Ssids \cup {None} /\ passwd \in Passwds \cup {None}
    /\ plan \in Plans
    /\ asked \in [Conns -> Seq(Requests)]
    /\ pc \in [Threads -> ConnPc \cup WorkerPc]
    /\ \A c \in Conns : pc[c] \in ConnPc
    /\ \A w \in Workers : pc[w] \in WorkerPc
    /\ code \in [Threads -> Codes]
    /\ spawned \in [Conns -> Workers \cup {None}]
    /\ job \in [Workers -> Jobs \cup {None}]
    /\ left \in [Workers -> 0 .. MaxPush]
    /\ sw \in Threads \cup {None}
    /\ sent \in [Conns -> Seq(Frames)]

Init ==
    /\ ssid = None /\ passwd = None
    /\ plan \in Plans
    /\ asked = [c \in Conns |-> <<>>]
    /\ pc = [t \in Threads |-> IF t \in Conns THEN "read" ELSE "idle"]
    /\ code = [t \in Threads |-> "NONE"]
    /\ spawned = [c \in Conns |-> None]
    /\ job = [w \in Workers |-> None]
    /\ left = [w \in Workers |-> 0]
    /\ sw = None
    /\ sent = [c \in Conns |-> <<>>]

pendingVars == <<ssid, passwd>>
jobVars == <<spawned, job, left>>

Goto(t, l) == pc' = [pc EXCEPT ![t] = l]

\* send_proto_frame
Send(c, type, seq, cmd, x) ==
    sent' = [sent EXCEPT ![c] =
               Append(@, [type |-> type, seq |-> seq, cmd |-> cmd, code |-> x])]
-----------------------------------------------------------------------------
(* handle_proto_frame, on the thread of connection c *)

\* The next frame of c is a cmd with payload arg.
Take(c, cmd, arg) ==
    /\ pc[c] = "read"
    /\ cmd \in plan[c].cmds
    /\ Len(asked[c]) < plan[c].max
    /\ UNCHANGED plan
    /\ asked' = [asked EXCEPT ![c] = Append(@, [cmd |-> cmd, arg |-> arg])]

\* send_proto_response and the break that follows it.
ReplyWith(c, x) ==
    /\ code' = [code EXCEPT ![c] = x]
    /\ Goto(c, "reply")

\* A request that is answered from what can be read off the board, or refused.
Query(c) ==
    /\ \/ Take(c, "GET_WIFI_STATE", None) /\ ReplyWith(c, "STATE")
       \/ Take(c, "STATUS", None) /\ ReplyWith(c, "NONE")
       \/ \E cmd \in {"GET_AP_SSID", "GET_AP_PASSWD"}, x \in {"NONE", "UNKNOWN"} :
             Take(c, cmd, None) /\ ReplyWith(c, x)
       \/ Take(c, "OTHER", None) /\ ReplyWith(c, "BAD_CMD")
    /\ UNCHANGED <<pendingVars, jobVars, sw, sent>>

\* A frame whose type is not REQ is logged and dropped.
NotReq(c) ==
    /\ Take(c, "NOT_REQ", None)
    /\ UNCHANGED <<pendingVars, pc, code, jobVars, sw, sent>>

Ssid(c) ==
    \E x \in Ssids \cup {None} :
        /\ Take(c, "SSID", x)
        /\ ssid' = IF x = None THEN ssid ELSE x
        /\ ReplyWith(c, IF x = None THEN "UNKNOWN" ELSE "NONE")
        /\ UNCHANGED <<passwd, jobVars, sw, sent>>

\* Mutant: an ill-formed payload is refused, and what fits of it is stored.
PasswdUnchecked(c) ==
    \E x \in Passwds \cup {None} :
        /\ Take(c, "PASSWD", x)
        /\ passwd' \in IF x = None THEN Passwds ELSE {x}
        /\ ReplyWith(c, IF x = None THEN "UNKNOWN" ELSE "NONE")
        /\ UNCHANGED <<ssid, jobVars, sw, sent>>

Passwd(c) ==
    \E x \in Passwds \cup {None} :
        /\ Take(c, "PASSWD", x)
        /\ passwd' = IF x = None THEN passwd ELSE x
        /\ ReplyWith(c, IF x = None THEN "UNKNOWN" ELSE "NONE")
        /\ UNCHANGED <<ssid, jobVars, sw, sent>>
-----------------------------------------------------------------------------
(* trigger_wifi_connect and trigger_wifi_scan *)

\* The job is made and the sink retained for it; the pending credentials are
\* copied under s_pending_lock.
MakeJob(c, w, cmd) ==
    /\ Take(c, cmd, None)
    /\ cmd = "CONNECT" => ssid # None
    /\ pc[w] = "idle"
    /\ job' = [job EXCEPT ![w] =
                 [conn |-> c, seq |-> Len(asked[c]) + 1, cmd |-> cmd,
                  ssid |-> IF cmd = "CONNECT" THEN ssid ELSE None,
                  passwd |-> IF cmd = "CONNECT" THEN passwd ELSE None]]
    /\ spawned' = [spawned EXCEPT ![c] = w]
    /\ pc' = [pc EXCEPT ![c] = "spawn", ![w] = "born"]
    /\ UNCHANGED <<pendingVars, code, left, sw, sent>>

\* No SSID was stored, or calloc failed.
Refuse(c, cmd) ==
    /\ Take(c, cmd, None)
    /\ \/ cmd = "CONNECT" /\ ssid = None /\ ReplyWith(c, "NO_SSID")
       \/ (cmd = "CONNECT" => ssid # None) /\ ReplyWith(c, "UNKNOWN")
    /\ UNCHANGED <<pendingVars, jobVars, sw, sent>>

\* pthread_create: from here on the worker runs beside the handler.
Spawn(c) ==
    /\ pc[c] = "spawn"
    /\ pc' = [pc EXCEPT ![c] = "log", ![spawned[c]] = "begin"]
    /\ UNCHANGED <<pendingVars, plan, asked, code, jobVars, sw, sent>>

\* Mutant: the request is answered as if the worker had been created.
SpawnFailsSilently(c) ==
    /\ pc[c] = "spawn"
    /\ job' = [job EXCEPT ![spawned[c]] = None]
    /\ spawned' = [spawned EXCEPT ![c] = None]
    /\ code' = [code EXCEPT ![c] = "IN_PROGRESS"]
    /\ pc' = [pc EXCEPT ![c] = "reply", ![spawned[c]] = "idle"]
    /\ UNCHANGED <<pendingVars, plan, asked, left, sw, sent>>

\* Mutant: the request is refused although its worker runs.
SpawnFailsTwice(c) ==
    /\ pc[c] = "spawn"
    /\ spawned' = [spawned EXCEPT ![c] = None]
    /\ code' = [code EXCEPT ![c] = "UNKNOWN"]
    /\ pc' = [pc EXCEPT ![c] = "reply", ![spawned[c]] = "begin"]
    /\ UNCHANGED <<pendingVars, plan, asked, job, left, sw, sent>>

SpawnFails(c) ==
    /\ pc[c] = "spawn"
    /\ job' = [job EXCEPT ![spawned[c]] = None]
    /\ spawned' = [spawned EXCEPT ![c] = None]
    /\ code' = [code EXCEPT ![c] = "UNKNOWN"]
    /\ pc' = [pc EXCEPT ![c] = "reply", ![spawned[c]] = "idle"]
    /\ UNCHANGED <<pendingVars, plan, asked, left, sw, sent>>

\* The "worker spawned" line, which for a CONNECT prints job->ssid.
LogSpawned(c) ==
    /\ pc[c] = "log"
    /\ spawned' = [spawned EXCEPT ![c] = None]
    /\ ReplyWith(c, "IN_PROGRESS")
    /\ UNCHANGED <<pendingVars, plan, asked, job, left, sw, sent>>

\* The request in hand.
Current(c) == asked[c][Len(asked[c])]

\* Mutant: the reply carries the seq of the next request.
ReplyNextSeq(c) ==
    /\ pc[c] = "reply"
    /\ Send(c, "RESP", Len(asked[c]) + 1, Current(c).cmd, code[c])
    /\ code' = [code EXCEPT ![c] = "NONE"]
    /\ Goto(c, "read")
    /\ UNCHANGED <<pendingVars, plan, asked, jobVars, sw>>

Reply(c) ==
    /\ pc[c] = "reply"
    /\ Send(c, "RESP", Len(asked[c]), Current(c).cmd, code[c])
    /\ code' = [code EXCEPT ![c] = "NONE"]
    /\ Goto(c, "read")
    /\ UNCHANGED <<pendingVars, plan, asked, jobVars, sw>>
-----------------------------------------------------------------------------
(* SWITCH_TO_AP runs the switch on the connection's own thread. *)

\* wifi_status_to_errcode: ERR_BUSY and ERR_UNKNOWN both become UNKNOWN.
SwitchCodes == {"NONE", "FAILED", "UNKNOWN"}

SwitchToAp(c) ==
    /\ Take(c, "SWITCH_TO_AP", None)
    /\ IF sw = None
         THEN sw' = c /\ Goto(c, "to_ap") /\ UNCHANGED code
         ELSE ReplyWith(c, "UNKNOWN") /\ UNCHANGED sw
    /\ UNCHANGED <<pendingVars, jobVars, sent>>

ApSwitched(c) ==
    /\ pc[c] = "to_ap"
    /\ \E x \in SwitchCodes : ReplyWith(c, x)
    /\ sw' = None
    /\ UNCHANGED <<pendingVars, plan, asked, jobVars, sent>>
-----------------------------------------------------------------------------
(* wifi_connect_worker and wifi_scan_worker *)

\* A busy switch ends a CONNECT with UNKNOWN and a scan with an empty list.
Begin(w) ==
    /\ pc[w] = "begin"
    /\ IF sw = None
         THEN sw' = w /\ Goto(w, "switch") /\ UNCHANGED <<code, left>>
         ELSE /\ code' = [code EXCEPT ![w] = "UNKNOWN"]
              /\ left' = [left EXCEPT ![w] = 1]
              /\ Goto(w, "push")
              /\ UNCHANGED sw
    /\ UNCHANGED <<pendingVars, plan, asked, spawned, job, sent>>

\* Mutant: the switch is unlocked when the worker is done, not before.
SwitchedKeepsLock(w) ==
    /\ pc[w] = "switch"
    /\ code' = [code EXCEPT ![w] = "NONE"]
    /\ left' = [left EXCEPT ![w] = 1]
    /\ Goto(w, "push")
    /\ UNCHANGED <<pendingVars, plan, asked, spawned, job, sw, sent>>

\* The join, or the scan with as many frames as its list needs, is over.
Switched(w) ==
    /\ pc[w] = "switch"
    /\ IF job[w].cmd = "CONNECT"
         THEN /\ \E x \in SwitchCodes : code' = [code EXCEPT ![w] = x]
              /\ left' = [left EXCEPT ![w] = 1]
         ELSE /\ \E n \in 1 .. MaxPush : left' = [left EXCEPT ![w] = n]
              /\ UNCHANGED code
    /\ sw' = None
    /\ Goto(w, "push")
    /\ UNCHANGED <<pendingVars, plan, asked, spawned, job, sent>>

\* PUSH_RESULT, or the next PUSH_SCAN_RESULT, with end_of_list on the last.
Push(w) ==
    /\ pc[w] = "push"
    /\ Send(job[w].conn, "PUSH", job[w].seq, job[w].cmd,
            IF job[w].cmd = "CONNECT" THEN code[w]
            ELSE IF left[w] > 1 THEN "MORE" ELSE "END")
    /\ left' = [left EXCEPT ![w] = @ - 1]
    /\ Goto(w, IF left[w] > 1 THEN "push" ELSE "release")
    /\ UNCHANGED <<pendingVars, plan, asked, code, spawned, job, sw>>

\* proto_sink_release, then free(job) and the end of the thread.
Release(w) ==
    /\ pc[w] = "release"
    /\ Goto(w, "free")
    /\ UNCHANGED <<pendingVars, plan, asked, code, jobVars, sw, sent>>

FreeJob(w) ==
    /\ pc[w] = "free"
    /\ job' = [job EXCEPT ![w] = None]
    /\ code' = [code EXCEPT ![w] = "NONE"]
    /\ Goto(w, "idle")
    /\ UNCHANGED <<pendingVars, plan, asked, spawned, left, sw, sent>>
-----------------------------------------------------------------------------
\* What the thread of a connection does once it has taken a frame.
Handle(c) == Spawn(c) \/ SpawnFails(c) \/ LogSpawned(c) \/ ApSwitched(c) \/ Reply(c)

Receive(c) ==
    \/ Query(c) \/ NotReq(c) \/ Ssid(c) \/ Passwd(c) \/ SwitchToAp(c)
    \/ \E cmd \in {"CONNECT", "SCAN_WIFI"} :
          Refuse(c, cmd) \/ \E w \in Workers : MakeJob(c, w, cmd)

Worker(w) == Begin(w) \/ Switched(w) \/ Push(w) \/ Release(w) \/ FreeJob(w)

Next ==
    \/ \E c \in Conns : Receive(c) \/ Handle(c)
    \/ \E w \in Workers : Worker(w)

Spec == Init /\ [][Next]_vars

\* The next step of t is a send to a client that may have stopped reading:
\* the write in the sink's send then blocks, and may never return.
MayBlock(t) ==
    \/ t \in MayStall /\ pc[t] = "reply"
    \/ t \in Workers /\ pc[t] = "push" /\ job[t].conn \in MayStall

\* Threads that have something to do get to do it, unless their client keeps
\* them from it; nobody has to send a request.
FairSpec ==
    /\ Spec
    /\ \A c \in Conns : WF_vars(~MayBlock(c) /\ Handle(c))
    /\ \A w \in Workers : WF_vars(~MayBlock(w) /\ Worker(w))
-----------------------------------------------------------------------------
(* Properties *)

\* The requests of c that are owed an answer.
Owed(c) == {n \in DOMAIN asked[c] : asked[c][n].cmd # "NOT_REQ"}

\* Frame f has the seq and the command of a request of c.
Matches(c, f) == f.seq \in Owed(c) /\ f.cmd = asked[c][f.seq].cmd

Answered(c, n) ==
    \E i \in DOMAIN sent[c] : sent[c][i].type = "RESP" /\ sent[c][i].seq = n

\* "seq echoes the originating REQ" (protocol.h:34): every request gets one
\* RESP, under its own seq and command, in the order of the requests, whatever
\* the workers of earlier requests send to the same sink in between.
AnsweredInOrder ==
    \A c \in Conns :
        /\ \A i \in DOMAIN sent[c] :
              sent[c][i].type = "RESP" => Matches(c, sent[c][i])
        /\ \A i, j \in DOMAIN sent[c] :
              i < j /\ sent[c][i].type = "RESP" /\ sent[c][j].type = "RESP" =>
                 sent[c][i].seq < sent[c][j].seq
        /\ pc[c] = "read" => \A n \in Owed(c) : Answered(c, n)

Final(f) == f.type = "PUSH" /\ f.code # "MORE"

\* A PUSH goes to the client whose request the worker was made for, under the
\* seq of that request, and never to one that was refused: the error paths of
\* trigger_wifi_connect and trigger_wifi_scan leave no worker behind.  No
\* further PUSH of the same seq comes after the one that ends the list, at which
\* the client stops collecting (BLE_PROVISIONING_PROTOCOL.md:439).  The RESP may
\* come after it: see RespFirst.
PushesMatchRequests ==
    \A c \in Conns : \A i \in DOMAIN sent[c] :
        sent[c][i].type = "PUSH" =>
            /\ Matches(c, sent[c][i])
            /\ \A j \in DOMAIN sent[c] :
                  sent[c][j].type = "RESP" /\ sent[c][j].seq = sent[c][i].seq =>
                     sent[c][j].code = "IN_PROGRESS"
            /\ \A j \in 1 .. i - 1 :
                  Final(sent[c][j]) => sent[c][j].seq # sent[c][i].seq

\* "CONNECT and SCAN_WIFI have two phases: first the synchronous RESP
\* IN_PROGRESS, then the asynchronous push" (BLE_PROVISIONING_PROTOCOL.md:516):
\* a client has the RESP of a request before the first PUSH of it.  The handler
\* creates the worker before it sends the RESP, and nothing makes the worker
\* wait for it, so this does not hold of the code.
RespFirst ==
    \A c \in Conns : \A i \in DOMAIN sent[c] :
        sent[c][i].type = "PUSH" =>
            \E j \in 1 .. i - 1 :
                sent[c][j].type = "RESP" /\ sent[c][j].seq = sent[c][i].seq

Given(c, cmd, k) == asked[c][k].cmd = cmd /\ asked[c][k].arg # None

\* x is the value of the last well-formed cmd among the first n requests of c,
\* None if there is none.
LastGiven(c, cmd, n, x) ==
    \/ x = None /\ \A k \in 1 .. n : ~Given(c, cmd, k)
    \/ \E k \in 1 .. n :
          /\ Given(c, cmd, k) /\ x = asked[c][k].arg
          /\ \A m \in k + 1 .. n : ~Given(c, cmd, m)

\* No connection but c has sent credentials.
Alone(c) ==
    \A d \in Conns \ {c} : \A n \in DOMAIN asked[d] :
        asked[d][n].cmd \notin {"SSID", "PASSWD"}

\* As long as no other connection stores credentials ("at most one client at a
\* time", proto_dispatch.c:19), a CONNECT joins with the last SSID and PASSWD
\* its client sent before it, also while earlier CONNECTs are still running.
JoinsWhatWasStored ==
    \A w \in Workers :
        job[w] # None /\ job[w].cmd = "CONNECT" /\ Alone(job[w].conn) =>
            /\ LastGiven(job[w].conn, "SSID", job[w].seq, job[w].ssid)
            /\ LastGiven(job[w].conn, "PASSWD", job[w].seq, job[w].passwd)

\* The requests of c that were answered IN_PROGRESS and have no result yet.
Unfinished(c) ==
    {n \in DOMAIN asked[c] :
        /\ \E i \in DOMAIN sent[c] : sent[c][i].seq = n /\ sent[c][i].code = "IN_PROGRESS"
        /\ \A i \in DOMAIN sent[c] : sent[c][i].seq = n => ~Final(sent[c][i])}

\* A request that was answered IN_PROGRESS gets its result ("PUSH_RESULT will
\* follow when the switch finishes", proto_dispatch.c:460), be it before the
\* RESP, whichever other client has stopped reading.  A client sends finitely many requests, so in
\* the end none of them is unfinished.
ResultFollows == \A c \in Conns \ MayStall : []<>(Unfinished(c) = {})

\* A worker or a connection whose client stops reading never sits on the
\* switch: wifi_switch_run_now, wifi_switch_scan and wifi_switch_to_ap return,
\* and so unlock, before the frame with their outcome is written.
StallSparesSwitch == []<>(sw = None)
=============================================================================
