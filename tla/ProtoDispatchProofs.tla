------------------------ MODULE ProtoDispatchProofs ------------------------
(***************************************************************************)
(* For any number of connections, workers and requests: the answers and    *)
(* the pushes of proto_dispatch.c match the requests of their client, and  *)
(* a CONNECT joins with the credentials its own client stored last.        *)
(***************************************************************************)
EXTENDS ProtoDispatch, TLAPS

(* The inductive invariant *)

\* A thread that handles a frame handles the last request it took.
Handling == \A c \in Conns : pc[c] # "read" => Len(asked[c]) \in Owed(c)

\* The answers are those of the requests before it, in their order.
AnswersOf(c) ==
    /\ \A i \in DOMAIN sent[c] :
          sent[c][i].type = "RESP" =>
             /\ Matches(c, sent[c][i])
             /\ pc[c] # "read" => sent[c][i].seq # Len(asked[c])
    /\ \A i, j \in DOMAIN sent[c] :
          i < j /\ sent[c][i].type = "RESP" /\ sent[c][j].type = "RESP" =>
             sent[c][i].seq < sent[c][j].seq
    /\ \A n \in Owed(c) : (pc[c] # "read" => n # Len(asked[c])) => Answered(c, n)

Answering == \A c \in Conns : AnswersOf(c)

\* A slot in use has a job for a request of the client it was made for,
JobsMatch ==
    \A w \in Workers :
        /\ job[w] = None <=> pc[w] = "idle"
        /\ job[w] # None => Matches(job[w].conn, job[w])

\* and no two slots have the same one.
OneJobEach ==
    \A v, w \in Workers :
        v # w /\ job[v] # None /\ job[w] # None =>
            job[v].conn # job[w].conn \/ job[v].seq # job[w].seq

\* A job whose worker was not created yet is the one its connection has in hand.
Spawning ==
    /\ \A c \in Conns : pc[c] = "spawn" =>
          /\ spawned[c] \in Workers
          /\ pc[spawned[c]] = "born" /\ job[spawned[c]].conn = c
    /\ \A w \in Workers : pc[w] = "born" =>
          /\ pc[job[w].conn] = "spawn" /\ spawned[job[w].conn] = w
          /\ job[w].seq = Len(asked[job[w].conn])

\* Request n of c was answered IN_PROGRESS, or is about to be.
Accepted(c, n) ==
    /\ \A i \in DOMAIN sent[c] :
          sent[c][i].type = "RESP" /\ sent[c][i].seq = n => sent[c][i].code = "IN_PROGRESS"
    /\ n = Len(asked[c]) =>
          pc[c] \in {"read", "log"} \/ (pc[c] = "reply" /\ code[c] = "IN_PROGRESS")

Working == \A w \in Workers : pc[w] \notin {"idle", "born"} => Accepted(job[w].conn, job[w].seq)

Counting ==
    \A w \in Workers : pc[w] = "push" => left[w] > 0 /\ (job[w].cmd = "CONNECT" => left[w] = 1)

Pushed ==
    \A c \in Conns : \A i \in DOMAIN sent[c] :
        sent[c][i].type = "PUSH" =>
            Matches(c, sent[c][i]) /\ Accepted(c, sent[c][i].seq)

\* After the last PUSH of a job its worker sends no more.
Ending ==
    \A c \in Conns : \A i \in DOMAIN sent[c] :
        Final(sent[c][i]) =>
            /\ \A w \in Workers :
                  job[w] # None /\ job[w].conn = c /\ job[w].seq = sent[c][i].seq =>
                     pc[w] \in {"release", "free"}
            /\ \A j \in DOMAIN sent[c] :
                  i < j /\ sent[c][j].type = "PUSH" => sent[c][i].seq # sent[c][j].seq

\* What is pending is what the only client with credentials sent last.
Pending ==
    \A c \in Conns : Alone(c) =>
        /\ LastGiven(c, "SSID", Len(asked[c]), ssid)
        /\ LastGiven(c, "PASSWD", Len(asked[c]), passwd)

Inv ==
    /\ TypeOK /\ Handling /\ Answering /\ JobsMatch /\ OneJobEach /\ Spawning
    /\ Working /\ Counting /\ Pushed /\ Ending /\ Pending /\ JoinsWhatWasStored
-----------------------------------------------------------------------------
(* What the steps do to the state that the invariant is about *)

\* Appending to a sequence keeps its elements and adds one at the end.
LEMMA AppendKeeps ==
    ASSUME NEW S, NEW s \in Seq(S), NEW e \in S
    PROVE  /\ Append(s, e) \in Seq(S)
           /\ Len(s) \in Nat /\ Len(Append(s, e)) = Len(s) + 1
           /\ DOMAIN s = 1 .. Len(s)
           /\ DOMAIN Append(s, e) = 1 .. Len(s) + 1
           /\ \A i \in 1 .. Len(s) : Append(s, e)[i] = s[i]
           /\ Append(s, e)[Len(s) + 1] = e
  OBVIOUS

\* t goes to l, and no other thread moves.
Moves(t, l) ==
    /\ pc' = [pc EXCEPT ![t] = l]
    /\ pc'[t] = l /\ \A u \in Threads \ {t} : pc'[u] = pc[u]

\* A frame with request r was taken and leaves no job behind: the effect of
\* Query, NotReq, Ssid, Passwd, SwitchToAp and Refuse.
ReceivedAs(c, r, l) ==
    /\ pc[c] = "read"
    /\ asked' = [asked EXCEPT ![c] = Append(@, r)]
    /\ Moves(c, l)
    /\ l = "read" <=> r.cmd = "NOT_REQ"
    /\ ssid' = IF r.cmd = "SSID" /\ r.arg # None THEN r.arg ELSE ssid
    /\ passwd' = IF r.cmd = "PASSWD" /\ r.arg # None THEN r.arg ELSE passwd
    /\ \A t \in Threads \ {c} : code'[t] = code[t]
    /\ UNCHANGED <<job, spawned, left, sent>>

Received(c) ==
    \E r \in Requests, l \in {"read", "reply", "to_ap"} : ReceivedAs(c, r, l)

LEMMA ReceivedStep ==
    ASSUME TypeOK, NEW c \in Conns,
           \/ Query(c) \/ NotReq(c) \/ Ssid(c) \/ Passwd(c) \/ SwitchToAp(c)
           \/ \E cmd \in {"CONNECT", "SCAN_WIFI"} : Refuse(c, cmd)
    PROVE  Received(c)
<1>. USE ActorAssumption DEF TypeOK, Take, ReplyWith, Goto, pendingVars, jobVars, Requests,
         AllCommands, Threads, Moves
<1>1. CASE Query(c)
  <2>1. PICK cmd \in {"GET_WIFI_STATE", "STATUS", "GET_AP_SSID", "GET_AP_PASSWD", "OTHER"},
             x \in Codes : Take(c, cmd, None) /\ ReplyWith(c, x)
    BY <1>1, ZenonT(20) DEF Query, Codes
  <2>2. ReceivedAs(c, [cmd |-> cmd, arg |-> None], "reply")
    BY <1>1, <2>1, Zenon DEF Query, ReceivedAs
  <2>. QED  BY <2>2, Zenon DEF Received
<1>2. CASE NotReq(c)
  <2>1. ReceivedAs(c, [cmd |-> "NOT_REQ", arg |-> None], "read")
    BY <1>2, Zenon DEF NotReq, ReceivedAs
  <2>. QED  BY <2>1, Zenon DEF Received
<1>3. CASE Ssid(c)
  <2>1. PICK x \in Ssids \cup {None} : Ssid(c)!(x)
    BY <1>3, Zenon DEF Ssid
  <2>2. ReceivedAs(c, [cmd |-> "SSID", arg |-> x], "reply")
    BY <2>1, Zenon DEF ReceivedAs
  <2>. QED  BY <2>2, Zenon DEF Received
<1>4. CASE Passwd(c)
  <2>1. PICK x \in Passwds \cup {None} : Passwd(c)!(x)
    BY <1>4, Zenon DEF Passwd
  <2>2. ReceivedAs(c, [cmd |-> "PASSWD", arg |-> x], "reply")
    BY <2>1, Zenon DEF ReceivedAs
  <2>. QED  BY <2>2, Zenon DEF Received
<1>5. CASE SwitchToAp(c)
  <2>1. \E l \in {"reply", "to_ap"} : ReceivedAs(c, [cmd |-> "SWITCH_TO_AP", arg |-> None], l)
    BY <1>5, ZenonT(20) DEF SwitchToAp, ReceivedAs
  <2>. QED  BY <2>1 DEF Received
<1>6. ASSUME NEW cmd \in {"CONNECT", "SCAN_WIFI"}, Refuse(c, cmd) PROVE Received(c)
  <2>1. ReceivedAs(c, [cmd |-> cmd, arg |-> None], "reply")
    BY <1>6, Zenon DEF Refuse, ReceivedAs
  <2>. QED  BY <2>1, Zenon DEF Received
<1>. QED  BY <1>1, <1>2, <1>3, <1>4, <1>5, <1>6, ZenonT(20)

\* A request that made job j for slot w.
MadeAs(c, w, r, j) ==
    /\ pc[c] = "read" /\ pc[w] = "idle"
    /\ asked' = [asked EXCEPT ![c] = Append(@, r)]
    /\ r.cmd = j.cmd /\ r.arg = None
    /\ job' = [job EXCEPT ![w] = j]
    /\ j.conn = c /\ j.seq = Len(asked[c]) + 1
    /\ j.cmd = "CONNECT" => j.ssid = ssid /\ j.passwd = passwd
    /\ pc' = [pc EXCEPT ![c] = "spawn", ![w] = "born"]
    /\ pc'[c] = "spawn" /\ pc'[w] = "born"
    /\ \A t \in Threads \ {c, w} : pc'[t] = pc[t]
    /\ spawned' = [spawned EXCEPT ![c] = w]
    /\ UNCHANGED <<ssid, passwd, code, left, sent>>

Made(c) == \E w \in Workers, r \in Requests, j \in Jobs : MadeAs(c, w, r, j)

LEMMA MadeStep ==
    ASSUME TypeOK, NEW c \in Conns, NEW w \in Workers, NEW cmd \in {"CONNECT", "SCAN_WIFI"},
           MakeJob(c, w, cmd)
    PROVE  Made(c)
<1>. DEFINE r == [cmd |-> cmd, arg |-> None]
            j == [conn |-> c, seq |-> Len(asked[c]) + 1, cmd |-> cmd,
                  ssid |-> IF cmd = "CONNECT" THEN ssid ELSE None,
                  passwd |-> IF cmd = "CONNECT" THEN passwd ELSE None]
<1>1. r \in Requests
  BY Zenon DEF Requests, AllCommands
<1>2. Len(asked[c]) + 1 \in Nat
  BY DEF TypeOK
<1>3. j \in Jobs
  BY <1>2, Zenon DEF TypeOK, Jobs
<1>4. MadeAs(c, w, r, j)
  BY ActorAssumption, Zenon DEF TypeOK, MakeJob, Take, MadeAs, pendingVars, Threads
<1>. QED  BY <1>1, <1>3, <1>4, Zenon DEF Made

\* The two outcomes of pthread_create.
Created(c) ==
    /\ pc[c] = "spawn"
    /\ pc' = [pc EXCEPT ![c] = "log", ![spawned[c]] = "begin"]
    /\ pc'[c] = "log" /\ pc'[spawned[c]] = "begin"
    /\ \A t \in Threads \ {c, spawned[c]} : pc'[t] = pc[t]
    /\ UNCHANGED <<ssid, passwd, asked, code, spawned, job, left, sent>>

NotCreated(c) ==
    /\ pc[c] = "spawn"
    /\ pc' = [pc EXCEPT ![c] = "reply", ![spawned[c]] = "idle"]
    /\ pc'[c] = "reply" /\ pc'[spawned[c]] = "idle"
    /\ \A t \in Threads \ {c, spawned[c]} : pc'[t] = pc[t]
    /\ \A t \in Threads \ {c} : code'[t] = code[t]
    /\ \A d \in Conns \ {c} : spawned'[d] = spawned[d]
    /\ job' = [job EXCEPT ![spawned[c]] = None]
    /\ UNCHANGED <<ssid, passwd, asked, left, sent>>

LEMMA CreatedStep ==
    ASSUME TypeOK, Spawning, NEW c \in Conns
    PROVE  (Spawn(c) => Created(c)) /\ (SpawnFails(c) => NotCreated(c))
<1>. USE ActorAssumption DEF TypeOK, Spawning, jobVars, pendingVars, Threads
<1>1. ASSUME Spawn(c) PROVE Created(c)
  BY <1>1, Zenon DEF Spawn, Created
<1>2. ASSUME SpawnFails(c) PROVE NotCreated(c)
  BY <1>2 DEF SpawnFails, NotCreated
<1>. QED  BY <1>1, <1>2, Zenon

\* The reply is ready: LogSpawned and ApSwitched.
Prepared(c) ==
    /\ \/ pc[c] = "log" /\ code'[c] = "IN_PROGRESS"
       \/ pc[c] = "to_ap"
    /\ Moves(c, "reply")
    /\ \A t \in Threads \ {c} : code'[t] = code[t]
    /\ \A d \in Conns \ {c} : spawned'[d] = spawned[d]
    /\ UNCHANGED <<ssid, passwd, asked, job, left, sent>>

LEMMA PreparedStep ==
    ASSUME TypeOK, NEW c \in Conns, LogSpawned(c) \/ ApSwitched(c)
    PROVE  Prepared(c)
  BY Zenon
     DEF TypeOK, LogSpawned, ApSwitched, Prepared, ReplyWith, Goto, Moves, jobVars, pendingVars,
         Threads

\* The RESP f to the request in hand was sent.
RepliedWith(c, f) ==
    /\ pc[c] = "reply"
    /\ f.type = "RESP" /\ f.seq = Len(asked[c])
    /\ f.cmd = asked[c][f.seq].cmd /\ f.code = code[c]
    /\ sent' = [sent EXCEPT ![c] = Append(@, f)]
    /\ Moves(c, "read")
    /\ \A t \in Threads \ {c} : code'[t] = code[t]
    /\ UNCHANGED <<ssid, passwd, asked, spawned, job, left>>

Replied(c) == \E f \in Frames : RepliedWith(c, f)

LEMMA RepliedStep ==
    ASSUME TypeOK, Handling, NEW c \in Conns, Reply(c)
    PROVE  Replied(c)
<1>. DEFINE f == [type |-> "RESP", seq |-> Len(asked[c]), cmd |-> Current(c).cmd,
                  code |-> code[c]]
<1>1. Len(asked[c]) \in Nat /\ asked[c][Len(asked[c])] \in Requests
  BY DEF Reply, Handling, Owed, TypeOK
<1>2. code[c] \in Codes
  BY Zenon DEF TypeOK, Threads
<1>3. f \in Frames
  BY <1>1, <1>2, Zenon DEF Frames, Requests, Current
<1>4. RepliedWith(c, f)
  BY <1>1, Zenon DEF Reply, Send, RepliedWith, TypeOK, Current, Goto, Moves, pendingVars, jobVars, Threads
<1>. QED  BY <1>3, <1>4, Zenon DEF Replied

\* A worker that sends nothing and keeps its job: Begin, Switched and Release.
Worked(w) ==
    /\ \E l \in {"switch", "push", "free"} :
          /\ Moves(w, l)
          /\ \/ pc[w] = "release" /\ l = "free" /\ left' = left
             \/ pc[w] \in {"begin", "switch"} /\ l # "free" /\ \A v \in Workers \ {w} : left'[v] = left[v]
          /\ l = "push" => left'[w] > 0 /\ (job[w].cmd = "CONNECT" => left'[w] = 1)
    /\ \A c \in Conns : code'[c] = code[c]
    /\ UNCHANGED <<ssid, passwd, asked, spawned, job, sent>>

LEMMA WorkedStep ==
    ASSUME TypeOK, NEW w \in Workers, Begin(w) \/ Switched(w) \/ Release(w)
    PROVE  Worked(w)
<1>. USE ActorAssumption DEF TypeOK, Goto, jobVars, pendingVars, Threads, Moves
<1>1. CASE Begin(w)
  BY <1>1 DEF Begin, Worked
<1>2. CASE Switched(w)
  <2>1. \A c \in Conns : code'[c] = code[c]
    BY <1>2, ZenonT(20) DEF Switched
  <2>2. left'[w] > 0 /\ (job[w].cmd = "CONNECT" => left'[w] = 1)
        /\ \A v \in Workers \ {w} : left'[v] = left[v]
    BY <1>2 DEF Switched
  <2>. QED  BY <1>2, <2>1, <2>2, Zenon DEF Switched, Worked
<1>3. CASE Release(w)
  BY <1>3, Zenon DEF Release, Worked
<1>. QED  BY <1>1, <1>2, <1>3, Zenon

\* The PUSH f of the job in slot w was sent, and was the last of the list
\* unless f says that there is more.
DeliveredAs(w, f) ==
    /\ pc[w] = "push"
    /\ f.type = "PUSH" /\ f.seq = job[w].seq /\ f.cmd = job[w].cmd
    /\ sent' = [sent EXCEPT ![job[w].conn] = Append(@, f)]
    /\ \/ Moves(w, "release")
       \/ Moves(w, "push") /\ f.code = "MORE" /\ left'[w] > 0 /\ job[w].cmd # "CONNECT"
    /\ \A v \in Workers \ {w} : left'[v] = left[v]
    /\ UNCHANGED <<ssid, passwd, asked, code, spawned, job>>

Delivered(w) == job[w] \in Jobs /\ \E f \in Frames : DeliveredAs(w, f)

LEMMA DeliveredStep ==
    ASSUME TypeOK, JobsMatch, Counting, NEW w \in Workers, Push(w)
    PROVE  Delivered(w)
<1>. DEFINE f == [type |-> "PUSH", seq |-> job[w].seq, cmd |-> job[w].cmd,
                  code |-> IF job[w].cmd = "CONNECT" THEN code[w]
                           ELSE IF left[w] > 1 THEN "MORE" ELSE "END"]
<1>1. job[w] \in Jobs
  BY Zenon DEF Push, JobsMatch, TypeOK
<1>2. code[w] \in Codes /\ "MORE" \in Codes /\ "END" \in Codes
  BY Zenon DEF TypeOK, Threads, Codes
<1>3. f \in Frames
  BY <1>1, <1>2, Zenon DEF Frames, Jobs, AllCommands
<1>4. left[w] > 1 => job[w].cmd # "CONNECT" /\ left'[w] > 0
  BY DEF Push, Counting, TypeOK
<1>5. Moves(w, IF left[w] > 1 THEN "push" ELSE "release")
  BY Zenon DEF Push, Goto, Moves, TypeOK, Threads
<1>6. \A v \in Workers \ {w} : left'[v] = left[v]
  BY Zenon DEF Push, TypeOK
<1>7. DeliveredAs(w, f)
  BY <1>4, <1>5, <1>6, Zenon DEF Push, Send, DeliveredAs, pendingVars
<1>. QED  BY <1>1, <1>3, <1>7, Zenon DEF Delivered

\* The job in slot w is gone.
Freed(w) ==
    /\ pc[w] = "free"
    /\ Moves(w, "idle")
    /\ job' = [job EXCEPT ![w] = None]
    /\ \A t \in Threads \ {w} : code'[t] = code[t]
    /\ UNCHANGED <<ssid, passwd, asked, spawned, left, sent>>

LEMMA FreedStep ==
    ASSUME TypeOK, NEW w \in Workers, FreeJob(w)
    PROVE  Freed(w)
  BY Zenon DEF TypeOK, FreeJob, Freed, Goto, Moves, pendingVars, Threads

\* The next-state relation by the effects of its steps.
LEMMA StepCases ==
    ASSUME TypeOK, Handling, JobsMatch, Spawning, Counting, Next
    PROVE  \/ \E c \in Conns :
                 Received(c) \/ Made(c) \/ Created(c) \/ NotCreated(c) \/ Prepared(c) \/ Replied(c)
           \/ \E w \in Workers : Worked(w) \/ Delivered(w) \/ Freed(w)
  BY ReceivedStep, MadeStep, CreatedStep, PreparedStep, RepliedStep, WorkedStep, DeliveredStep,
     FreedStep, Zenon
     DEF Next, Receive, Handle, Worker
-----------------------------------------------------------------------------
(* Type correctness *)

\* The part of TypeOK that no other part of the invariant is about.
PlainOK ==
    /\ ssid \in Ssids \cup {None} /\ passwd \in Passwds \cup {None}
    /\ plan \in Plans
    /\ code \in [Threads -> Codes]
    /\ spawned \in [Conns -> Workers \cup {None}]
    /\ left \in [Workers -> 0 .. MaxPush]
    /\ sw \in Threads \cup {None}

\* The pending credentials, the codes and the other plain values keep their types.
LEMMA PlainStep ==
    ASSUME PlainOK, Counting, Next
    PROVE  PlainOK'
<1>. USE DEF PlainOK, Goto, jobVars, pendingVars
<1>1. {"NONE", "BAD_CMD", "NO_SSID", "IN_PROGRESS", "UNKNOWN", "STATE"} \cup SwitchCodes \subseteq Codes
  BY Zenon DEF Codes, SwitchCodes
<1>2. Conns \subseteq Threads /\ Workers \subseteq Threads
  BY Zenon DEF Threads
<1>3. ASSUME NEW c \in Conns, NEW x \in Codes, ReplyWith(c, x)
      PROVE  code' \in [Threads -> Codes]
  BY <1>2, <1>3, Zenon DEF ReplyWith
<1>4. ASSUME NEW c \in Conns, Query(c) PROVE PlainOK'
  <2>1. code' \in [Threads -> Codes]
    BY <1>1, <1>3, <1>4, Zenon DEF Query
  <2>. QED  BY <1>4, <2>1, Zenon DEF Query, Take
<1>5. ASSUME NEW c \in Conns, NotReq(c) PROVE PlainOK'
  BY <1>5, Zenon DEF NotReq, Take
<1>6. ASSUME NEW c \in Conns, Ssid(c) PROVE PlainOK'
  BY <1>1, <1>3, <1>6, Zenon DEF Ssid, Take
<1>7. ASSUME NEW c \in Conns, Passwd(c) PROVE PlainOK'
  BY <1>1, <1>3, <1>7, Zenon DEF Passwd, Take
<1>8. ASSUME NEW c \in Conns, SwitchToAp(c) PROVE PlainOK'
  BY <1>1, <1>2, <1>3, <1>8, Zenon DEF SwitchToAp, Take
<1>9. ASSUME NEW c \in Conns, NEW cmd \in {"CONNECT", "SCAN_WIFI"}, Refuse(c, cmd) PROVE PlainOK'
  BY <1>1, <1>3, <1>9, Zenon DEF Refuse, Take
<1>10. ASSUME NEW c \in Conns, NEW cmd \in {"CONNECT", "SCAN_WIFI"}, NEW w \in Workers,
              MakeJob(c, w, cmd)
       PROVE  PlainOK'
  BY <1>10, Zenon DEF MakeJob, Take
<1>11. ASSUME NEW c \in Conns, Spawn(c) PROVE PlainOK'
  BY <1>11, Zenon DEF Spawn
<1>12. ASSUME NEW c \in Conns, SpawnFails(c) PROVE PlainOK'
  BY <1>1, <1>2, <1>12, Zenon DEF SpawnFails
<1>13. ASSUME NEW c \in Conns, LogSpawned(c) PROVE PlainOK'
  BY <1>1, <1>3, <1>13, Zenon DEF LogSpawned
<1>14. ASSUME NEW c \in Conns, ApSwitched(c) PROVE PlainOK'
  BY <1>1, <1>3, <1>14, Zenon DEF ApSwitched
<1>15. ASSUME NEW c \in Conns, Reply(c) PROVE PlainOK'
  BY <1>1, <1>2, <1>15, Zenon DEF Reply
<1>16. ASSUME NEW w \in Workers, Begin(w) PROVE PlainOK'
  BY <1>1, <1>2, <1>16, ActorAssumption DEF Begin
<1>17. ASSUME NEW w \in Workers, Switched(w) PROVE PlainOK'
  <2>1. code' \in [Threads -> Codes]
    BY <1>1, <1>2, <1>17, Zenon DEF Switched
  <2>2. left' \in [Workers -> 0 .. MaxPush]
    BY <1>17, ActorAssumption DEF Switched
  <2>. QED  BY <1>17, <2>1, <2>2, Zenon DEF Switched
<1>18. ASSUME NEW w \in Workers, Push(w) PROVE PlainOK'
  BY <1>18, ActorAssumption DEF Push, Counting
<1>19. ASSUME NEW w \in Workers, Release(w) PROVE PlainOK'
  BY <1>19, Zenon DEF Release
<1>20. ASSUME NEW w \in Workers, FreeJob(w) PROVE PlainOK'
  BY <1>1, <1>2, <1>20, Zenon DEF FreeJob
<1>. HIDE DEF PlainOK
<1>. QED
  BY <1>4, <1>5, <1>6, <1>7, <1>8, <1>9, <1>10, <1>11, <1>12, <1>13, <1>14, <1>15, <1>16,
     <1>17, <1>18, <1>19, <1>20, Zenon DEF Next, Receive, Handle, Worker

\* Appending to one of several sequences.
LEMMA AppendTo ==
    ASSUME NEW D, NEW S, NEW f \in [D -> Seq(S)], NEW d \in D, NEW e \in S
    PROVE  [f EXCEPT ![d] = Append(@, e)] \in [D -> Seq(S)]
  OBVIOUS

\* The requests, the threads' places, the jobs and the frames are well-formed.
LEMMA RestStep ==
    ASSUME TypeOK, Handling, JobsMatch, Spawning, Counting, Next
    PROVE  /\ asked' \in [Conns -> Seq(Requests)]
           /\ job' \in [Workers -> Jobs \cup {None}]
           /\ sent' \in [Conns -> Seq(Frames)]
<1>. DEFINE G == /\ asked' \in [Conns -> Seq(Requests)]
                 /\ job' \in [Workers -> Jobs \cup {None}]
                 /\ sent' \in [Conns -> Seq(Frames)]
<1>1. /\ asked \in [Conns -> Seq(Requests)]
      /\ job \in [Workers -> Jobs \cup {None}]
      /\ sent \in [Conns -> Seq(Frames)]
  BY Zenon DEF TypeOK
<1>2. ASSUME NEW c \in Conns, Received(c) PROVE G
  BY <1>1, <1>2, AppendTo DEF Received, ReceivedAs
<1>3. ASSUME NEW c \in Conns, Made(c) PROVE G
  <2>1. PICK w \in Workers, r \in Requests, j \in Jobs : MadeAs(c, w, r, j)
    BY <1>3, Zenon DEF Made
  <2>. QED  BY <1>1, <2>1, AppendTo, Zenon DEF MadeAs
<1>4. ASSUME NEW c \in Conns, Created(c) \/ NotCreated(c) \/ Prepared(c) PROVE G
  BY <1>1, <1>4, Zenon DEF Created, NotCreated, Prepared
<1>5. ASSUME NEW c \in Conns, Replied(c) PROVE G
  BY <1>1, <1>5, AppendTo DEF Replied, RepliedWith
<1>6. ASSUME NEW w \in Workers, Worked(w) \/ Freed(w) PROVE G
  BY <1>1, <1>6, Zenon DEF Worked, Freed
<1>7. ASSUME NEW w \in Workers, Delivered(w) PROVE G
  <2>1. PICK f \in Frames : DeliveredAs(w, f)
    BY <1>7, Zenon DEF Delivered
  <2>2. job[w].conn \in Conns
    BY <1>7, Zenon DEF Delivered, Jobs
  <2>. QED  BY <1>1, <2>1, <2>2, AppendTo, Zenon DEF DeliveredAs
<1>. HIDE DEF G
<1>8. G
  BY <1>2, <1>3, <1>4, <1>5, <1>6, <1>7, StepCases, Zenon
<1>. QED  BY <1>8, Zenon DEF G

\* Every thread is at a place of its own kind.
LEMMA PcStep ==
    ASSUME TypeOK, Handling, JobsMatch, Spawning, Counting, Next
    PROVE  /\ pc' \in [Threads -> ConnPc \cup WorkerPc]
           /\ \A c \in Conns : pc'[c] \in ConnPc
           /\ \A w \in Workers : pc'[w] \in WorkerPc
<1>. DEFINE P(f) == /\ f \in [Threads -> ConnPc \cup WorkerPc]
                    /\ \A c \in Conns : f[c] \in ConnPc
                    /\ \A w \in Workers : f[w] \in WorkerPc
<1>1. P(pc)
  BY Zenon DEF TypeOK
<1>2. ASSUME NEW f, P(f), NEW c \in Conns, NEW l \in ConnPc PROVE P([f EXCEPT ![c] = l])
  BY <1>2, ActorAssumption, Zenon DEF Threads
<1>3. ASSUME NEW f, P(f), NEW w \in Workers, NEW l \in WorkerPc PROVE P([f EXCEPT ![w] = l])
  BY <1>3, ActorAssumption, Zenon DEF Threads
<1>. HIDE DEF P
<1>4. ASSUME NEW c \in Conns, Received(c) \/ Prepared(c) \/ Replied(c) PROVE P(pc')
  <2>1. PICK l \in ConnPc : pc' = [pc EXCEPT ![c] = l]
    BY <1>4, Zenon DEF Received, ReceivedAs, Prepared, Replied, RepliedWith, Moves, ConnPc
  <2>. QED  BY <1>1, <1>2, <2>1, Zenon
<1>5. ASSUME NEW c \in Conns, Created(c) \/ NotCreated(c) PROVE P(pc')
  <2>1. spawned[c] \in Workers
    BY <1>5, Zenon DEF Created, NotCreated, Spawning
  <2>2. P([pc EXCEPT ![c] = "log"]) /\ P([pc EXCEPT ![c] = "reply"])
    BY <1>1, <1>2, Zenon DEF ConnPc
  <2>3. P([[pc EXCEPT ![c] = "log"] EXCEPT ![spawned[c]] = "begin"])
        /\ P([[pc EXCEPT ![c] = "reply"] EXCEPT ![spawned[c]] = "idle"])
    BY <1>3, <2>1, <2>2, Zenon DEF WorkerPc
  <2>. QED  BY <1>5, <2>3, Zenon DEF Created, NotCreated
<1>6. ASSUME NEW c \in Conns, Made(c) PROVE P(pc')
  <2>1. PICK w \in Workers : pc' = [pc EXCEPT ![c] = "spawn", ![w] = "born"]
    BY <1>6, Zenon DEF Made, MadeAs
  <2>2. P([[pc EXCEPT ![c] = "spawn"] EXCEPT ![w] = "born"])
    BY <1>1, <1>2, <1>3, Zenon DEF ConnPc, WorkerPc
  <2>. QED  BY <2>1, <2>2, Zenon
<1>7. ASSUME NEW w \in Workers, Worked(w) \/ Delivered(w) \/ Freed(w) PROVE P(pc')
  <2>1. PICK l \in WorkerPc : pc' = [pc EXCEPT ![w] = l]
    BY <1>7, Zenon DEF Worked, Delivered, DeliveredAs, Freed, Moves, WorkerPc
  <2>. QED  BY <1>1, <1>3, <2>1, Zenon
<1>8. P(pc')
  BY <1>4, <1>5, <1>6, <1>7, StepCases, Zenon
<1>. QED  BY <1>8, Zenon DEF P

\* The type invariant.
LEMMA TypeStep ==
    ASSUME TypeOK, Handling, JobsMatch, Spawning, Counting, Next
    PROVE  TypeOK'
<1>1. PlainOK
  BY Zenon DEF TypeOK, PlainOK
<1>2. PlainOK'
  BY <1>1, PlainStep, Zenon
<1>. QED
  BY <1>2, PcStep, RestStep, Zenon DEF TypeOK, PlainOK
-----------------------------------------------------------------------------
(* The invariant is inductive: one lemma for each conjunct *)

\* What a step that takes a frame does to the requests.
AsksMore(c, r) ==
    /\ \A d \in Conns \ {c} : asked'[d] = asked[d] /\ Owed(d)' = Owed(d)
    /\ Len(asked[c]) \in Nat /\ Len(asked'[c]) = Len(asked[c]) + 1
    /\ DOMAIN asked[c] = 1 .. Len(asked[c])
    /\ DOMAIN asked'[c] = 1 .. Len(asked[c]) + 1
    /\ \A n \in 1 .. Len(asked[c]) : asked'[c][n] = asked[c][n]
    /\ asked'[c][Len(asked[c]) + 1] = r
    /\ Owed(c) \subseteq 1 .. Len(asked[c])
    /\ Owed(c)' = Owed(c) \cup (IF r.cmd = "NOT_REQ" THEN {} ELSE {Len(asked[c]) + 1})

LEMMA Asking ==
    ASSUME TypeOK, NEW c \in Conns, NEW r \in Requests,
           asked' = [asked EXCEPT ![c] = Append(@, r)]
    PROVE  AsksMore(c, r)
<1>1. asked \in [Conns -> Seq(Requests)]
  BY Zenon DEF TypeOK
<1>2. asked'[c] = Append(asked[c], r)
  BY <1>1, Zenon
<1>3. /\ Len(asked[c]) \in Nat /\ Len(asked'[c]) = Len(asked[c]) + 1
      /\ DOMAIN asked[c] = 1 .. Len(asked[c])
      /\ DOMAIN asked'[c] = 1 .. Len(asked[c]) + 1
      /\ \A n \in 1 .. Len(asked[c]) : asked'[c][n] = asked[c][n]
      /\ asked'[c][Len(asked[c]) + 1] = r
  BY <1>1, <1>2, AppendKeeps
<1>4. Owed(c)' = Owed(c) \cup (IF r.cmd = "NOT_REQ" THEN {} ELSE {Len(asked[c]) + 1})
      /\ Owed(c) \subseteq 1 .. Len(asked[c])
  BY <1>3 DEF Owed
<1>5. \A d \in Conns \ {c} : asked'[d] = asked[d] /\ Owed(d)' = Owed(d)
  BY <1>1, Zenon DEF Owed
<1>. QED  BY <1>3, <1>4, <1>5, Zenon DEF AsksMore

\* What a step that sends a frame does to the sinks.
SendsMore(c, f) ==
    /\ \A d \in Conns \ {c} : sent'[d] = sent[d]
    /\ Len(sent[c]) \in Nat
    /\ DOMAIN sent[c] = 1 .. Len(sent[c])
    /\ \A i \in DOMAIN sent[c] : i \in DOMAIN sent'[c] /\ sent'[c][i] = sent[c][i]
    /\ Len(sent[c]) + 1 \in DOMAIN sent'[c] /\ sent'[c][Len(sent[c]) + 1] = f
    /\ \A i \in DOMAIN sent'[c] : i \in DOMAIN sent[c] \/ i = Len(sent[c]) + 1

LEMMA Sending ==
    ASSUME TypeOK, NEW c \in Conns, NEW f \in Frames,
           sent' = [sent EXCEPT ![c] = Append(@, f)]
    PROVE  SendsMore(c, f)
<1>1. sent \in [Conns -> Seq(Frames)]
  BY Zenon DEF TypeOK
<1>2. sent'[c] = Append(sent[c], f)
  BY <1>1, Zenon
<1>. QED  BY <1>1, <1>2, AppendKeeps DEF SendsMore

\* The actors are of two kinds, and a worker's step leaves the connections alone.
LEMMA Kinds ==
    /\ Conns \subseteq Threads /\ Workers \subseteq Threads
    /\ \A c \in Conns, w \in Workers : c # w
  BY ActorAssumption, Zenon DEF Threads

LEMMA ConnsStay ==
    ASSUME NEW w \in Workers, Worked(w) \/ Delivered(w) \/ Freed(w)
    PROVE  /\ \A c \in Conns : pc'[c] = pc[c] /\ code'[c] = code[c] /\ spawned'[c] = spawned[c]
           /\ \A v \in Workers \ {w} : pc'[v] = pc[v]
           /\ asked' = asked /\ ssid' = ssid /\ passwd' = passwd
  BY Kinds, Zenon DEF Worked, Delivered, DeliveredAs, Freed, Moves

\* A request is in hand from the frame that brings it to its RESP.
LEMMA HandlingStep ==
    ASSUME Inv, Next
    PROVE  Handling'
<1>. USE Kinds DEF Inv, Handling
<1>2. ASSUME NEW c \in Conns, Received(c) PROVE Handling'
  <2>1. PICK r \in Requests, l \in {"read", "reply", "to_ap"} : ReceivedAs(c, r, l)
    BY <1>2, Zenon DEF Received
  <2>2. AsksMore(c, r)
    BY <2>1, Asking, Zenon DEF ReceivedAs
  <2>. QED  BY <2>1, <2>2, ZenonT(20) DEF ReceivedAs, Moves, AsksMore
<1>3. ASSUME NEW c \in Conns, Made(c) PROVE Handling'
  <2>1. PICK w \in Workers, r \in Requests, j \in Jobs : MadeAs(c, w, r, j)
    BY <1>3, Zenon DEF Made
  <2>2. r.cmd # "NOT_REQ"
    BY <2>1, Zenon DEF MadeAs, Jobs
  <2>3. AsksMore(c, r)
    BY <2>1, Asking, Zenon DEF MadeAs
  <2>. QED  BY <2>1, <2>2, <2>3 DEF MadeAs, AsksMore
<1>4. ASSUME NEW c \in Conns, Created(c) \/ NotCreated(c) \/ Prepared(c) \/ Replied(c)
      PROVE  Handling'
  <2>1. asked' = asked /\ \A d \in Conns : pc'[d] # "read" => pc[d] # "read"
    BY <1>4, Zenon DEF Created, NotCreated, Prepared, Replied, RepliedWith, Moves, Spawning
  <2>. QED  BY <2>1, Zenon DEF Owed
<1>5. ASSUME NEW w \in Workers, Worked(w) \/ Delivered(w) \/ Freed(w) PROVE Handling'
  BY <1>5, ConnsStay, Zenon DEF Owed
<1>. HIDE DEF Handling
<1>. QED  BY <1>2, <1>3, <1>4, <1>5, StepCases, Zenon

\* What matches a request of d still does when a connection asks more.
LEMMA StillMatches ==
    ASSUME TypeOK, NEW c \in Conns, NEW r, AsksMore(c, r), NEW d \in Conns
    PROVE  /\ Owed(d) \subseteq Owed(d)'
           /\ \A n \in Owed(d) : asked'[d][n].cmd = asked[d][n].cmd
           /\ Owed(d) \subseteq 1 .. Len(asked[d])
<1>1. asked[d] \in Seq(Requests)
  BY Zenon DEF TypeOK
<1>2. Owed(d) \subseteq 1 .. Len(asked[d])
  BY <1>1 DEF Owed
<1>. QED  BY <1>2, Zenon DEF AsksMore

\* A step that leaves connection d alone, or changes only what it may.
LEMMA SameConn ==
    ASSUME NEW d \in Conns, asked'[d] = asked[d], sent'[d] = sent[d]
    PROVE  /\ Owed(d)' = Owed(d)
           /\ \A n : Answered(d, n)' <=> Answered(d, n)
           /\ (pc'[d] = "read" <=> pc[d] = "read") /\ AnswersOf(d) => AnswersOf(d)'
<1>1. Owed(d)' = Owed(d)
  BY Zenon DEF Owed
<1>2. \A n : Answered(d, n)' <=> Answered(d, n)
  BY Zenon DEF Answered
<1>3. \A i : Matches(d, sent[d][i])' <=> Matches(d, sent[d][i])
  BY <1>1, Zenon DEF Matches
<1>. QED  BY <1>1, <1>2, <1>3, Zenon DEF AnswersOf

\* Only a Reply adds a RESP, for the request in hand, whose seq is the highest.
LEMMA AnsweringStep ==
    ASSUME Inv, Next
    PROVE  Answering'
<1>. USE Kinds DEF Inv, Answering
<1>1. ASSUME NEW c \in Conns, NEW r, AsksMore(c, r), sent' = sent, pc[c] = "read",
             pc'[c] = "read" <=> r.cmd = "NOT_REQ",
             \A d \in Conns \ {c} : pc'[d] = pc[d]
      PROVE  Answering'
  <2>1. ASSUME NEW i \in DOMAIN sent[c], sent[c][i].type = "RESP"
        PROVE  /\ Matches(c, sent[c][i])'
               /\ pc'[c] # "read" => sent[c][i].seq # Len(asked'[c])
    <3>1. Matches(c, sent[c][i])
      BY <2>1, Zenon DEF AnswersOf
    <3>2. Matches(c, sent[c][i])' /\ sent[c][i].seq \in 1 .. Len(asked[c])
      BY <1>1, <3>1, StillMatches, Zenon DEF Matches
    <3>. QED  BY <1>1, <3>2 DEF AsksMore
  <2>2. ASSUME NEW n \in Owed(c)', pc'[c] # "read" => n # Len(asked'[c])
        PROVE  Answered(c, n)'
    <3>1. n \in Owed(c)
      BY <1>1, <2>2, Zenon DEF AsksMore
    <3>. QED  BY <1>1, <3>1, ZenonT(20) DEF AnswersOf, Answered
  <2>3. AnswersOf(c)'
    BY <1>1, <2>1, <2>2, Zenon DEF AnswersOf
  <2>4. \A d \in Conns \ {c} : AnswersOf(d)'
    BY <1>1, SameConn, Zenon DEF AsksMore
  <2>. QED  BY <2>3, <2>4, Zenon
<1>2. ASSUME NEW c \in Conns, Received(c) PROVE Answering'
  <2>1. PICK r \in Requests, l \in {"read", "reply", "to_ap"} : ReceivedAs(c, r, l)
    BY <1>2, Zenon DEF Received
  <2>2. AsksMore(c, r)
    BY <2>1, Asking, Zenon DEF ReceivedAs
  <2>. QED  BY <1>1, <2>1, <2>2, Zenon DEF ReceivedAs, Moves
<1>3. ASSUME NEW c \in Conns, Made(c) PROVE Answering'
  <2>1. PICK w \in Workers, r \in Requests, j \in Jobs : MadeAs(c, w, r, j)
    BY <1>3, Zenon DEF Made
  <2>2. r.cmd # "NOT_REQ"
    BY <2>1, Zenon DEF MadeAs, Jobs
  <2>3. AsksMore(c, r)
    BY <2>1, Asking, Zenon DEF MadeAs
  <2>. QED  BY <1>1, <2>1, <2>2, <2>3, Zenon DEF MadeAs
<1>4. ASSUME asked' = asked, sent' = sent, \A d \in Conns : pc'[d] = "read" <=> pc[d] = "read"
      PROVE  Answering'
  BY <1>4, SameConn, Zenon
<1>5. ASSUME NEW c \in Conns, Created(c) \/ NotCreated(c) \/ Prepared(c) PROVE Answering'
  <2>1. \A d \in Conns : pc'[d] = "read" <=> pc[d] = "read"
    BY <1>5, Zenon DEF Created, NotCreated, Prepared, Moves, Spawning
  <2>2. asked' = asked /\ sent' = sent
    BY <1>5, Zenon DEF Created, NotCreated, Prepared
  <2>. QED  BY <1>4, <2>1, <2>2, Zenon
<1>6. ASSUME NEW c \in Conns, NEW f \in Frames, RepliedWith(c, f) PROVE Answering'
  <2>1. SendsMore(c, f) /\ asked' = asked
    BY <1>6, Sending, Zenon DEF RepliedWith
  <2>2. Len(asked[c]) \in Owed(c) /\ Owed(c) \subseteq 1 .. Len(asked[c])
    BY <1>6 DEF RepliedWith, Handling, Owed, TypeOK
  <2>3. Owed(c)' = Owed(c)
    BY <2>1, Zenon DEF Owed
  <2>4. Matches(c, f)
    BY <1>6, <2>2, ZenonT(20) DEF Matches, RepliedWith
  <2>5. \A i \in DOMAIN sent[c] : sent[c][i].type = "RESP" =>
           Matches(c, sent[c][i]) /\ sent[c][i].seq < f.seq
    <3>. SUFFICES ASSUME NEW i \in DOMAIN sent[c], sent[c][i].type = "RESP"
                  PROVE  Matches(c, sent[c][i]) /\ sent[c][i].seq < f.seq
      BY Zenon
    <3>1. Matches(c, sent[c][i]) /\ sent[c][i].seq # Len(asked[c]) /\ f.seq = Len(asked[c])
      BY <1>6, ZenonT(20) DEF AnswersOf, RepliedWith
    <3>2. sent[c][i].seq \in 1 .. Len(asked[c])
      BY <2>2, <3>1, Zenon DEF Matches
    <3>. QED  BY <2>2, <3>1, <3>2, SMTT(20)
  <2>6. \A n \in Owed(c)' : Answered(c, n)'
    <3>. SUFFICES ASSUME NEW n \in Owed(c) PROVE Answered(c, n)'
      BY <2>3, Zenon
    <3>1. CASE n = Len(asked[c])
      BY <1>6, <2>1, <3>1, ZenonT(20) DEF RepliedWith, Answered, SendsMore
    <3>2. CASE n # Len(asked[c])
      BY <1>6, <2>1, <3>2, SMTT(20) DEF AnswersOf, Answered, SendsMore
    <3>. QED  BY <3>1, <3>2, Zenon
  <2>7. pc'[c] = "read" /\ \A d \in Conns \ {c} : pc'[d] = pc[d] /\ sent'[d] = sent[d]
    BY <1>6, <2>1, Zenon DEF RepliedWith, Moves, SendsMore
  <2>8. \A i \in DOMAIN sent'[c] : sent'[c][i].type = "RESP" =>
           sent'[c][i].seq \in Owed(c) /\ sent'[c][i].cmd = asked[c][sent'[c][i].seq].cmd
    BY <2>1, <2>4, <2>5, ZenonT(20) DEF SendsMore, Matches
  <2>9. \A i, j \in DOMAIN sent'[c] :
            i < j /\ sent'[c][i].type = "RESP" /\ sent'[c][j].type = "RESP" =>
               sent'[c][i].seq < sent'[c][j].seq
    BY <2>1, <2>5 DEF AnswersOf, SendsMore
  <2>10. AnswersOf(c)'
    BY <2>1, <2>3, <2>6, <2>7, <2>8, <2>9, Zenon DEF AnswersOf, Matches
  <2>11. \A d \in Conns \ {c} : AnswersOf(d)'
    BY <2>1, <2>7, SameConn, Zenon
  <2>. QED  BY <2>10, <2>11, Zenon
<1>7. ASSUME NEW w \in Workers, Worked(w) \/ Freed(w) PROVE Answering'
  BY <1>4, <1>7, ConnsStay, Zenon DEF Worked, Freed
<1>8. ASSUME NEW w \in Workers, NEW f \in Frames, NEW c \in Conns, c = job[w].conn,
             DeliveredAs(w, f)
      PROVE  Answering'
  <2>1. SendsMore(c, f) /\ asked' = asked
    BY <1>8, Sending, Zenon DEF DeliveredAs
  <2>2. f.type = "PUSH" /\ \A d \in Conns : pc'[d] = pc[d]
    BY <1>8, Zenon DEF DeliveredAs, Moves
  <2>3. Owed(c)' = Owed(c)
    BY <2>1, Zenon DEF Owed
  <2>4. \A n : Answered(c, n) => Answered(c, n)'
    BY <2>1, Zenon DEF Answered, SendsMore
  <2>5. \A i \in DOMAIN sent'[c] : sent'[c][i].type = "RESP" =>
           i \in DOMAIN sent[c] /\ sent'[c][i] = sent[c][i]
    BY <2>1, <2>2, Zenon DEF SendsMore
  <2>6. AnswersOf(c)'
    <3>1. AnswersOf(c)
      BY Zenon DEF Answering
    <3>2. \A i \in DOMAIN sent'[c] :
             sent'[c][i].type = "RESP" =>
                /\ Matches(c, sent[c][i])' /\ Matches(c, sent[c][i])
                /\ pc'[c] # "read" => sent'[c][i].seq # Len(asked'[c])
      BY <2>1, <2>2, <2>3, <2>5, <3>1, ZenonT(20) DEF AnswersOf, Matches
    <3>3. \A i, j \in DOMAIN sent'[c] :
             i < j /\ sent'[c][i].type = "RESP" /\ sent'[c][j].type = "RESP" =>
                sent'[c][i].seq < sent'[c][j].seq
      BY <2>5, <3>1, ZenonT(20) DEF AnswersOf
    <3>4. \A n \in Owed(c)' : (pc'[c] # "read" => n # Len(asked'[c])) => Answered(c, n)'
      BY <2>1, <2>2, <2>3, <2>4, <3>1, ZenonT(20) DEF AnswersOf
    <3>. QED  BY <2>5, <3>2, <3>3, <3>4, ZenonT(20) DEF AnswersOf, Matches
  <2>7. \A d \in Conns \ {c} : AnswersOf(d)'
    BY <2>1, <2>2, SameConn, Zenon DEF SendsMore
  <2>. QED  BY <2>6, <2>7, Zenon
<1>. HIDE DEF Answering
<1>. QED  BY <1>2, <1>3, <1>5, <1>6, <1>7, <1>8, StepCases, Zenon DEF Replied, Delivered, Jobs

\* The requests of a connection only grow.
Grows ==
    \A d \in Conns :
        /\ Owed(d) \subseteq Owed(d)' /\ Owed(d) \subseteq 1 .. Len(asked[d])
        /\ \A n \in Owed(d) : asked'[d][n].cmd = asked[d][n].cmd

\* No request is ever taken back.
LEMMA GrowsStep ==
    ASSUME Inv, Next
    PROVE  Grows
<1>. USE DEF Inv
<1>1. ASSUME NEW c \in Conns, NEW r, AsksMore(c, r) PROVE Grows
  BY <1>1, StillMatches, Zenon DEF Grows
<1>2. ASSUME asked' = asked PROVE Grows
  <2>1. ASSUME NEW d \in Conns PROVE Owed(d)' = Owed(d) /\ Owed(d) \subseteq 1 .. Len(asked[d])
    BY <1>2 DEF Owed, TypeOK
  <2>. QED  BY <1>2, <2>1, Zenon DEF Grows
<1>3. ASSUME NEW c \in Conns, Received(c) PROVE Grows
  <2>1. PICK r \in Requests, l \in {"read", "reply", "to_ap"} : ReceivedAs(c, r, l)
    BY <1>3, Zenon DEF Received
  <2>2. AsksMore(c, r)
    BY <2>1, Asking, Zenon DEF ReceivedAs
  <2>. QED  BY <1>1, <2>2, Zenon
<1>4. ASSUME NEW c \in Conns, Made(c) PROVE Grows
  <2>1. PICK w \in Workers, r \in Requests, j \in Jobs : MadeAs(c, w, r, j)
    BY <1>4, Zenon DEF Made
  <2>2. AsksMore(c, r)
    BY <2>1, Asking, Zenon DEF MadeAs
  <2>. QED  BY <1>1, <2>2, Zenon
<1>5. ASSUME NEW c \in Conns, Created(c) \/ NotCreated(c) \/ Prepared(c) \/ Replied(c) PROVE Grows
  BY <1>2, <1>5, Zenon DEF Created, NotCreated, Prepared, Replied, RepliedWith
<1>6. ASSUME NEW w \in Workers, Worked(w) \/ Delivered(w) \/ Freed(w) PROVE Grows
  BY <1>2, <1>6, ConnsStay, Zenon
<1>. QED  BY <1>3, <1>4, <1>5, <1>6, StepCases, Zenon

\* What happens to a slot: it stays as it is, its worker goes on, it is filled
\* or it is freed.
SlotStep(v) ==
    \/ job'[v] = job[v] /\ pc'[v] = pc[v]
    \/ /\ job'[v] = job[v]
       /\ \/ /\ pc[v] = "born" /\ pc'[v] = "begin"
             /\ \E c \in Conns : Created(c) /\ spawned[c] = v
          \/ pc[v] \in {"begin", "switch"} /\ pc'[v] \in {"switch", "push"}
          \/ pc[v] = "push" /\ pc'[v] \in {"push", "release"}
          \/ pc[v] = "release" /\ pc'[v] = "free"
    \/ /\ pc[v] = "idle" /\ pc'[v] = "born"
       /\ job'[v] \in Jobs
       /\ job'[v].seq = Len(asked[job'[v].conn]) + 1
       /\ Matches(job[v].conn, job[v])'
       /\ job'[v].cmd = "CONNECT" => job'[v].ssid = ssid /\ job'[v].passwd = passwd
       /\ \A d \in Conns : sent'[d] = sent[d]
       /\ \A u \in Workers \ {v} : job'[u] = job[u] /\ pc'[u] = pc[u]
    \/ job'[v] = None /\ pc'[v] = "idle"

LEMMA SlotSteps ==
    ASSUME Inv, Next, NEW v \in Workers
    PROVE  SlotStep(v)
<1>. USE Kinds DEF Inv
<1>1. ASSUME NEW c \in Conns, Received(c) PROVE SlotStep(v)
  BY <1>1, Zenon DEF Received, ReceivedAs, Moves, SlotStep
<1>2. ASSUME NEW c \in Conns, Made(c) PROVE SlotStep(v)
  <2>1. PICK w \in Workers, r \in Requests, j \in Jobs : MadeAs(c, w, r, j)
    BY <1>2, Zenon DEF Made
  <2>2. AsksMore(c, r)
    BY <2>1, Asking, ZenonT(20) DEF MadeAs
  <2>3. CASE v # w
    BY <2>1, <2>3 DEF MadeAs, SlotStep, TypeOK
  <2>4. CASE v = w
    <3>1. job'[v] = j /\ \A u \in Workers \ {v} : job'[u] = job[u] /\ pc'[u] = pc[u]
      BY <2>1, <2>4 DEF MadeAs, TypeOK
    <3>2. j.cmd # "NOT_REQ"
      BY Zenon DEF Jobs
    <3>3. j.seq \in Owed(c)' /\ asked'[c][j.seq].cmd = j.cmd
      BY <2>1, <2>2, <3>2, ZenonT(20) DEF MadeAs, AsksMore
    <3>4. Matches(job[v].conn, job[v])'
      BY <2>1, <3>1, <3>3, Zenon DEF MadeAs, Matches
    <3>. QED  BY <2>1, <2>4, <3>1, <3>4, ZenonT(20) DEF MadeAs, SlotStep
  <2>. QED  BY <2>3, <2>4, Zenon
<1>3. ASSUME NEW c \in Conns, Created(c) PROVE SlotStep(v)
  <2>1. pc[spawned[c]] = "born" /\ job' = job
    BY <1>3, Zenon DEF Created, Spawning
  <2>2. CASE v = spawned[c]
    BY <1>3, <2>1, <2>2, Zenon DEF Created, SlotStep
  <2>3. CASE v # spawned[c]
    BY <1>3, <2>1, <2>3, ZenonT(20) DEF Created, SlotStep
  <2>. QED  BY <2>2, <2>3, Zenon
<1>4. ASSUME NEW c \in Conns, NotCreated(c) PROVE SlotStep(v)
  BY <1>4 DEF NotCreated, Spawning, SlotStep, TypeOK
<1>5. ASSUME NEW c \in Conns, Prepared(c) \/ Replied(c) PROVE SlotStep(v)
  BY <1>5, Zenon DEF Prepared, Replied, RepliedWith, Moves, SlotStep
<1>6. ASSUME NEW w \in Workers, Worked(w) PROVE SlotStep(v)
  BY <1>6, Zenon DEF Worked, Moves, SlotStep
<1>7. ASSUME NEW w \in Workers, Delivered(w) PROVE SlotStep(v)
  BY <1>7, Zenon DEF Delivered, DeliveredAs, Moves, SlotStep
<1>8. ASSUME NEW w \in Workers, Freed(w) PROVE SlotStep(v)
  BY <1>8, Zenon DEF Freed, Moves, SlotStep, TypeOK
<1>. QED  BY <1>1, <1>2, <1>3, <1>4, <1>5, <1>6, <1>7, <1>8, StepCases, Zenon

\* A job keeps matching its request, since requests stay.
LEMMA JobsMatchStep ==
    ASSUME Inv, Next
    PROVE  JobsMatch'
<1>. SUFFICES ASSUME NEW v \in Workers
              PROVE  /\ (job[v] = None <=> pc[v] = "idle")'
                     /\ job'[v] # None => Matches(job[v].conn, job[v])'
  BY Zenon DEF JobsMatch
<1>1. SlotStep(v) /\ Grows
  BY SlotSteps, GrowsStep, Zenon
<1>2. /\ job[v] = None <=> pc[v] = "idle"
      /\ job[v] # None => job[v] \in Jobs /\ Matches(job[v].conn, job[v])
  BY Zenon DEF Inv, JobsMatch, TypeOK
<1>3. job[v] # None /\ job'[v] = job[v] => Matches(job[v].conn, job[v])'
  BY <1>1, <1>2, Zenon DEF Grows, Matches, Jobs
<1>. QED  BY <1>1, <1>2, <1>3, JobAssumption, Zenon DEF SlotStep

\* A new job has a seq that no earlier job of its connection has.
LEMMA OneJobEachStep ==
    ASSUME Inv, Next
    PROVE  OneJobEach'
<1>. SUFFICES ASSUME NEW v \in Workers, NEW w \in Workers, v # w, job'[v] # None, job'[w] # None
              PROVE  job'[v].conn # job'[w].conn \/ job'[v].seq # job'[w].seq
  BY Zenon DEF OneJobEach
<1>1. ASSUME NEW x \in Workers, NEW y \in Workers, x # y, job'[y] # None,
             pc[x] = "idle" /\ pc'[x] = "born" /\ SlotStep(x)
      PROVE  job'[x].conn # job'[y].conn \/ job'[x].seq # job'[y].seq
  <2>1. /\ job'[x] \in Jobs /\ job'[x].seq = Len(asked[job'[x].conn]) + 1
        /\ job'[y] = job[y]
    BY <1>1, JobAssumption, Zenon DEF SlotStep, Inv, JobsMatch
  <2>2. job[y] \in Jobs /\ job[y].seq \in Owed(job[y].conn)
    BY <1>1, <2>1, Zenon DEF Inv, JobsMatch, Matches, TypeOK
  <2>3. job[y].conn \in Conns
    BY <2>2, ZenonT(20) DEF Jobs
  <2>4. job[y].seq \in 1 .. Len(asked[job[y].conn]) /\ Len(asked[job[y].conn]) \in Nat
    BY <2>2, <2>3, GrowsStep DEF Grows, Inv, TypeOK
  <2>. QED  BY <2>1, <2>4
<1>2. SlotStep(v) /\ SlotStep(w)
  BY SlotSteps, Zenon
<1>3. CASE job'[v] = job[v] /\ job'[w] = job[w]
  BY <1>3, Zenon DEF Inv, OneJobEach
<1>4. CASE pc[v] = "idle" /\ pc'[v] = "born"
  BY <1>1, <1>2, <1>4, Zenon
<1>5. CASE pc[w] = "idle" /\ pc'[w] = "born"
  BY <1>1, <1>2, <1>5, Zenon
<1>. QED  BY <1>2, <1>3, <1>4, <1>5, Zenon DEF SlotStep

\* A worker that is to push has something to push.
LEMMA CountingStep ==
    ASSUME Inv, Next
    PROVE  Counting'
<1>. USE Kinds DEF Inv, Counting
<1>1. ASSUME job' = job, left' = left, \A w \in Workers : pc'[w] = "push" => pc[w] = "push"
      PROVE  Counting'
  BY <1>1, Zenon
<1>2. ASSUME NEW c \in Conns, Received(c) \/ Prepared(c) \/ Replied(c) PROVE Counting'
  BY <1>1, <1>2, Zenon DEF Received, ReceivedAs, Prepared, Replied, RepliedWith, Moves
<1>3. ASSUME NEW c \in Conns, Made(c) PROVE Counting'
  <2>1. PICK w \in Workers, r \in Requests, j \in Jobs : MadeAs(c, w, r, j)
    BY <1>3, Zenon DEF Made
  <2>. QED  BY <2>1, ZenonT(20) DEF MadeAs, TypeOK
<1>4. ASSUME NEW c \in Conns, Created(c) PROVE Counting'
  BY <1>1, <1>4, Zenon DEF Created, Spawning
<1>5. ASSUME NEW c \in Conns, NotCreated(c) PROVE Counting'
  BY <1>5, ZenonT(20) DEF NotCreated, Spawning, TypeOK
<1>6. ASSUME NEW w \in Workers, Worked(w) PROVE Counting'
  BY <1>6, ZenonT(20) DEF Worked, Moves
<1>7. ASSUME NEW w \in Workers, Delivered(w) PROVE Counting'
  BY <1>7, ZenonT(20) DEF Delivered, DeliveredAs, Moves
<1>8. ASSUME NEW w \in Workers, Freed(w) PROVE Counting'
  BY <1>8, Zenon DEF Freed, Moves, TypeOK
<1>. HIDE DEF Counting
<1>. QED  BY <1>2, <1>3, <1>4, <1>5, <1>6, <1>7, <1>8, StepCases, Zenon DEF Counting

\* A job without a worker is in the hands of the connection that made it.
LEMMA SpawningStep ==
    ASSUME Inv, Next
    PROVE  Spawning'
<1>. USE Kinds DEF Inv, Spawning
<1>1. ASSUME NEW c \in Conns, Received(c) PROVE Spawning'
  <2>1. PICK r \in Requests, l \in {"read", "reply", "to_ap"} : ReceivedAs(c, r, l)
    BY <1>1, Zenon DEF Received
  <2>2. AsksMore(c, r)
    BY <2>1, Asking, ZenonT(20) DEF ReceivedAs
  <2>3. \A w \in Workers : pc[w] = "born" => job[w].conn \in Conns \ {c}
    BY <2>1 DEF ReceivedAs, TypeOK, Jobs, JobsMatch
  <2>. QED  BY <2>1, <2>2, <2>3 DEF ReceivedAs, Moves, AsksMore
<1>2. ASSUME NEW c \in Conns, Made(c) PROVE Spawning'
  <2>1. PICK w \in Workers, r \in Requests, j \in Jobs : MadeAs(c, w, r, j)
    BY <1>2, Zenon DEF Made
  <2>2. AsksMore(c, r)
    BY <2>1, Asking, Zenon DEF MadeAs
  <2>3. job'[w] = j /\ spawned'[c] = w
    BY <2>1, ZenonT(20) DEF MadeAs, TypeOK
  <2>4. \A v \in Workers \ {w} : job'[v] = job[v] /\ pc'[v] = pc[v]
    BY <2>1 DEF MadeAs, TypeOK
  <2>5. \A d \in Conns \ {c} : spawned'[d] = spawned[d] /\ pc'[d] = pc[d]
    BY <2>1, SMTT(20) DEF MadeAs, TypeOK
  <2>6. \A v \in Workers : pc[v] = "born" => job[v].conn \in Conns \ {c}
    BY <2>1 DEF MadeAs, TypeOK, Jobs, JobsMatch
  <2>7. ASSUME NEW d \in Conns, pc'[d] = "spawn"
        PROVE  spawned'[d] \in Workers /\ pc'[spawned'[d]] = "born" /\ job'[spawned'[d]].conn = d
    <3>1. CASE d = c
      BY <2>1, <2>3, <3>1 DEF MadeAs
    <3>2. CASE d # c
      <4>1. pc[d] = "spawn" /\ spawned'[d] = spawned[d] /\ spawned[d] \in Workers
            /\ pc[spawned[d]] = "born" /\ job[spawned[d]].conn = d
        BY <2>5, <2>7, <3>2, ZenonT(20)
      <4>2. spawned[d] # w
        BY <2>1, <4>1, Zenon DEF MadeAs
      <4>. QED  BY <2>4, <4>1, <4>2
    <3>. QED  BY <3>1, <3>2, ZenonT(20)
  <2>8. ASSUME NEW v \in Workers, pc'[v] = "born"
        PROVE  /\ pc'[job'[v].conn] = "spawn" /\ spawned'[job'[v].conn] = v
               /\ job'[v].seq = Len(asked'[job'[v].conn])
    <3>1. CASE v = w
      BY <2>1, <2>2, <2>3, <3>1, SMTT(20) DEF MadeAs, AsksMore
    <3>2. CASE v # w
      <4>1. pc[v] = "born" /\ job'[v] = job[v] /\ job[v].conn \in Conns \ {c}
        BY <2>4, <2>6, <2>8, <3>2, ZenonT(20)
      <4>2. PICK d \in Conns \ {c} : d = job[v].conn
        BY <4>1, Zenon
      <4>3. asked'[d] = asked[d] /\ spawned'[d] = spawned[d] /\ pc'[d] = pc[d]
        BY <2>2, <2>5, ZenonT(20) DEF AsksMore
      <4>4. pc[d] = "spawn" /\ spawned[d] = v /\ job[v].seq = Len(asked[d])
        BY <4>1, <4>2, ZenonT(20)
      <4>5. job'[v].conn = d /\ job'[v].seq = job[v].seq
        BY <4>1, <4>2, Zenon
      <4>. QED  BY <4>3, <4>4, <4>5, SMTT(20)
    <3>. QED  BY <3>1, <3>2, Zenon
  <2>. QED  BY <2>7, <2>8, Zenon
<1>3. ASSUME asked' = asked,
             \A d \in Conns : pc'[d] = "spawn" =>
                /\ pc[d] = "spawn" /\ spawned'[d] = spawned[d]
                /\ pc'[spawned[d]] = "born" /\ job'[spawned[d]] = job[spawned[d]],
             \A v \in Workers : pc'[v] = "born" =>
                /\ pc[v] = "born" /\ job'[v] = job[v]
                /\ pc'[job[v].conn] = "spawn" /\ spawned'[job[v].conn] = spawned[job[v].conn]
      PROVE  Spawning'
  BY <1>3
<1>4. \A v \in Workers : pc[v] = "born" => job[v].conn \in Conns
  BY DEF JobsMatch, TypeOK, Jobs
<1>5. ASSUME NEW c \in Conns, Created(c) PROVE Spawning'
  <2>1. \A d \in Conns : pc'[d] = "spawn" => d # c /\ pc[d] = "spawn" /\ spawned[d] # spawned[c]
    BY <1>5 DEF Created
  <2>2. \A v \in Workers : pc'[v] = "born" =>
           v # spawned[c] /\ pc[v] = "born" /\ job[v].conn # c
    BY <1>5 DEF Created
  <2>3. asked' = asked /\ job' = job /\ spawned' = spawned
    BY <1>5, Zenon DEF Created
  <2>4. \A t \in Threads \ {c, spawned[c]} : pc'[t] = pc[t]
    BY <1>5, Zenon DEF Created
  <2>5. \A d \in Conns \ {c} : spawned'[d] = spawned[d]
    BY <1>5, Zenon DEF Created
  <2>6. \A d \in Conns : pc'[d] = "spawn" =>
           /\ pc[d] = "spawn" /\ spawned'[d] = spawned[d]
           /\ pc'[spawned[d]] = "born" /\ job'[spawned[d]] = job[spawned[d]]
    BY <2>1, <2>3, <2>4, <2>5
  <2>7. \A v \in Workers : pc'[v] = "born" =>
           /\ pc[v] = "born" /\ job'[v] = job[v]
           /\ pc'[job[v].conn] = "spawn" /\ spawned'[job[v].conn] = spawned[job[v].conn]
    <3>1. spawned[c] \in Workers
      BY <1>5, Zenon DEF Created
    <3>. QED  BY <1>4, <2>2, <2>3, <2>4, <2>5, <3>1
  <2>. QED  BY <1>3, <2>3, <2>6, <2>7, Zenon
<1>6. ASSUME NEW c \in Conns, NotCreated(c) PROVE Spawning'
  <2>1. \A d \in Conns : pc'[d] = "spawn" => d # c /\ pc[d] = "spawn" /\ spawned[d] # spawned[c]
    BY <1>6 DEF NotCreated
  <2>2. \A v \in Workers : pc'[v] = "born" =>
           v # spawned[c] /\ pc[v] = "born" /\ job[v].conn # c
    BY <1>6 DEF NotCreated
  <2>3. asked' = asked /\ \A v \in Workers \ {spawned[c]} : job'[v] = job[v]
    BY <1>6 DEF NotCreated, TypeOK
  <2>4. \A t \in Threads \ {c, spawned[c]} : pc'[t] = pc[t]
    BY <1>6, Zenon DEF NotCreated
  <2>5. \A d \in Conns \ {c} : spawned'[d] = spawned[d]
    BY <1>6, Zenon DEF NotCreated
  <2>6. \A d \in Conns : pc'[d] = "spawn" =>
           /\ pc[d] = "spawn" /\ spawned'[d] = spawned[d]
           /\ pc'[spawned[d]] = "born" /\ job'[spawned[d]] = job[spawned[d]]
    BY <2>1, <2>3, <2>4, <2>5
  <2>7. \A v \in Workers : pc'[v] = "born" =>
           /\ pc[v] = "born" /\ job'[v] = job[v]
           /\ pc'[job[v].conn] = "spawn" /\ spawned'[job[v].conn] = spawned[job[v].conn]
    <3>1. spawned[c] \in Workers
      BY <1>6, Zenon DEF NotCreated
    <3>. QED  BY <1>4, <2>2, <2>3, <2>4, <2>5, <3>1
  <2>. QED  BY <1>3, <2>3, <2>6, <2>7, Zenon
<1>7. ASSUME NEW c \in Conns, Prepared(c) \/ Replied(c) PROVE Spawning'
  <2>1. /\ pc[c] # "spawn" /\ pc'[c] # "spawn" /\ asked' = asked /\ job' = job
        /\ \A t \in Threads \ {c} : pc'[t] = pc[t]
        /\ \A d \in Conns \ {c} : spawned'[d] = spawned[d]
    BY <1>7, Zenon DEF Prepared, Replied, RepliedWith, Moves
  <2>. QED  BY <1>3, <1>4, <2>1
<1>8. ASSUME NEW w \in Workers, Worked(w) \/ Delivered(w) \/ Freed(w) PROVE Spawning'
  <2>1. /\ asked' = asked /\ \A d \in Conns : pc'[d] = pc[d] /\ spawned'[d] = spawned[d]
        /\ \A v \in Workers \ {w} : pc'[v] = pc[v]
    BY <1>8, ConnsStay, ZenonT(20)
  <2>2. pc[w] # "born" /\ pc'[w] # "born" /\ \A v \in Workers \ {w} : job'[v] = job[v]
    <3>1. pc[w] # "born" /\ pc'[w] # "born"
      BY <1>8, ZenonT(20) DEF Worked, Delivered, DeliveredAs, Freed, Moves
    <3>2. job' = job \/ job' = [job EXCEPT ![w] = None]
      BY <1>8, ZenonT(20) DEF Worked, Delivered, DeliveredAs, Freed
    <3>3. PICK T : job \in [Workers -> T]
      BY Zenon DEF TypeOK
    <3>4. \A v \in Workers \ {w} : job'[v] = job[v]
      BY <3>2, <3>3, SMTT(20)
    <3>. QED  BY <3>1, <3>4, Zenon
  <2>. QED  BY <1>3, <1>4, <2>1, <2>2
<1>. HIDE DEF Spawning
<1>. QED  BY <1>1, <1>2, <1>5, <1>6, <1>7, <1>8, StepCases, Zenon

\* A request that was accepted stays accepted.
LEMMA AcceptedStep ==
    ASSUME Inv, Next, NEW d \in Conns, NEW n \in Owed(d), Accepted(d, n)
    PROVE  Accepted(d, n)'
<1>. USE Kinds DEF Inv
<1>1. ASSUME asked'[d] = asked[d], sent'[d] = sent[d], pc'[d] = pc[d], code'[d] = code[d]
      PROVE  Accepted(d, n)'
  BY <1>1, ZenonT(20) DEF Accepted
<1>2. ASSUME NEW r, AsksMore(d, r), sent' = sent PROVE Accepted(d, n)'
  BY <1>2 DEF Accepted, AsksMore
<1>3. ASSUME NEW c \in Conns, Received(c) PROVE Accepted(d, n)'
  <2>1. PICK r \in Requests, l \in {"read", "reply", "to_ap"} : ReceivedAs(c, r, l)
    BY <1>3, Zenon DEF Received
  <2>2. AsksMore(c, r)
    BY <2>1, Asking, Zenon DEF ReceivedAs
  <2>3. CASE c = d
    BY <1>2, <2>1, <2>2, <2>3, Zenon DEF ReceivedAs
  <2>4. CASE c # d
    BY <1>1, <2>1, <2>2, <2>4, Zenon DEF ReceivedAs, Moves, AsksMore
  <2>. QED  BY <2>3, <2>4, Zenon
<1>4. ASSUME NEW c \in Conns, Made(c) PROVE Accepted(d, n)'
  <2>1. PICK w \in Workers, r \in Requests, j \in Jobs : MadeAs(c, w, r, j)
    BY <1>4, Zenon DEF Made
  <2>2. AsksMore(c, r)
    BY <2>1, Asking, Zenon DEF MadeAs
  <2>3. CASE c = d
    BY <1>2, <2>1, <2>2, <2>3, Zenon DEF MadeAs
  <2>4. CASE c # d
    BY <1>1, <2>1, <2>2, <2>4, Zenon DEF MadeAs, AsksMore
  <2>. QED  BY <2>3, <2>4, Zenon
<1>5. ASSUME NEW c \in Conns, Created(c) \/ NotCreated(c) \/ Prepared(c) PROVE Accepted(d, n)'
  <2>1. asked' = asked /\ sent' = sent
    BY <1>5, Zenon DEF Created, NotCreated, Prepared
  <2>2. CASE c = d
    <3>1. n = Len(asked[d]) => pc[d] = "log" /\ pc'[d] = "reply" /\ code'[d] = "IN_PROGRESS"
      BY <1>5, <2>2, Zenon DEF Accepted, Created, NotCreated, Prepared, Moves
    <3>. QED  BY <2>1, <3>1, Zenon DEF Accepted
  <2>3. CASE c # d
    <3>1. pc'[d] = pc[d] /\ code'[d] = code[d]
      BY <1>5, <2>3 DEF Created, NotCreated, Prepared, Moves, Spawning
    <3>. QED  BY <1>1, <2>1, <3>1, ZenonT(20)
  <2>. QED  BY <2>2, <2>3, Zenon
<1>6. ASSUME NEW c \in Conns, NEW f \in Frames, RepliedWith(c, f) PROVE Accepted(d, n)'
  <2>1. SendsMore(c, f)
    BY <1>6, Sending, Zenon DEF RepliedWith
  <2>2. CASE c = d
    <3>1. f.seq = n => f.code = "IN_PROGRESS"
      BY <1>6, <2>2, Zenon DEF RepliedWith, Accepted
    <3>2. pc'[d] = "read"
      BY <1>6, <2>2, Zenon DEF RepliedWith, Moves
    <3>. QED  BY <2>1, <2>2, <3>1, <3>2 DEF Accepted, SendsMore
  <2>3. CASE c # d
    BY <1>1, <1>6, <2>1, <2>3, Zenon DEF RepliedWith, Moves, SendsMore
  <2>. QED  BY <2>2, <2>3, Zenon
<1>7. ASSUME NEW w \in Workers, Worked(w) \/ Freed(w) PROVE Accepted(d, n)'
  BY <1>1, <1>7, ConnsStay, Zenon DEF Worked, Freed
<1>8. ASSUME NEW w \in Workers, NEW f \in Frames, NEW c \in Conns, c = job[w].conn,
             DeliveredAs(w, f)
      PROVE  Accepted(d, n)'
  <2>1. SendsMore(c, f) /\ asked' = asked /\ f.type = "PUSH"
    BY <1>8, Sending, Zenon DEF DeliveredAs
  <2>2. pc'[d] = pc[d] /\ code'[d] = code[d]
    BY <1>8, Zenon DEF DeliveredAs, Moves
  <2>3. CASE c = d
    BY <2>1, <2>2, <2>3 DEF Accepted, SendsMore
  <2>4. CASE c # d
    BY <1>1, <2>1, <2>2, <2>4, Zenon DEF SendsMore
  <2>. QED  BY <2>3, <2>4, Zenon
<1>. QED  BY <1>3, <1>4, <1>5, <1>6, <1>7, <1>8, StepCases, Zenon DEF Replied, Delivered, Jobs

\* A worker only starts when its request is to be answered IN_PROGRESS.
LEMMA WorkingStep ==
    ASSUME Inv, Next
    PROVE  Working'
<1>. SUFFICES ASSUME NEW v \in Workers, pc'[v] \notin {"idle", "born"}
              PROVE  Accepted(job[v].conn, job[v].seq)'
  BY Zenon DEF Working
<1>1. SlotStep(v)
  BY SlotSteps, Zenon
<1>2. job'[v] = job[v] /\ pc[v] # "idle"
  BY <1>1, Zenon DEF SlotStep, Inv, JobsMatch
<1>3. PICK c \in Conns, n \in Nat : n \in Owed(c) /\ c = job[v].conn /\ n = job[v].seq
  BY <1>2, Zenon DEF Inv, JobsMatch, Matches, TypeOK, Jobs
<1>4. CASE pc[v] # "born"
  <2>1. Accepted(c, n)
    BY <1>2, <1>3, <1>4, Zenon DEF Inv, Working
  <2>2. Accepted(c, n)'
    BY <1>3, <2>1, AcceptedStep, ZenonT(20)
  <2>. QED  BY <1>2, <1>3, <2>2, Zenon
<1>5. CASE pc[v] = "born"
  <2>1. pc[c] = "spawn" /\ n = Len(asked[c]) /\ spawned[c] = v
    BY <1>3, <1>5, Zenon DEF Inv, Spawning
  <2>2. \A i \in DOMAIN sent[c] : sent[c][i].type = "RESP" => sent[c][i].seq # n
    BY <2>1, Zenon DEF Inv, Answering, AnswersOf
  <2>3. PICK d \in Conns : Created(d) /\ spawned[d] = v
    BY <1>1, <1>5, Zenon DEF SlotStep
  <2>4. Created(c)
    BY <1>3, <2>3, Zenon DEF Created, Inv, Spawning
  <2>5. Accepted(c, n)'
    BY <2>1, <2>2, <2>4, ZenonT(20) DEF Created, Accepted
  <2>. QED  BY <1>2, <1>3, <2>5, Zenon
<1>. QED  BY <1>4, <1>5, Zenon


\* What happens to the sinks: nothing, or an answer is sent, or the PUSH of a
\* job, after whose last one the worker has nothing left to send.
AnswerSent == \E c \in Conns, f \in Frames : f.type = "RESP" /\ SendsMore(c, f)

PushSent(w, c, f) ==
    /\ SendsMore(c, f)
    /\ pc[w] = "push" /\ job[w] \in Jobs /\ job[w].conn = c
    /\ f.type = "PUSH" /\ f.seq = job[w].seq /\ f.cmd = job[w].cmd
    /\ f.code # "MORE" => pc'[w] = "release"
    /\ job' = job /\ asked' = asked

\* Every step is one of the three.
LEMMA FrameSteps ==
    ASSUME Inv, Next
    PROVE  \/ sent' = sent
           \/ AnswerSent
           \/ \E w \in Workers, c \in Conns, f \in Frames : PushSent(w, c, f)
<1>. USE DEF Inv
<1>1. ASSUME NEW c \in Conns, Received(c) \/ Made(c) PROVE sent' = sent
  BY <1>1, Zenon DEF Received, ReceivedAs, Made, MadeAs
<1>2. ASSUME NEW c \in Conns, Created(c) \/ NotCreated(c) \/ Prepared(c) PROVE sent' = sent
  BY <1>2, Zenon DEF Created, NotCreated, Prepared
<1>3. ASSUME NEW c \in Conns, Replied(c) PROVE AnswerSent
  BY <1>3, Sending, Zenon DEF Replied, RepliedWith, AnswerSent
<1>4. ASSUME NEW w \in Workers, Worked(w) \/ Freed(w) PROVE sent' = sent
  BY <1>4, Zenon DEF Worked, Freed
<1>5. ASSUME NEW w \in Workers, Delivered(w)
      PROVE  \E c \in Conns, f \in Frames : PushSent(w, c, f)
  <2>1. PICK f \in Frames : DeliveredAs(w, f)
    BY <1>5, Zenon DEF Delivered
  <2>2. job[w] \in Jobs /\ job[w].conn \in Conns
    BY <1>5, Zenon DEF Delivered, Jobs
  <2>3. SendsMore(job[w].conn, f)
    BY <2>1, <2>2, Sending, Zenon DEF DeliveredAs
  <2>4. PushSent(w, job[w].conn, f)
    BY <2>1, <2>2, <2>3, Zenon DEF DeliveredAs, Moves, PushSent
  <2>. QED  BY <2>2, <2>4, Zenon
<1>. QED  BY <1>1, <1>2, <1>3, <1>4, <1>5, StepCases, Zenon

\* A PUSH is sent by a worker, so its request matches and was accepted.
LEMMA PushedStep ==
    ASSUME Inv, Next
    PROVE  Pushed'
<1>. SUFFICES ASSUME NEW d \in Conns, NEW i \in DOMAIN sent'[d], sent'[d][i].type = "PUSH"
              PROVE  Matches(d, sent[d][i])' /\ Accepted(d, sent[d][i].seq)'
  BY Zenon DEF Pushed
<1>1. Grows
  BY GrowsStep, Zenon
<1>2. ASSUME NEW e, Matches(d, e), Accepted(d, e.seq), sent'[d][i] = e
      PROVE  Matches(d, sent[d][i])' /\ Accepted(d, sent[d][i].seq)'
  <2>1. e.seq \in Owed(d)
    BY <1>2, Zenon DEF Matches
  <2>2. Accepted(d, e.seq)'
    BY <1>2, <2>1, AcceptedStep, Zenon
  <2>3. Matches(d, sent[d][i])'
    BY <1>1, <1>2, <2>1, Zenon DEF Grows, Matches
  <2>. QED  BY <1>2, <2>2, <2>3, Zenon
<1>3. ASSUME i \in DOMAIN sent[d], sent'[d][i] = sent[d][i]
      PROVE  Matches(d, sent[d][i])' /\ Accepted(d, sent[d][i].seq)'
  <2>1. Matches(d, sent[d][i]) /\ Accepted(d, sent[d][i].seq)
    BY <1>3, Zenon DEF Inv, Pushed
  <2>. QED  BY <1>2, <1>3, <2>1, Zenon
<1>4. CASE sent' = sent
  BY <1>3, <1>4, Zenon
<1>5. CASE AnswerSent
  <2>1. PICK c \in Conns, f \in Frames : f.type = "RESP" /\ SendsMore(c, f)
    BY <1>5, Zenon DEF AnswerSent
  <2>2. i \in DOMAIN sent[d] /\ sent'[d][i] = sent[d][i]
    BY <2>1, Zenon DEF SendsMore
  <2>. QED  BY <1>3, <2>2, Zenon
<1>6. ASSUME NEW w \in Workers, NEW c \in Conns, NEW f \in Frames, PushSent(w, c, f)
      PROVE  Matches(d, sent[d][i])' /\ Accepted(d, sent[d][i].seq)'
  <2>1. \/ i \in DOMAIN sent[d] /\ sent'[d][i] = sent[d][i]
        \/ d = c /\ sent'[d][i] = f
    BY <1>6, ZenonT(20) DEF PushSent, SendsMore
  <2>2. Matches(c, f) /\ Accepted(c, f.seq)
    <3>1. job[w] # None
      BY <1>6, JobAssumption, Zenon DEF PushSent
    <3>2. Matches(c, job[w])
      BY <1>6, <3>1, Zenon DEF PushSent, Inv, JobsMatch
    <3>3. Accepted(c, job[w].seq)
      BY <1>6, Zenon DEF PushSent, Inv, Working
    <3>. QED  BY <1>6, <3>2, <3>3, Zenon DEF PushSent, Matches
  <2>. QED  BY <1>2, <1>3, <2>1, <2>2, Zenon
<1>. QED  BY <1>4, <1>5, <1>6, FrameSteps, Zenon

\* No worker has anything left to send after frame e, and neither was anything
\* of its seq sent to d behind frame i.
Over(d, i, e) ==
    /\ \A w \in Workers :
          job[w] # None /\ job[w].conn = d /\ job[w].seq = e.seq => pc[w] \in {"release", "free"}
    /\ \A j \in DOMAIN sent[d] : i < j /\ sent[d][j].type = "PUSH" => e.seq # sent[d][j].seq

\* What is over stays over: a worker past its last PUSH only releases and
\* frees, and a new job has a new seq.
LEMMA OverStep ==
    ASSUME Inv, Next, NEW d \in Conns, NEW i \in DOMAIN sent[d], Final(sent[d][i]),
           sent'[d][i] = sent[d][i]
    PROVE  Over(d, i, sent[d][i])'
<1>0. PICK e : e = sent[d][i]
  OBVIOUS
<1>1. Over(d, i, e)
  BY <1>0, ZenonT(20) DEF Inv, Ending, Over
<1>2. e.seq \in Owed(d)
  BY <1>0, Zenon DEF Inv, Pushed, Final, Matches
<1>3. e.seq \in 1 .. Len(asked[d]) /\ Len(asked[d]) \in Nat
  BY <1>2, GrowsStep DEF Grows, Inv, TypeOK
<1>4. ASSUME NEW v \in Workers, job'[v] # None, job'[v].conn = d, job'[v].seq = e.seq
      PROVE  pc'[v] \in {"release", "free"}
  <2>1. SlotStep(v)
    BY SlotSteps, ZenonT(20)
  <2>2. job'[v] = job[v]
    BY <1>3, <1>4, <2>1 DEF SlotStep
  <2>3. pc[v] \in {"release", "free"}
    BY <1>1, <1>4, <2>2, Zenon DEF Over
  <2>. QED  BY <1>4, <2>1, <2>3, Zenon DEF SlotStep
<1>5. ASSUME NEW j \in DOMAIN sent'[d], i < j, sent'[d][j].type = "PUSH"
      PROVE  e.seq # sent'[d][j].seq
  <2>1. ASSUME j \in DOMAIN sent[d], sent'[d][j] = sent[d][j] PROVE e.seq # sent'[d][j].seq
    BY <1>1, <1>5, <2>1, Zenon DEF Over
  <2>2. CASE sent' = sent
    BY <2>1, <2>2, Zenon
  <2>3. CASE AnswerSent
    <3>1. PICK c \in Conns, f \in Frames : f.type = "RESP" /\ SendsMore(c, f)
      BY <2>3, Zenon DEF AnswerSent
    <3>2. j \in DOMAIN sent[d] /\ sent'[d][j] = sent[d][j]
      BY <1>5, <3>1, Zenon DEF SendsMore
    <3>. QED  BY <2>1, <3>2, Zenon
  <2>4. ASSUME NEW w \in Workers, NEW c \in Conns, NEW f \in Frames, PushSent(w, c, f)
        PROVE  e.seq # sent'[d][j].seq
    <3>1. \/ j \in DOMAIN sent[d] /\ sent'[d][j] = sent[d][j]
          \/ d = c /\ sent'[d][j] = f
      BY <2>4, ZenonT(20) DEF PushSent, SendsMore
    <3>2. job[w] # None
      BY <2>4, JobAssumption, Zenon DEF PushSent
    <3>3. d = c => job[w].seq # e.seq
      BY <1>1, <2>4, <3>2, Zenon DEF Over, PushSent
    <3>. QED  BY <2>1, <2>4, <3>1, <3>3, Zenon DEF PushSent
  <2>. QED  BY <2>2, <2>3, <2>4, FrameSteps, Zenon
<1>6. e = sent'[d][i]
  BY <1>0, Zenon
<1>. QED  BY <1>4, <1>5, <1>6, Zenon DEF Over

\* The PUSH that ends a list is the last of its job, and no other job has its seq.
LEMMA EndingStep ==
    ASSUME Inv, Next
    PROVE  Ending'
<1>. SUFFICES ASSUME NEW d \in Conns, NEW i \in DOMAIN sent'[d], Final(sent[d][i])'
              PROVE  Over(d, i, sent[d][i])'
  BY Zenon DEF Ending, Over
<1>1. ASSUME i \in DOMAIN sent[d], sent'[d][i] = sent[d][i]
      PROVE  Over(d, i, sent[d][i])'
  <2>1. Final(sent[d][i])
    BY <1>1, Zenon DEF Final
  <2>. QED  BY <1>1, <2>1, OverStep, Zenon
<1>2. CASE sent' = sent
  BY <1>1, <1>2, Zenon
<1>3. CASE AnswerSent
  <2>1. PICK c \in Conns, f \in Frames : f.type = "RESP" /\ SendsMore(c, f)
    BY <1>3, Zenon DEF AnswerSent
  <2>2. i \in DOMAIN sent[d] /\ sent'[d][i] = sent[d][i]
    BY <2>1, Zenon DEF SendsMore, Final
  <2>. QED  BY <1>1, <2>2, Zenon
<1>4. ASSUME NEW w \in Workers, NEW c \in Conns, NEW f \in Frames, PushSent(w, c, f)
      PROVE  Over(d, i, sent[d][i])'
  <2>1. \/ i \in DOMAIN sent[d] /\ sent'[d][i] = sent[d][i]
        \/ d = c /\ i = Len(sent[d]) + 1 /\ sent'[d][i] = f
    BY <1>4, ZenonT(20) DEF PushSent, SendsMore
  <2>2. ASSUME d = c, i = Len(sent[d]) + 1, sent'[d][i] = f
        PROVE  Over(d, i, sent[d][i])'
    <3>1. ASSUME NEW v \in Workers, job'[v] # None, job'[v].conn = d, job'[v].seq = f.seq
          PROVE  pc'[v] \in {"release", "free"}
      <4>1. v = w
        BY <1>4, <2>2, <3>1, JobAssumption, ZenonT(20) DEF PushSent, Inv, OneJobEach
      <4>. QED  BY <1>4, <2>2, <4>1, Zenon DEF PushSent, Final
    <3>2. \A j \in DOMAIN sent'[d] : ~(i < j)
      BY <1>4, <2>2 DEF PushSent, SendsMore
    <3>. QED  BY <2>2, <3>1, <3>2, Zenon DEF Over
  <2>. QED  BY <1>1, <2>1, <2>2, Zenon
<1>. QED  BY <1>2, <1>3, <1>4, FrameSteps, Zenon

\* What happens to the pending credentials: nothing, or a request is taken, and
\* they become what it gives.
AskSteps ==
    \/ asked' = asked /\ ssid' = ssid /\ passwd' = passwd
    \/ \E c \in Conns, r \in Requests :
          /\ AsksMore(c, r)
          /\ ssid' = IF r.cmd = "SSID" /\ r.arg # None THEN r.arg ELSE ssid
          /\ passwd' = IF r.cmd = "PASSWD" /\ r.arg # None THEN r.arg ELSE passwd

\* Every step is one of the two.
LEMMA AskingSteps ==
    ASSUME Inv, Next
    PROVE  AskSteps
<1>. USE DEF Inv
<1>1. ASSUME NEW c \in Conns, Received(c) PROVE AskSteps
  <2>1. PICK r \in Requests, l \in {"read", "reply", "to_ap"} : ReceivedAs(c, r, l)
    BY <1>1, Zenon DEF Received
  <2>2. AsksMore(c, r)
    BY <2>1, Asking, Zenon DEF ReceivedAs
  <2>. QED  BY <2>1, <2>2, Zenon DEF ReceivedAs, AskSteps
<1>2. ASSUME NEW c \in Conns, Made(c) PROVE AskSteps
  <2>1. PICK w \in Workers, r \in Requests, j \in Jobs : MadeAs(c, w, r, j)
    BY <1>2, Zenon DEF Made
  <2>2. AsksMore(c, r)
    BY <2>1, Asking, Zenon DEF MadeAs
  <2>. QED  BY <2>1, <2>2, Zenon DEF MadeAs, AskSteps
<1>3. ASSUME NEW c \in Conns, Created(c) \/ NotCreated(c) \/ Prepared(c) \/ Replied(c)
      PROVE  AskSteps
  BY <1>3, Zenon DEF Created, NotCreated, Prepared, Replied, RepliedWith, AskSteps
<1>4. ASSUME NEW w \in Workers, Worked(w) \/ Delivered(w) \/ Freed(w) PROVE AskSteps
  BY <1>4, ConnsStay, Zenon DEF AskSteps
<1>. QED  BY <1>1, <1>2, <1>3, <1>4, StepCases, Zenon

\* The value given last among the first n requests stays it,
LEMMA LastGivenStays ==
    ASSUME NEW c \in Conns, NEW cmd, NEW n \in Nat, NEW x, LastGiven(c, cmd, n, x),
           \A k \in 1 .. n : asked'[c][k] = asked[c][k]
    PROVE  LastGiven(c, cmd, n, x)'
<1>1. \A k \in 1 .. n : Given(c, cmd, k)' <=> Given(c, cmd, k)
  BY Zenon DEF Given
<1>2. CASE x = None /\ \A k \in 1 .. n : ~Given(c, cmd, k)
  BY <1>1, <1>2, Zenon DEF LastGiven
<1>3. ASSUME NEW k \in 1 .. n, Given(c, cmd, k), x = asked[c][k].arg,
             \A m \in k + 1 .. n : ~Given(c, cmd, m)
      PROVE  LastGiven(c, cmd, n, x)'
  BY <1>1, <1>3 DEF LastGiven
<1>. QED  BY <1>2, <1>3, Zenon DEF LastGiven

\* and one more request changes it only by giving a new one.
LEMMA LastGivenNext ==
    ASSUME NEW c \in Conns, NEW cmd, NEW n \in Nat, NEW x, LastGiven(c, cmd, n, x),
           \A k \in 1 .. n : asked'[c][k] = asked[c][k],
           NEW y, y = IF Given(c, cmd, n + 1)' THEN asked'[c][n + 1].arg ELSE x
    PROVE  LastGiven(c, cmd, n + 1, y)'
<1>1. \A k \in 1 .. n : Given(c, cmd, k)' <=> Given(c, cmd, k)
  BY Zenon DEF Given
<1>2. CASE Given(c, cmd, n + 1)'
  BY <1>2 DEF LastGiven
<1>3. CASE ~Given(c, cmd, n + 1)' /\ x = None /\ \A k \in 1 .. n : ~Given(c, cmd, k)
  BY <1>1, <1>3 DEF LastGiven
<1>4. ASSUME ~Given(c, cmd, n + 1)', NEW k \in 1 .. n, Given(c, cmd, k), x = asked[c][k].arg,
             \A m \in k + 1 .. n : ~Given(c, cmd, m)
      PROVE  LastGiven(c, cmd, n + 1, y)'
  BY <1>1, <1>4 DEF LastGiven
<1>. QED  BY <1>2, <1>3, <1>4, Zenon DEF LastGiven

\* A connection that has sent credentials will always have sent them.
LEMMA AloneBefore ==
    ASSUME Inv, Next, NEW c \in Conns, Alone(c)'
    PROVE  Alone(c)
<1>1. CASE asked' = asked
  BY <1>1, Zenon DEF Alone
<1>2. ASSUME NEW d \in Conns, NEW r \in Requests, AsksMore(d, r) PROVE Alone(c)
  BY <1>2 DEF Alone, AsksMore
<1>. QED  BY <1>1, <1>2, AskingSteps, Zenon DEF AskSteps

\* The pending credentials follow what the only client that sends any sends.
LEMMA PendingStep ==
    ASSUME Inv, Next
    PROVE  Pending'
<1>. SUFFICES ASSUME NEW c \in Conns, Alone(c)'
              PROVE  /\ LastGiven(c, "SSID", Len(asked[c]), ssid)'
                     /\ LastGiven(c, "PASSWD", Len(asked[c]), passwd)'
  BY Zenon DEF Pending
<1>1. /\ LastGiven(c, "SSID", Len(asked[c]), ssid)
      /\ LastGiven(c, "PASSWD", Len(asked[c]), passwd)
  BY AloneBefore, Zenon DEF Inv, Pending
<1>2. Len(asked[c]) \in Nat
  BY DEF Inv, TypeOK
<1>3. ASSUME asked'[c] = asked[c], ssid' = ssid, passwd' = passwd
      PROVE  /\ LastGiven(c, "SSID", Len(asked[c]), ssid)'
             /\ LastGiven(c, "PASSWD", Len(asked[c]), passwd)'
  BY <1>1, <1>2, <1>3, LastGivenStays, Zenon
<1>4. ASSUME NEW d \in Conns, NEW r \in Requests, AsksMore(d, r),
             ssid' = IF r.cmd = "SSID" /\ r.arg # None THEN r.arg ELSE ssid,
             passwd' = IF r.cmd = "PASSWD" /\ r.arg # None THEN r.arg ELSE passwd
      PROVE  /\ LastGiven(c, "SSID", Len(asked[c]), ssid)'
             /\ LastGiven(c, "PASSWD", Len(asked[c]), passwd)'
  <2>1. CASE d = c
    <3>1. PICK n \in Nat : n = Len(asked[c])
      BY <1>2, Zenon
    <3>2. /\ Len(asked'[c]) = n + 1
          /\ \A k \in 1 .. n : asked'[c][k] = asked[c][k]
          /\ asked'[c][n + 1] = r
      BY <1>4, <2>1, <3>1, Zenon DEF AsksMore
    <3>3. /\ ssid' = IF Given(c, "SSID", n + 1)' THEN asked'[c][n + 1].arg ELSE ssid
          /\ passwd' = IF Given(c, "PASSWD", n + 1)' THEN asked'[c][n + 1].arg ELSE passwd
      BY <1>4, <3>2, Zenon DEF Given
    <3>4. LastGiven(c, "SSID", n + 1, ssid)'
      BY <1>1, <3>1, <3>2, <3>3, LastGivenNext, Zenon
    <3>5. LastGiven(c, "PASSWD", n + 1, passwd)'
      BY <1>1, <3>1, <3>2, <3>3, LastGivenNext, Zenon
    <3>. QED  BY <3>2, <3>4, <3>5, Zenon
  <2>2. CASE d # c
    <3>1. asked'[c] = asked[c]
      BY <1>4, <2>2, Zenon DEF AsksMore
    <3>2. r.cmd \notin {"SSID", "PASSWD"}
      BY <1>4, <2>2 DEF AsksMore, Alone
    <3>3. ssid' = ssid /\ passwd' = passwd
      BY <1>4, <3>2, Zenon
    <3>. QED  BY <1>3, <3>1, <3>3, Zenon
  <2>. QED  BY <2>1, <2>2, Zenon
<1>. QED  BY <1>3, <1>4, AskingSteps, Zenon DEF AskSteps

\* A new CONNECT job takes what is pending, an old one keeps what it took.
LEMMA JoinsStep ==
    ASSUME Inv, Next
    PROVE  JoinsWhatWasStored'
<1>. SUFFICES ASSUME NEW v \in Workers, job'[v] # None, job'[v].cmd = "CONNECT",
                     Alone(job[v].conn)'
              PROVE  /\ LastGiven(job[v].conn, "SSID", job[v].seq, job[v].ssid)'
                     /\ LastGiven(job[v].conn, "PASSWD", job[v].seq, job[v].passwd)'
  BY Zenon DEF JoinsWhatWasStored
<1>1. SlotStep(v) /\ TypeOK /\ JobsMatch
  BY SlotSteps, Zenon DEF Inv
<1>2. CASE job'[v] = job[v]
  <2>1. PICK j \in Jobs : j = job[v]
    BY <1>1, <1>2, Zenon DEF TypeOK
  <2>2. j.conn \in Conns /\ j.seq \in Nat
    BY <2>1, Zenon DEF Jobs
  <2>3. Alone(j.conn)
    BY <1>2, <2>1, <2>2, AloneBefore, Zenon
  <2>4. /\ LastGiven(j.conn, "SSID", j.seq, j.ssid)
        /\ LastGiven(j.conn, "PASSWD", j.seq, j.passwd)
    BY <1>2, <2>1, <2>3, Zenon DEF Inv, JoinsWhatWasStored
  <2>5. j.seq \in Owed(j.conn)
    BY <1>1, <1>2, <2>1, Zenon DEF JobsMatch, Matches
  <2>6. \A k \in 1 .. j.seq : asked'[j.conn][k] = asked[j.conn][k]
    <3>1. CASE asked' = asked
      BY <3>1, Zenon
    <3>2. ASSUME NEW d \in Conns, NEW r \in Requests, AsksMore(d, r)
          PROVE  \A k \in 1 .. j.seq : asked'[j.conn][k] = asked[j.conn][k]
      <4>1. CASE d = j.conn
        BY <2>2, <2>5, <3>2, <4>1 DEF AsksMore
      <4>2. CASE d # j.conn
        BY <2>2, <3>2, <4>2, Zenon DEF AsksMore
      <4>. QED  BY <4>1, <4>2, Zenon
    <3>. QED  BY <3>1, <3>2, AskingSteps, Zenon DEF AskSteps
  <2>7. LastGiven(j.conn, "SSID", j.seq, j.ssid)'
    BY <2>2, <2>4, <2>6, LastGivenStays, Zenon
  <2>8. LastGiven(j.conn, "PASSWD", j.seq, j.passwd)'
    BY <2>2, <2>4, <2>6, LastGivenStays, Zenon
  <2>. QED  BY <1>2, <2>1, <2>7, <2>8, Zenon
<1>3. CASE pc[v] = "idle" /\ pc'[v] = "born" /\ job'[v] # job[v]
  <2>1. PICK j \in Jobs : /\ j = job'[v] /\ j.seq = Len(asked[j.conn]) + 1
                          /\ j.ssid = ssid /\ j.passwd = passwd
                          /\ Matches(job[v].conn, job[v])'
    BY <1>1, <1>3, ZenonT(20) DEF SlotStep
  <2>2. PICK c \in Conns, n \in Nat : c = j.conn /\ n = Len(asked[c]) /\ j.seq = n + 1
    BY <1>1, <2>1 DEF Jobs, TypeOK
  <2>3. LastGiven(c, "SSID", n, ssid) /\ LastGiven(c, "PASSWD", n, passwd)
    BY <2>1, <2>2, AloneBefore, Zenon DEF Inv, Pending
  <2>4. n + 1 \in Owed(c)' /\ asked'[c][n + 1].cmd = "CONNECT"
    BY <2>1, <2>2, Zenon DEF Matches
  <2>5. \A k \in 1 .. n : asked'[c][k] = asked[c][k]
    <3>1. CASE asked' = asked
      BY <3>1, Zenon
    <3>2. ASSUME NEW d \in Conns, NEW r \in Requests, AsksMore(d, r)
          PROVE  \A k \in 1 .. n : asked'[c][k] = asked[c][k]
      BY <2>2, <3>2, Zenon DEF AsksMore
    <3>. QED  BY <3>1, <3>2, AskingSteps, Zenon DEF AskSteps
  <2>6. ~Given(c, "SSID", n + 1)' /\ ~Given(c, "PASSWD", n + 1)'
    BY <2>4, Zenon DEF Given
  <2>7. LastGiven(c, "SSID", n + 1, j.ssid)'
    BY <2>1, <2>3, <2>5, <2>6, LastGivenNext, Zenon
  <2>8. LastGiven(c, "PASSWD", n + 1, j.passwd)'
    BY <2>1, <2>3, <2>5, <2>6, LastGivenNext, Zenon
  <2>. QED  BY <2>1, <2>2, <2>7, <2>8, Zenon
<1>. QED  BY <1>1, <1>2, <1>3, Zenon DEF SlotStep
-----------------------------------------------------------------------------
\* No request was taken and no job made.
LEMMA InitInv ==
    ASSUME Init
    PROVE  Inv
<1>1. TypeOK
  BY ActorAssumption DEF Init, TypeOK, Threads, ConnPc, WorkerPc, Codes
<1>2. /\ \A c \in Conns : pc[c] = "read" /\ DOMAIN asked[c] = {} /\ DOMAIN sent[c] = {}
      /\ \A w \in Workers : pc[w] = "idle" /\ job[w] = None
      /\ \A c \in Conns : Owed(c) = {} /\ Len(asked[c]) = 0
      /\ ssid = None /\ passwd = None
  BY ActorAssumption DEF Init, Threads, Owed
<1>3. Handling /\ Answering /\ JobsMatch /\ OneJobEach /\ Spawning
  BY <1>2, Zenon DEF Handling, Answering, AnswersOf, JobsMatch, OneJobEach, Spawning
<1>4. Working /\ Counting /\ Pushed /\ Ending
  BY <1>2, ZenonT(20) DEF Working, Counting, Pushed, Ending
<1>5. Pending /\ JoinsWhatWasStored
  BY <1>2 DEF Pending, LastGiven, JoinsWhatWasStored
<1>. QED  BY <1>1, <1>3, <1>4, <1>5, Zenon DEF Inv

\* A step of the rest of the daemon changes nothing.
LEMMA InvStays ==
    ASSUME Inv, UNCHANGED vars
    PROVE  Inv'
<1>. USE DEF vars, Inv
<1>1. TypeOK' /\ OneJobEach' /\ Spawning' /\ Counting'
  BY DEF TypeOK, OneJobEach, Spawning, Counting
<1>2. \A c \in Conns : Owed(c)' = Owed(c)
  BY Zenon DEF Owed
<1>3. Handling' /\ Answering'
  BY <1>2, SameConn, ZenonT(20) DEF Handling, Answering
<1>4. JobsMatch' /\ Working'
  BY ZenonT(20) DEF JobsMatch, Matches, Owed, Working, Accepted
<1>5. Pushed' /\ Ending'
  <2>1. sent' = sent /\ job' = job /\ pc' = pc /\ asked' = asked /\ code' = code
    BY Zenon
  <2>2. \A c, n : Accepted(c, n) => Accepted(c, n)'
    BY <2>1, Zenon DEF Accepted
  <2>3. Pushed'
    BY <1>2, <2>1, <2>2, ZenonT(20) DEF Pushed, Matches
  <2>4. Ending'
    <3>1. Ending
      BY Zenon
    <3>. HIDE DEF vars, Inv
    <3>. QED  BY <2>1, <3>1, SMTT(20) DEF Ending, Final
  <2>. QED  BY <2>3, <2>4
<1>6. ASSUME NEW c, Alone(c)' PROVE Alone(c)
  BY <1>6, ZenonT(20) DEF Alone
<1>7. ASSUME NEW c, NEW cmd, NEW n, NEW x, LastGiven(c, cmd, n, x)
      PROVE  LastGiven(c, cmd, n, x)'
  BY <1>7, Zenon DEF LastGiven, Given
<1>8. Pending'
  BY <1>6, <1>7, Zenon DEF Pending
<1>9. JoinsWhatWasStored'
  BY <1>6, <1>7, Zenon DEF JoinsWhatWasStored
<1>. QED  BY <1>1, <1>3, <1>4, <1>5, <1>8, <1>9, ZenonT(20)

\* The invariant is inductive.
LEMMA InvStep ==
    ASSUME Inv, Next
    PROVE  Inv'
<1>1. TypeOK'
  BY TypeStep, Zenon DEF Inv
<1>. QED
  BY <1>1, HandlingStep, AnsweringStep, JobsMatchStep, OneJobEachStep, SpawningStep, WorkingStep,
     CountingStep, PushedStep, EndingStep, PendingStep, JoinsStep, Zenon
     DEF Inv

\* The state of the dispatcher is well-formed, and each of its parts is where
\* the others need it to be.
THEOREM Invariance == Spec => []Inv
<1>1. Inv /\ [Next]_vars => Inv'
  BY InvStep, InvStays, Zenon
<1>. QED  BY <1>1, InitInv, PTL DEF Spec

\* Every request gets one RESP, under its own seq and in the order of the
\* requests, whatever the workers of earlier requests push in between.
THEOREM AnswersInOrder == Spec => []AnsweredInOrder
<1>1. Inv => AnsweredInOrder
  BY Zenon DEF Inv, Answering, AnswersOf, AnsweredInOrder
<1>. QED  BY <1>1, Invariance, PTL

\* A PUSH goes to the client whose request it belongs to, never for a request
\* that was refused, and none comes after the one that ends the list.
THEOREM PushesForRequests == Spec => []PushesMatchRequests
<1>1. ASSUME Inv PROVE PushesMatchRequests
  <2>1. ASSUME NEW c \in Conns, NEW i \in DOMAIN sent[c], sent[c][i].type = "PUSH",
               NEW j \in 1 .. i - 1, Final(sent[c][j])
        PROVE  sent[c][j].seq # sent[c][i].seq
    <3>1. j \in DOMAIN sent[c] /\ j < i
      BY <1>1, <2>1 DEF Inv, TypeOK
    <3>. QED  BY <1>1, <2>1, <3>1, Zenon DEF Inv, Ending
  <2>. QED  BY <1>1, <2>1, Zenon DEF Inv, Pushed, Accepted, PushesMatchRequests
<1>. QED  BY <1>1, Invariance, PTL

\* A CONNECT joins with the credentials its own client stored last before it.
THEOREM JoinsStored == Spec => []JoinsWhatWasStored
<1>1. Inv => JoinsWhatWasStored
  BY Zenon DEF Inv
<1>. QED  BY <1>1, Invariance, PTL
=============================================================================
