------------------------------- MODULE HomeFile -------------------------------
(***************************************************************************)
(* The file with the home network's credentials: workers that have joined  *)
(* a network store it with wifi_switch_persist_home_wifi, which runs       *)
(* without the switch's mutex, and atomic_write_file gives every writer    *)
(* the same temporary name.  The A733's does the same but for two error    *)
(* paths: when fopen fails it returns without unlinking the name, which    *)
(* changes nothing, and when fputs fails it also leaks the open stream.    *)
(*                                                                         *)
(* Files are inodes: a writer goes on writing to the inode it has opened,  *)
(* whatever name that has by then.  A body is a writer's text, whole, or   *)
(* Empty, or Torn.  The texts are short enough for fclose to write them at *)
(* once.                                                                   *)
(***************************************************************************)
EXTENDS Integers

CONSTANTS Writers, Inodes, Empty, Torn

ASSUME HomeAssumption == 0 \notin Inodes /\ Empty # Torn /\ Writers \cap {Empty, Torn} = {}

VARIABLES
    conf,   \* the inode of HOME_WIFI_CONF
    tmp,    \* the inode of HOME_WIFI_CONF.new, 0 if there is none
    body,   \* body[n]
    wat,    \* wat[w]: where w is in atomic_write_file
    wfd,    \* wfd[w]: the inode w has open, 0 if none
    spoilt  \* history: two writers met, or the file was lost with the power, since
            \* it was last written by one alone

homeVars == <<conf, tmp, body, wat, wfd, spoilt>>

NoFd == [w \in Writers |-> 0]
Outside == [w \in Writers |-> "out"]

HomeInit ==
    /\ conf \in Inodes /\ tmp = 0
    /\ \E w \in Writers : body = [n \in Inodes |-> w]
    /\ wat = Outside /\ wfd = NoFd
    /\ spoilt = FALSE

Others(w) == {v \in Writers \ {w} : wat[v] # "out"}

\* Mutant: the file is opened for writing under its own name.
FopenTmpInPlace(w) ==
    /\ wat[w] = "out"
    /\ wfd' = [wfd EXCEPT ![w] = conf]
    /\ body' = [body EXCEPT ![conf] = Empty]
    /\ tmp' = conf
    /\ wat' = [wat EXCEPT ![w] = "write"]
    /\ spoilt' = (spoilt \/ Others(w) # {})
    /\ UNCHANGED conf

\* fopen(tmp, "w"): a new file, or the one that is there is truncated.
FopenTmp(w) ==
    /\ wat[w] = "out"
    /\ \E n \in Inodes :
          /\ IF tmp # 0 THEN n = tmp
             ELSE n # conf /\ \A v \in Writers : n # wfd[v]
          /\ tmp' = n
          /\ wfd' = [wfd EXCEPT ![w] = n]
          /\ body' = [body EXCEPT ![n] = Empty]
    /\ wat' = [wat EXCEPT ![w] = "write"]
    /\ spoilt' = (spoilt \/ Others(w) # {})
    /\ UNCHANGED conf

\* fopen fails; the name is unlinked all the same.
FopenFails(w) ==
    /\ wat[w] = "out"
    /\ wat' = [wat EXCEPT ![w] = "unlink"]
    /\ spoilt' = (spoilt \/ Others(w) # {})
    /\ UNCHANGED <<conf, tmp, body, wfd>>

Close(w, at) ==
    /\ wfd' = [wfd EXCEPT ![w] = 0]
    /\ wat' = [wat EXCEPT ![w] = at]
    /\ UNCHANGED <<conf, tmp, spoilt>>

\* fwrite and fclose; what a longer text of another writer has in excess stays.
WriteBody(w) ==
    /\ wat[w] = "write"
    /\ \E b \in {w} \cup (IF body[wfd[w]] = Empty THEN {} ELSE {Torn}) :
          body' = [body EXCEPT ![wfd[w]] = b]
    /\ Close(w, "rename")

\* Mutant: the short write goes unnoticed.
WriteFailsSilently(w) ==
    /\ wat[w] = "write"
    /\ \E b \in {body[wfd[w]], Torn} : body' = [body EXCEPT ![wfd[w]] = b]
    /\ Close(w, "rename")

\* A short write or a failed close.
WriteFails(w) ==
    /\ wat[w] = "write"
    /\ \E b \in {body[wfd[w]], Torn} : body' = [body EXCEPT ![wfd[w]] = b]
    /\ Close(w, "unlink")

\* The temporary name is another writer's by now, or gone: -1 (ENOENT).
RenameTmp(w) ==
    /\ wat[w] = "rename"
    /\ IF tmp # 0
       THEN /\ conf' = tmp /\ tmp' = 0
            /\ wat' = [wat EXCEPT ![w] = "out"]
            /\ spoilt' = (spoilt /\ Others(w) # {})
       ELSE /\ wat' = [wat EXCEPT ![w] = "unlink"]
            /\ UNCHANGED <<conf, tmp, spoilt>>
    /\ UNCHANGED <<body, wfd>>

\* A rename that fails for another reason, which unlinks the file as well.
RenameFails(w) ==
    /\ wat[w] = "rename"
    /\ wat' = [wat EXCEPT ![w] = "unlink"]
    /\ UNCHANGED <<conf, tmp, body, wfd, spoilt>>

UnlinkTmp(w) ==
    /\ wat[w] = "unlink"
    /\ tmp' = 0
    /\ wat' = [wat EXCEPT ![w] = "out"]
    /\ UNCHANGED <<conf, body, wfd, spoilt>>

\* The daemon is killed, and started again.
KillDaemon ==
    /\ wat # Outside
    /\ wat' = Outside /\ wfd' = NoFd
    /\ UNCHANGED <<conf, tmp, body, spoilt>>

\* The power fails.  Neither the text nor the rename was synced: the name may
\* have its file without the text, and the temporary name may be gone.  (That
\* the rename itself is lost, and the old file is back, is left out.)
LosePower ==
    /\ wat' = Outside /\ wfd' = NoFd
    /\ tmp' \in {tmp, 0}
    /\ \/ UNCHANGED <<body, spoilt>>
       \/ body' = [body EXCEPT ![conf] = Empty] /\ spoilt' = TRUE
    /\ UNCHANGED conf

HomeNext ==
    \/ \E w \in Writers : \/ FopenTmp(w) \/ FopenFails(w) \/ WriteBody(w) \/ WriteFails(w)
                          \/ RenameTmp(w) \/ RenameFails(w) \/ UnlinkTmp(w)
    \/ KillDaemon \/ LosePower

HomeSpec == HomeInit /\ [][HomeNext]_homeVars
-----------------------------------------------------------------------------
(* Properties *)

\* "Atomic via write-then-rename so a crash mid-write cannot leave an empty
\* file" (wifi_switch.h:61-62): unless two workers store at the same time, the
\* file holds the whole text of one of them, wherever the daemon is killed and
\* whatever a killed one or a failed write has left behind.  A loss of power may
\* leave it empty, since nothing is synced, until a worker alone stores again.
HomeWhole == ~spoilt => body[conf] \in Writers

Honest ==
    ~spoilt /\ ~spoilt' =>
        \/ body'[conf'] = body[conf]
        \/ \E w \in Writers : wat[w] = "rename" /\ wat'[w] = "out" /\ body'[conf'] = w

\* What a reader finds changes only when a call of atomic_write_file returns 0,
\* to the text of that call: a worker alone that gets -1 has left the file as
\* it was (unless the file is lost with the power).
PersistHonest == [][Honest]_homeVars
-----------------------------------------------------------------------------
(* The inductive invariant behind both *)

HomeTypeOK ==
    /\ conf \in Inodes /\ tmp \in Inodes \cup {0}
    /\ body \in [Inodes -> Writers \cup {Empty, Torn}]
    /\ wat \in [Writers -> {"out", "write", "rename", "unlink"}]
    /\ wfd \in [Writers -> Inodes \cup {0}]
    /\ spoilt \in BOOLEAN

\* A writer that is alone, with a temporary file there, has opened that file
\* itself since anybody else left: whoever leaves takes the name away.
Alone ==
    \A w \in Writers :
        Others(w) = {} /\ tmp # 0 =>
            /\ wat[w] = "write" => wfd[w] = tmp /\ body[tmp] = Empty
            /\ wat[w] = "rename" => body[tmp] = w

HomeInv ==
    /\ HomeTypeOK
    /\ tmp # conf
    /\ \A w \in Writers : wat[w] = "write" => wfd[w] # 0
    /\ Alone
    /\ ~spoilt => /\ body[conf] \in Writers
                  /\ \A w \in Writers : /\ wat[w] # "out" => Others(w) = {}
                                        /\ wat[w] = "write" => wfd[w] = tmp
=============================================================================
