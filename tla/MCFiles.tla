------------------------------- MODULE MCFiles -------------------------------
(***************************************************************************)
(* What the daemon keeps on the disk: its log (LogPrint and LogRotate),    *)
(* the kernel's log (KmsgLog), the statistics (SysStat), the home          *)
(* network's credentials (HomeFile) and the time zone (TimeSync).  They    *)
(* share no state, so that one of them runs and the others stay in an      *)
(* initial state.                                                          *)
(***************************************************************************)
EXTENDS LogPrint, KmsgLog, SysStat, HomeFile, TimeSync

CONSTANTS t1, t2, w1, w2

VARIABLE runs   \* the one that runs

filesVars == <<logVars, kmsgVars, statVars, homeVars, timeVars, runs>>

LogIdle == LogInit /\ now_index = 0
KmsgIdle == KmsgInit /\ logged = 0
StatIdle == StatInit /\ procs = [p \in Pids |-> -1]
HomeIdle == HomeInit /\ conf = 1 /\ body = [m \in Inodes |-> w1]

TimeIdle == TimeInit /\ tat = "end" /\ installed

FilesInit ==
    \/ runs = "log" /\ LogInit /\ KmsgIdle /\ StatIdle /\ HomeIdle /\ TimeIdle
    \/ runs = "kmsg" /\ LogIdle /\ KmsgInit /\ StatIdle /\ HomeIdle /\ TimeIdle
    \/ runs = "stat" /\ LogIdle /\ KmsgIdle /\ StatInit /\ HomeIdle /\ TimeIdle
    \/ runs = "home" /\ LogIdle /\ KmsgIdle /\ StatIdle /\ HomeInit /\ TimeIdle
    \/ runs = "time" /\ LogIdle /\ KmsgIdle /\ StatIdle /\ HomeIdle /\ TimeInit

FilesNext ==
    /\ \/ runs = "log" /\ LogNext /\ UNCHANGED <<kmsgVars, statVars, homeVars, timeVars>>
       \/ runs = "kmsg" /\ KmsgNext /\ UNCHANGED <<logVars, statVars, homeVars, timeVars>>
       \/ runs = "stat" /\ StatNext /\ UNCHANGED <<logVars, kmsgVars, homeVars, timeVars>>
       \/ runs = "home" /\ HomeNext /\ UNCHANGED <<logVars, kmsgVars, statVars, timeVars>>
       \/ runs = "time" /\ TimeNext /\ UNCHANGED <<logVars, kmsgVars, statVars, homeVars>>
    /\ UNCHANGED runs

FilesSpec == FilesInit /\ [][FilesNext]_filesVars
=============================================================================
