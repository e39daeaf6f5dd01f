------------------------------- MODULE TimeSync -------------------------------
(***************************************************************************)
(* time_sync_thread (time_sync.c): it points /etc/localtime at a zone,     *)
(* then, again and again, looks for the Internet, sets the clock with ntpd *)
(* and saves it in the RTC (the two clocks are not state of the model).    *)
(* The daemon may be killed at any step and is started again.              *)
(***************************************************************************)
EXTENDS Integers

CONSTANTS
    OldZone,   \* the zone of the image
    Zone,      \* "Asia/Shanghai"
    NoFile

VARIABLES
    installed,   \* /usr/share/zoneinfo has Zone
    localtime,   \* what /etc/localtime points at
    new,         \* what /etc/localtime.new points at
    tz,          \* TZ of the process
    tat,         \* where the thread is
    refused      \* history: a call of the file system failed since the start

timeVars == <<installed, localtime, new, tz, tat, refused>>
zoneVars == <<installed, localtime, new, tz, refused>>

TimeInit ==
    /\ installed \in BOOLEAN
    /\ localtime = OldZone /\ new = NoFile /\ tz = NoFile
    /\ tat \in {"access", "end"}   \* on the A733 only root goes on
    /\ refused = FALSE

\* A step of set_system_timezone that may fail, in which case it returns.
TzStep(at, next, failing) ==
    /\ tat = at
    /\ tat' = IF failing THEN "probe" ELSE next
    /\ UNCHANGED installed

Access ==
    /\ TzStep("access", "unlink", ~installed)
    /\ UNCHANGED <<localtime, new, tz, refused>>

\* Mutant: what an earlier start has left behind is not removed.
UnlinkNewNot ==
    /\ TzStep("unlink", "symlink", FALSE)
    /\ UNCHANGED <<localtime, new, tz, refused>>

UnlinkNew ==
    /\ TzStep("unlink", "symlink", FALSE)
    /\ \/ new' = NoFile /\ UNCHANGED refused
       \/ refused' = TRUE /\ UNCHANGED new
    /\ UNCHANGED <<localtime, tz>>

\* symlink fails if the name exists, or for reasons of its own.
Symlink ==
    /\ \/ /\ new = NoFile /\ TzStep("symlink", "rename", FALSE)
          /\ new' = Zone
          /\ UNCHANGED refused
       \/ /\ new # NoFile /\ TzStep("symlink", "rename", TRUE)
          /\ UNCHANGED <<new, refused>>
       \/ /\ TzStep("symlink", "rename", TRUE)
          /\ refused' = TRUE
          /\ UNCHANGED new
    /\ UNCHANGED <<localtime, tz>>

RenameLink ==
    /\ \/ /\ TzStep("rename", "setenv", FALSE)
          /\ localtime' = new /\ new' = NoFile
          /\ UNCHANGED refused
       \/ /\ TzStep("rename", "setenv", TRUE)
          /\ new' = NoFile /\ refused' = TRUE
          /\ UNCHANGED localtime
    /\ UNCHANGED tz

\* /etc/timezone is written, which may fail, and the process takes the zone.
SetEnv ==
    /\ TzStep("setenv", "probe", FALSE)
    /\ tz' = Zone
    /\ UNCHANGED <<localtime, new, refused>>

\* One round: one of three hosts answers, or none does;
CheckInternet ==
    /\ tat = "probe"
    /\ tat' \in {"probe", "ntp"}
    /\ UNCHANGED zoneVars

\* one of three ntpd commands sets the clock, or none does;
SyncTime ==
    /\ tat = "ntp"
    /\ tat' \in {"probe", "rtc"}
    /\ UNCHANGED zoneVars

\* and hwclock -w saves it, whether that works or not.
WriteRtc ==
    /\ tat = "rtc"
    /\ tat' = "probe"
    /\ UNCHANGED zoneVars

KillTime ==
    /\ tat \notin {"access", "end"}
    /\ tat' = "access" /\ tz' = NoFile /\ refused' = FALSE
    /\ UNCHANGED <<installed, localtime, new>>

TimeNext ==
    \/ Access \/ UnlinkNew \/ Symlink \/ RenameLink \/ SetEnv
    \/ CheckInternet \/ SyncTime \/ WriteRtc \/ KillTime

TimeSpec == TimeInit /\ [][TimeNext]_timeVars
-----------------------------------------------------------------------------
(* Properties *)

\* "there is no window where /etc/localtime is missing" and "we never end up
\* with a dangling symlink" (time_sync.c:35-44), wherever the daemon is killed;
\* and once the thread is in its loop the zone is set, unless it is not
\* installed or the file system refused a call since the start: what a killed
\* daemon left behind does not stand in the way of the next one.
ZoneIsSet ==
    /\ localtime \in {OldZone} \cup (IF installed THEN {Zone} ELSE {})
    /\ tat \in {"probe", "ntp", "rtc"} /\ installed /\ ~refused =>
          localtime = Zone /\ tz = Zone
=============================================================================
