------------------------------ MODULE LogPrint ------------------------------
(***************************************************************************)
(* log_print (log.c): the threads of the daemon write lines to the slot    *)
(* that log_init has opened (LogRotate) until it is full or the daemon     *)
(* ends.  A line is its length.                                            *)
(***************************************************************************)
EXTENDS LogRotate

CONSTANTS
    Threads,       \* the threads that log
    PER_SLOT_CAP,  \* 10 MiB
    MaxLine,       \* the longest line, 1279 bytes with its newline
    Nobody

ASSUME LogAssumption ==
    /\ PER_SLOT_CAP \in Nat \ {0}
    /\ MaxLine \in Nat \ {0}
    /\ Nobody \notin Threads

VARIABLES
    g_written,
    g_full,
    size,       \* bytes of the lines in the slot
    markers,    \* "log slot full" lines in the slot
    owner,      \* the owner of the stream's lock, or Nobody
    at,         \* at[t]: where t is in log_print
    wrote       \* wrote[t]: the length of the line t has formatted

printVars == <<g_written, g_full, size, markers, owner, at, wrote>>

Idle == [t \in Threads |-> "idle"]
NoLine == [t \in Threads |-> 1]

LogInit ==
    /\ Init
    /\ g_written = 0 /\ g_full = FALSE
    /\ size = 0 /\ markers = 0
    /\ owner = Nobody
    /\ at = Idle /\ wrote = NoLine

\* The line is formatted, cut to the buffer and ended with a newline.
Format(t) ==
    /\ at[t] = "idle"
    /\ \E n \in 1 .. MaxLine : wrote' = [wrote EXCEPT ![t] = n]
    /\ at' = [at EXCEPT ![t] = "lock"]
    /\ UNCHANGED <<g_written, g_full, size, markers, owner>>

\* flockfile; the line is dropped when the slot is full.
Lock(t) ==
    /\ at[t] = "lock"
    /\ owner = Nobody
    /\ owner' = t
    /\ at' = [at EXCEPT ![t] = IF g_full THEN "unlock" ELSE "write"]
    /\ UNCHANGED <<g_written, g_full, size, markers, wrote>>

Write(t) ==
    /\ at[t] = "write"
    /\ size' = size + wrote[t]
    /\ at' = [at EXCEPT ![t] = "count"]
    /\ UNCHANGED <<g_written, g_full, markers, owner, wrote>>

\* Mutant: the marker is written, and g_full is not set.
CountKeepsOpen(t) ==
    /\ at[t] = "count"
    /\ g_written' = g_written + wrote[t]
    /\ markers' = IF g_written' >= PER_SLOT_CAP THEN markers + 1 ELSE markers
    /\ at' = [at EXCEPT ![t] = "unlock"]
    /\ UNCHANGED <<g_full, size, owner, wrote>>

\* The line is counted, and the one that reaches the limit is followed by the
\* marker.
Count(t) ==
    /\ at[t] = "count"
    /\ g_written' = g_written + wrote[t]
    /\ IF ~g_full /\ g_written' >= PER_SLOT_CAP
         THEN markers' = markers + 1 /\ g_full' = TRUE
         ELSE UNCHANGED <<markers, g_full>>
    /\ at' = [at EXCEPT ![t] = "unlock"]
    /\ UNCHANGED <<size, owner, wrote>>

Unlock(t) ==
    /\ at[t] = "unlock"
    /\ owner' = Nobody
    /\ at' = [at EXCEPT ![t] = "idle"]
    /\ UNCHANGED <<g_written, g_full, size, markers, wrote>>

log_print(t) == Format(t) \/ Lock(t) \/ Write(t) \/ Count(t) \/ Unlock(t)

\* A step of log_init, or the end of the daemon and of its threads.
Rotate ==
    /\ Next
    /\ g_written' = 0 /\ g_full' = FALSE
    /\ size' = 0 /\ markers' = 0
    /\ owner' = Nobody
    /\ at' = Idle /\ wrote' = NoLine

\* The threads are started after log_init.
LogNext ==
    \/ Rotate
    \/ pc = "run" /\ (\E t \in Threads : log_print(t)) /\ UNCHANGED vars

logVars == <<vars, printVars>>

LogSpec == LogInit /\ [][LogNext]_logVars
-----------------------------------------------------------------------------
(* Properties *)

PrintTypeOK ==
    /\ g_written \in Nat /\ g_full \in BOOLEAN
    /\ size \in Nat /\ markers \in 0 .. 1
    /\ owner \in Threads \cup {Nobody}
    /\ at \in [Threads -> {"idle", "lock", "write", "count", "unlock"}]
    /\ wrote \in [Threads -> 1 .. MaxLine]

\* A slot has room for what PER_SLOT_CAP allows and the rest of one line,
\* however many threads are waiting with a line when it gets full.
SlotBounded == size < PER_SLOT_CAP + MaxLine

\* "further messages dropped until next boot" (log.c:230): once the marker is
\* in the slot, nothing is written to it by this boot.
MarkerIsLast ==
    [][markers = 1 => pc' = "off" \/ (size' = size /\ markers' = 1)]_logVars

\* g_written and g_full belong to the owner of the lock, and what it has
\* written and not yet counted is its own line.
LockGuards ==
    /\ \A t \in Threads : at[t] \in {"write", "count", "unlock"} => owner = t
    /\ \A t \in Threads : at[t] \in {"write", "count"} => ~g_full
    /\ \A t \in Threads : at[t] = "count" => size = g_written + wrote[t]
    /\ (\A t \in Threads : at[t] # "count") => size = g_written
    /\ g_full <=> markers = 1
    /\ ~g_full => g_written < PER_SLOT_CAP
    /\ g_full => g_written < PER_SLOT_CAP + MaxLine

\* A slot gets full while the daemon runs.
Running == g_full => pc = "run"

\* The inductive invariant.
PrintInv == PrintTypeOK /\ LockGuards /\ SlotBounded /\ Running
=============================================================================
