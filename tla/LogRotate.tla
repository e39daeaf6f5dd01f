------------------------------ MODULE LogRotate ------------------------------
(***************************************************************************)
(* The rotation of the slots of a log over the boots of the board:         *)
(* read_index, write_index and log_init of log.c.  uart_log.c and          *)
(* sys_stat.c rotate their files in the same way.                          *)
(*                                                                         *)
(* What survives a boot is on the disk: the index file and the slots.  The *)
(* daemon can be killed between any two steps, and the partition can be    *)
(* full or lose power, which costs the content of a file that was renamed  *)
(* without having been synced.                                             *)
(***************************************************************************)
EXTENDS Integers

CONSTANT MAX_SLOTS

ASSUME SlotAssumption == MAX_SLOTS \in Nat \ {0}

Slots == 1 .. MAX_SLOTS

VARIABLES
    now_index,  \* the number in the index file, 0 when it holds none
    file,       \* file[s]: there are lines of some boot in slot s
    pc,         \* where log_init is; "off" between two boots
    slot,       \* the slot of this boot, or of the last one
    later,      \* history: later[s] counts the boots, up to MAX_SLOTS - 1,
                \* that published a slot since the log in s was begun
    since       \* history: the boots, up to MAX_SLOTS, that published their
                \* slot since the index file was last spoilt

vars == <<now_index, file, pc, slot, later, since>>

UpTo(n, max) == IF n < max THEN n ELSE max

\* A new disk, or one that a release with more slots has written to.
Init ==
    /\ now_index \in 0 .. MAX_SLOTS + 1
    /\ file = [s \in Slots |-> FALSE]
    /\ pc = "off"
    /\ slot = 1
    /\ later = [s \in Slots |-> 0]
    /\ since = MAX_SLOTS

read_index == IF now_index > MAX_SLOTS THEN 0 ELSE now_index

NextSlot == IF read_index + 1 > MAX_SLOTS THEN 1 ELSE read_index + 1

Boot ==
    /\ pc = "off"
    /\ slot' = NextSlot
    /\ pc' = "open"
    /\ UNCHANGED <<now_index, file, later, since>>

\* unlink, then fopen.
Open ==
    /\ pc = "open"
    /\ file' = [file EXCEPT ![slot] = FALSE]
    /\ pc' = "index"
    /\ UNCHANGED <<now_index, slot, later, since>>

OpenFails ==
    /\ pc = "open"
    /\ file' = [file EXCEPT ![slot] = FALSE]
    /\ pc' = "stderr"
    /\ UNCHANGED <<now_index, slot, later, since>>

\* Mutant: the index file itself is opened for writing, which truncates it.
WriteTmpInPlace ==
    /\ pc = "index"
    /\ now_index' = 0
    /\ pc' = "rename"
    /\ UNCHANGED <<file, slot, later, since>>

\* write_index: the new number goes to a file of its own,
WriteTmp ==
    /\ pc = "index"
    /\ pc' = "rename"
    /\ UNCHANGED <<now_index, file, slot, later, since>>

\* which replaces the index file.
Rename ==
    /\ pc = "rename"
    /\ now_index' = slot
    /\ later' = [s \in Slots |-> IF s = slot THEN 0 ELSE UpTo(later[s] + 1, MAX_SLOTS - 1)]
    /\ since' = UpTo(since + 1, MAX_SLOTS)
    /\ pc' = "banner"
    /\ UNCHANGED <<file, slot>>

\* The temporary file cannot be created and write_index returns; or the disk
\* is full, which write_index does not notice, and an empty file is renamed.
WriteIndexFails ==
    /\ pc = "index"
    /\ now_index' \in {now_index, 0}
    /\ since' = 0
    /\ pc' = "banner"
    /\ UNCHANGED <<file, slot, later>>

\* The boot marker, and from now on the lines of log_print.
Banner ==
    /\ pc = "banner"
    /\ file' = [file EXCEPT ![slot] = TRUE]
    /\ later' = [later EXCEPT ![slot] = 0]
    /\ pc' = "run"
    /\ UNCHANGED <<now_index, slot, since>>

\* The daemon ends: it is killed, it crashes, the board is reset.
Crash ==
    /\ pc # "off"
    /\ pc' = "off"
    /\ UNCHANGED <<now_index, file, slot, later, since>>

\* The board loses power before the new index file has reached the disk.
PowerLoss ==
    /\ pc \in {"banner", "run"}
    /\ now_index' = 0
    /\ since' = 0
    /\ pc' = "off"
    /\ UNCHANGED <<file, slot, later>>

Next ==
    \/ Boot \/ Open \/ OpenFails \/ WriteTmp \/ Rename \/ WriteIndexFails
    \/ Banner \/ Crash \/ PowerLoss

Spec == Init /\ [][Next]_vars
-----------------------------------------------------------------------------
(* Properties *)

TypeOK ==
    /\ now_index \in 0 .. MAX_SLOTS + 1
    /\ file \in [Slots -> BOOLEAN]
    /\ pc \in {"off", "open", "index", "rename", "banner", "run", "stderr"}
    /\ slot \in Slots
    /\ later \in [Slots -> 0 .. MAX_SLOTS - 1]
    /\ since \in 0 .. MAX_SLOTS

\* How many slots were begun after slot s, as the index file tells it.
Distance(s) == IF s <= read_index THEN read_index - s ELSE read_index - s + MAX_SLOTS

\* The slots that were published since the index file was last spoilt are as
\* old as their distance from the index says.
Ring == \A s \in Slots : file[s] /\ Distance(s) < since => later[s] >= Distance(s)

\* log_init goes on with the slot after the one in the index file.
Ahead ==
    /\ pc \in {"open", "index", "rename"} => slot = NextSlot
    /\ pc = "banner" => since = 0 \/ read_index = slot

\* The inductive invariant.
Inv == TypeOK /\ Ring /\ Ahead

\* What the rotation is for: log_init removes a log only when MAX_SLOTS - 1
\* later boots have taken a slot, wherever those boots were killed ("even if we
\* crash mid-boot, the next boot still advances to the next slot instead of
\* rewriting the same one", log.c:141-143).  After the index file was spoilt
\* this may fail, but only until MAX_SLOTS boots have published their slot again.
KeepsRecent ==
    [][\A s \in Slots :
          file[s] /\ ~file'[s] /\ since = MAX_SLOTS => later[s] = MAX_SLOTS - 1]_vars
=============================================================================
