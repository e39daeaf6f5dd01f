------------------------------- MODULE KmsgLog -------------------------------
(***************************************************************************)
(* uart_log_thread (uart_log.c): the records of the kernel's ring are read  *)
(* from /dev/kmsg and appended to the slot of this boot, whose rotation is *)
(* that of LogRotate.  A record is its number and has RecLen bytes; the    *)
(* banner at the head of the slot, which is not counted, is left out.      *)
(***************************************************************************)
EXTENDS Integers, Sequences

CONSTANTS
    RingSize,    \* records that the kernel keeps
    RecLen,      \* bytes of a record
    KMSG_CAP,    \* SIZE_CAP, 50 MiB
    MaxRecords   \* bound: records the kernel logs

ASSUME KmsgAssumption ==
    /\ {RingSize, KMSG_CAP, MaxRecords} \subseteq Nat
    /\ RecLen \in Nat \ {0}

VARIABLES
    logged,   \* records the kernel has logged
    next,     \* the record that the next read returns
    r,        \* the record in buf
    w,        \* bytes of it that are in the slot
    written,
    kat,      \* "open", "read", "write", or "end" when the thread has returned
    copied,   \* the slot: pairs of a record and how many bytes of it there are
    overrun,  \* history: records that the kernel overwrote before they were read
    failed,   \* history: records given up at an error of write
    broken    \* history: the thread may not open the slot or /dev/kmsg, or read
              \* failed with an error that is neither EPIPE nor EINTR

kmsgVars == <<logged, next, r, w, written, kat, copied, overrun, failed, broken>>

KmsgInit ==
    /\ logged \in 0 .. 1   \* what the kernel logged before the daemon came up
    /\ next = 1 /\ r = 0 /\ w = 0 /\ written = 0
    /\ kat = "open"
    /\ copied = <<>> /\ overrun = {} /\ failed = {} /\ broken = FALSE

Printk ==
    /\ logged < MaxRecords
    /\ logged' = logged + 1
    /\ UNCHANGED <<next, r, w, written, kat, copied, overrun, failed, broken>>

Oldest == IF logged > RingSize THEN logged - RingSize + 1 ELSE 1

\* The slot and /dev/kmsg are open, which starts at the ring's oldest record.
OpenLogs ==
    /\ kat = "open"
    /\ next' = Oldest /\ overrun' = 1 .. Oldest - 1
    /\ kat' = "read"
    /\ UNCHANGED <<logged, r, w, written, copied, failed, broken>>

\* One of the two cannot be opened, or the daemon of an A733 is not root.
CannotOpen ==
    /\ kat = "open"
    /\ kat' = "end"
    /\ broken' = TRUE
    /\ UNCHANGED <<logged, next, r, w, written, copied, overrun, failed>>

\* read returns a record; it is dropped when the slot is full.
ReadRecord ==
    /\ kat = "read" /\ next \in Oldest .. logged
    /\ next' = next + 1
    /\ IF written >= KMSG_CAP THEN UNCHANGED <<r, w, kat>>
       ELSE r' = next /\ w' = 0 /\ kat' = "write"
    /\ UNCHANGED <<logged, written, copied, overrun, failed, broken>>

\* Mutant: EPIPE ends the loop like any other error.
ReadOverrunEnds ==
    /\ kat = "read" /\ next < Oldest
    /\ kat' = "end"
    /\ UNCHANGED <<logged, next, r, w, written, copied, overrun, failed, broken>>

\* EPIPE: the ring has advanced past the reader, which goes on with its oldest
\* record.
ReadOverrun ==
    /\ kat = "read" /\ next < Oldest
    /\ overrun' = overrun \cup (next .. Oldest - 1)
    /\ next' = Oldest
    /\ UNCHANGED <<logged, r, w, written, kat, copied, failed, broken>>

ReadFails ==
    /\ kat = "read"
    /\ kat' = "end"
    /\ broken' = TRUE
    /\ UNCHANGED <<logged, next, r, w, written, copied, overrun, failed>>

\* n bytes of the record are in the slot and the inner loop is left.
EndRecord(n) ==
    /\ copied' = IF n > 0 THEN Append(copied, <<r, n>>) ELSE copied
    /\ written' = written + n
    /\ kat' = "read" /\ r' = 0 /\ w' = 0
    /\ UNCHANGED <<logged, next, overrun, broken>>

\* Mutant: a short write is not continued.
WriteOnce ==
    /\ kat = "write"
    /\ \E n \in 1 .. RecLen - w : EndRecord(w + n) /\ failed' = failed

\* One write, which may be short; the last one ends the inner loop.
WriteSome ==
    /\ kat = "write"
    /\ \E n \in 1 .. RecLen - w :
          IF w + n < RecLen
          THEN /\ w' = w + n
               /\ UNCHANGED <<logged, next, r, written, kat, copied, overrun, failed, broken>>
          ELSE EndRecord(RecLen) /\ failed' = failed

\* The disk is full: the rest of the record, or all of it, is given up.
WriteError ==
    /\ kat = "write"
    /\ EndRecord(w) /\ failed' = failed \cup {r}

KmsgNext ==
    \/ Printk \/ OpenLogs \/ CannotOpen
    \/ ReadRecord \/ ReadOverrun \/ ReadFails \/ WriteSome \/ WriteError

KmsgSpec == KmsgInit /\ [][KmsgNext]_kmsgVars
-----------------------------------------------------------------------------
(* Properties *)

\* The slot has the records in the kernel's order, each whole however short the
\* writes were.  One that was logged before the next to be read is missing, or
\* cut short, only if the kernel had overwritten it, if a write of it failed, or
\* if the slot was full; then all records of the slot are older, and it exceeds
\* its limit by less than a record ("safety belt per slot", uart_log.c:28).  The
\* thread ends only if it could not open its files or if read failed.
NothingSkipped ==
    /\ \A j, k \in DOMAIN copied : j < k => copied[j][1] < copied[k][1]
    /\ \A k \in DOMAIN copied : copied[k][2] < RecLen => copied[k][1] \in failed
    /\ \A n \in 1 .. next - 1 :
          \/ n \in overrun \cup failed \/ n = r
          \/ \E k \in DOMAIN copied : copied[k][1] = n
          \/ written >= KMSG_CAP /\ \A k \in DOMAIN copied : copied[k][1] < n
    /\ written + w < KMSG_CAP + RecLen
    /\ kat = "end" => broken
=============================================================================
