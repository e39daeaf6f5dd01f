------------------------------- MODULE SysStat -------------------------------
(***************************************************************************)
(* The TOP5 line of sys_stat.c: every period the process table is sampled, *)
(* compute_top5 takes the differences to the sample before and sorts out   *)
(* the processes that used most CPU time.  A sample is a sequence of pids  *)
(* and ticks in the order of /proc, cut off at MAX_PROCS.                  *)
(***************************************************************************)
EXTENDS Integers, Sequences, FiniteSets

CONSTANTS
    Pids,        \* numbers
    MAX_PROCS, TOP_N,
    MaxTicks     \* bound: ticks of a process

ASSUME StatAssumption ==
    /\ Pids \subseteq Nat /\ IsFiniteSet(Pids)
    /\ {MAX_PROCS, TOP_N} \subseteq Nat \ {0}
    /\ MaxTicks \in Nat

VARIABLES
    procs,       \* procs[p]: the ticks of the process p, -1 if there is none
    used,        \* history: what it has used of them since the last sample
    base,        \* history: what the last sample has for its number: its "same"
                 \* ticks (for a new process none), those of an "other" process
                 \* that had it before, or none though it ran ("missed")
    prev_procs,
    list,        \* entries of compute_top5, while it sorts
    n,           \* how many of them are in their place
    top          \* the result of the last round

statVars == <<procs, used, base, prev_procs, list, n, top>>

\* The k-th smallest element of a set of numbers.
Nth(S, k) == CHOOSE x \in S : Cardinality({y \in S : y <= x}) = k

\* sample_all_procs: the processes by number, as long as there is room.
Live == {p \in Pids : procs[p] >= 0}
Sampled == IF Cardinality(Live) < MAX_PROCS THEN Cardinality(Live) ELSE MAX_PROCS
sample_all_procs ==
    [k \in 1 .. Sampled |-> [pid |-> Nth(Live, k), ticks |-> procs[Nth(Live, k)]]]

\* A process is in a sample.
InSample(s, p) == \E k \in DOMAIN s : s[k].pid = p

\* What a sample is to the processes that run when it is taken.
BaseOf(s) == [p \in Pids |-> IF procs[p] = -1 \/ InSample(s, p) THEN "same" ELSE "missed"]

StatInit ==
    /\ procs \in [Pids -> -1 .. MaxTicks]
    /\ used = [p \in Pids |-> 0]
    /\ prev_procs = sample_all_procs
    /\ base = BaseOf(prev_procs)
    /\ list = <<>> /\ n = -1 /\ top = <<>>

\* Between two samples: a process runs, ends, or is started, under a number
\* that an earlier one may have had.
Runs(p) ==
    /\ n = -1 /\ procs[p] \in 0 .. MaxTicks - 1
    /\ procs' = [procs EXCEPT ![p] = @ + 1]
    /\ used' = [used EXCEPT ![p] = @ + 1]
    /\ UNCHANGED <<base, prev_procs, list, n, top>>

Exits(p) ==
    /\ n = -1 /\ procs[p] >= 0
    /\ procs' = [procs EXCEPT ![p] = -1]
    /\ used' = [used EXCEPT ![p] = 0]
    /\ base' = [base EXCEPT ![p] = "same"]
    /\ UNCHANGED <<prev_procs, list, n, top>>

Starts(p) ==
    /\ n = -1 /\ procs[p] = -1
    /\ procs' = [procs EXCEPT ![p] = 0]
    /\ base' = [base EXCEPT ![p] = IF InSample(prev_procs, p) THEN "other" ELSE "same"]
    /\ UNCHANGED <<used, prev_procs, list, n, top>>

find_prev_ticks(pid) ==
    LET at == {k \in DOMAIN prev_procs : prev_procs[k].pid = pid}
    IN  IF at = {} THEN 0 ELSE prev_procs[CHOOSE k \in at : TRUE].ticks

\* Mutant: the difference is not guarded, and an unsigned one wraps around.
EntriesWrap(cur) ==
    [k \in DOMAIN cur |-> [pid |-> cur[k].pid,
        dt |-> (cur[k].ticks - find_prev_ticks(cur[k].pid)) % (2 ^ 16)]]

\* The first loop of compute_top5: the processes whose ticks went up.
Entries(cur) ==
    LET up == {k \in DOMAIN cur : cur[k].ticks > find_prev_ticks(cur[k].pid)}
        entry(e) == [pid |-> e.pid, dt |-> e.ticks - find_prev_ticks(e.pid)]
    IN  [k \in 1 .. Cardinality(up) |-> entry(cur[Nth(up, k)])]

Sample ==
    /\ n = -1
    /\ list' = Entries(sample_all_procs)
    /\ n' = 0
    /\ prev_procs' = sample_all_procs
    /\ top' = <<>>
    /\ UNCHANGED <<procs, used, base>>

Want == IF Len(list) < TOP_N THEN Len(list) ELSE TOP_N

\* The first of the largest entries from the k-th on.
Best(k) ==
    CHOOSE b \in k .. Len(list) :
        /\ \A j \in k .. Len(list) : list[b].dt >= list[j].dt
        /\ \A j \in k .. b - 1 : list[j].dt < list[b].dt

\* One round of the selection sort.
Select ==
    /\ n \in 0 .. Want - 1
    /\ LET b == Best(n + 1) IN
       /\ list' = [list EXCEPT ![n + 1] = list[b], ![b] = list[n + 1]]
       /\ top' = Append(top, list[b])
    /\ n' = n + 1
    /\ UNCHANGED <<procs, used, base, prev_procs>>

\* The line is written, and the next period begins.
PrintTop ==
    /\ n >= 0 /\ n = Want
    /\ n' = -1 /\ list' = <<>> /\ top' = <<>>
    /\ used' = [p \in Pids |-> 0] /\ base' = BaseOf(prev_procs)
    /\ UNCHANGED <<procs, prev_procs>>

StatNext ==
    \/ \E p \in Pids : Runs(p) \/ Exits(p) \/ Starts(p)
    \/ Sample \/ Select \/ PrintTop

StatSpec == StatInit /\ [][StatNext]_statVars
-----------------------------------------------------------------------------
(* Properties *)

\* An entry is charged with what its process has used in the period, or with
\* less when an earlier process had its number.
ChargeIsTrue(e) ==
    /\ base[e.pid] = "same" => e.dt = used[e.pid]
    /\ base[e.pid] = "other" => e.dt <= used[e.pid]

\* The process is in the last sample, used something since the one before and
\* can be compared with itself.
WasBusy(p) == InSample(prev_procs, p) /\ base[p] = "same" /\ used[p] > 0

\* The line has different processes, the busiest first.  None is charged with
\* more than it has used in the period, a new process under an old number
\* included, and one that compute_top5 can compare with itself is charged with
\* exactly that, and left out only if the line is full of processes charged with
\* at least as much.  Two cases are not covered, in which the line is not that of
\* the processes whose CPU time rose most (as sys_stat.c:79 has it): a new process
\* under a number of the sample before is charged with too little, or left out
\* however busy it was when its ticks are not above those of the old one (:475);
\* and one for which the sample before had no room is charged with its whole life.
TopIsTop ==
    n = Want =>
        /\ \A j, k \in DOMAIN top : j < k => top[j].dt >= top[k].dt /\ top[j].pid # top[k].pid
        /\ \A k \in DOMAIN top : ChargeIsTrue(top[k])
        /\ \A p \in Pids : WasBusy(p) =>
              InSample(top, p) \/ (Len(top) = TOP_N /\ used[p] <= top[TOP_N].dt)
=============================================================================
