------------------------------- MODULE ScanPush -------------------------------
(***************************************************************************)
(* send_scan_results (proto_dispatch.c): the list of a scan is cut into    *)
(* PUSH_SCAN_RESULT frames.  An entry is its SSID's length; a frame is its *)
(* header and the range of the list it carries.                            *)
(***************************************************************************)
EXTENDS Integers, Sequences

CONSTANTS
    Lens,        \* the SSID lengths that occur
    MaxEntries   \* what a scan returns at most (64 on both boards)

SCAN_PUSH_PAYLOAD_CAP == 220
SCAN_PUSH_ENTRIES_PER_FRAME == 5
WIFI_SCAN_SSID_MAX == 32
IndexRange == 256   \* frame_index is a uint8_t

ASSUME EntryAssumption ==
    /\ Lens \subseteq 1 .. WIFI_SCAN_SSID_MAX
    /\ MaxEntries \in 0 .. SCAN_PUSH_ENTRIES_PER_FRAME * IndexRange

VARIABLES
    entries,      \* the list: the SSID length of every entry
    i,            \* entries already in a frame
    pos,          \* the length of the payload so far
    entry_count,  \* entries in the payload
    frame_index,
    push,           \* "fill", or "done" when the loop is left
    frames        \* what was pushed

pushVars == <<entries, i, pos, entry_count, frame_index, push, frames>>

Lists == UNION {[1 .. n -> Lens] : n \in 0 .. MaxEntries}

Frame == [index : 0 .. IndexRange - 1, end : BOOLEAN,
          from : Nat, count : Nat, plen : Nat]

PushInit ==
    /\ entries \in Lists
    /\ i = 0 /\ pos = 3 /\ entry_count = 0 /\ frame_index = 0
    /\ push = "fill"
    /\ frames = <<>>

\* What encode_scan_entry writes: the length, the SSID, rssi, auth and band.
Need(k) == entries[k] + 4

Fits ==
    /\ i < Len(entries)
    /\ entry_count < SCAN_PUSH_ENTRIES_PER_FRAME
    /\ Need(i + 1) <= SCAN_PUSH_PAYLOAD_CAP - pos

\* The inner loop takes one more entry.
AddEntry ==
    /\ push = "fill"
    /\ Fits
    /\ pos' = pos + Need(i + 1)
    /\ entry_count' = entry_count + 1
    /\ i' = i + 1
    /\ UNCHANGED <<entries, frame_index, push, frames>>

\* Mutant: while instead of do-while, so that the header is sent once more.
PushFrameOnceMore ==
    /\ push = "fill"
    /\ ~Fits
    /\ frames' = Append(frames, [index |-> frame_index, end |-> i >= Len(entries),
                                 from |-> i - entry_count, count |-> entry_count,
                                 plen |-> pos])
    /\ frame_index' = (frame_index + 1) % IndexRange
    /\ pos' = 3 /\ entry_count' = 0
    /\ push' = IF i < Len(entries) \/ entry_count = SCAN_PUSH_ENTRIES_PER_FRAME
               THEN "fill" ELSE "done"
    /\ UNCHANGED <<entries, i>>

\* Mutant: the entry that ended the inner loop is skipped.
PushFrameSkipsEntry ==
    /\ push = "fill"
    /\ ~Fits
    /\ frames' = Append(frames, [index |-> frame_index, end |-> i >= Len(entries),
                                 from |-> i - entry_count, count |-> entry_count,
                                 plen |-> pos])
    /\ frame_index' = (frame_index + 1) % IndexRange
    /\ pos' = 3 /\ entry_count' = 0
    /\ i' = IF i < Len(entries) THEN i + 1 ELSE i
    /\ push' = IF i < Len(entries) THEN "fill" ELSE "done"
    /\ UNCHANGED entries

\* The inner loop ends: the frame is pushed, and the next one is begun while
\* there are entries left.
PushFrame ==
    /\ push = "fill"
    /\ ~Fits
    /\ frames' = Append(frames, [index |-> frame_index, end |-> i >= Len(entries),
                                 from |-> i - entry_count, count |-> entry_count,
                                 plen |-> pos])
    /\ frame_index' = (frame_index + 1) % IndexRange
    /\ pos' = 3 /\ entry_count' = 0
    /\ push' = IF i < Len(entries) THEN "fill" ELSE "done"
    /\ UNCHANGED <<entries, i>>

PushNext == AddEntry \/ PushFrame

PushSpec == PushInit /\ [][PushNext]_pushVars
-----------------------------------------------------------------------------
(* Properties *)

PushTypeOK ==
    /\ entries \in Seq(1 .. WIFI_SCAN_SSID_MAX) /\ Len(entries) <= MaxEntries
    /\ i \in 0 .. Len(entries)
    /\ pos \in 3 .. SCAN_PUSH_PAYLOAD_CAP
    /\ entry_count \in 0 .. SCAN_PUSH_ENTRIES_PER_FRAME
    /\ frame_index \in 0 .. IndexRange - 1
    /\ push \in {"fill", "done"}
    /\ frames \in Seq(Frame)

\* The frames carry the list in order, every entry once: each begins where the
\* one before it ended, and when the loop is left nothing is missing.
EachEntryOnce ==
    /\ \A k \in DOMAIN frames :
          frames[k].from = IF k = 1 THEN 0 ELSE frames[k - 1].from + frames[k - 1].count
    /\ push = "done" => /\ frames # <<>>
                      /\ frames[Len(frames)].from + frames[Len(frames)].count = Len(entries)

\* end_of_list is on the last frame and on no other, so a client that reads
\* until it sees the flag gets the whole list; an empty list is one frame.
EndsOnce ==
    \A k \in DOMAIN frames : frames[k].end <=> k = Len(frames) /\ push = "done"

\* The payload limit never cuts a frame short (a list of the longest SSIDs
\* included): every frame but the last is full, so the loop gets ahead with
\* every frame, and frame_index counts 0, 1, 2, ... without wrapping.
FramesFull ==
    \A k \in DOMAIN frames :
        /\ frames[k].index = k - 1
        /\ frames[k].count = SCAN_PUSH_ENTRIES_PER_FRAME \/ frames[k].end
        /\ frames[k].count = 0 => entries = <<>>

\* Where the loop is: all frames so far were full, and the one being filled
\* has room for the entries it may still get.
Filling ==
    push = "fill" =>
        /\ i = SCAN_PUSH_ENTRIES_PER_FRAME * Len(frames) + entry_count
        /\ pos <= 3 + (WIFI_SCAN_SSID_MAX + 4) * entry_count
        /\ Len(frames) > 0 => i - entry_count < Len(entries)
        /\ frame_index = Len(frames)
        /\ frames # <<>> =>
              frames[Len(frames)].from + frames[Len(frames)].count = i - entry_count

\* The inductive invariant.
PushInv == PushTypeOK /\ EachEntryOnce /\ EndsOnce /\ FramesFull /\ Filling
=============================================================================
