------------------------------ MODULE ProtoCodec ------------------------------
(***************************************************************************)
(* The 0x55AA framing (protocol.c) and the loop that takes a received      *)
(* buffer apart (proto_dispatch_buffer).  A buffer is a sequence of bytes: *)
(* the frames of a client, of which the transport has delivered the first  *)
(* ones, and not always the last of them as a whole.                       *)
(***************************************************************************)
EXTENDS Integers, Sequences

CONSTANTS
    Headers,   \* records of type, seq, command_set and command_id
    Payloads,  \* sequences of bytes
    MaxFrames, \* frames in a buffer
    Near       \* how far from the end of a frame the buffer is cut

PROTO_MAGIC_0 == 85
PROTO_MAGIC_1 == 170
PROTO_HDR_LEN == 10
PROTO_PAYLOAD_MAX == 256

Byte == 0 .. 255

ASSUME CodecAssumption ==
    /\ Headers \subseteq [type : Byte, seq : Byte, command_set : Byte, command_id : Byte]
    /\ \A p \in Payloads : /\ p \in Seq(Byte)
                           /\ \E hi, lo \in Byte : Len(p) = 256 * hi + lo   \* a uint16_t

VARIABLES
    sent,     \* the frames of the client, as records
    ends,     \* history: where each of them ends in the client's stream
    buf,      \* the stream, then the buffer: as much of it as was read
    off,
    handled,  \* the frames given to handle_proto_frame
    codec     \* "write" while the client writes, "loop", "done"

stream == <<sent, ends, buf>>
codecVars == <<stream, off, handled, codec>>

\* proto_encode into a buffer of cap bytes; nothing is written when it is too
\* small (PROTO_ERR_NOSPACE).
Encode(h, payload, cap) ==
    LET plen == Len(payload) IN
    IF PROTO_HDR_LEN + plen > cap THEN <<>>
    ELSE <<PROTO_MAGIC_0, PROTO_MAGIC_1, 0, 0, h.type, h.seq, h.command_set, h.command_id,
           (plen \div 256) % 256, plen % 256>> \o payload

\* The status of proto_decode for the bytes d.
Status(d) ==
    LET plen == 256 * d[9] + d[10] IN
    CASE Len(d) < PROTO_HDR_LEN -> "SHORT"
      [] Len(d) >= PROTO_HDR_LEN /\ <<d[1], d[2]>> # <<PROTO_MAGIC_0, PROTO_MAGIC_1>> -> "MAGIC"
      [] OTHER -> IF PROTO_HDR_LEN + plen > Len(d) \/ plen > PROTO_PAYLOAD_MAX
                  THEN "TRUNC" ELSE "OK"

\* What proto_decode returns when the status is OK.
Decode(d) ==
    LET plen == 256 * d[9] + d[10] IN
    [h |-> [type |-> d[5], seq |-> d[6], command_set |-> d[7], command_id |-> d[8]],
     payload |-> SubSeq(d, PROTO_HDR_LEN + 1, PROTO_HDR_LEN + plen)]

FrameSize(f) == PROTO_HDR_LEN + Len(f.payload)

CodecInit ==
    /\ sent = <<>> /\ ends = <<>> /\ buf = <<>>
    /\ off = 0 /\ handled = <<>>
    /\ codec = "write"

\* Where the k-th frame begins: that many bytes are before it.
Start(k) == IF k = 1 THEN 0 ELSE ends[k - 1]

\* A client writes a frame (its buffer is large enough, even for a payload the
\* daemon does not take),
WriteFrame ==
    /\ codec = "write" /\ Len(sent) < MaxFrames
    /\ \E h \in Headers, p \in Payloads :
          LET f == [h |-> h, payload |-> p]
          IN  /\ sent' = Append(sent, f)
              /\ ends' = Append(ends, Len(buf) + FrameSize(f))
              /\ buf' = buf \o Encode(h, p, FrameSize(f))
    /\ UNCHANGED <<off, handled, codec>>

\* and the daemon's read returns the first bytes of what was written: any
\* number of them that is near the beginning or the end of a frame.
ReadBuffer ==
    /\ codec = "write"
    /\ \E k \in 1 .. Len(sent) + 1, d \in -Near .. PROTO_HDR_LEN + Near :
          /\ Start(k) + d \in 1 .. Len(buf)
          /\ buf' = SubSeq(buf, 1, Start(k) + d)
    /\ codec' = "loop"
    /\ UNCHANGED <<sent, ends, off, handled>>

Rest == SubSeq(buf, off + 1, Len(buf))

\* One turn of the loop that handles a frame,
HandleFrame ==
    /\ codec = "loop"
    /\ off < Len(buf)
    /\ Status(Rest) = "OK"
    /\ handled' = Append(handled, Decode(Rest))
    /\ off' = off + FrameSize(Decode(Rest))
    /\ UNCHANGED <<stream, codec>>

\* Mutant: the loop goes on one byte further to find the next frame.
DropRestResyncs ==
    /\ codec = "loop"
    /\ off < Len(buf)
    /\ Status(Rest) # "OK"
    /\ off' = off + 1
    /\ UNCHANGED <<stream, handled, codec>>

\* Mutant: the loop waits for the rest of the frame.
DropRestWaits ==
    /\ codec = "loop"
    /\ off < Len(buf)
    /\ Status(Rest) # "OK"
    /\ UNCHANGED codecVars

\* and the one that gives up at the first frame that is not complete.
DropRest ==
    /\ codec = "loop"
    /\ off < Len(buf)
    /\ Status(Rest) # "OK"
    /\ codec' = "done"
    /\ UNCHANGED <<stream, off, handled>>

EndOfBuffer ==
    /\ codec = "loop"
    /\ off >= Len(buf)
    /\ codec' = "done"
    /\ UNCHANGED <<stream, off, handled>>

CodecNext == WriteFrame \/ ReadBuffer \/ HandleFrame \/ DropRest \/ EndOfBuffer

CodecSpec == CodecInit /\ [][CodecNext]_codecVars
-----------------------------------------------------------------------------
(* Properties *)

\* The frames of the client that the buffer holds as a whole, up to the first
\* one whose payload is longer than PROTO_PAYLOAD_MAX.
Whole ==
    {k \in 1 .. Len(sent) :
        /\ ends[k] <= Len(buf)
        /\ \A j \in 1 .. k : Len(sent[j].payload) <= PROTO_PAYLOAD_MAX}

\* The dispatcher handles exactly those, in the client's order, and gets every
\* field and every payload byte as the client encoded them.
HandlesWholeFrames ==
    /\ \A k \in DOMAIN handled : k \in Whole /\ handled[k] = sent[k]
    /\ codec = "done" => DOMAIN handled = Whole
===============================================================================
