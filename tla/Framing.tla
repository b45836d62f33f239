------------------------------ MODULE Framing ------------------------------
(***************************************************************************)
(* Frames on a byte stream (wire.cpp): encode_frame and the incremental    *)
(* FrameDecoder, over cells instead of bytes.  A frame is a header cell,   *)
(* which tells the length of the payload, and one cell for each unit of    *)
(* payload.  A cell that is not intact is one a checksum refuses.          *)
(***************************************************************************)
EXTENDS Naturals, Sequences

CONSTANT MaxPayload   \* limits::kMaxPayloadBytes, in cells

ASSUME PayloadAssumption == MaxPayload \in Nat \ {0}

(* encode_frame refuses a payload that is too long. *)
Fits(frame) == frame.size <= MaxPayload

encode_frame(frame) ==
  [i \in 1 .. 1 + frame.size |-> [frame |-> frame, at |-> i - 1, intact |-> TRUE]]

EmptyDecoder == [buffer |-> <<>>, read_offset |-> 0, failed |-> FALSE]

buffered_bytes(d) == Len(d.buffer) - d.read_offset

(* One header and the longest payload. *)
Budget == 1 + MaxPayload

(* Mutant of feed: the consumed cells stay in front of the new ones. *)
feed_without_erase(d, chunk) ==
  CASE d.failed -> d
    [] ~d.failed /\ (Len(chunk) > Budget \/ buffered_bytes(d) > Budget - Len(chunk)) ->
         [d EXCEPT !.failed = TRUE]
    [] OTHER ->
         [d EXCEPT !.buffer = @ \o chunk, !.read_offset = 0]

(* FrameDecoder::feed *)
feed(d, chunk) ==
  CASE d.failed -> d
    [] ~d.failed /\ (Len(chunk) > Budget \/ buffered_bytes(d) > Budget - Len(chunk)) ->
         [d EXCEPT !.failed = TRUE]
    [] OTHER ->
         [d EXCEPT !.buffer = SubSeq(@, d.read_offset + 1, Len(@)) \o chunk,
                   !.read_offset = 0]

Header(d) == d.buffer[d.read_offset + 1]
FrameLength(d) == 1 + Header(d).frame.size

HasHeader(d) == buffered_bytes(d) >= 1

(* Mutant of HasFrame: one byte more than the frame is waited for. *)
HasFrameLate(d) == HasHeader(d) /\ buffered_bytes(d) > FrameLength(d)

HasFrame(d) == HasHeader(d) /\ buffered_bytes(d) >= FrameLength(d)

(* decode_frame_header and verify_payload_crc refuse what is not intact, or  *)
(* does not start a frame; the header is looked at before the payload has    *)
(* arrived.                                                                  *)
BadHeader(d) == HasHeader(d) /\ ~(Header(d).intact /\ Header(d).at = 0)
BadPayload(d) ==
  HasFrame(d) /\ \E i \in 1 .. FrameLength(d) : ~d.buffer[d.read_offset + i].intact

(* FrameDecoder::next: whether it fails, whether it yields a frame, and the  *)
(* decoder it leaves behind.                                                 *)
NextFails(d) == d.failed \/ BadHeader(d) \/ BadPayload(d)
NextYields(d) == ~NextFails(d) /\ HasFrame(d)

Advanced(d) ==
  LET offset == d.read_offset + FrameLength(d)
  IN  IF offset = Len(d.buffer) THEN EmptyDecoder ELSE [d EXCEPT !.read_offset = offset]
=============================================================================
