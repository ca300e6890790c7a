----------------------------- MODULE StdcDecoder ----------------------------
(***************************************************************************)
(* stdc_decode.c: from soft bits to packets.  stdc_decoder_feed shifts one *)
(* bit after another into a register of the length of a frame and looks    *)
(* for the sync word: with a high threshold while it searches, with a      *)
(* lower one at the next boundary once it is synced.  process_frame turns  *)
(* an inverted frame round in place, decodes it and walks its packets;     *)
(* a packet too long for one frame comes in pieces (0xBD, 0xBE), and when  *)
(* they are together parse_packets calls itself on the buffer that holds   *)
(* them, where it may meet pieces again.                                   *)
(*                                                                         *)
(* The signal is what the score of check_sync depends on: at a boundary of *)
(* a clean signal all 128 sync bits match, elsewhere too few, and a noisy  *)
(* signal may score anything anywhere.  The bytes of a frame are chosen    *)
(* when the parser reaches them.  EGC packets end in EgcReassembly.        *)
(***************************************************************************)
EXTENDS Integers, FiniteSets, Sequences

CONSTANTS
  EncodedSize,  \* STDC_ENCODED_SIZE, soft bits of a frame
  FrameBytes,   \* STDC_FRAME_BYTES
  DataSize,     \* sizeof(mfp->data)
  IntMax,       \* the largest int: shift_pos is one
  Lengths,      \* bound: the packet lengths sent
  MaxSource,    \* bound: the encapsulated packets sent
  MaxDepth      \* bound: the calls of parse_packets inside each other

ASSUME StdcAssumption ==
  /\ EncodedSize \in Nat \ {0} /\ FrameBytes \in Nat
  /\ IntMax \in Nat /\ IntMax > EncodedSize
  /\ DataSize \in Nat /\ \A n \in Lengths : n <= DataSize
  /\ Lengths \subseteq Nat \ {0} /\ MaxSource \in Nat /\ MaxDepth \in Nat

VARIABLES
  phase,      \* bits since the last frame boundary on the air
  noisy,      \* the signal is disturbed
  synced,     \* d->synced
  shift_pos,  \* d->shift_pos
  fresh,      \* bits shifted in since process_frame last ran, up to EncodedSize
  flipped,    \* bits of the register that process_frame has inverted in place
  stack,      \* the running calls of parse_packets, the innermost last: their
              \* pos and frame_len; all but the first one read mfp->data
  mfp,        \* d->mfp, with the numbers of the packets its bytes belong to
  latest,     \* the number of the encapsulated packet heard last
  called      \* what the last step handed to the callback

syncVars == <<phase, noisy, synced, shift_pos, fresh, flipped>>
stdcVars == <<syncVars, stack, mfp, latest, called>>

NoMultiframe == [active |-> FALSE, total_len |-> 0, filled |-> 0, start |-> 0, sources |-> {}]

(* stdc_decoder_create: calloc. *)
StdcInit ==
  /\ phase \in 0..(EncodedSize - 1)
  /\ noisy \in BOOLEAN
  /\ synced = FALSE
  /\ shift_pos = 0
  /\ fresh = 0
  /\ flipped = 0
  /\ stack = <<>>
  /\ mfp = NoMultiframe
  /\ latest = 0
  /\ called = {}

-----------------------------------------------------------------------------
(* Frame synchronisation *)

(* The scores check_sync may give, as the thresholds tell them apart:      *)
(* "weak" is 100 to 109, "strong" 110 to 128 of 128 sync bits.             *)
check_sync(aligned) ==
  IF noisy THEN {"none", "weak", "strong"}
  ELSE IF aligned THEN {"strong"} ELSE {"none"}

(* shift_pos++ on an int wraps round when no frame is found for that long. *)
Increment(n) == IF n = IntMax THEN -IntMax - 1 ELSE n + 1

Least(a, b) == IF a < b THEN a ELSE b

(* The bits the sender, and the register, have when one more has come.     *)
ShiftIn ==
  /\ phase' = (phase + 1) % EncodedSize
  /\ flipped' = IF flipped = 0 THEN 0 ELSE flipped - 1
  /\ fresh' = Least(fresh + 1, EncodedSize)

(* process_frame: an inverted frame is negated in shift_reg; a frame whose *)
(* bit error rate is beyond the code's reach is given up.                  *)
process_frame(inverted, bad) ==
  /\ flipped' = IF inverted THEN EncodedSize ELSE IF flipped = 0 THEN 0 ELSE flipped - 1
  /\ stack' = IF bad THEN <<>> ELSE <<[pos |-> 0, len |-> FrameBytes]>>
  /\ fresh' = 0

(* Fault: the frame is decoded and its bits stay in the count. *)
FrameFound_KeepsCount(inverted, bad) ==
  /\ stack = <<>>
  /\ Increment(shift_pos) >= EncodedSize
  /\ phase' = (phase + 1) % EncodedSize
  /\ \E score \in check_sync(phase' = 0) :
       score = "strong" \/ (score = "weak" /\ synced)
  /\ synced' = TRUE
  /\ shift_pos' = 1
  /\ process_frame(inverted, bad)
  /\ called' = {}
  /\ UNCHANGED <<noisy, mfp, latest>>

(* stdc_decoder_feed: the bit completes a frame whose score is good enough.*)
FrameFound(inverted, bad) ==
  /\ stack = <<>>
  /\ Increment(shift_pos) >= EncodedSize
  /\ phase' = (phase + 1) % EncodedSize
  /\ \E score \in check_sync(phase' = 0) :
       score = "strong" \/ (score = "weak" /\ synced)
  /\ synced' = TRUE
  /\ shift_pos' = 0
  /\ process_frame(inverted, bad)
  /\ called' = {}
  /\ UNCHANGED <<noisy, mfp, latest>>

(* Fault: a lock that does not show at the boundary is kept. *)
NoFrame_KeepsLock ==
  /\ stack = <<>>
  /\ ShiftIn
  /\ IF Increment(shift_pos) >= EncodedSize
     THEN /\ \E score \in check_sync(phase' = 0) :
               score = "none" \/ (score = "weak" /\ ~synced)
          /\ shift_pos' = IF synced THEN 0 ELSE Increment(shift_pos)
     ELSE shift_pos' = Increment(shift_pos)
  /\ called' = {}
  /\ UNCHANGED <<synced, noisy, stack, mfp, latest>>

(* It does not: too few bits, or no sync word; a lock is lost, a search    *)
(* goes on with the next bit.                                              *)
NoFrame ==
  /\ stack = <<>>
  /\ ShiftIn
  /\ shift_pos' = Increment(shift_pos)
  /\ IF shift_pos' >= EncodedSize
     THEN /\ \E score \in check_sync(phase' = 0) :
               score = "none" \/ (score = "weak" /\ ~synced)
          /\ synced' = FALSE
     ELSE UNCHANGED synced
  /\ called' = {}
  /\ UNCHANGED <<noisy, stack, mfp, latest>>

SignalChanges ==
  /\ stack = <<>>
  /\ noisy' = ~noisy
  /\ called' = {}
  /\ UNCHANGED <<phase, synced, shift_pos, fresh, flipped, stack, mfp, latest>>

-----------------------------------------------------------------------------
(* Packets.  The decoders copy fields and format a text; what they refuse  *)
(* is a packet shorter than the fields they read.                          *)

ShortDescriptor ==
  [ack_request |-> 6, channel_clear |-> 8, msg_ack |-> 9, signalling |-> 11,
   bulletin_board |-> 14]

MediumDescriptor ==
  [announcement |-> 17, chan_assignment |-> 16, login_ack |-> 8,
   individual_poll |-> 8]

TextDescriptor == [confirmation |-> 9, message |-> 7, les_list |-> 6]

EgcDescriptor == [egc_part1 |-> 10, egc_part2 |-> 10]

(* Descriptors that parse_packets knows and skips, or does not know.       *)
Skipped == {"distress_ack", "unknown"}

MinLength(desc) ==
  CASE desc \in DOMAIN ShortDescriptor  -> ShortDescriptor[desc]
    [] desc \in DOMAIN MediumDescriptor -> MediumDescriptor[desc]
    [] desc \in DOMAIN TextDescriptor   -> TextDescriptor[desc]
    [] desc \in DOMAIN EgcDescriptor    -> EgcDescriptor[desc]

Decoded == DOMAIN ShortDescriptor \cup DOMAIN MediumDescriptor
             \cup DOMAIN TextDescriptor \cup DOMAIN EgcDescriptor

(* A message and an EGC part without text are not shown.                   *)
MayBeEmpty == {"message", "egc_part1", "egc_part2"}

Depth  == Len(stack)
Nested == Depth > 1

(* pos and frame_len of the call that runs. *)
pos       == stack[Depth].pos
frame_len == stack[Depth].len

GoTo(p) == stack' = [stack EXCEPT ![Depth] = [pos |-> p, len |-> frame_len]]

(* What the decoder of a packet hands to the callback. *)
Calls(desc, len) ==
  IF desc \notin Decoded \/ len < MinLength(desc) THEN {{}}
  ELSE IF desc \in MayBeEmpty THEN {{}, {[at |-> pos, len |-> len]}}
  ELSE {{[at |-> pos, len |-> len]}}

(* The descriptor, and for a medium one the byte behind it, give the       *)
(* length; a long descriptor takes the rest of the frame.                  *)
get_packet_length(desc) ==
  IF desc = "unknown" THEN {frame_len - pos}
  ELSE IF desc \in DOMAIN ShortDescriptor THEN {n \in Lengths : n <= 16}
  ELSE {n \in Lengths : n >= 2}

(* The loop of parse_packets reads a byte that is not the end marker; a    *)
(* buffer wiped by decode_multiframe_start has no other byte.              *)
AtByte == Depth > 0 /\ pos < frame_len - 2 /\ (Nested => mfp.sources # {})

AtPacket(len) == AtByte /\ pos + len <= frame_len

(* The last 2 bytes are the CRC, and what is left of a chunk without them. *)
Payload(len) == IF len < 4 THEN 0 ELSE len - 4

Packet(desc) ==
  \E len \in get_packet_length(desc) :
    /\ AtPacket(len)
    /\ GoTo(pos + len)
    /\ called' \in Calls(desc, len)
    /\ UNCHANGED <<syncVars, mfp, latest>>

BadCrc(desc) ==
  \E len \in get_packet_length(desc) :
    /\ AtPacket(len)
    /\ GoTo(pos + len)
    /\ called' = {}
    /\ UNCHANGED <<syncVars, mfp, latest>>

Padding ==
  /\ AtByte
  /\ GoTo(pos + 1)
  /\ called' = {}
  /\ UNCHANGED <<syncVars, mfp, latest>>

(* Fault: the collection is not closed when its packet has been parsed. *)
EndOfFrame_StaysOpen ==
  /\ Depth > 0
  /\ stack' = SubSeq(stack, 1, Depth - 1)
  /\ called' = {}
  /\ UNCHANGED <<syncVars, mfp, latest>>

(* The end marker, a packet that does not fit, or the end of the frame:    *)
(* parse_packets returns, and decode_multiframe_cont, if it was the        *)
(* caller, closes the collection.                                          *)
EndOfFrame ==
  /\ Depth > 0
  /\ stack' = SubSeq(stack, 1, Depth - 1)
  /\ mfp' = IF Nested THEN [mfp EXCEPT !.active = FALSE] ELSE mfp
  /\ called' = {}
  /\ UNCHANGED <<syncVars, latest>>

(* decode_multiframe_start: the length of the packet inside is in its      *)
(* first bytes; what was collected before is dropped.  When the start is   *)
(* itself in mfp->data the memset wipes it, and zeros are collected.       *)
decode_multiframe_start(src, inner_len) ==
  \E len \in get_packet_length("multiframe_start") :
    /\ AtPacket(len)
    /\ GoTo(pos + len)
    /\ mfp' = IF len < 5 THEN mfp
              ELSE [active |-> TRUE, total_len |-> inner_len, start |-> src,
                    filled |-> Least(Payload(len), DataSize),
                    sources |-> IF Nested THEN {} ELSE {src}]
    /\ latest' = src
    /\ called' = {}
    /\ UNCHANGED syncVars

(* The chunk that is copied behind what was collected; a piece found in    *)
(* mfp->data is a copy of bytes that are there already.                    *)
WithChunk(src, len) ==
  LET n == Least(Payload(len), DataSize - mfp.filled)
  IN  [mfp EXCEPT !.filled = @ + n,
                  !.sources = IF n = 0 \/ Nested THEN @ ELSE @ \cup {src}]

(* decode_multiframe_cont: append; when all but the CRC is there,          *)
(* parse_packets runs on the buffer, as a frame of total_len bytes, while  *)
(* the collection is still open.                                           *)
decode_multiframe_cont(src) ==
  \E len \in get_packet_length("multiframe_cont") :
    /\ AtPacket(len)
    /\ IF mfp.active /\ WithChunk(src, len).filled >= mfp.total_len - 2
       THEN /\ Depth < MaxDepth
            /\ stack' = Append([stack EXCEPT ![Depth] = [pos |-> pos + len, len |-> frame_len]],
                               [pos |-> 0, len |-> mfp.total_len])
       ELSE GoTo(pos + len)
    /\ mfp' = IF mfp.active THEN WithChunk(src, len) ELSE mfp
    /\ latest' = src
    /\ called' = {}
    /\ UNCHANGED syncVars

(* The packets a piece on the air may belong to; a piece in mfp->data is   *)
(* not heard anew.                                                         *)
OnAir(first) == IF Nested THEN {latest} ELSE first..MaxSource

parse_packets ==
  /\ Depth > 0
  /\ \/ \E desc \in Decoded \cup Skipped : Packet(desc) \/ BadCrc(desc)
     \/ Padding
     \/ EndOfFrame
     \/ \E src \in OnAir(latest + 1), inner_len \in Lengths : decode_multiframe_start(src, inner_len)
     \/ \E src \in OnAir(latest) : decode_multiframe_cont(src)

Feed == (\E inverted, bad \in BOOLEAN : FrameFound(inverted, bad)) \/ NoFrame

StdcNext == Feed \/ SignalChanges \/ parse_packets

StdcSpec == StdcInit /\ [][StdcNext]_stdcVars

(* Bits keep coming, and the parser runs to the end of the frame.          *)
StdcFairness == WF_stdcVars(Feed) /\ WF_stdcVars(parse_packets)

-----------------------------------------------------------------------------
(* No bit is decoded twice and none is decoded in the polarity of an       *)
(* earlier frame: what process_frame takes has come in since it last ran.  *)
EachBitDecodedOnce ==
  [][phase' # phase /\ fresh' = 0 => fresh + 1 >= EncodedSize /\ flipped <= 1]_stdcVars

(* A lock that was false, lost, or never there is replaced by the right    *)
(* one when the signal stays clean, and not given up again.                *)
LockIsRegained == <>[]~noisy => <>[](synced /\ phase = shift_pos % EncodedSize)

(* The bytes collected are those of the packet they are collected for: the *)
(* start is among them, and nothing received before it.                    *)
OwnBytes == mfp.start \in mfp.sources /\ mfp.sources \subseteq mfp.start..latest

(* However frames are lost and multiframe packets are nested, what the     *)
(* callback gets out of a packet put together from pieces was collected    *)
(* since the start of that packet, all but its CRC; and a collection that  *)
(* a piece inside a packet opened, which holds zeros, is never continued   *)
(* by pieces from the air.                                                 *)
PacketsAreWhole ==
  /\ Nested => \A m \in called : m.at + m.len - 2 <= mfp.filled /\ OwnBytes
  /\ ~Nested /\ mfp.active => OwnBytes

=============================================================================
