--------------------------- MODULE DecoderProofs ----------------------------
(***************************************************************************)
(* The decoders.  STD-C, for every frame size, number of slots and set of  *)
(* messages: synchronisation decodes no bit twice, the packets handed on   *)
(* are whole, and reassembly never mixes messages or evicts the wrong one. *)
(* AeroL, for every plan of messages, frame size and number of references: *)
(* what is sent arrives, in order and whole, while nothing is lost, and    *)
(* SUs of different messages are only mixed when enough was lost.          *)
(***************************************************************************)
EXTENDS StdcDecoder, EgcReassembly, AeroDecoder, FiniteSetTheorems, SequenceTheorems,
        WellFoundedInduction, TLAPS

(* A set of naturals that is not empty has a least element.                *)
LEMMA LeastExists ==
  ASSUME NEW T, T \subseteq Nat, T # {}
  PROVE  \E x \in T : \A y \in T : x <= y
<1>1. PICK x \in T : \A y \in T : ~(<<y, x>> \in OpToRel(<, Nat))
  BY WFMin, NatLessThanWellFounded
<1>2. ASSUME NEW y \in T PROVE x <= y
  <2>1. <<y, x>> \notin OpToRel(<, Nat) BY <1>1
  <2>2. ~(y < x) BY <2>1 DEF OpToRel
  <2> QED BY <2>2
<1> QED BY <1>2

-----------------------------------------------------------------------------
(* Synchronisation.  The count of fresh bits is at least shift_pos, which  *)
(* the code tests, or it has reached the size of a frame (shift_pos may    *)
(* have wrapped round since); the bits that were inverted in place are     *)
(* among those that are not fresh.                                         *)

SyncInv ==
  /\ shift_pos \in Int /\ fresh \in 0..EncodedSize /\ flipped \in 0..EncodedSize
  /\ phase \in 0..(EncodedSize - 1)
  /\ shift_pos <= fresh \/ fresh = EncodedSize
  /\ flipped + fresh <= EncodedSize \/ flipped = 0

LEMMA SyncInit == StdcInit => SyncInv
BY StdcAssumption DEF StdcInit, SyncInv

LEMMA ParserKeepsSync == parse_packets => UNCHANGED syncVars
BY DEF parse_packets, Packet, BadCrc, Padding, EndOfFrame,
       decode_multiframe_start, decode_multiframe_cont

LEMMA PhaseType ==
  ASSUME phase \in 0..(EncodedSize - 1)
  PROVE  (phase + 1) % EncodedSize \in 0..(EncodedSize - 1)
BY StdcAssumption

LEMMA SyncStep == SyncInv /\ [StdcNext]_stdcVars => SyncInv'
<1> SUFFICES ASSUME SyncInv, [StdcNext]_stdcVars PROVE SyncInv'
  OBVIOUS
<1> USE StdcAssumption DEF SyncInv
<1>1. ASSUME NEW inverted \in BOOLEAN, NEW bad \in BOOLEAN, FrameFound(inverted, bad)
      PROVE  SyncInv'
  <2>1. /\ phase' = (phase + 1) % EncodedSize
        /\ shift_pos' = 0 /\ fresh' = 0
        /\ flipped' = IF inverted THEN EncodedSize
                      ELSE IF flipped = 0 THEN 0 ELSE flipped - 1
    BY <1>1 DEF FrameFound, process_frame
  <2>2. phase' \in 0..(EncodedSize - 1) BY <2>1, PhaseType
  <2> QED BY <2>1, <2>2
<1>2. CASE NoFrame
  <2>1. /\ phase' = (phase + 1) % EncodedSize
        /\ flipped' = IF flipped = 0 THEN 0 ELSE flipped - 1
        /\ fresh' = Least(fresh + 1, EncodedSize)
        /\ shift_pos' = Increment(shift_pos)
    BY <1>2 DEF NoFrame, ShiftIn
  <2>2. phase' \in 0..(EncodedSize - 1) BY <2>1, PhaseType
  <2>3. shift_pos' \in Int /\ shift_pos' <= shift_pos + 1
    BY <2>1 DEF Increment
  <2> QED BY <2>1, <2>2, <2>3 DEF Least
<1>3. CASE SignalChanges BY <1>3 DEF SignalChanges
<1>4. CASE parse_packets BY <1>4, ParserKeepsSync DEF syncVars
<1>5. CASE UNCHANGED stdcVars BY <1>5 DEF stdcVars, syncVars
<1> QED BY <1>1, <1>2, <1>3, <1>4, <1>5 DEF StdcNext, Feed

(* stdc_decoder_feed hands every soft bit to process_frame at most once,   *)
(* and none that an earlier frame's inversion has turned round, however    *)
(* long it searched, lost its lock or let shift_pos wrap round.            *)
THEOREM BitsDecodedOnce == StdcSpec => EachBitDecodedOnce
<1> DEFINE Once == phase' # phase /\ fresh' = 0 => fresh + 1 >= EncodedSize /\ flipped <= 1
<1>1. SyncInv /\ [StdcNext]_stdcVars => [Once]_stdcVars
  <2> SUFFICES ASSUME SyncInv, StdcNext, phase' # phase, fresh' = 0
               PROVE  fresh + 1 >= EncodedSize /\ flipped <= 1
    BY DEF stdcVars, syncVars
  <2> USE StdcAssumption DEF SyncInv
  <2>1. ASSUME NEW inverted \in BOOLEAN, NEW bad \in BOOLEAN, FrameFound(inverted, bad)
        PROVE  fresh + 1 >= EncodedSize
    <3>1. Increment(shift_pos) >= EncodedSize BY <2>1 DEF FrameFound
    <3>2. shift_pos + 1 >= EncodedSize BY <3>1 DEF Increment
    <3> QED BY <3>2
  <2>2. ASSUME NoFrame PROVE FALSE
    BY <2>2 DEF NoFrame, ShiftIn, Least
  <2>3. ASSUME SignalChanges PROVE FALSE BY <2>3 DEF SignalChanges
  <2>4. ASSUME parse_packets PROVE FALSE BY <2>4, ParserKeepsSync DEF syncVars
  <2>5. fresh + 1 >= EncodedSize BY <2>1, <2>2, <2>3, <2>4 DEF StdcNext, Feed
  <2> QED BY <2>5
<1>2. StdcSpec => [][Once]_stdcVars
  BY <1>1, SyncInit, SyncStep, PTL DEF StdcSpec
<1> QED BY <1>2 DEF EachBitDecodedOnce

-----------------------------------------------------------------------------
(* Packets.  While the parser reads the frame on the air, an open          *)
(* collection holds bytes of its own packet only.  While it reads the      *)
(* buffer, and the buffer is not wiped, no call of parse_packets was told  *)
(* that there is more than was collected, but for the CRC.                 *)

Multiframe == [active : BOOLEAN, total_len : Nat, filled : 0..DataSize, start : Nat,
               sources : SUBSET Nat]

ParserCall == [pos : Nat, len : Nat]

MfpType ==
  /\ latest \in Nat
  /\ mfp \in Multiframe
  /\ stack \in Seq(ParserCall)

NestedInv ==
  Nested /\ mfp.sources # {} =>
    OwnBytes /\ \A i \in 2..Depth : stack[i].len - 2 <= mfp.filled

WholeInv == MfpType /\ NestedInv /\ PacketsAreWhole

LEMMA WholeInit == StdcInit => WholeInv
<1> SUFFICES ASSUME StdcInit PROVE WholeInv
  OBVIOUS
<1>1. mfp \in Multiframe /\ ~mfp.active
  BY StdcAssumption DEF StdcInit, NoMultiframe, Multiframe
<1>2. stack = <<>> /\ latest = 0 /\ called = {} BY DEF StdcInit
<1>3. ~Nested BY <1>2 DEF Nested, Depth
<1>4. MfpType BY <1>1, <1>2 DEF MfpType
<1> QED BY <1>1, <1>3, <1>4 DEF WholeInv, NestedInv, PacketsAreWhole

LEMMA PayloadType == ASSUME NEW len \in Nat PROVE Payload(len) \in Nat /\ (len >= 5 => Payload(len) > 0)
BY DEF Payload

LEMMA MultiframeLength ==
  /\ get_packet_length("multiframe_start") \subseteq Nat
  /\ get_packet_length("multiframe_cont") \subseteq Nat
BY StdcAssumption DEF get_packet_length, ShortDescriptor

LEMMA StackIs ==
  ASSUME MfpType
  PROVE  /\ Depth \in Nat /\ Depth = Len(stack) /\ stack \in Seq(ParserCall)
         /\ \A i \in 1..Depth : stack[i] \in ParserCall /\ stack[i].len \in Nat
         /\ Depth > 0 => pos \in Nat /\ frame_len \in Nat
<1>1. Depth = Len(stack) /\ stack \in Seq(ParserCall) BY DEF MfpType, Depth
<1>2. Depth \in Nat BY <1>1
<1>3. \A i \in 1..Depth : stack[i] \in ParserCall BY <1>1
<1>4. \A c \in ParserCall : c.pos \in Nat /\ c.len \in Nat BY DEF ParserCall
<1>5. Depth > 0 => Depth \in 1..Depth BY <1>2
<1> QED BY <1>1, <1>2, <1>3, <1>4, <1>5 DEF pos, frame_len

LEMMA PacketLength ==
  ASSUME WholeInv, NEW desc, NEW len \in get_packet_length(desc), AtPacket(len)
  PROVE  len \in Nat
<1>1. Depth > 0 /\ pos < frame_len - 2 BY DEF AtPacket, AtByte
<1>2. pos \in Nat /\ frame_len \in Nat BY <1>1, StackIs DEF WholeInv
<1>3. frame_len - pos \in Nat BY <1>1, <1>2
<1> QED BY <1>3, StdcAssumption DEF get_packet_length

(* The parser moves on in the call that runs, and all calls keep the       *)
(* length they were given.                                                 *)
LEMMA GoesTo ==
  ASSUME MfpType, Depth > 0, NEW p \in Nat, GoTo(p)
  PROVE  /\ stack' \in Seq(ParserCall) /\ Depth' = Depth /\ Nested' = Nested
         /\ \A i \in 1..Depth : stack'[i].len = stack[i].len
         /\ frame_len \in Nat /\ pos \in Nat
<1>1. stack \in Seq(ParserCall) /\ Depth = Len(stack) /\ Depth \in Nat BY StackIs
<1>2. Depth \in 1..Len(stack) BY <1>1
<1>3. frame_len \in Nat /\ pos \in Nat BY StackIs
<1> DEFINE e == [pos |-> p, len |-> frame_len]
<1>4. e \in ParserCall /\ e.len = frame_len BY <1>3 DEF ParserCall
<1>5. stack' = [stack EXCEPT ![Depth] = e] BY DEF GoTo
<1> HIDE DEF e
<1>6. stack' \in Seq(ParserCall) /\ Len(stack') = Len(stack)
      /\ \A i \in 1..Len(stack) : stack'[i] = IF i = Depth THEN e ELSE stack[i]
  BY <1>1, <1>2, <1>4, <1>5
<1>7. \A i \in 1..Depth : stack'[i].len = stack[i].len
  BY <1>1, <1>4, <1>6 DEF frame_len
<1> QED BY <1>1, <1>3, <1>6, <1>7 DEF Depth, Nested

(* A step that only moves on. *)
LEMMA MovesOn ==
  ASSUME WholeInv, Depth > 0, NEW p \in Nat, GoTo(p), UNCHANGED <<mfp, latest>>, called' = {}
  PROVE  WholeInv'
<1>1. /\ stack' \in Seq(ParserCall) /\ Depth' = Depth /\ Nested' = Nested
      /\ \A i \in 1..Depth : stack'[i].len = stack[i].len
  BY GoesTo DEF WholeInv
<1>2. MfpType' BY <1>1 DEF WholeInv, MfpType
<1>3. OwnBytes' = OwnBytes BY DEF OwnBytes
<1>4. Depth \in Nat BY DEF WholeInv, MfpType, Depth
<1>5. NestedInv' BY <1>1, <1>3, <1>4 DEF WholeInv, NestedInv
<1> QED BY <1>1, <1>2, <1>3, <1>5 DEF WholeInv, PacketsAreWhole

(* The parser is at a byte that was collected, if it reads the buffer.     *)
LEMMA AtCollected ==
  ASSUME WholeInv, NEW len \in Nat, AtPacket(len)
  PROVE  /\ Depth > 0 /\ Depth \in Nat /\ pos \in Nat /\ frame_len \in Nat /\ pos + len \in Nat
         /\ pos + len <= frame_len
         /\ Nested => mfp.sources # {} /\ OwnBytes /\ pos + len - 2 <= mfp.filled
<1>1. /\ Depth > 0 /\ pos + len <= frame_len /\ (Nested => mfp.sources # {})
  BY DEF AtPacket, AtByte
<1>2. Depth \in Nat BY StackIs DEF WholeInv
<1>4. pos \in Nat /\ frame_len \in Nat BY <1>1, StackIs DEF WholeInv
<1>5. Nested => OwnBytes /\ frame_len - 2 <= mfp.filled
  BY <1>1, <1>2 DEF WholeInv, NestedInv, Nested, frame_len
<1>6. mfp.filled \in Nat BY StdcAssumption DEF WholeInv, MfpType, Multiframe
<1> QED BY <1>1, <1>2, <1>4, <1>5, <1>6

(* A chunk fits in the buffer, and comes from its packet. *)
LEMMA WithChunkIs ==
  ASSUME WholeInv, NEW len \in Nat, NEW src \in Nat
  PROVE  /\ WithChunk(src, len) \in Multiframe
         /\ WithChunk(src, len).active = mfp.active
         /\ WithChunk(src, len).start = mfp.start
         /\ WithChunk(src, len).total_len = mfp.total_len
         /\ WithChunk(src, len).filled >= mfp.filled
         /\ WithChunk(src, len).sources \in {mfp.sources, mfp.sources \cup {src}}
         /\ Nested => WithChunk(src, len).sources = mfp.sources
<1> DEFINE n == Least(Payload(len), DataSize - mfp.filled)
           srcs == IF n = 0 \/ Nested THEN mfp.sources ELSE mfp.sources \cup {src}
<1>1. mfp \in Multiframe BY DEF WholeInv, MfpType
<1>2. mfp.filled \in 0..DataSize /\ DataSize \in Nat BY <1>1, StdcAssumption DEF Multiframe
<1>3. n \in Nat /\ mfp.filled + n \in 0..DataSize
  BY <1>2, PayloadType DEF Least
<1>4. WithChunk(src, len) = [mfp EXCEPT !.filled = mfp.filled + n, !.sources = srcs]
  BY <1>1 DEF WithChunk, Multiframe
<1>5. srcs \in SUBSET Nat /\ srcs \in {mfp.sources, mfp.sources \cup {src}}
      /\ (Nested => srcs = mfp.sources)
  BY <1>1 DEF Multiframe
<1> HIDE DEF n, srcs
<1>6. mfp.filled + n >= mfp.filled BY <1>2, <1>3
<1> QED BY <1>1, <1>3, <1>4, <1>5, <1>6 DEF Multiframe

LEMMA StartKeepsWhole ==
  ASSUME WholeInv, NEW src \in OnAir(latest + 1), NEW inner_len \in Lengths,
         decode_multiframe_start(src, inner_len)
  PROVE  WholeInv'
<1>1. PICK len \in get_packet_length("multiframe_start") :
        /\ AtPacket(len) /\ GoTo(pos + len)
        /\ mfp' = IF len < 5 THEN mfp
                  ELSE [active |-> TRUE, total_len |-> inner_len, start |-> src,
                        filled |-> Least(Payload(len), DataSize),
                        sources |-> IF Nested THEN {} ELSE {src}]
        /\ latest' = src /\ called' = {}
  BY DEF decode_multiframe_start
<1>2. len \in Nat /\ Payload(len) \in Nat BY MultiframeLength, PayloadType
<1>3. /\ Depth > 0 /\ Depth \in Nat /\ pos + len \in Nat
  BY <1>1, <1>2, AtCollected
<1>4. /\ stack' \in Seq(ParserCall) /\ Depth' = Depth /\ Nested' = Nested
      /\ \A i \in 1..Depth : stack'[i].len = stack[i].len
  BY <1>1, <1>3, GoesTo DEF WholeInv
<1>5. latest \in Nat /\ src \in Nat /\ latest <= src /\ (Nested => src = latest)
  BY StdcAssumption DEF WholeInv, MfpType, OnAir
<1>6. CASE len < 5
  <2>1. mfp' = mfp BY <1>1, <1>6
  <2>2. MfpType' BY <1>1, <1>4, <1>5, <2>1 DEF WholeInv, MfpType
  <2>3. OwnBytes => OwnBytes'
    BY <1>1, <1>5, <2>1 DEF OwnBytes, WholeInv, MfpType, Multiframe
  <2>4. NestedInv' BY <1>3, <1>4, <2>1, <2>3 DEF WholeInv, NestedInv
  <2> QED BY <1>1, <1>4, <2>1, <2>2, <2>3, <2>4 DEF WholeInv, PacketsAreWhole
<1>7. CASE ~(len < 5)
  <2> DEFINE m == [active |-> TRUE, total_len |-> inner_len, start |-> src,
                   filled |-> Least(Payload(len), DataSize),
                   sources |-> IF Nested THEN {} ELSE {src}]
  <2>1. mfp' = m BY <1>1, <1>7
  <2>2. Least(Payload(len), DataSize) \in 0..DataSize /\ inner_len \in Nat
    BY <1>2, StdcAssumption DEF Least
  <2>3. m \in Multiframe /\ m.start = src /\ m.sources = IF Nested THEN {} ELSE {src}
    BY <1>5, <2>2 DEF Multiframe
  <2> HIDE DEF m
  <2>4. MfpType' BY <1>1, <1>4, <1>5, <2>1, <2>3 DEF MfpType
  <2>5. ~Nested => OwnBytes' BY <1>1, <1>5, <2>1, <2>3 DEF OwnBytes
  <2>6. Nested => mfp'.sources = {} BY <2>1, <2>3
  <2>7. NestedInv' BY <1>4, <2>6 DEF NestedInv
  <2> QED BY <1>1, <1>4, <2>4, <2>5, <2>7 DEF WholeInv, PacketsAreWhole
<1> QED BY <1>6, <1>7

LEMMA ContKeepsWhole ==
  ASSUME WholeInv, NEW src \in OnAir(latest), decode_multiframe_cont(src)
  PROVE  WholeInv'
<1> DEFINE Pushed(len) == mfp.active /\ WithChunk(src, len).filled >= mfp.total_len - 2
           Moved(len) == [stack EXCEPT ![Depth] = [pos |-> pos + len, len |-> frame_len]]
<1>1. PICK len \in get_packet_length("multiframe_cont") :
        /\ AtPacket(len)
        /\ IF Pushed(len) THEN stack' = Append(Moved(len), [pos |-> 0, len |-> mfp.total_len])
                          ELSE GoTo(pos + len)
        /\ mfp' = IF mfp.active THEN WithChunk(src, len) ELSE mfp
        /\ latest' = src /\ called' = {}
  BY DEF decode_multiframe_cont
<1>2. len \in Nat BY MultiframeLength
<1>3. /\ Depth > 0 /\ Depth \in Nat /\ pos + len \in Nat /\ frame_len \in Nat
      /\ Nested => mfp.sources # {} /\ OwnBytes
  BY <1>1, <1>2, AtCollected
<1>4. latest \in Nat /\ src \in Nat /\ latest <= src /\ (Nested => src = latest)
  BY StdcAssumption DEF WholeInv, MfpType, OnAir
<1>5. /\ mfp \in Multiframe /\ mfp' \in Multiframe
      /\ mfp'.active = mfp.active /\ mfp'.start = mfp.start /\ mfp'.total_len = mfp.total_len
      /\ mfp'.filled >= mfp.filled
      /\ mfp'.sources \in {mfp.sources, mfp.sources \cup {src}}
      /\ Nested => mfp'.sources = mfp.sources
      /\ mfp.active => mfp' = WithChunk(src, len)
  <2>1. mfp \in Multiframe BY DEF WholeInv, MfpType
  <2>2. mfp.filled >= mfp.filled BY <2>1 DEF Multiframe
  <2> QED BY <1>1, <1>2, <1>4, <2>1, <2>2, WithChunkIs
<1>6. OwnBytes => OwnBytes'
  BY <1>1, <1>4, <1>5 DEF OwnBytes, Multiframe
<1>7. mfp.active /\ ~Nested => OwnBytes BY DEF WholeInv, PacketsAreWhole
<1>8. CASE ~Pushed(len)
  <2>1. /\ stack' \in Seq(ParserCall) /\ Depth' = Depth /\ Nested' = Nested
        /\ \A i \in 1..Depth : stack'[i].len = stack[i].len
    BY <1>1, <1>3, <1>8, GoesTo DEF WholeInv
  <2>2. MfpType' BY <1>1, <1>4, <1>5, <2>1 DEF MfpType
  <2>3. ASSUME Nested, NEW i \in 2..Depth PROVE stack'[i].len - 2 <= mfp'.filled
    <3>1. stack[i].len - 2 <= mfp.filled BY <1>3, <2>3 DEF WholeInv, NestedInv
    <3>2. stack'[i].len = stack[i].len BY <1>3, <2>1
    <3>3. stack[i].len \in Nat BY <1>3, StackIs DEF WholeInv
    <3>4. mfp.filled \in Nat /\ mfp'.filled \in Nat BY <1>5, StdcAssumption DEF Multiframe
    <3> QED BY <1>5, <3>1, <3>2, <3>3, <3>4
  <2>4. NestedInv' BY <1>3, <1>6, <2>1, <2>3 DEF NestedInv
  <2> QED BY <1>1, <1>5, <1>6, <1>7, <2>1, <2>2, <2>4 DEF WholeInv, PacketsAreWhole
<1>9. CASE Pushed(len)
  <2>1. stack \in Seq(ParserCall) /\ Depth = Len(stack)
    BY DEF WholeInv, MfpType, Depth
  <2> DEFINE e == [pos |-> pos + len, len |-> frame_len]
             f == [pos |-> 0, len |-> mfp.total_len]
  <2>2. e \in ParserCall /\ f \in ParserCall
        /\ e.len = frame_len /\ f.len = mfp.total_len
    BY <1>3, <1>5 DEF Multiframe, ParserCall
  <2>3. stack' = Append([stack EXCEPT ![Depth] = e], f) BY <1>1, <1>9
  <2> HIDE DEF e, f
  <2> DEFINE s == [stack EXCEPT ![Depth] = e]
  <2>4. s \in Seq(ParserCall) /\ Len(s) = Depth
        /\ \A i \in 1..Depth : s[i] = IF i = Depth THEN e ELSE stack[i]
    BY <1>3, <2>1, <2>2
  <2> HIDE DEF s
  <2>5. stack' = Append(s, f) BY <2>3 DEF s
  <2>6. stack' \in Seq(ParserCall) /\ Len(stack') = Depth + 1
        /\ (\A i \in 1..Depth : stack'[i] = s[i]) /\ stack'[Depth + 1] = f
    BY <1>3, <2>2, <2>4, <2>5
  <2>7. Depth' = Depth + 1 /\ Nested' BY <1>3, <2>6 DEF Depth, Nested
  <2>8. MfpType' BY <1>1, <1>4, <1>5, <2>6 DEF MfpType
  <2>9. OwnBytes' BY <1>3, <1>6, <1>7, <1>9
  <2>10. ASSUME NEW i \in 2..(Depth + 1) PROVE stack'[i].len - 2 <= mfp'.filled
    <3>1. mfp.filled \in Nat /\ mfp'.filled \in Nat /\ mfp.total_len \in Nat
      BY <1>5, StdcAssumption DEF Multiframe
    <3>2. CASE i = Depth + 1
      <4>1. stack'[i].len = mfp.total_len BY <2>2, <2>6, <3>2
      <4>2. mfp'.filled >= mfp.total_len - 2 BY <1>5, <1>9
      <4> QED BY <3>1, <4>1, <4>2
    <3>3. CASE i \in 2..Depth
      <4>1. Nested BY <1>3, <3>3 DEF Nested
      <4>2. stack[i].len - 2 <= mfp.filled BY <1>3, <3>3, <4>1 DEF WholeInv, NestedInv
      <4>3. stack'[i] = s[i] /\ s[i] = IF i = Depth THEN e ELSE stack[i] BY <1>3, <2>4, <2>6, <3>3
      <4>4. stack'[i].len = stack[i].len BY <2>2, <4>3 DEF frame_len
      <4>5. stack[i].len \in Nat BY <1>3, <3>3, StackIs DEF WholeInv
      <4> QED BY <1>5, <3>1, <4>2, <4>4, <4>5
    <3> QED BY <1>3, <2>10, <3>2, <3>3
  <2>11. NestedInv' BY <2>7, <2>9, <2>10 DEF NestedInv
  <2> QED BY <1>1, <2>7, <2>8, <2>11 DEF WholeInv, PacketsAreWhole
<1> QED BY <1>8, <1>9

LEMMA ReturnKeepsWhole ==
  ASSUME WholeInv, EndOfFrame
  PROVE  WholeInv'
<1>1. /\ Depth > 0 /\ stack' = SubSeq(stack, 1, Depth - 1)
      /\ mfp' = IF Nested THEN [mfp EXCEPT !.active = FALSE] ELSE mfp
      /\ called' = {} /\ latest' = latest
  BY DEF EndOfFrame
<1>2. stack \in Seq(ParserCall) /\ Depth = Len(stack) /\ Depth \in Nat
  BY StackIs DEF WholeInv
<1>3. /\ stack' \in Seq(ParserCall) /\ Len(stack') = Depth - 1
      /\ \A i \in 1..(Depth - 1) : stack'[i] = stack[i]
  BY <1>1, <1>2
<1>4. Depth' = Depth - 1 /\ (Nested' => Nested) BY <1>2, <1>3 DEF Depth, Nested
<1>5. /\ mfp' \in Multiframe
      /\ mfp'.start = mfp.start /\ mfp'.sources = mfp.sources /\ mfp'.filled = mfp.filled
      /\ Nested => ~mfp'.active
      /\ ~Nested => mfp' = mfp
  BY <1>1 DEF WholeInv, MfpType, Multiframe
<1>6. MfpType' BY <1>1, <1>3, <1>5 DEF WholeInv, MfpType
<1>7. OwnBytes' = OwnBytes BY <1>1, <1>5 DEF OwnBytes
<1>8. NestedInv' BY <1>2, <1>3, <1>4, <1>5, <1>7 DEF WholeInv, NestedInv
<1> QED BY <1>1, <1>5, <1>6, <1>7, <1>8 DEF WholeInv, PacketsAreWhole

LEMMA PacketKeepsWhole ==
  ASSUME WholeInv, NEW desc \in Decoded \cup Skipped, Packet(desc)
  PROVE  WholeInv'
<1>1. PICK len \in get_packet_length(desc) :
        /\ AtPacket(len) /\ GoTo(pos + len)
        /\ called' \in Calls(desc, len) /\ UNCHANGED <<mfp, latest>>
  BY DEF Packet
<1>2. len \in Nat BY <1>1, PacketLength
<1>3. /\ Depth > 0 /\ Depth \in Nat /\ pos + len \in Nat
      /\ Nested => OwnBytes /\ pos + len - 2 <= mfp.filled
  BY <1>1, <1>2, AtCollected
<1>4. /\ stack' \in Seq(ParserCall) /\ Depth' = Depth /\ Nested' = Nested
      /\ \A i \in 1..Depth : stack'[i].len = stack[i].len
  BY <1>1, <1>3, GoesTo DEF WholeInv
<1>5. called' \subseteq {[at |-> pos, len |-> len]} BY <1>1 DEF Calls
<1>6. MfpType' BY <1>1, <1>4 DEF WholeInv, MfpType
<1>7. OwnBytes' = OwnBytes BY <1>1 DEF OwnBytes
<1>8. NestedInv' BY <1>1, <1>3, <1>4, <1>7 DEF WholeInv, NestedInv
<1>9. Nested => \A m \in called' : m.at + m.len - 2 <= mfp.filled BY <1>3, <1>5
<1>10. PacketsAreWhole' BY <1>1, <1>3, <1>4, <1>7, <1>9 DEF WholeInv, PacketsAreWhole
<1> QED BY <1>6, <1>8, <1>10 DEF WholeInv

LEMMA WholeStep == WholeInv /\ [StdcNext]_stdcVars => WholeInv'
<1> SUFFICES ASSUME WholeInv, [StdcNext]_stdcVars PROVE WholeInv'
  OBVIOUS
<1>1. CASE SignalChanges \/ NoFrame
  <2>1. UNCHANGED <<stack, mfp, latest>> /\ called' = {} BY <1>1 DEF SignalChanges, NoFrame
  <2> QED BY <2>1 DEF WholeInv, MfpType, NestedInv, PacketsAreWhole, OwnBytes, Nested, Depth
<1>2. ASSUME NEW inverted \in BOOLEAN, NEW bad \in BOOLEAN, FrameFound(inverted, bad)
      PROVE  WholeInv'
  <2>1. /\ stack = <<>> /\ stack' \in {<<>>, <<[pos |-> 0, len |-> FrameBytes]>>}
        /\ UNCHANGED <<mfp, latest>> /\ called' = {}
    BY <1>2 DEF FrameFound, process_frame
  <2>2. ~Nested BY <2>1 DEF Nested, Depth
  <2>3. [pos |-> 0, len |-> FrameBytes] \in ParserCall BY StdcAssumption DEF ParserCall
  <2>4. stack' \in Seq(ParserCall) /\ ~Nested'
    <3> DEFINE f == [pos |-> 0, len |-> FrameBytes]
    <3>1. f \in ParserCall /\ stack' \in {<<>>, <<f>>} BY <2>1, <2>3
    <3> HIDE DEF f
    <3>2. <<f>> \in Seq(ParserCall) /\ Len(<<f>>) = 1 BY <3>1
    <3>3. <<>> \in Seq(ParserCall) /\ Len(<<>>) = 0 OBVIOUS
    <3>4. CASE stack' = <<>> BY <3>3, <3>4 DEF Nested, Depth
    <3>5. CASE stack' = <<f>>
      <4>1. stack' \in Seq(ParserCall) /\ Len(stack') = 1 BY <3>2, <3>5
      <4> QED BY <4>1 DEF Nested, Depth
    <3> QED BY <3>1, <3>4, <3>5
  <2>5. OwnBytes' = OwnBytes BY <2>1 DEF OwnBytes
  <2>6. MfpType' BY <2>1, <2>4 DEF WholeInv, MfpType
  <2> QED BY <2>1, <2>2, <2>4, <2>5, <2>6 DEF WholeInv, NestedInv, PacketsAreWhole
<1>3. ASSUME NEW desc \in Decoded \cup Skipped, BadCrc(desc) PROVE WholeInv'
  <2>1. PICK len \in get_packet_length(desc) :
          AtPacket(len) /\ GoTo(pos + len) /\ UNCHANGED <<mfp, latest>> /\ called' = {}
    BY <1>3 DEF BadCrc
  <2>2. len \in Nat BY <2>1, PacketLength
  <2>3. Depth > 0 /\ pos + len \in Nat BY <2>1, <2>2, AtCollected
  <2> QED BY <2>1, <2>3, MovesOn
<1>4. CASE Padding
  <2>1. AtByte /\ GoTo(pos + 1) /\ UNCHANGED <<mfp, latest>> /\ called' = {} BY <1>4 DEF Padding
  <2>2. Depth > 0 /\ pos + 1 \in Nat
    <3>1. Depth > 0 BY <2>1 DEF AtByte
    <3> QED BY <3>1, StackIs DEF WholeInv
  <2> QED BY <2>1, <2>2, MovesOn
<1>5. CASE parse_packets
  BY <1>3, <1>4, <1>5, PacketKeepsWhole, ReturnKeepsWhole, StartKeepsWhole, ContKeepsWhole
     DEF parse_packets
<1>6. CASE UNCHANGED stdcVars
  BY <1>6 DEF stdcVars, WholeInv, MfpType, NestedInv, PacketsAreWhole, OwnBytes, Nested, Depth
<1> QED BY <1>1, <1>2, <1>5, <1>6 DEF StdcNext, Feed

(* However frames are lost and multiframe packets are nested, what         *)
(* parse_packets hands on out of a packet put together from pieces was     *)
(* collected since the start of that packet, and no collection that was    *)
(* opened from inside a packet outlives it.                                *)
THEOREM PacketsWhole == StdcSpec => []PacketsAreWhole
<1>1. WholeInv => PacketsAreWhole BY DEF WholeInv
<1> QED BY <1>1, WholeInit, WholeStep, PTL DEF StdcSpec

-----------------------------------------------------------------------------
(* EGC reassembly.  The slot that find_egc_slot returns exists: one of the *)
(* slots was heard longest ago.                                            *)

EgcSlot == [active : BOOLEAN, id : Ids \cup {NoId},
         parts : [PartNos -> [id : Ids \cup {NoId}, len : {0, 1}]],
         max_pkt_no : PartNos, complete : BOOLEAN, last_seen : 0..MaxTime]

LEMMA FirstIsIn ==
  ASSUME NEW S, S \subseteq SlotNos, S # {}
  PROVE  First(S) \in S
<1>1. S \subseteq Nat BY EgcAssumption DEF SlotNos
<1>2. \E i \in S : \A j \in S : i <= j BY <1>1, LeastExists
<1> QED BY <1>2 DEF First

LEMMA OldestExists ==
  ASSUME EgcTypeOK
  PROVE  {i \in SlotNos : IsOldest(i)} # {}
<1> DEFINE T == {slots[i].last_seen : i \in SlotNos}
<1>1. T \subseteq Nat BY EgcAssumption DEF EgcTypeOK
<1>2. 0 \in SlotNos BY EgcAssumption DEF SlotNos
<1>3. T # {} BY <1>2
<1>4. PICK t \in T : \A u \in T : t <= u BY <1>1, <1>3, LeastExists
<1>5. PICK i \in SlotNos : slots[i].last_seen = t BY <1>4
<1>6. IsOldest(i) BY <1>4, <1>5 DEF IsOldest
<1> QED BY <1>6

(* What find_egc_slot promises: the slot of the message if it has one,     *)
(* else one that is free or expired, else one heard longest ago.           *)
LEMMA SlotFound ==
  ASSUME EgcTypeOK, NEW id
  PROVE  /\ FindSlot(id) \in SlotNos
         /\ \/ Matches(FindSlot(id), id)
            \/ Usable(FindSlot(id))
            \/ IsOldest(FindSlot(id)) /\ \A j \in SlotNos : ~Usable(j)
<1> DEFINE own    == {i \in SlotNos : Matches(i, id)}
           usable == {i \in SlotNos : Usable(i)}
           oldest == {i \in SlotNos : IsOldest(i)}
<1>1. FindSlot(id) = IF own # {} THEN First(own)
                     ELSE IF usable # {} THEN First(usable) ELSE First(oldest)
  BY DEF FindSlot
<1>2. own # {} => First(own) \in own BY FirstIsIn
<1>3. usable # {} => First(usable) \in usable BY FirstIsIn
<1>4. First(oldest) \in oldest BY FirstIsIn, OldestExists
<1> QED BY <1>1, <1>2, <1>3, <1>4

LEMMA PartIndexType ==
  ASSUME NEW pkt_no \in Nat, NEW is_part2 \in {0, 1}
  PROVE  PartIndex(pkt_no, is_part2) \in PartNos
BY EgcAssumption DEF PartIndex, PartNos

(* Only parts of its own message are in a slot that is in use.             *)
OwnParts(slot) ==
  \A p \in PartNos : slot.parts[p] # NoPart => slot.parts[p].id = slot.id

LEMMA FoundSlotOwn ==
  ASSUME EgcTypeOK, NoForeignParts, NEW id \in Ids
  PROVE  /\ find_egc_slot(id).no \in SlotNos
         /\ find_egc_slot(id).slot \in EgcSlot
         /\ find_egc_slot(id).slot.id = id
         /\ find_egc_slot(id).slot.active
         /\ OwnParts(find_egc_slot(id).slot)
<1> DEFINE i == FindSlot(id)
<1>1. i \in SlotNos BY SlotFound
<1>2. slots[i] \in EgcSlot BY <1>1 DEF EgcTypeOK, EgcSlot
<1>3. now \in 0..MaxTime /\ 0 \in PartNos BY EgcAssumption DEF EgcTypeOK, PartNos
<1>4. /\ FreshSlot(id) \in EgcSlot /\ FreshSlot(id).id = id /\ FreshSlot(id).active
      /\ OwnParts(FreshSlot(id))
  BY <1>3 DEF FreshSlot, EgcSlot, NoPart, OwnParts
<1>5. Matches(i, id) => slots[i].id = id /\ slots[i].active /\ OwnParts(slots[i])
  BY <1>1 DEF Matches, NoForeignParts, OwnParts
<1>6. /\ find_egc_slot(id).no = i
      /\ find_egc_slot(id).slot = IF Matches(i, id) THEN slots[i] ELSE FreshSlot(id)
  BY DEF find_egc_slot
<1> QED BY <1>1, <1>2, <1>4, <1>5, <1>6

LEMMA StoredPartOwn ==
  ASSUME EgcTypeOK, NEW slot \in EgcSlot, OwnParts(slot), slot.id \in Ids,
         NEW idx \in PartNos, NEW is_part2 \in {0, 1},
         NEW continuation \in BOOLEAN, NEW len \in {0, 1}
  PROVE  /\ StorePart(slot, idx, is_part2, continuation, len) \in EgcSlot
         /\ StorePart(slot, idx, is_part2, continuation, len).id = slot.id
         /\ StorePart(slot, idx, is_part2, continuation, len).active = slot.active
         /\ OwnParts(StorePart(slot, idx, is_part2, continuation, len))
<1> DEFINE s == StorePart(slot, idx, is_part2, continuation, len)
           part == [id |-> slot.id, len |-> len]
<1>1. s = [slot EXCEPT !.parts = [slot.parts EXCEPT ![idx] = part],
                       !.max_pkt_no = IF idx > slot.max_pkt_no THEN idx ELSE slot.max_pkt_no,
                       !.complete = slot.complete \/ (~continuation /\ is_part2 = 1),
                       !.last_seen = now]
  BY DEF StorePart, EgcSlot
<1>2. [slot.parts EXCEPT ![idx] = part] \in [PartNos -> [id : Ids \cup {NoId}, len : {0, 1}]]
  BY DEF EgcSlot
<1>3. now \in 0..MaxTime BY DEF EgcTypeOK
<1>4. (slot.complete \/ (~continuation /\ is_part2 = 1)) \in BOOLEAN OBVIOUS
<1>5. (IF idx > slot.max_pkt_no THEN idx ELSE slot.max_pkt_no) \in PartNos BY DEF EgcSlot
<1>6. /\ s \in EgcSlot /\ s.id = slot.id /\ s.active = slot.active
      /\ s.parts = [slot.parts EXCEPT ![idx] = part]
  BY <1>1, <1>2, <1>3, <1>4, <1>5 DEF EgcSlot
<1>7. OwnParts(s)
  BY <1>6 DEF OwnParts, EgcSlot
<1> QED BY <1>6, <1>7

(* A whole message is made of parts of one id, its own.                    *)
LEMMA MessageOwn ==
  ASSUME NEW slot \in EgcSlot, OwnParts(slot), Assembled(slot) # {}
  PROVE  FullMessage(slot).from = {FullMessage(slot).id}
<1>1. ASSUME NEW p \in Assembled(slot) PROVE slot.parts[p].id = slot.id
  <2>1. p \in 0..slot.max_pkt_no /\ slot.parts[p].len > 0 BY DEF Assembled
  <2>2. p \in PartNos BY <2>1, EgcAssumption DEF EgcSlot, PartNos
  <2>3. slot.parts[p] # NoPart BY <2>1 DEF NoPart
  <2> QED BY <2>2, <2>3 DEF OwnParts
<1>2. {slot.parts[p].id : p \in Assembled(slot)} = {slot.id} BY <1>1
<1> QED BY <1>2 DEF FullMessage

EgcInv == EgcTypeOK /\ NoForeignParts

LEMMA EgcInitInv == EgcInit => EgcInv
<1> SUFFICES ASSUME EgcInit PROVE EgcInv
  OBVIOUS
<1>1. 0 \in PartNos /\ 0 \in 0..MaxTime BY EgcAssumption DEF PartNos
<1>2. EgcTypeOK BY <1>1 DEF EgcInit, EgcTypeOK, EmptySlot, NoPart
<1>3. NoForeignParts BY DEF EgcInit, NoForeignParts, EmptySlot
<1> QED BY <1>2, <1>3 DEF EgcInv

LEMMA PacketKeepsOwn ==
  ASSUME EgcInv, UNCHANGED now,
         NEW id \in Ids, NEW pkt_no \in 0..MaxPacketNo, NEW is_part2 \in {0, 1},
         NEW continuation \in BOOLEAN, NEW len \in {0, 1},
         decode_egc(id, pkt_no, is_part2, continuation, len)
  PROVE  EgcInv'
<1> DEFINE found == find_egc_slot(id)
           idx   == PartIndex(pkt_no, is_part2)
           slot  == StorePart(found.slot, idx, is_part2, continuation, len)
           shown == IF len > 0
                    THEN <<[kind |-> "part", id |-> id, parts |-> {idx},
                            from |-> {id}, last |-> idx]>>
                    ELSE <<>>
           done  == IF slot.complete THEN try_emit_egc(slot)
                    ELSE [calls |-> <<>>, slot |-> slot]
<1>1. /\ slots' = [slots EXCEPT ![found.no] = done.slot]
      /\ emitted' = shown \o done.calls
  BY DEF decode_egc
<1>2. /\ found.no \in SlotNos /\ found.slot \in EgcSlot /\ found.slot.id = id
      /\ found.slot.active /\ OwnParts(found.slot)
  BY FoundSlotOwn DEF EgcInv
<1>3. idx \in PartNos
  <2>1. pkt_no \in Nat BY EgcAssumption
  <2> QED BY <2>1, PartIndexType
<1>4. slot \in EgcSlot /\ slot.id = id /\ slot.active /\ OwnParts(slot)
  BY <1>2, <1>3, StoredPartOwn DEF EgcInv
<1> HIDE DEF found, idx, slot
<1>5. /\ done.slot \in EgcSlot /\ done.slot.id = id
      /\ done.slot.active => OwnParts(done.slot)
  BY <1>4 DEF try_emit_egc, EgcSlot
<1>6. done.calls = <<>> \/ (done.calls = <<FullMessage(slot)>> /\ Assembled(slot) # {})
  BY DEF try_emit_egc
<1>7. \A n \in 1..Len(done.calls) : done.calls[n].from = {done.calls[n].id}
  BY <1>4, <1>6, MessageOwn
<1> DEFINE now_shown == [kind |-> "part", id |-> id, parts |-> {idx},
                          from |-> {id}, last |-> idx]
<1>8. now_shown.from = {now_shown.id} OBVIOUS
<1>9. shown \in {<<>>, <<now_shown>>} OBVIOUS
<1>10. done.calls \in {<<>>, <<FullMessage(slot)>>} BY <1>6
<1> HIDE DEF done, shown, now_shown
<1>11. \A n \in 1..Len(emitted') : emitted'[n].from = {emitted'[n].id}
  <2> DEFINE m == FullMessage(slot)
             G == {x \in {now_shown, m} : x.from = {x.id}}
  <2>1. now_shown \in G BY <1>8
  <2>2. done.calls = <<m>> => m \in G BY <1>7
  <2> HIDE DEF m, G
  <2>3. /\ <<>> \in Seq(G)
        /\ \A x \in G : <<x>> \in Seq(G)
    OBVIOUS
  <2>4. shown \in Seq(G) BY <1>9, <2>3, <2>1, Zenon
  <2>5. done.calls \in Seq(G) BY <1>10, <2>3, <2>2, Zenon DEF m
  <2>6. emitted' \in Seq(G) BY <1>1, <2>4, <2>5
  <2>7. \A n \in 1..Len(emitted') : emitted'[n] \in G BY <2>6
  <2> QED BY <2>7 DEF G
<1>12. EgcTypeOK'
  BY <1>1, <1>2, <1>5 DEF EgcInv, EgcTypeOK, EgcSlot
<1>13. \A i \in SlotNos : slots'[i].active => OwnParts(slots'[i])
  BY <1>1, <1>2, <1>5 DEF EgcInv, EgcTypeOK, NoForeignParts, OwnParts
<1> QED BY <1>11, <1>12, <1>13 DEF EgcInv, NoForeignParts, OwnParts

LEMMA EgcStep == EgcInv /\ [EgcNext]_egcVars => EgcInv'
<1> SUFFICES ASSUME EgcInv, [EgcNext]_egcVars PROVE EgcInv'
  OBVIOUS
<1>1. CASE EgcPacket BY <1>1, PacketKeepsOwn DEF EgcPacket
<1>2. CASE Tick
  BY <1>2, EgcAssumption DEF Tick, EgcInv, EgcTypeOK, NoForeignParts
<1>3. CASE UNCHANGED egcVars
  BY <1>3 DEF egcVars, EgcInv, EgcTypeOK, NoForeignParts
<1> QED BY <1>1, <1>2, <1>3 DEF EgcNext

(* Slots are reused for other messages and ids come back, and still no     *)
(* part of another message is in a slot in use or in an emitted message.   *)
THEOREM PartsNeverMixed == EgcSpec => [](EgcTypeOK /\ NoForeignParts)
<1>1. EgcInv => EgcTypeOK /\ NoForeignParts BY DEF EgcInv
<1> QED BY <1>1, EgcInitInv, EgcStep, PTL DEF EgcSpec

(* find_egc_slot takes the slot of a message that is still being received  *)
(* only when no slot is free or expired, and then the one that was heard   *)
(* longest ago.                                                            *)
THEOREM OldestEvicted == EgcSpec => EvictsOnlyOldest
<1> DEFINE Evicts ==
      \A i \in SlotNos :
        slots[i].active /\ ~Expired(i) /\ slots'[i].id # slots[i].id
          => \A j \in SlotNos : /\ ~Usable(j)
                                /\ slots[i].last_seen <= slots[j].last_seen
<1>1. EgcInv /\ [EgcNext]_egcVars => [Evicts]_egcVars
  <2> SUFFICES ASSUME EgcInv, EgcNext, NEW i \in SlotNos,
                      slots[i].active, ~Expired(i), slots'[i].id # slots[i].id
               PROVE  \A j \in SlotNos : ~Usable(j) /\ slots[i].last_seen <= slots[j].last_seen
    BY DEF egcVars
  <2>1. PICK id \in Ids, pkt_no \in 0..MaxPacketNo, is_part2 \in {0, 1},
             continuation \in BOOLEAN, len \in {0, 1} :
               decode_egc(id, pkt_no, is_part2, continuation, len)
    BY DEF EgcNext, EgcPacket, Tick
  <2> DEFINE found == find_egc_slot(id)
             idx   == PartIndex(pkt_no, is_part2)
             slot  == StorePart(found.slot, idx, is_part2, continuation, len)
             done  == IF slot.complete THEN try_emit_egc(slot)
                      ELSE [calls |-> <<>>, slot |-> slot]
  <2>2. slots' = [slots EXCEPT ![found.no] = done.slot] BY <2>1 DEF decode_egc
  <2>3. /\ found.no \in SlotNos /\ found.slot \in EgcSlot /\ found.slot.id = id
        /\ OwnParts(found.slot)
    BY FoundSlotOwn DEF EgcInv
  <2>4. idx \in PartNos
    <3>1. pkt_no \in Nat BY EgcAssumption
    <3> QED BY <3>1, PartIndexType
  <2>5. slot \in EgcSlot /\ slot.id = id BY <2>3, <2>4, StoredPartOwn DEF EgcInv
  <2>6. found.no = FindSlot(id) BY DEF find_egc_slot
  <2> HIDE DEF found, idx, slot
  <2>7. done.slot.id = id BY <2>5 DEF try_emit_egc, EgcSlot
  <2> HIDE DEF done
  <2>8. i = FindSlot(id) /\ ~Matches(i, id)
    BY <2>2, <2>3, <2>6, <2>7 DEF EgcInv, EgcTypeOK, Matches
  <2>9. ~Usable(i) BY DEF Usable
  <2> QED BY <2>8, <2>9, SlotFound DEF EgcInv, IsOldest
<1>2. EgcSpec => [][Evicts]_egcVars
  BY <1>1, EgcInitInv, EgcStep, PTL DEF EgcSpec
<1> QED BY <1>2 DEF EvictsOnlyOldest

-----------------------------------------------------------------------------
(* Induction up to n: a set of numbers with 0 and with the successor of    *)
(* each of its members is all of 0..n.                                     *)
LEMMA UpTo ==
  ASSUME NEW n \in Nat, NEW P \in SUBSET (0..n), 0 \in P,
         \A k \in 0..n : k \in P /\ k < n => k + 1 \in P
  PROVE  P = 0..n
<1> SUFFICES ASSUME P # 0..n PROVE FALSE OBVIOUS
<1> DEFINE T == (0..n) \ P
<1>1. T \subseteq Nat /\ T # {}
  <2>1. P \subseteq 0..n OBVIOUS
  <2>2. \E x \in 0..n : x \notin P BY <2>1, Zenon
  <2> QED BY <2>2
<1>2. PICK x \in T : \A y \in T : x <= y
  <2> HIDE DEF T
  <2> QED BY <1>1, LeastExists
<1>3. x \in 0..n /\ x # 0 OBVIOUS
<1>4. x - 1 \in 0..n /\ x - 1 \notin T BY <1>2, <1>3
<1> QED BY <1>3, <1>4

-----------------------------------------------------------------------------
(* Ageing.  One more step of the loop, and what it leaves of a list: the   *)
(* elements that are young enough, in their order, each one step older.    *)
OneOlder(x) == [x EXCEPT !.count = @ + 1]

(* One turn of the loop of Aged: element i of s, added to r if it is young *)
(* enough.                                                                 *)
Keep(s, keep, r, i) == IF s[i].count + 1 > keep THEN r ELSE Append(r, OneOlder(s[i]))

(* Aged unfolded: it is the last of a list of partial results, each one    *)
(* turn of the loop after the one before.                                  *)
LEMMA AgedSteps ==
  ASSUME NEW s, NEW keep, Len(s) \in Nat
  PROVE  \E g : /\ g[0] = <<>>
                /\ \A i \in 1..Len(s) : g[i] = Keep(s, keep, g[i - 1], i)
                /\ Aged(s, keep) = g[Len(s)]
<1> DEFINE Body(g, i) == IF i = 0 THEN <<>> ELSE Keep(s, keep, g[i - 1], i)
           Loop(n, g) == g = [i \in 0..n |-> Body(g, i)]
           P == {n \in 0..Len(s) : \E g : Loop(n, g)}
<1>1. 0 \in P
  <2>1. Loop(0, [i \in 0..0 |-> <<>>]) OBVIOUS
  <2> HIDE DEF Loop
  <2> QED BY <2>1
<1>2. ASSUME NEW n \in 0..Len(s), n \in P, n < Len(s) PROVE n + 1 \in P
  <2>1. PICK g : Loop(n, g) BY <1>2
  <2> DEFINE h == [i \in 0..(n + 1) |-> IF i = n + 1 THEN Keep(s, keep, g[n], n + 1) ELSE g[i]]
  <2>2. \A i \in 0..(n + 1) : h[i] = Body(h, i)
    <3> SUFFICES ASSUME NEW i \in 0..(n + 1) PROVE h[i] = Body(h, i) OBVIOUS
    <3>1. CASE i = n + 1 BY <3>1
    <3>2. CASE i # n + 1
      <4>1. i \in 0..n /\ g[i] = Body(g, i) BY <2>1, <3>2
      <4>2. i # 0 => h[i - 1] = g[i - 1] BY <4>1
      <4> QED BY <4>1, <4>2
    <3> QED BY <3>1, <3>2
  <2>3. Loop(n + 1, h)
    <3>1. h = [i \in 0..(n + 1) |-> h[i]] OBVIOUS
    <3> HIDE DEF h, Body
    <3> QED BY <2>2, <3>1
  <2> HIDE DEF Loop
  <2> QED BY <2>3, <1>2
<1>3. Len(s) \in P
  <2> HIDE DEF P
  <2>1. P \in SUBSET (0..Len(s)) BY DEF P
  <2>2. P = 0..Len(s) BY <1>1, <1>2, <2>1, UpTo
  <2> QED BY <2>2
<1>4. PICK g0 : Loop(Len(s), g0) BY <1>3
<1> DEFINE g == CHOOSE f : Loop(Len(s), f)
<1>5. Loop(Len(s), g)
  <2> HIDE DEF Loop
  <2> QED BY <1>4
<1>6. Aged(s, keep) = g[Len(s)] BY DEF Aged, Keep, OneOlder
<1>7. g[0] = <<>> /\ \A i \in 1..Len(s) : g[i] = Keep(s, keep, g[i - 1], i)
  <2> HIDE DEF g
  <2> QED BY <1>5
<1> HIDE DEF g
<1> QED BY <1>6, <1>7

(* src says where the elements of r come from in the first k of s. *)
AgedFrom(s, keep, k, r, src) ==
  /\ src \in [1..Len(r) -> 1..k]
  /\ \A i, j \in 1..Len(r) : i < j => src[i] < src[j]
  /\ \A i \in 1..Len(r) : r[i] = OneOlder(s[src[i]]) /\ s[src[i]].count < keep
  /\ \A j \in 1..k : s[j].count < keep => \E i \in 1..Len(r) : src[i] = j

(* What ageing leaves of a list of elements of T: again elements of T,     *)
(* those younger than keep, in their order.                                *)
LEMMA AgedKeeps ==
  ASSUME NEW T, NEW s \in Seq(T), NEW keep \in Nat,
         \A x \in T : x.count \in Nat /\ OneOlder(x) \in T
  PROVE  /\ Aged(s, keep) \in Seq(T)
         /\ \E src : AgedFrom(s, keep, Len(s), Aged(s, keep), src)
<1>1. Len(s) \in Nat /\ \A i \in 1..Len(s) : s[i] \in T OBVIOUS
<1>2. PICK g : /\ g[0] = <<>>
               /\ \A i \in 1..Len(s) : g[i] = Keep(s, keep, g[i - 1], i)
               /\ Aged(s, keep) = g[Len(s)]
  BY <1>1, AgedSteps
<1> DEFINE Q(k) == g[k] \in Seq(T) /\ \E src : AgedFrom(s, keep, k, g[k], src)
           P == {k \in 0..Len(s) : Q(k)}
<1>3. 0 \in P
  <2>1. g[0] = <<>> /\ Len(g[0]) = 0 BY <1>2
  <2>2. AgedFrom(s, keep, 0, g[0], <<>>) BY <2>1 DEF AgedFrom
  <2>3. g[0] \in Seq(T) BY <2>1
  <2>4. Q(0) BY <2>2, <2>3
  <2> HIDE DEF Q
  <2> QED BY <1>1, <2>4
<1>4. ASSUME NEW n \in 0..Len(s), n \in P, n < Len(s) PROVE n + 1 \in P
  <2>1. n + 1 \in 1..Len(s) /\ s[n + 1] \in T /\ s[n + 1].count \in Nat BY <1>1, <1>4
  <2>2. g[n + 1] = Keep(s, keep, g[n], n + 1)
    <3>1. (n + 1) - 1 = n OBVIOUS
    <3> QED BY <1>2, <2>1, <3>1
  <2>3. g[n] \in Seq(T) BY <1>4
  <2>4. PICK src : AgedFrom(s, keep, n, g[n], src) BY <1>4
  <2>5. CASE s[n + 1].count + 1 > keep
    <3>1. g[n + 1] = g[n] BY <2>2, <2>5 DEF Keep
    <3>2. AgedFrom(s, keep, n + 1, g[n + 1], src)
      BY <2>1, <2>4, <2>5, <3>1 DEF AgedFrom
    <3> QED BY <2>1, <2>3, <3>1, <3>2
  <2>6. CASE ~(s[n + 1].count + 1 > keep)
    <3> DEFINE r == g[n]
               m == Len(r) + 1
               src2 == [i \in 1..m |-> IF i = m THEN n + 1 ELSE src[i]]
    <3>1. g[n + 1] = Append(r, OneOlder(s[n + 1])) BY <2>2, <2>6 DEF Keep
    <3>2. OneOlder(s[n + 1]) \in T BY <2>1
    <3>3. /\ g[n + 1] \in Seq(T) /\ Len(g[n + 1]) = m /\ m \in Nat
          /\ g[n + 1][m] = OneOlder(s[n + 1])
          /\ \A i \in 1..Len(r) : g[n + 1][i] = r[i] /\ i \in 1..m /\ i # m
      BY <2>3, <3>1, <3>2
    <3>4. \A i \in 1..m : i = m \/ i \in 1..Len(r) BY <2>3
    <3>5. src2 \in [1..m -> 1..(n + 1)] BY <2>4, <3>4 DEF AgedFrom
    <3>6. \A i, j \in 1..m : i < j => src2[i] < src2[j]
      <4> SUFFICES ASSUME NEW i \in 1..m, NEW j \in 1..m, i < j PROVE src2[i] < src2[j]
        OBVIOUS
      <4>1. i \in 1..Len(r) /\ src[i] \in 1..n BY <2>3, <2>4, <3>4 DEF AgedFrom
      <4> QED BY <2>4, <3>3, <3>4, <4>1 DEF AgedFrom
    <3>7. \A i \in 1..m : g[n + 1][i] = OneOlder(s[src2[i]]) /\ s[src2[i]].count < keep
      <4> SUFFICES ASSUME NEW i \in 1..m
                   PROVE  g[n + 1][i] = OneOlder(s[src2[i]]) /\ s[src2[i]].count < keep
        OBVIOUS
      <4>1. CASE i = m
        <5>1. src2[i] = n + 1 BY <4>1
        <5> QED BY <2>1, <2>6, <3>3, <4>1, <5>1
      <4>2. CASE i \in 1..Len(r)
        <5>1. src2[i] = src[i] /\ g[n + 1][i] = r[i] BY <3>3, <4>2
        <5> HIDE DEF src2, r
        <5> QED BY <2>4, <4>2, <5>1 DEF AgedFrom, r
      <4> QED BY <3>4, <4>1, <4>2
    <3>8. \A j \in 1..(n + 1) : s[j].count < keep => \E i \in 1..m : src2[i] = j
      <4> SUFFICES ASSUME NEW j \in 1..(n + 1), s[j].count < keep
                   PROVE  \E i \in 1..m : src2[i] = j
        OBVIOUS
      <4>1. CASE j = n + 1
        <5>1. m \in 1..m /\ src2[m] = j BY <3>3, <4>1
        <5> HIDE DEF src2, m
        <5> QED BY <5>1
      <4>2. CASE j # n + 1
        <5>1. j \in 1..n BY <4>2
        <5>2. PICK i \in 1..Len(r) : src[i] = j BY <2>4, <5>1 DEF AgedFrom
        <5>3. i \in 1..m /\ src2[i] = j BY <3>3, <5>2
        <5> HIDE DEF src2, m
        <5> QED BY <5>3
      <4> QED BY <4>1, <4>2
    <3> HIDE DEF src2, m, r
    <3>9. AgedFrom(s, keep, n + 1, g[n + 1], src2)
      BY <3>3, <3>5, <3>6, <3>7, <3>8 DEF AgedFrom
    <3> QED BY <2>1, <3>3, <3>9
  <2> QED BY <2>5, <2>6
<1>5. Len(s) \in P
  <2> HIDE DEF P
  <2>1. P \in SUBSET (0..Len(s)) BY DEF P
  <2>2. P = 0..Len(s) BY <1>1, <1>3, <1>4, <2>1, UpTo
  <2> QED BY <1>1, <2>2
<1>6. Q(Len(s)) BY <1>5
<1> QED BY <1>2, <1>6

-----------------------------------------------------------------------------
(* A frame.  The decoder before and after each of its SUs. *)
LEMMA FrameSteps ==
  ASSUME NEW d, NEW f
  PROVE  \E x : /\ x[0] = d
                /\ \A k \in 1..SUsPerFrame : x[k] = DecodeSU(x[k - 1], f[k - 1])
                /\ DecodeFrame(d, f) = x[SUsPerFrame]
<1> DEFINE N == SUsPerFrame
           Body(g, k) == IF k = 0 THEN {d} ELSE {DecodeSU(y, f[k - 1]) : y \in g[k - 1]}
           Loop(n, g) == g = [k \in 0..n |-> Body(g, k)]
           P == {n \in 0..N : \E g : Loop(n, g)}
<1>0. N \in Nat BY DecoderAssumption
<1> HIDE DEF N
<1>1. 0 \in P
  <2> DEFINE h == [k \in 0..0 |-> {d}]
  <2>1. \A k \in 0..0 : h[k] = Body(h, k) OBVIOUS
  <2>2. h = [k \in 0..0 |-> h[k]] OBVIOUS
  <2>3. Loop(0, h)
    <3> HIDE DEF h, Body
    <3> QED BY <2>1, <2>2
  <2> HIDE DEF Loop
  <2> QED BY <1>0, <2>3
<1>2. ASSUME NEW n \in 0..N, n \in P, n < N PROVE n + 1 \in P
  <2>1. PICK g : Loop(n, g) BY <1>2
  <2> DEFINE h == [k \in 0..(n + 1) |-> IF k = n + 1 THEN {DecodeSU(y, f[n]) : y \in g[n]}
                                        ELSE g[k]]
  <2>2. \A k \in 0..(n + 1) : h[k] = Body(h, k)
    <3> SUFFICES ASSUME NEW k \in 0..(n + 1) PROVE h[k] = Body(h, k) OBVIOUS
    <3>1. CASE k = n + 1
      <4>1. k - 1 = n /\ k # 0 /\ h[n] = g[n] /\ h[k] = {DecodeSU(y, f[n]) : y \in g[n]}
        BY <1>0, <3>1
      <4> QED BY <4>1
    <3>2. CASE k # n + 1
      <4>1. k \in 0..n /\ g[k] = Body(g, k)
        <5> HIDE DEF Body
        <5> QED BY <2>1, <3>2
      <4>2. k # 0 => h[k - 1] = g[k - 1] BY <4>1
      <4>3. h[k] = g[k] BY <4>1
      <4> HIDE DEF h
      <4> QED BY <4>1, <4>2, <4>3
    <3> QED BY <3>1, <3>2
  <2>3. Loop(n + 1, h)
    <3>1. h = [k \in 0..(n + 1) |-> h[k]] OBVIOUS
    <3> HIDE DEF h, Body
    <3> QED BY <2>2, <3>1
  <2> HIDE DEF Loop
  <2> QED BY <1>0, <2>3, <1>2
<1>3. N \in P
  <2> HIDE DEF P
  <2>1. P \in SUBSET (0..N) BY DEF P
  <2>2. P = 0..N BY <1>0, <1>1, <1>2, <2>1, UpTo
  <2> QED BY <1>0, <2>2
<1>4. PICK g0 : Loop(N, g0) BY <1>3
<1> DEFINE g == CHOOSE h : Loop(N, h)
<1>5. Loop(N, g)
  <2> HIDE DEF Loop
  <2> QED BY <1>4
<1>6. DecodeFrame(d, f) = CHOOSE y \in g[N] : TRUE BY DEF DecodeFrame, N
<1>7. g[0] = {d} /\ \A k \in 1..N : g[k] = {DecodeSU(y, f[k - 1]) : y \in g[k - 1]}
  <2> HIDE DEF g
  <2>1. \A k \in 0..N : g[k] = Body(g, k)
    <3> HIDE DEF Body
    <3> QED BY <1>5
  <2>2. g[0] = {d}
    <3>1. 0 \in 0..N /\ Body(g, 0) = {d} BY <1>0
    <3> HIDE DEF Body
    <3> QED BY <2>1, <3>1
  <2>3. ASSUME NEW k \in 1..N PROVE g[k] = {DecodeSU(y, f[k - 1]) : y \in g[k - 1]}
    <3>1. k \in 0..N /\ Body(g, k) = {DecodeSU(y, f[k - 1]) : y \in g[k - 1]} BY <1>0
    <3> HIDE DEF Body
    <3> QED BY <2>1, <3>1
  <2> QED BY <2>2, <2>3
<1> HIDE DEF g
<1> DEFINE One == {k \in 0..N : \E y : g[k] = {y}}
<1>8. One = 0..N
  <2>1. 0 \in One
    <3>1. g[0] = {d} BY <1>7
    <3> QED BY <1>0, <3>1
  <2>2. ASSUME NEW n \in 0..N, n \in One, n < N PROVE n + 1 \in One
    <3>1. PICK y : g[n] = {y} BY <2>2
    <3>2. n + 1 \in 1..N /\ (n + 1) - 1 = n BY <1>0, <2>2
    <3>3. g[n + 1] = {DecodeSU(z, f[n]) : z \in g[n]} BY <1>7, <3>2
    <3>4. g[n + 1] = {DecodeSU(y, f[n])} BY <3>1, <3>3
    <3> QED BY <3>2, <3>4
  <2> HIDE DEF One
  <2>3. One \in SUBSET (0..N) BY DEF One
  <2> QED BY <1>0, <2>1, <2>2, <2>3, UpTo
<1> DEFINE x == [k \in 0..N |-> CHOOSE y : g[k] = {y}]
<1>9. \A k \in 0..N : g[k] = {x[k]}
  <2> SUFFICES ASSUME NEW k \in 0..N PROVE g[k] = {x[k]} OBVIOUS
  <2>1. \E y : g[k] = {y} BY <1>8
  <2>2. g[k] = {CHOOSE y : g[k] = {y}} BY <2>1
  <2> QED BY <2>2
<1> HIDE DEF x
<1>10. x[0] = d
  <2>1. {x[0]} = {d} BY <1>0, <1>7, <1>9
  <2> QED BY <2>1
<1>11. ASSUME NEW k \in 1..N PROVE x[k] = DecodeSU(x[k - 1], f[k - 1])
  <2>1. k \in 0..N /\ k - 1 \in 0..N BY <1>0
  <2>2. g[k] = {x[k]} /\ g[k - 1] = {x[k - 1]} BY <1>9, <2>1
  <2>3. {x[k]} = {DecodeSU(x[k - 1], f[k - 1])} BY <1>7, <2>2
  <2> QED BY <2>3
<1>12. DecodeFrame(d, f) = x[N]
  <2>1. g[N] = {x[N]} BY <1>0, <1>9
  <2> QED BY <1>6, <2>1
<1> QED BY <1>10, <1>11, <1>12 DEF N

-----------------------------------------------------------------------------
(* The transmitter's messages.                                             *)

(* The messages of the plan, the user data that SUs carry and the          *)
(* addresses that the decoder may see.                                     *)
Msgs == 1..Len(plan)
Messages == {UserData(m) : m \in Msgs}
AesSet == {plan[m].aes : m \in Msgs} \cup {NoAes}

(* What DecoderAssumption says of the messages of a plan.                  *)
LEMMA PlanType ==
  ASSUME plan \in Plans
  PROVE  /\ Len(plan) \in Nat
         /\ \A m \in Msgs : /\ plan[m].aes \in AesSet
                            /\ plan[m].kind \in {"acars", "data", "badparity"}
                            /\ plan[m].more \in BOOLEAN
                            /\ plan[m].fits \in BOOLEAN
<1> DEFINE M == [aes : {plan[i].aes : i \in DOMAIN plan}, kind : {"acars", "data", "badparity"},
                 more : BOOLEAN, fits : BOOLEAN]
<1>1. plan \in Seq(M) BY DecoderAssumption, Zenon
<1>2. Len(plan) \in Nat /\ \A m \in Msgs : plan[m] \in M
  <2> HIDE DEF M
  <2> QED BY <1>1 DEF Msgs
<1>3. \A m \in Msgs : plan[m].aes \in AesSet BY DEF AesSet
<1> QED BY <1>2, <1>3

(* Reference numbers are numbers.                                          *)
LEMMA RefType ==
  ASSUME NEW m \in Nat
  PROVE  RefOf(m) \in Nat
<1> DEFINE E == Earlier(m, LAMBDA x : TRUE)
<1>1. E \subseteq 1..(m - 1) BY DEF Earlier
<1>2. IsFiniteSet(E) BY <1>1, FS_Interval, FS_Subset
<1>3. Cardinality(E) \in Nat BY <1>2, FS_CardinalityType
<1> QED BY <1>3, DecoderAssumption DEF RefOf

(* Block identifiers are numbers.                                          *)
LEMMA BlockIdType ==
  ASSUME NEW m \in Nat
  PROVE  BlockIdOf(m) \in Nat
<1> DEFINE E == Earlier(m, LAMBDA x : x.kind = "acars")
<1>1. E \subseteq 1..(m - 1) BY DEF Earlier
<1>2. IsFiniteSet(E) BY <1>1, FS_Interval, FS_Subset
<1>3. Cardinality(E) \in Nat BY <1>2, FS_CardinalityType
<1> QED BY <1>3, ReassemblyAssumption DEF BlockIdOf

(* Two different numbers with the same remainder by N are N apart.         *)
LEMMA SameRemainder ==
  ASSUME NEW x \in Nat, NEW y \in Nat, NEW N \in Nat \ {0}, x < y, x % N = y % N
  PROVE  y - x >= N
<1> DEFINE p == x \div N
           q == y \div N
<1>1. /\ p \in Nat /\ q \in Nat /\ x % N \in Nat
      /\ x = N * p + (x % N) /\ y = N * q + (y % N)
  OBVIOUS
<1> HIDE DEF p, q
<1>2. q > p
  <2> SUFFICES ASSUME q <= p PROVE FALSE BY <1>1
  <2>1. N * q <= N * p BY <1>1
  <2> QED BY <1>1, <2>1
<1>3. N * q >= N * (p + 1)
  <2>1. q >= p + 1 BY <1>1, <1>2
  <2> QED BY <1>1, <2>1
<1>4. N * (p + 1) = N * p + N BY <1>1
<1>5. N * p \in Nat /\ N * q \in Nat BY <1>1
<1> QED BY <1>1, <1>3, <1>4, <1>5

(* The messages of a's aircraft after a, up to b.                          *)
Between(a, b) == {m \in (a + 1)..b : plan[m].aes = plan[a].aes}

(* A reference number comes back only after NRefs messages of the          *)
(* aircraft.                                                               *)
LEMMA NumberedAgain ==
  ASSUME NEW a \in Nat, NEW b \in Nat, a >= 1, a < b, plan[a].aes = plan[b].aes,
         RefOf(a) = RefOf(b)
  PROVE  IsFiniteSet(Between(a, b)) /\ Cardinality(Between(a, b)) >= NRefs
<1> DEFINE A == Earlier(a, LAMBDA x : TRUE)
           B == Earlier(b, LAMBDA x : TRUE)
           G == Between(a, b)
<1>1. IsFiniteSet(A) /\ IsFiniteSet(B) /\ IsFiniteSet(G)
  <2>1. A \subseteq 1..(a - 1) /\ B \subseteq 1..(b - 1) BY DEF Earlier
  <2>2. G \subseteq (a + 1)..b BY DEF Between
  <2>3. IsFiniteSet(1..(a - 1)) /\ IsFiniteSet(1..(b - 1)) /\ IsFiniteSet((a + 1)..b)
    <3>1. 1 \in Int /\ a - 1 \in Int /\ b - 1 \in Int /\ a + 1 \in Int /\ b \in Int OBVIOUS
    <3> QED BY <3>1, FS_Interval, Zenon
  <2> QED BY <2>1, <2>2, <2>3, FS_Subset
<1>2. G \cup {a} = (B \ A) \cup {b} /\ a \notin G /\ b \notin B /\ A \subseteq B /\ a \in B \ A
  <2>1. /\ \A m : m \in A <=> m \in 1..(a - 1) /\ plan[m].aes = plan[a].aes
        /\ \A m : m \in B <=> m \in 1..(b - 1) /\ plan[m].aes = plan[a].aes
        /\ \A m : m \in G <=> m \in (a + 1)..b /\ plan[m].aes = plan[a].aes
    BY DEF Earlier, Between
  <2> HIDE DEF A, B, G
  <2>2. ASSUME NEW m PROVE m \in G \cup {a} <=> m \in (B \ A) \cup {b}
    <3>1. CASE m \in Int BY <2>1, <3>1
    <3>2. CASE m \notin Int BY <2>1, <3>2
    <3> QED BY <3>1, <3>2
  <2> QED BY <2>1, <2>2
<1> HIDE DEF A, B, G
<1>3. IsFiniteSet(B \ A) /\ Cardinality(B \ A) = Cardinality(B) - Cardinality(A)
  <2>1. B \cap A = A BY <1>2
  <2> QED BY <1>1, <2>1, FS_Difference
<1>4. Cardinality(G \cup {a}) = Cardinality(G) + 1
  BY <1>1, <1>2, FS_AddElement
<1>5. Cardinality((B \ A) \cup {b}) = Cardinality(B \ A) + 1
  BY <1>2, <1>3, FS_AddElement
<1>6. Cardinality(G) \in Nat /\ Cardinality(A) \in Nat /\ Cardinality(B) \in Nat
  BY <1>1, FS_CardinalityType
<1>7. Cardinality(G) = Cardinality(B) - Cardinality(A) BY <1>2, <1>3, <1>4, <1>5, <1>6
<1>8. Cardinality(B \ A) >= 1
  <2>1. Cardinality(B \ A) # 0 BY <1>2, <1>3, FS_EmptySet
  <2> QED BY <1>3, <2>1, FS_CardinalityType
<1>9. Cardinality(A) % NRefs = Cardinality(B) % NRefs
  BY DEF RefOf, A, B
<1>10. Cardinality(B) - Cardinality(A) >= NRefs
  BY <1>3, <1>6, <1>8, <1>9, SameRemainder, DecoderAssumption
<1> QED BY <1>1, <1>7, <1>10 DEF G

(* So many of the messages between two with the same reference number were *)
(* not heard, if at most KeepIsu were: the count that MixingNeedsLosses    *)
(* states.                                                                 *)
LEMMA LostBetween ==
  ASSUME NEW a \in Nat, NEW b \in Nat, a >= 1, a < b, plan[a].aes = plan[b].aes,
         RefOf(a) = RefOf(b), NEW h, NEW l, IsFiniteSet(l), Cardinality(l) <= KeepIsu,
         Between(a, b) \cap h \subseteq l
  PROVE  Cardinality(Between(a, b) \ h) >= NRefs - KeepIsu
<1> DEFINE G == Between(a, b)
<1>1. IsFiniteSet(G) /\ Cardinality(G) >= NRefs BY NumberedAgain
<1> HIDE DEF G
<1>2. G \cap h \subseteq l BY DEF G
<1>3. IsFiniteSet(G \cap h) /\ Cardinality(G \cap h) <= Cardinality(l)
  BY <1>2, FS_Subset
<1>4. Cardinality(G \ (G \cap h)) = Cardinality(G) - Cardinality(G \cap (G \cap h))
  BY <1>1, FS_Difference
<1>5. G \ (G \cap h) = G \ h /\ G \cap (G \cap h) = G \cap h OBVIOUS
<1>6. Cardinality(G) \in Nat /\ Cardinality(G \cap h) \in Nat /\ Cardinality(l) \in Nat
  BY <1>1, <1>3, FS_CardinalityType
<1>7. KeepIsu \in Nat /\ NRefs \in Nat BY ReassemblyAssumption, DecoderAssumption
<1> QED BY <1>1, <1>3, <1>4, <1>5, <1>6, <1>7 DEF G

-----------------------------------------------------------------------------
(* What the decoder may hold, and what it may not mix.                     *)

(* The types of ISUItem, of anisuitem's reused fields, of a block and of   *)
(* the decoder.                                                            *)
ItemType  == [aes : AesSet, ref : Nat, seq : Nat, userdata : Seq(Messages), count : Nat]
LastType  == [aes : AesSet, fits : BOOLEAN]
BlockType == [aes : AesSet, bi : Nat, more : BOOLEAN, isu : Seq(Messages),
              blocks : Seq(Seq(Messages)), count : Nat]
DecType   == [isuitems : Seq(ItemType), last : LastType,
              frags : Seq(BlockType), out : Seq(BlockType)]

(* The number of message m's first SU.                                     *)
At(m) == (m - 1) * (NSsu + 1)

(* h, the messages whose 0x71 SU was decoded, all started before SU n.     *)
HeardOK(h, n) == h \subseteq Msgs /\ \A m \in h : At(m) < n

(* What MixingNeedsLosses says of one block u of SUs, with all of them     *)
(* sent before SU n.                                                       *)
UnitOK(u, h, n) ==
  /\ \A k \in 1..Len(u) : At(u[k].m) < n
  /\ \A i, j \in 1..Len(u) : u[i].m < u[j].m =>
       /\ u[j].m \notin h \/ ~plan[u[1].m].fits
       /\ plan[u[i].m].aes = plan[u[j].m].aes =>
            Cardinality(Between(u[i].m, u[j].m) \ h) >= NRefs - KeepIsu

(* The same for every block of a list of texts.                            *)
BlocksOK(s, h, n) ==
  \A i \in 1..Len(s) : \A j \in 1..Len(s[i].blocks) : UnitOK(s[i].blocks[j], h, n)

(* The message whose 0x71 SU started item x.                               *)
Starter(x) == x.userdata[1].m

(* The messages heard after m.                                             *)
After(m, h) == {k \in h : k > m}

(* The invariant of an item: its SUs are consecutive by number, of one     *)
(* reference number and in the order they were sent; each is of the        *)
(* message that started it, or of one whose own 0x71 SU was lost, or the   *)
(* item is one that should not be waited for; and its count is that of the *)
(* messages heard since, at most KeepIsu.                                  *)
ItemInv(x, h, n) ==
  /\ Len(x.userdata) \in 1..(NSsu + 1) /\ x.seq = NSsu + 1 - Len(x.userdata)
  /\ Starter(x) \in h /\ x.aes = plan[Starter(x)].aes
  /\ \A k \in 1..Len(x.userdata) :
       /\ RefOf(x.userdata[k].m) = x.ref
       /\ At(x.userdata[k].m) < n
       /\ \/ x.userdata[k].m = Starter(x)
          \/ x.userdata[k].m \notin h
          \/ ~plan[Starter(x)].fits
  /\ \A i, j \in 1..Len(x.userdata) : i <= j => x.userdata[i].m <= x.userdata[j].m
  /\ x.count = Cardinality(After(Starter(x), h)) /\ x.count <= KeepIsu

(* Two items that findisuitem71 does not tell apart.                       *)
SameKey(x, y) == x.aes = y.aes /\ x.ref = y.ref

(* Of two items with the same key the later one is of a 0x71 SU that       *)
(* announced too long a last SSU.                                          *)
ItemsInv(s, h, n) ==
  /\ \A i \in 1..Len(s) : ItemInv(s[i], h, n)
  /\ \A i, j \in 1..Len(s) : i < j /\ SameKey(s[i], s[j]) => ~plan[Starter(s[j])].fits

(* anisuitem is that of the last message heard; if SSUs are taken for it,  *)
(* every item with its key was started by it or is one of those            *)
(* exceptions.                                                             *)
LastInv(last, s, h) ==
  \A l \in h : (\A m \in h : m <= l) =>
    /\ last.aes = plan[l].aes /\ last.fits = plan[l].fits
    /\ last.fits => \A i \in 1..Len(s) :
         s[i].aes = plan[l].aes /\ s[i].ref = RefOf(l) =>
           Starter(s[i]) = l \/ ~plan[Starter(s[i])].fits

(* The invariant of the decoder after SUs numbered below n, of which the   *)
(* 0x71 SUs of the messages h were decoded.                                *)
DecInv(d, h, n) ==
  /\ plan \in Plans /\ d \in DecType /\ n \in Nat /\ HeardOK(h, n)
  /\ ItemsInv(d.isuitems, h, n)
  /\ LastInv(d.last, d.isuitems, h)
  /\ BlocksOK(d.frags, h, n) /\ BlocksOK(d.out, h, n)

(* User data name the message they belong to.                              *)
LEMMA MessageOf ==
  ASSUME NEW x \in Messages
  PROVE  x.m \in Msgs /\ x = UserData(x.m)
BY DEF Messages, UserData

(* The fields of a message's user data.                                    *)
LEMMA UserDataOf ==
  ASSUME plan \in Plans, NEW m \in Msgs
  PROVE  /\ UserData(m) \in Messages /\ UserData(m).m = m /\ m \in Nat
         /\ UserData(m).kind = plan[m].kind /\ UserData(m).more = plan[m].more
         /\ UserData(m).more \in BOOLEAN
         /\ UserData(m).bi = BlockIdOf(m) /\ BlockIdOf(m) \in Nat
<1>1. m \in Nat BY PlanType DEF Msgs
<1>2. UserData(m) \in Messages BY DEF Messages
<1> QED BY <1>1, <1>2, PlanType, BlockIdType DEF UserData

(* A block stays good when later messages are heard: they come after all   *)
(* its SUs.                                                                *)
LEMMA UnitGrows ==
  ASSUME plan \in Plans, NEW u \in Seq(Messages), NEW h, NEW n \in Nat, UnitOK(u, h, n),
         NEW g, NEW n2 \in Nat, n <= n2, h \subseteq g, \A m \in g \ h : At(m) >= n
  PROVE  UnitOK(u, g, n2)
<1>1. \A k \in 1..Len(u) : u[k].m \in Nat
  <2>1. \A k \in 1..Len(u) : u[k] \in Messages OBVIOUS
  <2>2. Msgs \subseteq Nat BY PlanType DEF Msgs
  <2> QED BY <2>1, <2>2, MessageOf
<1>2. \A k \in 1..Len(u) : At(u[k].m) < n2 BY <1>1 DEF UnitOK, At, NSsu
<1>3. ASSUME NEW i \in 1..Len(u), NEW j \in 1..Len(u), u[i].m < u[j].m
      PROVE  /\ u[j].m \notin g \/ ~plan[u[1].m].fits
             /\ plan[u[i].m].aes = plan[u[j].m].aes =>
                  Cardinality(Between(u[i].m, u[j].m) \ g) >= NRefs - KeepIsu
  <2> DEFINE a == u[i].m
             b == u[j].m
  <2>1. a \in Nat /\ b \in Nat /\ At(b) < n BY <1>1 DEF UnitOK
  <2>2. b \notin g \ h BY <2>1 DEF At, NSsu
  <2>3. ASSUME NEW m \in Between(a, b) PROVE m \notin g \ h
    <3>1. m \in Nat /\ m <= b BY <2>1 DEF Between
    <3>2. At(m) < n BY <2>1, <3>1 DEF At, NSsu
    <3> QED BY <2>1, <3>1, <3>2 DEF At, NSsu
  <2>4. Between(a, b) \ g = Between(a, b) \ h BY <2>3
  <2> QED BY <1>3, <2>2, <2>4 DEF UnitOK
<1> QED BY <1>2, <1>3 DEF UnitOK

(* So do all the blocks of a list of texts.                                *)
LEMMA BlocksGrow ==
  ASSUME plan \in Plans, NEW s \in Seq(BlockType), NEW h, NEW n \in Nat, BlocksOK(s, h, n),
         NEW g, NEW n2 \in Nat, n <= n2, h \subseteq g, \A m \in g \ h : At(m) >= n
  PROVE  BlocksOK(s, g, n2)
<1> SUFFICES ASSUME NEW i \in 1..Len(s), NEW j \in 1..Len(s[i].blocks)
             PROVE  UnitOK(s[i].blocks[j], g, n2)
  BY DEF BlocksOK
<1>0. s[i] \in BlockType OBVIOUS
<1>1. s[i].blocks \in Seq(Seq(Messages)) BY <1>0 DEF BlockType
<1>2. s[i].blocks[j] \in Seq(Messages) BY <1>1
<1>3. UnitOK(s[i].blocks[j], h, n) BY DEF BlocksOK
<1> QED BY <1>2, <1>3, UnitGrows

(* Only finitely many messages were heard.                                 *)
LEMMA HeardFinite ==
  ASSUME plan \in Plans, NEW h, h \subseteq Msgs, NEW m
  PROVE  IsFiniteSet(After(m, h))
<1>1. 1 \in Int /\ Len(plan) \in Int BY PlanType
<1>2. IsFiniteSet(Msgs) BY <1>1, FS_Interval, Zenon DEF Msgs
<1>3. After(m, h) \subseteq Msgs BY DEF After
<1> QED BY <1>2, <1>3, FS_Subset

(* An item's user data make a good block: two of its messages with the     *)
(* same aircraft have the same reference number, so the losses between     *)
(* them can be counted (LostBetween), its age bounding those that were     *)
(* heard.                                                                  *)
LEMMA ItemComplete ==
  ASSUME plan \in Plans, NEW x \in ItemType, NEW h, NEW n \in Nat, h \subseteq Msgs,
         ItemInv(x, h, n)
  PROVE  UnitOK(x.userdata, h, n)
<1> DEFINE u == x.userdata
<1>1. u \in Seq(Messages) BY DEF ItemType
<1>2. \A k \in 1..Len(u) : u[k].m \in Nat /\ u[k].m >= 1
  <2>1. \A k \in 1..Len(u) : u[k] \in Messages BY <1>1
  <2>2. \A m \in Msgs : m \in Nat /\ m >= 1 BY PlanType DEF Msgs
  <2> QED BY <2>1, <2>2, MessageOf
<1>3. \A k \in 1..Len(u) : At(u[k].m) < n BY DEF ItemInv
<1>4. ASSUME NEW i \in 1..Len(u), NEW j \in 1..Len(u), u[i].m < u[j].m
      PROVE  /\ u[j].m \notin h \/ ~plan[u[1].m].fits
             /\ plan[u[i].m].aes = plan[u[j].m].aes =>
                  Cardinality(Between(u[i].m, u[j].m) \ h) >= NRefs - KeepIsu
  <2>1. 1 \in 1..Len(u) BY <1>1
  <2>2. u[1].m <= u[i].m BY <2>1 DEF ItemInv
  <2>3. u[j].m # u[1].m BY <1>2, <1>4, <2>1, <2>2
  <2>4. u[j].m \notin h \/ ~plan[u[1].m].fits BY <2>3 DEF ItemInv, Starter
  <2>5. ASSUME plan[u[i].m].aes = plan[u[j].m].aes
        PROVE  Cardinality(Between(u[i].m, u[j].m) \ h) >= NRefs - KeepIsu
    <3> DEFINE a == u[i].m
               b == u[j].m
               l == After(u[1].m, h)
    <3>1. IsFiniteSet(l) BY HeardFinite
    <3>2. Cardinality(l) <= KeepIsu BY DEF ItemInv, Starter
    <3>3. Between(a, b) \cap h \subseteq l BY <1>2, <2>1, <2>2 DEF Between, After
    <3>4. RefOf(a) = RefOf(b) BY DEF ItemInv
    <3>5. a \in Nat /\ b \in Nat /\ a >= 1 /\ a < b BY <1>2, <1>4
    <3> HIDE DEF l, a, b
    <3>6. plan[a].aes = plan[b].aes BY <2>5 DEF a, b
    <3>7. Cardinality(Between(a, b) \ h) >= NRefs - KeepIsu
      BY <3>1, <3>2, <3>3, <3>4, <3>5, <3>6, LostBetween
    <3> QED BY <3>7 DEF a, b
  <2> QED BY <2>4, <2>5
<1> QED BY <1>3, <1>4 DEF UnitOK

(* An item that is kept when another message is heard is one step older,   *)
(* and satisfies its invariant.                                            *)
LEMMA ItemOlder ==
  ASSUME plan \in Plans, NEW x \in ItemType, NEW h, NEW n \in Nat, HeardOK(h, n),
         ItemInv(x, h, n), x.count < KeepIsu,
         NEW m \in Msgs, At(m) >= n
  PROVE  ItemInv(OneOlder(x), h \cup {m}, At(m) + 1)
<1> DEFINE y == OneOlder(x)
           g == h \cup {m}
<1>1. /\ y.userdata = x.userdata /\ y.seq = x.seq /\ y.aes = x.aes /\ y.ref = x.ref
      /\ y.count = x.count + 1 /\ Starter(y) = Starter(x)
  BY DEF OneOlder, ItemType, Starter
<1>2. Msgs \subseteq Nat BY PlanType DEF Msgs
<1>3. x.userdata \in Seq(Messages) /\ x.count \in Nat BY DEF ItemType
<1>4. \A k \in 1..Len(x.userdata) : x.userdata[k].m \in Nat
  <2>1. \A k \in 1..Len(x.userdata) : x.userdata[k] \in Messages BY <1>3
  <2> QED BY <2>1, <1>2, MessageOf
<1>5. \A k \in 1..Len(x.userdata) : x.userdata[k].m < m
  <2> SUFFICES ASSUME NEW k \in 1..Len(x.userdata) PROVE x.userdata[k].m < m OBVIOUS
  <2>1. At(x.userdata[k].m) < n BY DEF ItemInv
  <2> QED BY <1>2, <1>4, <2>1 DEF At, NSsu
<1>6. Starter(x) \in Nat /\ Starter(x) < m
  BY <1>3, <1>4, <1>5 DEF ItemInv, Starter
<1>7. m \notin h BY <1>2 DEF HeardOK, At, NSsu
<1>8. After(Starter(x), g) = After(Starter(x), h) \cup {m}
  BY <1>6 DEF After
<1>9. Cardinality(After(Starter(x), g)) = Cardinality(After(Starter(x), h)) + 1
  <2>1. IsFiniteSet(After(Starter(x), h)) BY HeardFinite DEF HeardOK
  <2>2. m \notin After(Starter(x), h) BY <1>7 DEF After
  <2> QED BY <1>8, <2>1, <2>2, FS_AddElement
<1>10. y.count = Cardinality(After(Starter(y), g)) /\ y.count <= KeepIsu
  BY <1>1, <1>3, <1>9, ReassemblyAssumption DEF ItemInv
<1>11. ASSUME NEW k \in 1..Len(x.userdata)
       PROVE  /\ RefOf(x.userdata[k].m) = x.ref
              /\ At(x.userdata[k].m) < At(m) + 1
              /\ \/ x.userdata[k].m = Starter(x)
                 \/ x.userdata[k].m \notin g
                 \/ ~plan[Starter(x)].fits
  <2>1. At(x.userdata[k].m) < At(m) + 1 BY <1>2, <1>4, <1>5 DEF At, NSsu
  <2>2. x.userdata[k].m # m BY <1>2, <1>4, <1>5
  <2> QED BY <2>1, <2>2 DEF ItemInv
<1> HIDE DEF y
<1> QED BY <1>1, <1>10, <1>11 DEF ItemInv, y

(* Ageing an item keeps its type.                                          *)
LEMMA OlderItem ==
  ASSUME NEW x \in ItemType
  PROVE  x.count \in Nat /\ OneOlder(x) \in ItemType
<1>1. OneOlder(x) = [aes |-> x.aes, ref |-> x.ref, seq |-> x.seq,
                     userdata |-> x.userdata, count |-> x.count + 1]
  BY DEF ItemType, OneOlder
<1>2. x.aes \in AesSet /\ x.ref \in Nat /\ x.seq \in Nat
      /\ x.userdata \in Seq(Messages) /\ x.count \in Nat
  BY DEF ItemType
<1>3. [aes |-> x.aes, ref |-> x.ref, seq |-> x.seq,
       userdata |-> x.userdata, count |-> x.count + 1] \in ItemType
  BY <1>2 DEF ItemType
<1> QED BY <1>1, <1>2, <1>3

(* deleteoldisuitems keeps the invariant of the items.                     *)
LEMMA AgedItems ==
  ASSUME plan \in Plans, NEW s \in Seq(ItemType), NEW h, NEW n \in Nat, HeardOK(h, n),
         ItemsInv(s, h, n), NEW m \in Msgs, At(m) >= n
  PROVE  /\ Aged(s, KeepIsu) \in Seq(ItemType)
         /\ ItemsInv(Aged(s, KeepIsu), h \cup {m}, At(m) + 1)
<1> DEFINE r == Aged(s, KeepIsu)
<1>1. \A x \in ItemType : x.count \in Nat /\ OneOlder(x) \in ItemType
  BY OlderItem
<1>2. KeepIsu \in Nat BY ReassemblyAssumption
<1>3. r \in Seq(ItemType) /\ \E src : AgedFrom(s, KeepIsu, Len(s), r, src)
  BY <1>1, <1>2, AgedKeeps
<1> HIDE DEF r
<1>4. PICK src : AgedFrom(s, KeepIsu, Len(s), r, src) BY <1>3
<1>5. \A i \in 1..Len(s) : s[i] \in ItemType OBVIOUS
<1>6. ASSUME NEW i \in 1..Len(r)
      PROVE  /\ src[i] \in 1..Len(s) /\ r[i] = OneOlder(s[src[i]])
             /\ s[src[i]] \in ItemType
             /\ ItemInv(r[i], h \cup {m}, At(m) + 1)
  <2>1. src[i] \in 1..Len(s) /\ r[i] = OneOlder(s[src[i]]) /\ s[src[i]].count < KeepIsu
    BY <1>4 DEF AgedFrom
  <2>2. s[src[i]] \in ItemType /\ ItemInv(s[src[i]], h, n) BY <1>5, <2>1 DEF ItemsInv
  <2> QED BY <2>1, <2>2, ItemOlder
<1>7. ASSUME NEW i \in 1..Len(r), NEW j \in 1..Len(r), i < j, SameKey(r[i], r[j])
      PROVE  ~plan[Starter(r[j])].fits
  <2>1. src[i] < src[j] BY <1>4, <1>7 DEF AgedFrom
  <2>2. \A x \in ItemType : /\ OneOlder(x).aes = x.aes /\ OneOlder(x).ref = x.ref
                            /\ Starter(OneOlder(x)) = Starter(x)
    BY DEF ItemType, OneOlder, Starter
  <2>3. SameKey(s[src[i]], s[src[j]]) BY <1>6, <1>7, <2>2 DEF SameKey
  <2>4. ~plan[Starter(s[src[j]])].fits BY <1>6, <2>1, <2>3 DEF ItemsInv
  <2> QED BY <1>6, <2>2, <2>4
<1> QED BY <1>3, <1>6, <1>7 DEF ItemsInv, r

-----------------------------------------------------------------------------
(* A 0x71 SU.                                                              *)

(* The item that message m's 0x71 SU starts.                               *)
NewItem(m) == [aes |-> plan[m].aes, ref |-> RefOf(m), seq |-> NSsu,
               userdata |-> <<UserData(m)>>, count |-> 0]

(* It satisfies the invariant of items.                                    *)
LEMMA NewItemInv ==
  ASSUME plan \in Plans, NEW h, NEW n \in Nat, HeardOK(h, n), NEW m \in Msgs, At(m) >= n
  PROVE  /\ NewItem(m) \in ItemType
         /\ ItemInv(NewItem(m), h \cup {m}, At(m) + 1)
         /\ Starter(NewItem(m)) = m
         /\ \A k \in h : k \in Nat /\ k < m
<1> DEFINE x == NewItem(m)
           g == h \cup {m}
<1>1. m \in Nat /\ Msgs \subseteq Nat BY PlanType DEF Msgs
<1>2. /\ UserData(m) \in Messages /\ UserData(m).m = m BY UserDataOf
<1>3. /\ x.userdata \in Seq(Messages) /\ Len(x.userdata) = 1
      /\ x.userdata[1] = UserData(m)
      /\ x.aes = plan[m].aes /\ x.ref = RefOf(m) /\ x.seq = NSsu /\ x.count = 0
  BY <1>2 DEF NewItem
<1>4. x \in ItemType
  <2>1. plan[m].aes \in AesSet /\ RefOf(m) \in Nat BY <1>1, PlanType, RefType
  <2> QED BY <1>3, <2>1 DEF NewItem, ItemType, NSsu
<1>5. \A k \in h : k \in Nat /\ k < m BY <1>1 DEF HeardOK, At, NSsu
<1>6. After(m, g) = {} BY <1>1, <1>5 DEF After
<1>7. Cardinality(After(m, g)) = 0 BY <1>6, FS_EmptySet
<1>8. Starter(x) = m BY <1>2, <1>3 DEF Starter
<1> HIDE DEF x
<1>9. \A k \in 1..Len(x.userdata) : k = 1 BY <1>3
<1>10. At(m) < At(m) + 1 BY <1>1 DEF At, NSsu
<1>11. 0 <= KeepIsu BY ReassemblyAssumption
<1>12. Len(x.userdata) \in 1..(NSsu + 1) /\ x.seq = NSsu + 1 - Len(x.userdata)
  BY <1>3 DEF NSsu
<1>13. \A i, j \in 1..Len(x.userdata) : i <= j => x.userdata[i].m <= x.userdata[j].m
  BY <1>1, <1>2, <1>3, <1>9
<1>14. ItemInv(x, g, At(m) + 1)
  BY <1>2, <1>3, <1>7, <1>8, <1>9, <1>10, <1>11, <1>12, <1>13 DEF ItemInv
<1> QED BY <1>4, <1>5, <1>8, <1>14 DEF x

(* What SelectInSeq returns for the places I that match.                   *)
FirstOf(I) == IF I # {} THEN Min(I) ELSE 0

(* It is the first of them, or 0 if there are none.                        *)
LEMMA FirstIs ==
  ASSUME NEW n \in Nat, NEW I \in SUBSET (1..n)
  PROVE  \/ I = {} /\ FirstOf(I) = 0
         \/ I # {} /\ FirstOf(I) \in I /\ FirstOf(I) \in 1..n /\ \A i \in I : FirstOf(I) <= i
<1>1. CASE I = {} BY <1>1 DEF FirstOf
<1>2. CASE I # {}
  <2>1. \E x \in I : \A y \in I : x <= y
    <3>1. I \subseteq Nat OBVIOUS
    <3> QED BY <1>2, <3>1, LeastExists
  <2>2. FirstOf(I) = CHOOSE x \in I : \A y \in I : x <= y BY <1>2 DEF FirstOf, Min
  <2>3. FirstOf(I) \in I /\ \A y \in I : FirstOf(I) <= y BY <2>1, <2>2
  <2> QED BY <1>2, <2>3
<1> QED BY <1>1, <1>2

(* findisuitem71 finds the first item with the SU's key, if the SU fits.   *)
LEMMA Found71 ==
  ASSUME NEW d, NEW su, Len(d.isuitems) \in Nat,
         NEW i, i = findisuitem71(d, su)
  PROVE  \/ /\ i = 0
            /\ ~su.fits \/ \A j \in 1..Len(d.isuitems) : ~SameMessage(d.isuitems[j], su, su.aes)
         \/ /\ su.fits /\ i \in 1..Len(d.isuitems) /\ i # 0
            /\ SameMessage(d.isuitems[i], su, su.aes)
            /\ \A j \in 1..Len(d.isuitems) : SameMessage(d.isuitems[j], su, su.aes) => i <= j
<1> DEFINE I == {j \in 1..Len(d.isuitems) : SameMessage(d.isuitems[j], su, su.aes)}
<1>1. i = IF ~su.fits THEN 0 ELSE FirstOf(I)
  BY DEF findisuitem71, SelectInSeq, FirstOf
<1>2. I \in SUBSET (1..Len(d.isuitems)) OBVIOUS
<1>3. \/ I = {} /\ FirstOf(I) = 0
      \/ I # {} /\ FirstOf(I) \in I /\ FirstOf(I) \in 1..Len(d.isuitems)
         /\ \A k \in I : FirstOf(I) <= k
  <2> HIDE DEF I
  <2> QED BY <1>2, FirstIs
<1>4. CASE I = {} BY <1>1, <1>3, <1>4
<1>5. CASE I # {} BY <1>1, <1>3, <1>5
<1> QED BY <1>4, <1>5

(* findisuitemC0 finds the first item with the key of the last 0x71 SU     *)
(* that waits for this SSU.                                                *)
LEMMA FoundC0 ==
  ASSUME NEW d, NEW su, Len(d.isuitems) \in Nat,
         NEW i, i = findisuitemC0(d, su)
  PROVE  \/ /\ i = 0
            /\ \/ ~d.last.fits
               \/ \A j \in 1..Len(d.isuitems) :
                    ~(SameMessage(d.isuitems[j], su, d.last.aes) /\ su.seq + 1 = d.isuitems[j].seq)
         \/ /\ d.last.fits /\ i \in 1..Len(d.isuitems) /\ i # 0
            /\ SameMessage(d.isuitems[i], su, d.last.aes) /\ su.seq + 1 = d.isuitems[i].seq
            /\ \A j \in 1..Len(d.isuitems) :
                 SameMessage(d.isuitems[j], su, d.last.aes) /\ su.seq + 1 = d.isuitems[j].seq
                   => i <= j
<1> DEFINE I == {j \in 1..Len(d.isuitems) : /\ SameMessage(d.isuitems[j], su, d.last.aes)
                                            /\ su.seq + 1 = d.isuitems[j].seq}
<1>1. i = IF ~d.last.fits THEN 0 ELSE FirstOf(I)
  BY DEF findisuitemC0, SelectInSeq, FirstOf
<1>2. I \in SUBSET (1..Len(d.isuitems)) OBVIOUS
<1>3. \/ I = {} /\ FirstOf(I) = 0
      \/ I # {} /\ FirstOf(I) \in I /\ FirstOf(I) \in 1..Len(d.isuitems)
         /\ \A k \in I : FirstOf(I) <= k
  <2> HIDE DEF I
  <2> QED BY <1>2, FirstIs
<1>4. CASE I = {} BY <1>1, <1>3, <1>4
<1>5. CASE I # {} BY <1>1, <1>3, <1>5
<1> QED BY <1>4, <1>5

(* findfragment finds a fragment that the block continues, if there is     *)
(* one.                                                                    *)
LEMMA FoundFragment ==
  ASSUME NEW s, NEW b, Len(s) \in Nat, NEW i, i = findfragment(s, b)
  PROVE  \/ /\ i = 0
            /\ \A j \in 1..Len(s) :
                 ~(s[j].aes = b.aes /\ s[j].more /\ (s[j].bi + 1) % NBlockIds = b.bi)
         \/ /\ i \in 1..Len(s) /\ i # 0
            /\ s[i].aes = b.aes /\ s[i].more /\ (s[i].bi + 1) % NBlockIds = b.bi
<1> DEFINE I == {j \in 1..Len(s) : /\ s[j].aes = b.aes
                                   /\ s[j].more
                                   /\ (s[j].bi + 1) % NBlockIds = b.bi}
<1>1. i = FirstOf(I) BY DEF findfragment, SelectInSeq, FirstOf
<1>2. I \in SUBSET (1..Len(s)) OBVIOUS
<1>3. \/ I = {} /\ FirstOf(I) = 0
      \/ I # {} /\ FirstOf(I) \in I /\ FirstOf(I) \in 1..Len(s)
  <2> HIDE DEF I
  <2> QED BY <1>2, FirstIs
<1>4. \A j \in 1..Len(s) :
        j \in I <=> s[j].aes = b.aes /\ s[j].more /\ (s[j].bi + 1) % NBlockIds = b.bi
  BY Zenon
<1> HIDE DEF I
<1>5. CASE I = {}
  <2>1. i = 0 BY <1>1, <1>3, <1>5
  <2>2. \A j \in 1..Len(s) : j \notin I BY <1>5
  <2> QED BY <1>4, <2>1, <2>2, Zenon
<1>6. CASE I # {}
  <2>1. i \in I /\ i \in 1..Len(s) /\ i # 0 BY <1>1, <1>3, <1>6
  <2> QED BY <1>4, <2>1, Zenon
<1> QED BY <1>5, <1>6

(* SU k of message m.                                                      *)
Su(m, k) ==
  IF k = 0
  THEN [type |-> "71", aes |-> plan[m].aes, ref |-> RefOf(m), seq |-> NSsu,
        fits |-> plan[m].fits, data |-> UserData(m)]
  ELSE [type |-> "C0", ref |-> RefOf(m), seq |-> NSsu - k, data |-> UserData(m)]

(* A decoder is the record of its fields.                                  *)
LEMMA DecShape ==
  ASSUME NEW d \in DecType
  PROVE  d = [isuitems |-> d.isuitems, last |-> d.last, frags |-> d.frags, out |-> d.out]
BY DEF DecType

(* A decoder with new items and a new anisuitem.                           *)
LEMMA NewItemsAndLast ==
  ASSUME NEW d \in DecType, NEW x, NEW y
  PROVE  [d EXCEPT !.isuitems = x, !.last = y]
           = [isuitems |-> x, last |-> y, frags |-> d.frags, out |-> d.out]
<1> DEFINE e == [d EXCEPT !.isuitems = x]
<1>1. e = [isuitems |-> x, last |-> d.last, frags |-> d.frags, out |-> d.out] BY DecShape
<1>2. [d EXCEPT !.isuitems = x, !.last = y] = [e EXCEPT !.last = y] OBVIOUS
<1> HIDE DEF e
<1>3. [e EXCEPT !.last = y] = [isuitems |-> x, last |-> y, frags |-> d.frags, out |-> d.out]
  BY <1>1
<1> QED BY <1>2, <1>3

(* A decoder with new fragments and new output.                            *)
LEMMA NewFragsAndOut ==
  ASSUME NEW d \in DecType, NEW x, NEW y
  PROVE  [d EXCEPT !.frags = x, !.out = y]
           = [isuitems |-> d.isuitems, last |-> d.last, frags |-> x, out |-> y]
<1> DEFINE e == [d EXCEPT !.frags = x]
<1>1. e = [isuitems |-> d.isuitems, last |-> d.last, frags |-> x, out |-> d.out] BY DecShape
<1>2. [d EXCEPT !.frags = x, !.out = y] = [e EXCEPT !.out = y] OBVIOUS
<1> HIDE DEF e
<1>3. [e EXCEPT !.out = y] = [isuitems |-> d.isuitems, last |-> d.last, frags |-> x, out |-> y]
  BY <1>1
<1> QED BY <1>2, <1>3

(* update71 in full: the items are aged, and the new one replaces the      *)
(* first with its key or goes to the end.                                  *)
LEMMA Update71Is ==
  ASSUME NEW d \in DecType, NEW m, NEW r, r = Aged(d.isuitems, KeepIsu), Len(r) \in Nat
  PROVE  \E i :
           LET e == update71(d, Su(m, 0)) IN
           /\ e = [isuitems |-> IF i = 0 THEN Append(r, NewItem(m)) ELSE [r EXCEPT ![i] = NewItem(m)],
                   last |-> [aes |-> plan[m].aes, fits |-> plan[m].fits],
                   frags |-> d.frags, out |-> d.out]
           /\ \/ /\ i = 0
                 /\ \/ ~plan[m].fits
                    \/ \A j \in 1..Len(r) : ~SameKey(r[j], NewItem(m))
              \/ /\ plan[m].fits /\ i \in 1..Len(r) /\ i # 0 /\ SameKey(r[i], NewItem(m))
                 /\ \A j \in 1..Len(r) : SameKey(r[j], NewItem(m)) => i <= j
<1> DEFINE su == Su(m, 0)
           aged == [d EXCEPT !.isuitems = Aged(@, KeepIsu),
                             !.last = [aes |-> su.aes, fits |-> su.fits]]
           i == findisuitem71(aged, su)
           item == [aes |-> su.aes, ref |-> su.ref, seq |-> su.seq,
                    userdata |-> <<su.data>>, count |-> 0]
           e == update71(d, su)
<1>1. /\ su.aes = plan[m].aes /\ su.ref = RefOf(m) /\ su.seq = NSsu /\ su.fits = plan[m].fits
      /\ su.data = UserData(m) /\ item = NewItem(m)
  BY DEF Su, NewItem
<1>2. e = IF i = 0 THEN [aged EXCEPT !.isuitems = Append(@, item)]
          ELSE [aged EXCEPT !.isuitems[i] = item]
  BY DEF update71
<1> HIDE DEF su, item, e
<1>3. aged = [isuitems |-> r, last |-> [aes |-> plan[m].aes, fits |-> plan[m].fits],
              frags |-> d.frags, out |-> d.out]
  <2>1. aged = [d EXCEPT !.isuitems = r, !.last = [aes |-> plan[m].aes, fits |-> plan[m].fits]]
    BY <1>1
  <2> DEFINE y == [aes |-> plan[m].aes, fits |-> plan[m].fits]
  <2> HIDE DEF y, aged
  <2>2. [d EXCEPT !.isuitems = r, !.last = y]
          = [isuitems |-> r, last |-> y, frags |-> d.frags, out |-> d.out]
    BY NewItemsAndLast
  <2>3. aged = [d EXCEPT !.isuitems = r, !.last = y] BY <2>1 DEF y
  <2>4. aged = [isuitems |-> r, last |-> y, frags |-> d.frags, out |-> d.out]
    BY <2>2, <2>3, Zenon
  <2> QED BY <2>4 DEF y
<1> HIDE DEF aged
<1>4. e = [isuitems |-> IF i = 0 THEN Append(r, NewItem(m)) ELSE [r EXCEPT ![i] = NewItem(m)],
           last |-> [aes |-> plan[m].aes, fits |-> plan[m].fits],
           frags |-> d.frags, out |-> d.out]
  <2> HIDE DEF i
  <2>1. CASE i = 0 BY <1>1, <1>2, <1>3, <2>1
  <2>2. CASE i # 0
    <3>1. [aged EXCEPT !.isuitems[i] = item]
           = [isuitems |-> [r EXCEPT ![i] = item],
              last |-> [aes |-> plan[m].aes, fits |-> plan[m].fits],
              frags |-> d.frags, out |-> d.out]
      BY <1>3
    <3> QED BY <1>1, <1>2, <2>2, <3>1
  <2> QED BY <2>1, <2>2
<1>5. \A x : SameMessage(x, su, su.aes) <=> SameKey(x, NewItem(m))
  BY <1>1 DEF SameMessage, SameKey, NewItem
<1>6. aged.isuitems = r BY <1>3
<1>7. \/ /\ i = 0
         /\ ~su.fits \/ \A j \in 1..Len(r) : ~SameMessage(r[j], su, su.aes)
      \/ /\ su.fits /\ i \in 1..Len(r) /\ i # 0
         /\ SameMessage(r[i], su, su.aes)
         /\ \A j \in 1..Len(r) : SameMessage(r[j], su, su.aes) => i <= j
  BY <1>6, Found71
<1> HIDE DEF i
<1>8. \/ /\ i = 0
         /\ \/ ~plan[m].fits
            \/ \A j \in 1..Len(r) : ~SameKey(r[j], NewItem(m))
      \/ /\ plan[m].fits /\ i \in 1..Len(r) /\ i # 0 /\ SameKey(r[i], NewItem(m))
         /\ \A j \in 1..Len(r) : SameKey(r[j], NewItem(m)) => i <= j
  BY <1>1, <1>5, <1>7, Zenon
<1> QED BY <1>4, <1>8 DEF e, su

(* A 0x71 SU keeps the decoder's invariant.                                *)
LEMMA Update71Inv ==
  ASSUME NEW d, NEW h, NEW n, DecInv(d, h, n), NEW m \in Msgs, At(m) >= n
  PROVE  DecInv(update71(d, Su(m, 0)), h \cup {m}, At(m) + 1)
<1> DEFINE r == Aged(d.isuitems, KeepIsu)
           x == NewItem(m)
           g == h \cup {m}
           n2 == At(m) + 1
           e == update71(d, Su(m, 0))
<1>1. /\ plan \in Plans /\ d \in DecType /\ n \in Nat /\ HeardOK(h, n)
      /\ ItemsInv(d.isuitems, h, n) /\ LastInv(d.last, d.isuitems, h)
      /\ BlocksOK(d.frags, h, n) /\ BlocksOK(d.out, h, n)
  BY DEF DecInv
<1>2. /\ d.isuitems \in Seq(ItemType) /\ d.frags \in Seq(BlockType) /\ d.out \in Seq(BlockType)
  BY <1>1 DEF DecType
<1>3. /\ m \in Nat /\ n2 \in Nat /\ n <= n2 /\ h \subseteq g /\ \A k \in g \ h : At(k) >= n
      /\ At(m) < n2
  BY <1>1, PlanType DEF Msgs, At, NSsu
<1>4. r \in Seq(ItemType) /\ ItemsInv(r, g, n2) BY <1>1, <1>2, AgedItems
<1>5. x \in ItemType /\ ItemInv(x, g, n2) /\ Starter(x) = m /\ \A k \in h : k \in Nat /\ k < m
  BY <1>1, NewItemInv
<1> HIDE DEF r, n2, g
<1>6. Len(r) \in Nat /\ r = Aged(d.isuitems, KeepIsu) BY <1>4 DEF r
<1>7. PICK i :
        /\ e = [isuitems |-> IF i = 0 THEN Append(r, x) ELSE [r EXCEPT ![i] = x],
                last |-> [aes |-> plan[m].aes, fits |-> plan[m].fits],
                frags |-> d.frags, out |-> d.out]
        /\ \/ /\ i = 0
              /\ \/ ~plan[m].fits
                 \/ \A j \in 1..Len(r) : ~SameKey(r[j], x)
           \/ /\ plan[m].fits /\ i \in 1..Len(r) /\ i # 0 /\ SameKey(r[i], x)
              /\ \A j \in 1..Len(r) : SameKey(r[j], x) => i <= j
  BY <1>1, <1>6, Update71Is
<1> DEFINE s == IF i = 0 THEN Append(r, x) ELSE [r EXCEPT ![i] = x]
           p == IF i = 0 THEN Len(r) + 1 ELSE i
<1>8. x.aes = plan[m].aes /\ x.ref = RefOf(m) BY DEF NewItem
<1> HIDE DEF x, e
<1>9. /\ s \in Seq(ItemType) /\ p \in 1..Len(s) /\ s[p] = x
      /\ \A j \in 1..Len(s) : j # p => j \in 1..Len(r) /\ s[j] = r[j]
      /\ Len(s) \in Nat
  <2>1. CASE i = 0 BY <1>4, <1>5, <2>1
  <2>2. CASE i # 0
    <3>1. i \in 1..Len(r) BY <1>7, <2>2
    <3>2. s = [r EXCEPT ![i] = x] /\ p = i BY <2>2
    <3> QED BY <1>4, <1>5, <3>1, <3>2
  <2> QED BY <2>1, <2>2
<1>10. \A j \in 1..Len(s) : j # p /\ SameKey(s[j], x) =>
          (plan[m].fits => ~plan[Starter(s[j])].fits /\ j > p)
  <2> SUFFICES ASSUME NEW j \in 1..Len(s), j # p, SameKey(s[j], x), plan[m].fits
               PROVE  ~plan[Starter(s[j])].fits /\ j > p
    <3> HIDE DEF s, p
    <3> QED BY Zenon
  <2>1. j \in 1..Len(r) /\ s[j] = r[j] BY <1>9
  <2>2. i # 0 /\ i \in 1..Len(r) /\ SameKey(r[i], x) /\ i <= j /\ p = i BY <1>7, <2>1
  <2>3. i < j /\ SameKey(r[i], r[j]) BY <2>1, <2>2 DEF SameKey
  <2> QED BY <1>4, <2>1, <2>2, <2>3 DEF ItemsInv
<1> HIDE DEF s, p
<1>11. ItemsInv(s, g, n2)
  <2>1. \A j \in 1..Len(s) : ItemInv(s[j], g, n2) BY <1>4, <1>5, <1>9 DEF ItemsInv
  <2>2. ASSUME NEW j \in 1..Len(s), NEW k \in 1..Len(s), j < k, SameKey(s[j], s[k])
        PROVE  ~plan[Starter(s[k])].fits
    <3>1. CASE k = p
      <4>1. s[k] = x /\ j # p /\ SameKey(s[j], x) BY <1>9, <2>2, <3>1
      <4>2. ~(j > p) BY <2>2, <3>1
      <4>3. ~plan[m].fits BY <1>10, <4>1, <4>2
      <4> QED BY <1>5, <4>1, <4>3
    <3>2. CASE j = p /\ k # p
      <4>1. s[j] = x /\ SameKey(s[k], x) BY <1>9, <2>2, <3>2 DEF SameKey
      <4>2. CASE i = 0
        <5>1. p = Len(r) + 1 /\ k \in 1..Len(r) BY <1>9, <3>2, <4>2 DEF p
        <5> QED BY <1>4, <2>2, <3>2, <5>1
      <4>3. CASE i # 0
        <5>1. plan[m].fits BY <1>7, <4>3
        <5> QED BY <1>10, <3>2, <4>1, <5>1
      <4> QED BY <4>2, <4>3
    <3>3. CASE j # p /\ k # p
      <4>1. /\ j \in 1..Len(r) /\ k \in 1..Len(r) /\ s[j] = r[j] /\ s[k] = r[k]
        BY <1>9, <3>3
      <4> QED BY <1>4, <2>2, <4>1 DEF ItemsInv
    <3> QED BY <3>1, <3>2, <3>3
  <2> QED BY <2>1, <2>2 DEF ItemsInv
<1> DEFINE last == [aes |-> plan[m].aes, fits |-> plan[m].fits]
<1>12. LastInv(last, s, g)
  <2> SUFFICES ASSUME NEW l \in g, \A k \in g : k <= l
               PROVE  /\ last.aes = plan[l].aes /\ last.fits = plan[l].fits
                      /\ last.fits => \A j \in 1..Len(s) :
                           s[j].aes = plan[l].aes /\ s[j].ref = RefOf(l) =>
                             Starter(s[j]) = l \/ ~plan[Starter(s[j])].fits
    BY DEF LastInv
  <2>1. l = m BY <1>3, <1>5 DEF g
  <2>2. ASSUME NEW j \in 1..Len(s), s[j].aes = plan[m].aes, s[j].ref = RefOf(m), plan[m].fits
        PROVE  Starter(s[j]) = m \/ ~plan[Starter(s[j])].fits
    <3>1. SameKey(s[j], x) BY <1>8, <2>2 DEF SameKey
    <3>2. CASE j = p BY <1>5, <1>9, <3>2
    <3>3. CASE j # p BY <1>10, <2>2, <3>1, <3>3
    <3> QED BY <3>2, <3>3
  <2> QED BY <2>1, <2>2
<1>13. BlocksOK(d.frags, g, n2) /\ BlocksOK(d.out, g, n2)
  BY <1>1, <1>2, <1>3, BlocksGrow
<1>14. HeardOK(g, n2)
  <2>1. g \subseteq Msgs BY <1>1 DEF g, HeardOK
  <2>2. \A k \in g : At(k) < n2
    <3> SUFFICES ASSUME NEW k \in g PROVE At(k) < n2 OBVIOUS
    <3>1. CASE k = m BY <1>3, <3>1
    <3>2. CASE k # m
      <4>1. k \in h /\ At(k) < n BY <1>1, <3>2 DEF g, HeardOK
      <4>2. k \in Nat BY <1>5, <4>1
      <4> QED BY <1>1, <1>3, <4>1, <4>2 DEF At, NSsu
    <3> QED BY <3>1, <3>2
  <2> QED BY <2>1, <2>2 DEF HeardOK
<1>15. last \in LastType
  BY <1>1, PlanType DEF LastType
<1>16. e = [isuitems |-> s, last |-> last, frags |-> d.frags, out |-> d.out]
  BY <1>7 DEF s
<1> HIDE DEF last
<1>17. /\ e.isuitems = s /\ e.last = last /\ e.frags = d.frags /\ e.out = d.out
  BY <1>16
<1>18. e \in DecType
  BY <1>2, <1>9, <1>15, <1>16 DEF DecType
<1>19. DecInv(e, g, n2)
  BY <1>1, <1>3, <1>11, <1>12, <1>13, <1>14, <1>17, <1>18 DEF DecInv
<1> QED BY <1>19 DEF e, g, n2

-----------------------------------------------------------------------------
(* Blocks and fragments.                                                   *)

(* RemoveAt, element by element.                                           *)
LEMMA RemoveAtIs ==
  ASSUME NEW T, NEW s \in Seq(T), NEW i \in 1..Len(s)
  PROVE  /\ RemoveAt(s, i) \in Seq(T) /\ Len(RemoveAt(s, i)) = Len(s) - 1
         /\ \A j \in 1..(Len(s) - 1) : RemoveAt(s, i)[j] = IF j < i THEN s[j] ELSE s[j + 1]
<1> DEFINE a == SubSeq(s, 1, i - 1)
           b == SubSeq(s, i + 1, Len(s))
<1>1. /\ a \in Seq(T) /\ Len(a) = i - 1 /\ \A j \in 1..(i - 1) : a[j] = s[j] OBVIOUS
<1>2. /\ b \in Seq(T) /\ Len(b) = Len(s) - i /\ \A j \in 1..(Len(s) - i) : b[j] = s[i + j]
  OBVIOUS
<1>3. RemoveAt(s, i) = a \o b BY DEF RemoveAt
<1> HIDE DEF a, b
<1>4. RemoveAt(s, i) \in Seq(T) /\ Len(RemoveAt(s, i)) = Len(s) - 1
  BY <1>1, <1>2, <1>3
<1>5. ASSUME NEW j \in 1..(Len(s) - 1)
      PROVE  RemoveAt(s, i)[j] = IF j < i THEN s[j] ELSE s[j + 1]
  <2>1. CASE j < i BY <1>1, <1>2, <1>3, <2>1
  <2>2. CASE ~(j < i)
    <3>1. j - (i - 1) \in 1..(Len(s) - i) /\ i + (j - (i - 1)) = j + 1 BY <2>2
    <3>2. RemoveAt(s, i)[j] = b[j - (i - 1)] BY <1>1, <1>2, <1>3, <2>2, <3>1
    <3> QED BY <1>2, <2>2, <3>1, <3>2
  <2> QED BY <2>1, <2>2
<1> QED BY <1>4, <1>5

(* A block is the record of its fields.                                    *)
LEMMA BlockShape ==
  ASSUME NEW x \in BlockType
  PROVE  x = [aes |-> x.aes, bi |-> x.bi, more |-> x.more, isu |-> x.isu,
              blocks |-> x.blocks, count |-> x.count]
<1> DEFINE D == Seq(Messages)
           E == Seq(Seq(Messages))
           B == BOOLEAN
<1>1. x \in [aes : AesSet, bi : Nat, more : B, isu : D, blocks : E, count : Nat]
  BY DEF BlockType
<1> HIDE DEF D, E, B
<1> QED BY <1>1

(* Ageing a block only changes its count.                                  *)
LEMMA OlderBlock ==
  ASSUME NEW x \in BlockType
  PROVE  /\ x.count \in Nat /\ OneOlder(x) \in BlockType
         /\ OneOlder(x) = [aes |-> x.aes, bi |-> x.bi, more |-> x.more, isu |-> x.isu,
                           blocks |-> x.blocks, count |-> x.count + 1]
<1>1. OneOlder(x) = [aes |-> x.aes, bi |-> x.bi, more |-> x.more, isu |-> x.isu,
                     blocks |-> x.blocks, count |-> x.count + 1]
  BY BlockShape DEF OneOlder
<1>2. /\ x.aes \in AesSet /\ x.bi \in Nat /\ x.more \in BOOLEAN
      /\ x.isu \in Seq(Messages) /\ x.blocks \in Seq(Seq(Messages)) /\ x.count \in Nat
  BY DEF BlockType
<1>3. [aes |-> x.aes, bi |-> x.bi, more |-> x.more, isu |-> x.isu,
       blocks |-> x.blocks, count |-> x.count + 1] \in BlockType
  BY <1>2 DEF BlockType
<1> QED BY <1>1, <1>2, <1>3

(* The flush in defragment keeps the blocks good.                          *)
LEMMA AgedBlocks ==
  ASSUME NEW s \in Seq(BlockType), NEW h, NEW n, BlocksOK(s, h, n)
  PROVE  Aged(s, KeepFrag) \in Seq(BlockType) /\ BlocksOK(Aged(s, KeepFrag), h, n)
<1> DEFINE r == Aged(s, KeepFrag)
<1>1. r \in Seq(BlockType) /\ \E src : AgedFrom(s, KeepFrag, Len(s), r, src)
  BY OlderBlock, AgedKeeps, ReassemblyAssumption
<1> HIDE DEF r
<1>2. PICK src : AgedFrom(s, KeepFrag, Len(s), r, src) BY <1>1
<1>3. ASSUME NEW i \in 1..Len(r) PROVE r[i].blocks = s[src[i]].blocks /\ src[i] \in 1..Len(s)
  <2>1. src[i] \in 1..Len(s) /\ r[i] = OneOlder(s[src[i]]) BY <1>2 DEF AgedFrom
  <2>2. s[src[i]] \in BlockType BY <2>1
  <2>3. OneOlder(s[src[i]]).blocks = s[src[i]].blocks
    <3> DEFINE x == s[src[i]]
    <3>1. OneOlder(x) = [aes |-> x.aes, bi |-> x.bi, more |-> x.more, isu |-> x.isu,
                         blocks |-> x.blocks, count |-> x.count + 1]
      BY <2>2, OlderBlock
    <3> HIDE DEF x
    <3> QED BY <3>1 DEF x
  <2> QED BY <2>1, <2>3
<1>4. BlocksOK(r, h, n) BY <1>3 DEF BlocksOK
<1> QED BY <1>1, <1>4 DEF r

(* Fragment f continued by block b.                                        *)
Joined(f, b) == [f EXCEPT !.bi = b.bi, !.more = b.more, !.count = 0, !.blocks = @ \o b.blocks]

(* The fields of a joined fragment.                                        *)
LEMMA JoinedIs ==
  ASSUME NEW f \in BlockType, NEW b \in BlockType
  PROVE  /\ Joined(f, b) = [aes |-> f.aes, bi |-> b.bi, more |-> b.more, isu |-> f.isu,
                            blocks |-> f.blocks \o b.blocks, count |-> 0]
         /\ Joined(f, b) \in BlockType
<1> DEFINE e1 == [f EXCEPT !.bi = b.bi]
           e2 == [e1 EXCEPT !.more = b.more]
           e3 == [e2 EXCEPT !.count = 0]
           e4 == [e3 EXCEPT !.blocks = @ \o b.blocks]
<1>0. Joined(f, b) = e4 BY DEF Joined
<1>1. e1 = [aes |-> f.aes, bi |-> b.bi, more |-> f.more, isu |-> f.isu,
            blocks |-> f.blocks, count |-> f.count]
  BY BlockShape
<1> HIDE DEF e1
<1>2. e2 = [aes |-> f.aes, bi |-> b.bi, more |-> b.more, isu |-> f.isu,
            blocks |-> f.blocks, count |-> f.count]
  BY <1>1
<1> HIDE DEF e2
<1>3. e3 = [aes |-> f.aes, bi |-> b.bi, more |-> b.more, isu |-> f.isu,
            blocks |-> f.blocks, count |-> 0]
  BY <1>2
<1> HIDE DEF e3
<1>4. e4 = [aes |-> f.aes, bi |-> b.bi, more |-> b.more, isu |-> f.isu,
            blocks |-> f.blocks \o b.blocks, count |-> 0]
  <2> DEFINE z == f.blocks \o b.blocks
  <2>1. e3.blocks = f.blocks BY <1>3
  <2>2. e4 = [e3 EXCEPT !.blocks = z] BY <2>1
  <2> HIDE DEF e4, z
  <2>3. e4 = [aes |-> f.aes, bi |-> b.bi, more |-> b.more, isu |-> f.isu,
              blocks |-> z, count |-> 0]
    BY <1>3, <2>2
  <2> QED BY <2>3 DEF z
<1>5. /\ f.aes \in AesSet /\ f.isu \in Seq(Messages) /\ f.blocks \in Seq(Seq(Messages))
      /\ b.bi \in Nat /\ b.more \in BOOLEAN /\ b.blocks \in Seq(Seq(Messages))
  BY DEF BlockType
<1>6. f.blocks \o b.blocks \in Seq(Seq(Messages)) BY <1>5
<1>7. [aes |-> f.aes, bi |-> b.bi, more |-> b.more, isu |-> f.isu,
       blocks |-> f.blocks \o b.blocks, count |-> 0] \in BlockType
  BY <1>5, <1>6 DEF BlockType
<1> HIDE DEF e4
<1> QED BY <1>0, <1>4, <1>7

(* defragment in full, by whether a fragment was found and whether the     *)
(* block is a text's last.                                                 *)
LEMMA DefragmentIs ==
  ASSUME NEW d \in DecType, NEW b \in BlockType, NEW r, r = Aged(d.frags, KeepFrag),
         r \in Seq(BlockType), NEW i, i = findfragment(r, b), i = 0 \/ i \in 1..Len(r)
  PROVE  LET e == defragment(d, b)
             j == Joined(r[i], b) IN
         /\ i = 0 /\ b.more => e = [isuitems |-> d.isuitems, last |-> d.last,
                                    frags |-> Append(r, b), out |-> d.out]
         /\ i = 0 /\ ~b.more => e = [isuitems |-> d.isuitems, last |-> d.last,
                                     frags |-> r, out |-> Append(d.out, b)]
         /\ i # 0 /\ b.more => e = [isuitems |-> d.isuitems, last |-> d.last,
                                    frags |-> [r EXCEPT ![i] = j], out |-> d.out]
         /\ i # 0 /\ ~b.more => e = [isuitems |-> d.isuitems, last |-> d.last,
                                     frags |-> RemoveAt(r, i), out |-> Append(d.out, j)]
<1> DEFINE e == defragment(d, b)
           j == Joined(r[i], b)
<1>0. b.more \in BOOLEAN BY DEF BlockType
<1>1. e = CASE i = 0 /\ b.more  -> [d EXCEPT !.frags = Append(r, b)]
            [] i = 0 /\ ~b.more -> [d EXCEPT !.frags = r, !.out = Append(@, b)]
            [] i # 0 /\ b.more  -> [d EXCEPT !.frags = ReplaceAt(r, i, j)]
            [] OTHER            -> [d EXCEPT !.frags = RemoveAt(r, i), !.out = Append(@, j)]
  BY DEF defragment, Joined
<1> HIDE DEF e, j
<1>2. \A x, y : [d EXCEPT !.frags = x, !.out = Append(@, y)]
                  = [isuitems |-> d.isuitems, last |-> d.last, frags |-> x, out |-> Append(d.out, y)]
  <2> SUFFICES ASSUME NEW x, NEW y
               PROVE  [d EXCEPT !.frags = x, !.out = Append(@, y)]
                  = [isuitems |-> d.isuitems, last |-> d.last, frags |-> x, out |-> Append(d.out, y)]
    OBVIOUS
  <2>1. [d EXCEPT !.frags = x, !.out = Append(@, y)] = [d EXCEPT !.frags = x, !.out = Append(d.out, y)]
    <3> DEFINE c == [d EXCEPT !.frags = x]
    <3>1. c.out = d.out BY DEF DecType
    <3>2. [d EXCEPT !.frags = x, !.out = Append(@, y)] = [c EXCEPT !.out = Append(c.out, y)]
      OBVIOUS
    <3>3. [d EXCEPT !.frags = x, !.out = Append(d.out, y)] = [c EXCEPT !.out = Append(d.out, y)]
      OBVIOUS
    <3> HIDE DEF c
    <3> QED BY <3>1, <3>2, <3>3, Zenon
  <2> DEFINE z == Append(d.out, y)
  <2> HIDE DEF z
  <2>2. [d EXCEPT !.frags = x, !.out = z]
          = [isuitems |-> d.isuitems, last |-> d.last, frags |-> x, out |-> z]
    BY NewFragsAndOut
  <2> QED BY <2>1, <2>2, Zenon DEF z
<1>3. \A x : [d EXCEPT !.frags = x]
               = [isuitems |-> d.isuitems, last |-> d.last, frags |-> x, out |-> d.out]
  BY DecShape
<1>4. CASE i = 0 /\ b.more
  <2>1. e = [d EXCEPT !.frags = Append(r, b)] BY <1>1, <1>4
  <2> QED BY <1>3, <1>4, <2>1 DEF e
<1>5. CASE i = 0 /\ ~b.more
  <2>1. e = [d EXCEPT !.frags = r, !.out = Append(@, b)] BY <1>1, <1>5
  <2> QED BY <1>2, <1>5, <2>1, Zenon DEF e
<1>6. CASE i # 0 /\ b.more
  <2>1. e = [d EXCEPT !.frags = [r EXCEPT ![i] = j]] BY <1>1, <1>6 DEF ReplaceAt
  <2> QED BY <1>3, <1>6, <2>1, Zenon DEF e, j
<1>7. CASE i # 0 /\ ~b.more
  <2>1. e = [d EXCEPT !.frags = RemoveAt(r, i), !.out = Append(@, j)] BY <1>1, <1>7
  <2> QED BY <1>2, <1>7, <2>1, Zenon DEF e, j
<1> QED BY <1>0, <1>4, <1>5, <1>6, <1>7

(* The blocks of one text are good.                                        *)
BlockOK(b, h, n) == \A j \in 1..Len(b.blocks) : UnitOK(b.blocks[j], h, n)

(* defragment keeps the decoder's invariant: it joins whole blocks and     *)
(* changes none.                                                           *)
LEMMA DefragmentInv ==
  ASSUME NEW d, NEW h, NEW n, DecInv(d, h, n), NEW b \in BlockType, BlockOK(b, h, n)
  PROVE  DecInv(defragment(d, b), h, n)
<1> DEFINE r == Aged(d.frags, KeepFrag)
           i == findfragment(r, b)
           j == Joined(r[i], b)
           e == defragment(d, b)
<1>1. d \in DecType /\ d.frags \in Seq(BlockType) /\ d.out \in Seq(BlockType)
      /\ d.isuitems \in Seq(ItemType) /\ d.last \in LastType
  BY DEF DecInv, DecType
<1>2. BlocksOK(d.frags, h, n) /\ BlocksOK(d.out, h, n) BY DEF DecInv
<1>3. r \in Seq(BlockType) /\ BlocksOK(r, h, n) BY <1>1, <1>2, AgedBlocks
<1> HIDE DEF r, i, j, e
<1>4. i = 0 \/ i \in 1..Len(r)
  <2>1. Len(r) \in Nat BY <1>3
  <2> QED BY <2>1, FoundFragment, Zenon DEF i
<1>5. i # 0 => j \in BlockType /\ BlockOK(j, h, n)
  <2> SUFFICES ASSUME i # 0 PROVE j \in BlockType /\ BlockOK(j, h, n) OBVIOUS
  <2>1. i \in 1..Len(r) /\ r[i] \in BlockType BY <1>3, <1>4
  <2>2. j \in BlockType /\ j.blocks = r[i].blocks \o b.blocks
    <3> DEFINE f == r[i]
    <3>1. /\ j = [aes |-> f.aes, bi |-> b.bi, more |-> b.more, isu |-> f.isu,
                  blocks |-> f.blocks \o b.blocks, count |-> 0]
          /\ j \in BlockType
      BY <2>1, JoinedIs DEF j
    <3> HIDE DEF f
    <3> QED BY <3>1 DEF f
  <2>3. /\ r[i].blocks \in Seq(Seq(Messages)) /\ b.blocks \in Seq(Seq(Messages))
    BY <2>1 DEF BlockType
  <2>4. /\ \A k \in 1..Len(r[i].blocks) : UnitOK(r[i].blocks[k], h, n)
        /\ \A k \in 1..Len(b.blocks) : UnitOK(b.blocks[k], h, n)
    BY <1>3, <2>1 DEF BlocksOK, BlockOK
  <2>5. ASSUME NEW k \in 1..Len(j.blocks) PROVE UnitOK(j.blocks[k], h, n)
    <3> DEFINE p == r[i].blocks
               q == b.blocks
    <3> HIDE DEF p, q
    <3>1. p \in Seq(Seq(Messages)) /\ q \in Seq(Seq(Messages)) BY <2>3 DEF p, q
    <3>2. j.blocks = p \o q BY <2>2 DEF p, q
    <3>3. CASE k <= Len(p)
      <4>1. k \in 1..Len(p) /\ j.blocks[k] = p[k] BY <3>1, <3>2, <3>3
      <4> QED BY <2>4, <4>1 DEF p
    <3>4. CASE k > Len(p)
      <4>1. k - Len(p) \in 1..Len(q) /\ j.blocks[k] = q[k - Len(p)] BY <3>1, <3>2, <3>4
      <4> QED BY <2>4, <4>1 DEF q
    <3> QED BY <3>1, <3>2, <3>3, <3>4
  <2> QED BY <2>2, <2>5 DEF BlockOK
<1>6. b.more \in BOOLEAN BY DEF BlockType
<1>7. \E f \in Seq(BlockType), o \in Seq(BlockType) :
        /\ e = [isuitems |-> d.isuitems, last |-> d.last, frags |-> f, out |-> o]
        /\ BlocksOK(f, h, n) /\ BlocksOK(o, h, n)
  <2>1. /\ i = 0 /\ b.more => e = [isuitems |-> d.isuitems, last |-> d.last,
                                    frags |-> Append(r, b), out |-> d.out]
        /\ i = 0 /\ ~b.more => e = [isuitems |-> d.isuitems, last |-> d.last,
                                     frags |-> r, out |-> Append(d.out, b)]
        /\ i # 0 /\ b.more => e = [isuitems |-> d.isuitems, last |-> d.last,
                                    frags |-> [r EXCEPT ![i] = j], out |-> d.out]
        /\ i # 0 /\ ~b.more => e = [isuitems |-> d.isuitems, last |-> d.last,
                                     frags |-> RemoveAt(r, i), out |-> Append(d.out, j)]
    BY <1>1, <1>3, <1>4, DefragmentIs DEF r, i, j, e
  <2>2. ASSUME NEW s \in Seq(BlockType), BlocksOK(s, h, n), NEW x \in BlockType, BlockOK(x, h, n)
        PROVE  Append(s, x) \in Seq(BlockType) /\ BlocksOK(Append(s, x), h, n)
    <3>1. /\ Append(s, x) \in Seq(BlockType) /\ Len(Append(s, x)) = Len(s) + 1
          /\ Append(s, x)[Len(s) + 1] = x /\ \A k \in 1..Len(s) : Append(s, x)[k] = s[k]
      OBVIOUS
    <3>2. \A k \in 1..(Len(s) + 1) : k = Len(s) + 1 \/ k \in 1..Len(s) OBVIOUS
    <3> QED BY <2>2, <3>1, <3>2 DEF BlocksOK, BlockOK
  <2>3. i # 0 => [r EXCEPT ![i] = j] \in Seq(BlockType) /\ BlocksOK([r EXCEPT ![i] = j], h, n)
    <3> SUFFICES ASSUME i # 0
                 PROVE  [r EXCEPT ![i] = j] \in Seq(BlockType)
                        /\ BlocksOK([r EXCEPT ![i] = j], h, n)
      OBVIOUS
    <3> DEFINE s == [r EXCEPT ![i] = j]
    <3>1. /\ s \in Seq(BlockType) /\ Len(s) = Len(r) /\ s[i] = j
          /\ \A k \in 1..Len(r) : k # i => s[k] = r[k]
      BY <1>3, <1>4, <1>5
    <3> HIDE DEF s
    <3>2. BlocksOK(s, h, n) BY <1>3, <1>5, <3>1 DEF BlocksOK, BlockOK
    <3> QED BY <3>1, <3>2 DEF s
  <2>4. i # 0 => RemoveAt(r, i) \in Seq(BlockType) /\ BlocksOK(RemoveAt(r, i), h, n)
    <3> SUFFICES ASSUME i # 0
                 PROVE  RemoveAt(r, i) \in Seq(BlockType) /\ BlocksOK(RemoveAt(r, i), h, n)
      OBVIOUS
    <3> DEFINE s == RemoveAt(r, i)
    <3>1. /\ s \in Seq(BlockType) /\ Len(s) = Len(r) - 1
          /\ \A k \in 1..(Len(r) - 1) : s[k] = IF k < i THEN r[k] ELSE r[k + 1]
      BY <1>3, <1>4, RemoveAtIs
    <3> HIDE DEF s
    <3>2. \A k \in 1..Len(s) : \E l \in 1..Len(r) : s[k] = r[l]
      <4> SUFFICES ASSUME NEW k \in 1..Len(s) PROVE \E l \in 1..Len(r) : s[k] = r[l] OBVIOUS
      <4>1. k \in 1..(Len(r) - 1) /\ k \in 1..Len(r) /\ k + 1 \in 1..Len(r) BY <1>3, <3>1
      <4> QED BY <3>1, <4>1
    <3>3. BlocksOK(s, h, n) BY <1>3, <3>2 DEF BlocksOK
    <3> QED BY <3>1, <3>3 DEF s
  <2>5. CASE i = 0 /\ b.more BY <1>1, <1>2, <1>3, <2>1, <2>2, <2>5
  <2>6. CASE i = 0 /\ ~b.more BY <1>1, <1>2, <1>3, <2>1, <2>2, <2>6
  <2>7. CASE i # 0 /\ b.more BY <1>1, <1>2, <2>1, <2>3, <2>7
  <2>8. CASE i # 0 /\ ~b.more BY <1>1, <1>2, <1>5, <2>1, <2>2, <2>4, <2>8
  <2> QED BY <1>6, <2>5, <2>6, <2>7, <2>8
<1>8. PICK f \in Seq(BlockType), o \in Seq(BlockType) :
        /\ e = [isuitems |-> d.isuitems, last |-> d.last, frags |-> f, out |-> o]
        /\ BlocksOK(f, h, n) /\ BlocksOK(o, h, n)
  BY <1>7
<1>9. e.isuitems = d.isuitems /\ e.last = d.last /\ e.frags = f /\ e.out = o BY <1>8
<1>10. e \in DecType BY <1>1, <1>8 DEF DecType
<1>11. DecInv(e, h, n) BY <1>8, <1>9, <1>10 DEF DecInv
<1> QED BY <1>11 DEF e

(* The block that parse makes of an item.                                  *)
BlockOf(item) ==
  [aes |-> item.aes, bi |-> item.userdata[1].bi,
   more |-> item.userdata[Len(item.userdata)].more,
   isu |-> item.userdata, blocks |-> <<item.userdata>>, count |-> 0]

(* Its type, also when it is not ACARS.                                    *)
LEMMA BlockOfType ==
  ASSUME plan \in Plans, NEW x \in ItemType, Len(x.userdata) >= 1
  PROVE  /\ BlockOf(x) \in BlockType
         /\ [BlockOf(x) EXCEPT !.more = FALSE] \in BlockType
         /\ [BlockOf(x) EXCEPT !.more = FALSE].blocks = BlockOf(x).blocks
<1> DEFINE u == x.userdata
           m1 == u[1].m
           m2 == u[Len(u)].m
<1>1. u \in Seq(Messages) /\ x.aes \in AesSet BY DEF ItemType
<1>2. u[1] \in Messages /\ u[Len(u)] \in Messages BY <1>1
<1>3. u[1].bi \in Nat /\ u[Len(u)].more \in BOOLEAN
  <2>1. m1 \in Msgs /\ u[1] = UserData(m1) BY <1>2, MessageOf
  <2>2. m2 \in Msgs /\ u[Len(u)] = UserData(m2) BY <1>2, MessageOf
  <2>3. UserData(m1).bi \in Nat BY <2>1, UserDataOf
  <2>4. UserData(m2).more \in BOOLEAN BY <2>2, UserDataOf
  <2> QED BY <2>1, <2>2, <2>3, <2>4
<1>4. <<u>> \in Seq(Seq(Messages)) BY <1>1
<1>5. BlockOf(x) \in BlockType BY <1>1, <1>3, <1>4 DEF BlockOf, BlockType
<1>6. [BlockOf(x) EXCEPT !.more = FALSE] =
        [aes |-> x.aes, bi |-> u[1].bi, more |-> FALSE, isu |-> u, blocks |-> <<u>>, count |-> 0]
  <2> DEFINE v == <<u>>
             b1 == u[1].bi
             mo == u[Len(u)].more
             no == FALSE
             b == BlockOf(x)
  <2>1. BlockOf(x) = [aes |-> x.aes, bi |-> b1, more |-> mo, isu |-> u, blocks |-> v, count |-> 0]
    BY DEF BlockOf
  <2> HIDE DEF v, b1, mo, u, no, b
  <2>2. [b EXCEPT !.more = no]
          = [aes |-> x.aes, bi |-> b1, more |-> no, isu |-> u, blocks |-> v, count |-> 0]
    BY <2>1 DEF b
  <2> QED BY <2>2 DEF v, b1, no, b
<1>7. [aes |-> x.aes, bi |-> u[1].bi, more |-> FALSE, isu |-> u, blocks |-> <<u>>, count |-> 0]
        \in BlockType
  BY <1>1, <1>3, <1>4 DEF BlockType
<1>8. BlockOf(x).blocks = <<u>> BY DEF BlockOf
<1> QED BY <1>5, <1>6, <1>7, <1>8

(* parse keeps the decoder's invariant.                                    *)
LEMMA ParseInv ==
  ASSUME NEW d, NEW h, NEW n, DecInv(d, h, n), NEW x \in ItemType, ItemInv(x, h, n)
  PROVE  DecInv(parse(d, x), h, n)
<1> DEFINE first == x.userdata[1]
           b == BlockOf(x)
           c == [b EXCEPT !.more = FALSE]
<1>1. parse(d, x) = CASE x.aes = NoAes -> d
        [] x.aes # NoAes /\ first.kind = "badparity" -> d
        [] x.aes # NoAes /\ first.kind = "acars" -> defragment(d, b)
        [] OTHER -> [d EXCEPT !.out = Append(@, c)]
  BY DEF parse, BlockOf
<1>2. plan \in Plans /\ n \in Nat /\ h \subseteq Msgs BY DEF DecInv, HeardOK
<1>3. x.userdata \in Seq(Messages) /\ Len(x.userdata) >= 1 BY DEF ItemType, ItemInv
<1>4. b \in BlockType /\ c \in BlockType /\ c.blocks = b.blocks BY <1>2, <1>3, BlockOfType
<1>5. BlockOK(b, h, n) /\ BlockOK(c, h, n)
  <2>1. b.blocks = <<x.userdata>> BY DEF BlockOf
  <2>2. UnitOK(x.userdata, h, n) BY <1>2, ItemComplete
  <2> HIDE DEF b, c
  <2> QED BY <1>4, <2>1, <2>2 DEF BlockOK
<1> HIDE DEF b, c, first
<1>6. DecInv(defragment(d, b), h, n) BY <1>4, <1>5, DefragmentInv
<1>7. DecInv([d EXCEPT !.out = Append(@, c)], h, n)
  <2> DEFINE s == d.out
             e == [d EXCEPT !.out = Append(@, c)]
  <2>1. s \in Seq(BlockType) /\ BlocksOK(s, h, n) /\ d \in DecType BY DEF DecInv, DecType
  <2>2. /\ Append(s, c) \in Seq(BlockType) /\ Len(Append(s, c)) = Len(s) + 1
        /\ Append(s, c)[Len(s) + 1] = c /\ \A k \in 1..Len(s) : Append(s, c)[k] = s[k]
        /\ \A k \in 1..(Len(s) + 1) : k = Len(s) + 1 \/ k \in 1..Len(s)
    BY <1>4, <2>1
  <2>3. BlocksOK(Append(s, c), h, n) BY <1>5, <2>1, <2>2 DEF BlocksOK, BlockOK
  <2>4. e = [isuitems |-> d.isuitems, last |-> d.last, frags |-> d.frags, out |-> Append(s, c)]
    BY <2>1, DecShape
  <2> HIDE DEF e, s
  <2>5. /\ e.isuitems = d.isuitems /\ e.last = d.last /\ e.frags = d.frags
        /\ e.out = Append(s, c)
    BY <2>4
  <2>6. e \in DecType BY <2>1, <2>2, <2>4 DEF DecType
  <2>7. DecInv(e, h, n) BY <2>3, <2>5, <2>6 DEF DecInv
  <2> QED BY <2>7 DEF e
<1> QED BY <1>1, <1>6, <1>7

(* The invariant also holds for a later SU number.                         *)
LEMMA DecGrows ==
  ASSUME NEW d, NEW h, NEW n, DecInv(d, h, n), NEW n2 \in Nat, n <= n2
  PROVE  DecInv(d, h, n2)
<1>1. /\ plan \in Plans /\ n \in Nat /\ d.frags \in Seq(BlockType) /\ d.out \in Seq(BlockType)
      /\ Msgs \subseteq Nat
  BY PlanType DEF DecInv, DecType, Msgs
<1>2. BlocksOK(d.frags, h, n2) /\ BlocksOK(d.out, h, n2)
  BY <1>1, BlocksGrow DEF DecInv
<1>3. \A m \in Nat : At(m) \in Int BY DEF At, NSsu
<1>4. HeardOK(h, n2)
  <2>1. h \subseteq Msgs /\ \A m \in h : At(m) < n BY DEF DecInv, HeardOK
  <2>2. \A m \in h : At(m) < n2
    <3> SUFFICES ASSUME NEW m \in h PROVE At(m) < n2 OBVIOUS
    <3>1. At(m) \in Int /\ At(m) < n BY <1>1, <1>3, <2>1
    <3> QED BY <1>1, <3>1
  <2> QED BY <2>1, <2>2 DEF HeardOK
<1>5. ItemsInv(d.isuitems, h, n2)
  <2> SUFFICES ASSUME NEW i \in 1..Len(d.isuitems) PROVE ItemInv(d.isuitems[i], h, n2)
    BY DEF DecInv, ItemsInv
  <2> DEFINE x == d.isuitems[i]
  <2>1. x \in ItemType /\ ItemInv(x, h, n)
    <3>1. d.isuitems \in Seq(ItemType) BY DEF DecInv, DecType
    <3>2. ItemInv(x, h, n) BY DEF DecInv, ItemsInv
    <3> QED BY <3>1, <3>2
  <2> HIDE DEF x
  <2>2. x.userdata \in Seq(Messages) BY <2>1 DEF ItemType
  <2>3. \A k \in 1..Len(x.userdata) : At(x.userdata[k].m) < n2
    <3> SUFFICES ASSUME NEW k \in 1..Len(x.userdata) PROVE At(x.userdata[k].m) < n2 OBVIOUS
    <3>1. x.userdata[k] \in Messages BY <2>2
    <3>2. At(x.userdata[k].m) \in Int BY <1>1, <1>3, <3>1, MessageOf
    <3>3. At(x.userdata[k].m) < n BY <2>1 DEF ItemInv
    <3> QED BY <1>1, <3>2, <3>3
  <2>4. ItemInv(x, h, n2) BY <2>1, <2>3 DEF ItemInv
  <2> QED BY <2>4 DEF x
<1> QED BY <1>2, <1>4, <1>5 DEF DecInv

-----------------------------------------------------------------------------
(* An SSU.                                                                 *)

(* An item is the record of its fields.                                    *)
LEMMA ItemShape ==
  ASSUME NEW x \in ItemType
  PROVE  /\ x = [aes |-> x.aes, ref |-> x.ref, seq |-> x.seq, userdata |-> x.userdata,
                 count |-> x.count]
         /\ x.aes \in AesSet /\ x.ref \in Nat /\ x.seq \in Nat
         /\ x.userdata \in Seq(Messages) /\ x.count \in Nat
BY DEF ItemType

(* Item x continued by an SSU of message m.                                *)
Continued(x, m) == [x EXCEPT !.seq = @ - 1, !.userdata = Append(@, UserData(m))]

(* The SSU may be of another message than the item; then that message's    *)
(* 0x71 SU was lost or the item was not to be waited for.                  *)
LEMMA ItemContinues ==
  ASSUME plan \in Plans, NEW x \in ItemType, NEW h, NEW n \in Nat, h \subseteq Msgs,
         ItemInv(x, h, n), NEW m \in Msgs, NEW k \in 1..NSsu, n <= At(m) + k,
         x.ref = RefOf(m), x.seq = NSsu - k + 1,
         m \in h => Starter(x) = m \/ ~plan[Starter(x)].fits,
         NEW y, y = Continued(x, m)
  PROVE  /\ y \in ItemType /\ ItemInv(y, h, At(m) + k + 1)
         /\ y.aes = x.aes /\ y.ref = x.ref /\ Starter(y) = Starter(x) /\ y.seq = NSsu - k
         /\ y.userdata = Append(x.userdata, UserData(m))
<1> DEFINE u == x.userdata
           v == Append(u, UserData(m))
           n2 == At(m) + k + 1
<1>1. /\ u \in Seq(Messages) /\ x.aes \in AesSet /\ x.ref \in Nat /\ x.seq \in Nat
      /\ x.count \in Nat
  BY ItemShape
<1>2. UserData(m) \in Messages /\ UserData(m).m = m /\ m \in Nat BY UserDataOf
<1>3. Len(u) = k /\ x.seq - 1 = NSsu - k /\ NSsu - k \in Nat
  <2>1. x.seq = NSsu + 1 - Len(u) /\ Len(u) \in Nat BY <1>1 DEF ItemInv
  <2> QED BY <2>1 DEF NSsu
<1>4. /\ v \in Seq(Messages) /\ Len(v) = k + 1 /\ v[k + 1] = UserData(m)
      /\ \A i \in 1..k : v[i] = u[i]
  BY <1>1, <1>2, <1>3
<1>5. y = [aes |-> x.aes, ref |-> x.ref, seq |-> x.seq - 1, userdata |-> v, count |-> x.count]
  <2> DEFINE e == [x EXCEPT !.seq = @ - 1]
  <2>1. x = [aes |-> x.aes, ref |-> x.ref, seq |-> x.seq, userdata |-> x.userdata,
             count |-> x.count]
    BY ItemShape
  <2>2. e = [aes |-> x.aes, ref |-> x.ref, seq |-> x.seq - 1, userdata |-> u, count |-> x.count]
    BY <2>1
  <2>3. y = [e EXCEPT !.userdata = Append(e.userdata, UserData(m))] BY Zenon DEF Continued
  <2> HIDE DEF e
  <2>4. e.userdata = u BY <2>2
  <2>5. y = [e EXCEPT !.userdata = v] BY <2>3, <2>4
  <2> HIDE DEF v
  <2> QED BY <2>2, <2>5
<1>6. y \in ItemType BY <1>1, <1>3, <1>4, <1>5 DEF ItemType
<1> HIDE DEF v
<1>7. /\ y.aes = x.aes /\ y.ref = x.ref /\ y.seq = NSsu - k /\ y.userdata = v
      /\ y.count = x.count
  <2> HIDE DEF u
  <2> DEFINE q == x.seq - 1
  <2> HIDE DEF q
  <2>1. y = [aes |-> x.aes, ref |-> x.ref, seq |-> q, userdata |-> v, count |-> x.count]
    BY <1>5 DEF q
  <2>2. /\ y.aes = x.aes /\ y.ref = x.ref /\ y.seq = q /\ y.userdata = v
        /\ y.count = x.count
    <3> DEFINE z == [aes |-> x.aes, ref |-> x.ref, seq |-> q, userdata |-> v, count |-> x.count]
    <3>1. /\ z.aes = x.aes /\ z.ref = x.ref /\ z.seq = q /\ z.userdata = v
          /\ z.count = x.count
      OBVIOUS
    <3> HIDE DEF z
    <3>2. y = z BY <2>1 DEF z
    <3> QED BY <3>1, <3>2, Zenon
  <2> QED BY <1>3, <2>2 DEF q
<1>8. 1 \in 1..k /\ Starter(y) = Starter(x) BY <1>4, <1>7 DEF Starter, NSsu
<1>9. \A i \in 1..k : u[i].m \in Nat /\ u[i].m <= m /\ At(u[i].m) < n2
  <2> SUFFICES ASSUME NEW i \in 1..k PROVE u[i].m \in Nat /\ u[i].m <= m /\ At(u[i].m) < n2
    OBVIOUS
  <2>1. u[i] \in Messages BY <1>1, <1>3
  <2>2. u[i].m \in Nat BY <2>1, PlanType, MessageOf DEF Msgs
  <2>3. At(u[i].m) < n BY <1>3 DEF ItemInv
  <2> QED BY <1>2, <2>2, <2>3 DEF At, NSsu
<1>10. At(m) < n2 /\ n2 \in Nat BY <1>2, PlanType DEF At, NSsu, Msgs
<1>11. \A i \in 1..(k + 1) : i = k + 1 \/ i \in 1..k BY DEF NSsu
<1> HIDE DEF n2, u
<1>12. ASSUME NEW i \in 1..Len(v)
       PROVE  /\ RefOf(v[i].m) = x.ref /\ At(v[i].m) < n2
              /\ v[i].m = Starter(x) \/ v[i].m \notin h \/ ~plan[Starter(x)].fits
  <2>1. CASE i = k + 1
    <3>1. v[i].m = m BY <1>2, <1>4, <2>1
    <3> QED BY <1>10, <3>1
  <2>2. CASE i \in 1..k
    <3>1. v[i] = u[i] BY <1>4, <2>2
    <3>2. /\ RefOf(u[i].m) = x.ref
          /\ u[i].m = Starter(x) \/ u[i].m \notin h \/ ~plan[Starter(x)].fits
      BY <1>3, <2>2 DEF ItemInv, u
    <3> QED BY <1>9, <2>2, <3>1, <3>2
  <2> QED BY <1>4, <1>11, <2>1, <2>2
<1>13. ASSUME NEW i \in 1..Len(v), NEW j \in 1..Len(v), i <= j PROVE v[i].m <= v[j].m
  <2>1. CASE j = k + 1
    <3>1. v[j].m = m BY <1>2, <1>4, <2>1
    <3>2. CASE i = k + 1 BY <1>2, <2>1, <3>1, <3>2
    <3>3. CASE i \in 1..k BY <1>4, <1>9, <3>1, <3>3
    <3> QED BY <1>4, <1>11, <3>2, <3>3
  <2>2. CASE j \in 1..k
    <3>1. i \in 1..k BY <1>13, <2>2
    <3>2. u[i].m <= u[j].m BY <1>3, <1>13, <2>2, <3>1 DEF ItemInv, u
    <3> QED BY <1>4, <2>2, <3>1, <3>2
  <2> QED BY <1>4, <1>11, <2>1, <2>2
<1>14. Len(v) \in 1..(NSsu + 1) /\ y.seq = NSsu + 1 - Len(v) BY <1>4, <1>7 DEF NSsu
<1>15. /\ Starter(y) \in h /\ y.aes = plan[Starter(y)].aes
       /\ y.count = Cardinality(After(Starter(y), h)) /\ y.count <= KeepIsu
  BY <1>7, <1>8 DEF ItemInv
<1>16. ItemInv(y, h, n2)
  BY <1>7, <1>8, <1>12, <1>13, <1>14, <1>15 DEF ItemInv
<1> QED BY <1>6, <1>7, <1>8, <1>16 DEF n2, v, u

(* updateC0 in full.                                                       *)
LEMMA UpdateC0Is ==
  ASSUME NEW d \in DecType, NEW m, NEW k \in 1..NSsu, NEW i, i = findisuitemC0(d, Su(m, k)),
         NEW y, y = [d.isuitems[i] EXCEPT !.seq = @ - 1, !.userdata = Append(@, UserData(m))],
         NEW kept, kept = [isuitems |-> [d.isuitems EXCEPT ![i] = y], last |-> d.last,
                           frags |-> d.frags, out |-> d.out]
  PROVE  updateC0(d, Su(m, k)) =
           IF i = 0 THEN d ELSE IF y.seq = 0 THEN parse(kept, y) ELSE kept
<1> DEFINE su == Su(m, k)
<1>1. su.data = UserData(m) BY DEF Su, NSsu
<1> HIDE DEF su
<1>2. kept = [d EXCEPT !.isuitems[i] = y]
  <2>1. d = [isuitems |-> d.isuitems, last |-> d.last, frags |-> d.frags, out |-> d.out]
    BY DecShape
  <2>2. [d EXCEPT !.isuitems[i] = y]
          = [isuitems |-> [d.isuitems EXCEPT ![i] = y], last |-> d.last,
             frags |-> d.frags, out |-> d.out]
    BY <2>1
  <2> QED BY <2>2
<1>3. updateC0(d, su) =
        CASE i = 0 -> d
          [] i # 0 /\ y.seq = 0 -> parse([d EXCEPT !.isuitems[i] = y], y)
          [] OTHER -> [d EXCEPT !.isuitems[i] = y]
  BY <1>1 DEF updateC0, su
<1>4. updateC0(d, su) =
        CASE i = 0 -> d
          [] i # 0 /\ y.seq = 0 -> parse(kept, y)
          [] OTHER -> kept
  BY <1>2, <1>3, Zenon
<1>5. CASE i = 0 BY <1>4, <1>5 DEF su
<1>6. CASE i # 0 /\ y.seq = 0 BY <1>4, <1>6 DEF su
<1>7. CASE i # 0 /\ y.seq # 0 BY <1>4, <1>7 DEF su
<1> QED BY <1>5, <1>6, <1>7

(* An SSU keeps the decoder's invariant.                                   *)
LEMMA UpdateC0Inv ==
  ASSUME NEW d, NEW h, NEW n, DecInv(d, h, n), NEW m \in Msgs, NEW k \in 1..NSsu,
         n <= At(m) + k
  PROVE  DecInv(updateC0(d, Su(m, k)), h, At(m) + k + 1)
<1> DEFINE su == Su(m, k)
           i == findisuitemC0(d, su)
           s == d.isuitems
           x == s[i]
           y == [x EXCEPT !.seq = @ - 1, !.userdata = Append(@, UserData(m))]
           t == [s EXCEPT ![i] = y]
           kept == [isuitems |-> t, last |-> d.last, frags |-> d.frags, out |-> d.out]
           n2 == At(m) + k + 1
<1>1. /\ plan \in Plans /\ d \in DecType /\ n \in Nat /\ HeardOK(h, n) /\ h \subseteq Msgs
      /\ ItemsInv(s, h, n) /\ LastInv(d.last, s, h)
  BY DEF DecInv, HeardOK
<1>2. /\ s \in Seq(ItemType) /\ Len(s) \in Nat /\ d.last \in LastType
      /\ d.frags \in Seq(BlockType) /\ d.out \in Seq(BlockType)
  BY <1>1 DEF DecType
<1>3. m \in Nat /\ m >= 1 /\ n2 \in Nat /\ n <= n2 /\ Msgs \subseteq Nat
  <2>1. m \in Nat /\ m >= 1 /\ Msgs \subseteq Nat BY <1>1, PlanType DEF Msgs
  <2> QED BY <1>1, <2>1 DEF At, NSsu
<1>4. DecInv(d, h, n2) BY <1>1, <1>3, DecGrows
<1>5. updateC0(d, su) = IF i = 0 THEN d ELSE IF y.seq = 0 THEN parse(kept, y) ELSE kept
  BY <1>1, UpdateC0Is
<1> HIDE DEF kept, t, y, x, i, n2
<1> SUFFICES ASSUME i # 0 PROVE DecInv(updateC0(d, su), h, n2) BY <1>4, <1>5 DEF n2
<1>6. su.ref = RefOf(m) /\ su.seq = NSsu - k BY DEF Su, NSsu
<1>7. /\ d.last.fits /\ i \in 1..Len(s) /\ x.aes = d.last.aes /\ x.ref = RefOf(m)
      /\ x.seq = NSsu - k + 1
  <2> HIDE DEF su
  <2>1. /\ d.last.fits /\ i \in 1..Len(s)
        /\ SameMessage(x, su, d.last.aes) /\ su.seq + 1 = x.seq
    BY <1>2, FoundC0, Zenon DEF i, x
  <2> QED BY <1>6, <2>1 DEF SameMessage
<1>8. x \in ItemType /\ ItemInv(x, h, n) BY <1>1, <1>2, <1>7 DEF ItemsInv, x
<1>9. m \in h => Starter(x) = m \/ ~plan[Starter(x)].fits
  <2> SUFFICES ASSUME m \in h PROVE Starter(x) = m \/ ~plan[Starter(x)].fits OBVIOUS
  <2>1. \A l \in h : l <= m
    <3> SUFFICES ASSUME NEW l \in h PROVE l <= m OBVIOUS
    <3>1. l \in Nat /\ At(l) < n BY <1>1, <1>3 DEF HeardOK
    <3> QED BY <1>1, <1>3, <3>1 DEF At, NSsu
  <2>2. /\ d.last.aes = plan[m].aes
        /\ d.last.fits => \A j \in 1..Len(s) :
             s[j].aes = plan[m].aes /\ s[j].ref = RefOf(m) =>
               Starter(s[j]) = m \/ ~plan[Starter(s[j])].fits
    BY <1>1, <2>1 DEF LastInv
  <2> QED BY <1>7, <2>2 DEF x
<1>10. /\ y \in ItemType /\ ItemInv(y, h, n2)
       /\ y.aes = x.aes /\ y.ref = x.ref /\ Starter(y) = Starter(x)
  <2>1. y = Continued(x, m) BY DEF y, Continued
  <2>2. x.ref = RefOf(m) /\ x.seq = NSsu - k + 1 BY <1>7
  <2>3. /\ y \in ItemType /\ ItemInv(y, h, At(m) + k + 1)
        /\ y.aes = x.aes /\ y.ref = x.ref /\ Starter(y) = Starter(x)
    BY <1>1, <1>8, <1>9, <2>1, <2>2, ItemContinues
  <2> QED BY <2>3 DEF n2
<1>11. /\ t \in Seq(ItemType) /\ Len(t) = Len(s) /\ t[i] = y
       /\ \A j \in 1..Len(s) : j # i => t[j] = s[j]
  BY <1>2, <1>7, <1>10 DEF t
<1>12. \A j \in 1..Len(s) : /\ t[j].aes = s[j].aes /\ t[j].ref = s[j].ref
                            /\ Starter(t[j]) = Starter(s[j])
  BY <1>10, <1>11 DEF x
<1>13. ItemsInv(t, h, n2)
  <2>1. \A j \in 1..Len(s) : ItemInv(s[j], h, n2) BY <1>4 DEF DecInv, ItemsInv
  <2>2. \A j \in 1..Len(t) : ItemInv(t[j], h, n2) BY <1>10, <1>11, <2>1
  <2>3. ASSUME NEW j \in 1..Len(t), NEW l \in 1..Len(t), j < l, SameKey(t[j], t[l])
        PROVE  ~plan[Starter(t[l])].fits
    <3>1. j \in 1..Len(s) /\ l \in 1..Len(s) /\ SameKey(s[j], s[l])
      BY <1>11, <1>12, <2>3 DEF SameKey
    <3>2. ~plan[Starter(s[l])].fits BY <1>1, <2>3, <3>1 DEF ItemsInv
    <3> QED BY <1>12, <3>1, <3>2
  <2> QED BY <2>2, <2>3 DEF ItemsInv
<1>14. LastInv(d.last, t, h)
  <2> SUFFICES ASSUME NEW l \in h, \A q \in h : q <= l
               PROVE  /\ d.last.aes = plan[l].aes /\ d.last.fits = plan[l].fits
                      /\ d.last.fits => \A j \in 1..Len(t) :
                           t[j].aes = plan[l].aes /\ t[j].ref = RefOf(l) =>
                             Starter(t[j]) = l \/ ~plan[Starter(t[j])].fits
    BY DEF LastInv
  <2>1. /\ d.last.aes = plan[l].aes /\ d.last.fits = plan[l].fits
        /\ d.last.fits => \A j \in 1..Len(s) :
             s[j].aes = plan[l].aes /\ s[j].ref = RefOf(l) =>
               Starter(s[j]) = l \/ ~plan[Starter(s[j])].fits
    BY <1>1 DEF LastInv
  <2> QED BY <1>11, <1>12, <2>1
<1>15. /\ kept.isuitems = t /\ kept.last = d.last /\ kept.frags = d.frags /\ kept.out = d.out
  BY DEF kept
<1>16. kept \in DecType BY <1>2, <1>11 DEF kept, DecType
<1>17. DecInv(kept, h, n2)
  BY <1>4, <1>13, <1>14, <1>15, <1>16 DEF DecInv
<1>18. DecInv(parse(kept, y), h, n2) BY <1>10, <1>17, ParseInv
<1> QED BY <1>5, <1>17, <1>18

(* The message that su makes heard, if it is a 0x71 SU.                    *)
Heard(su) == IF su.type = "71" THEN {su.data.m} ELSE {}

(* Every SU of a message keeps the decoder's invariant.                    *)
LEMMA DecodeSUInv ==
  ASSUME NEW d, NEW h, NEW n, DecInv(d, h, n), NEW m \in Msgs, NEW k \in 0..NSsu,
         n <= At(m) + k
  PROVE  DecInv(DecodeSU(d, Su(m, k)), h \cup Heard(Su(m, k)), At(m) + k + 1)
<1>1. CASE k = 0
  <2>1. Su(m, k).type = "71" /\ Su(m, k).data = UserData(m) BY <1>1 DEF Su
  <2>2. DecodeSU(d, Su(m, k)) = update71(d, Su(m, 0)) BY <1>1, <2>1 DEF DecodeSU
  <2>3. Heard(Su(m, k)) = {m} BY <2>1, UserDataOf DEF Heard, DecInv
  <2>4. m \in Nat /\ n \in Nat BY PlanType DEF Msgs, DecInv
  <2>5. At(m) >= n /\ At(m) + k + 1 = At(m) + 1 BY <1>1, <2>4 DEF At, NSsu
  <2> QED BY <2>2, <2>3, <2>5, Update71Inv
<1>2. CASE k \in 1..NSsu
  <2>1. Su(m, k).type = "C0" BY <1>2 DEF Su, NSsu
  <2>2. DecodeSU(d, Su(m, k)) = updateC0(d, Su(m, k)) BY <2>1 DEF DecodeSU
  <2>3. h \cup Heard(Su(m, k)) = h BY <2>1 DEF Heard
  <2> QED BY <1>2, <2>2, <2>3, UpdateC0Inv
<1> QED BY <1>1, <1>2 DEF NSsu

-----------------------------------------------------------------------------
(* Frames and the delay line.                                              *)

(* What a slot of a frame may hold.                                        *)
SUs == {Bad, Fill} \cup {Su(m, k) : m \in Msgs, k \in 0..NSsu}
Frames == [0..(SUsPerFrame - 1) -> SUs]

(* An SU of a message, and its number.                                     *)
Real(su) == su.type \in {"71", "C0"}
Index(su) == At(su.data.m) + NSsu - su.seq

(* An SU is of a message or leaves the decoder alone.                      *)
LEMMA RealSU ==
  ASSUME plan \in Plans, NEW su \in SUs
  PROVE  /\ ~Real(su) => su.type \in {"bad", "fill"}
         /\ Real(su) => \E m \in Msgs, k \in 0..NSsu : su = Su(m, k) /\ Index(su) = At(m) + k
         /\ Real(su) => Index(su) \in Nat
<1>1. CASE su \in {Bad, Fill}
  BY <1>1 DEF Bad, Fill, Real
<1>2. CASE su \notin {Bad, Fill}
  <2>1. PICK m \in Msgs, k \in 0..NSsu : su = Su(m, k) BY <1>2 DEF SUs
  <2>2. m \in Nat /\ m >= 1 BY PlanType DEF Msgs
  <2>3. UserData(m).m = m BY UserDataOf
  <2>4. Real(su) /\ su.data.m = m /\ su.seq = NSsu - k
    <3>1. CASE k = 0 BY <2>1, <2>3, <3>1 DEF Su, Real, NSsu
    <3>2. CASE k # 0 BY <2>1, <2>3, <3>2 DEF Su, Real, NSsu
    <3> QED BY <3>1, <3>2
  <2>5. Index(su) = At(m) + k /\ Index(su) \in Nat BY <2>2, <2>4 DEF Index, At, NSsu
  <2> QED BY <2>1, <2>4, <2>5
<1> QED BY <1>1, <1>2

(* SU number i of the transmitter has number i.                            *)
LEMMA SentSU ==
  ASSUME plan \in Plans, NEW i \in Nat
  PROVE  /\ Sent(i) \in SUs
         /\ Real(Sent(i)) => Index(Sent(i)) = i /\ i < Len(plan) * (NSsu + 1)
<1> DEFINE m == i \div (NSsu + 1) + 1
           k == i % (NSsu + 1)
<1>1. m \in Nat /\ m >= 1 /\ k \in 0..NSsu /\ i = At(m) + k BY DEF At, NSsu
<1>2. Sent(i) = IF m > Len(plan) THEN Fill ELSE Su(m, k)
  BY DEF Sent, Su
<1>3. Len(plan) \in Nat BY PlanType
<1> HIDE DEF m, k
<1>4. CASE m > Len(plan) BY <1>2, <1>4 DEF SUs, Real, Fill
<1>5. CASE ~(m > Len(plan))
  <2>1. m \in Msgs BY <1>1, <1>3, <1>5 DEF Msgs
  <2>2. Sent(i) = Su(m, k) /\ Su(m, k) \in SUs BY <1>1, <1>2, <1>5, <2>1 DEF SUs
  <2>3. UserData(m).m = m BY <2>1, UserDataOf
  <2>4. Su(m, k).data.m = m /\ Su(m, k).seq = NSsu - k
    <3>1. CASE k = 0 BY <2>3, <3>1 DEF Su, NSsu
    <3>2. CASE k # 0 BY <2>3, <3>2 DEF Su, NSsu
    <3> QED BY <3>1, <3>2
  <2>5. Index(Su(m, k)) = i BY <1>1, <2>4 DEF Index, At, NSsu
  <2>6. i < Len(plan) * (NSsu + 1) BY <1>1, <1>3, <1>5 DEF At, NSsu
  <2> QED BY <2>2, <2>5, <2>6
<1> QED BY <1>4, <1>5

(* Slot s of frame i of the delay line L has been filled, the last frame   *)
(* only up to slot upto.                                                   *)
In(L, upto, i, s) == i < Len(L) \/ s < upto

(* The slots of a frame that hold SUs.                                     *)
Places == 0..(SUsPerFrame - 1)

(* The delay line: its SUs have numbers from n and below hi, in the order  *)
(* they were sent.                                                         *)
LineInv(L, upto, n, hi) ==
  /\ \A i \in 1..Len(L), s \in Places : In(L, upto, i, s) /\ Real(L[i][s]) =>
       n <= Index(L[i][s]) /\ Index(L[i][s]) < hi
  /\ \A i, j \in 1..Len(L), s, t \in Places :
       /\ In(L, upto, i, s) /\ In(L, upto, j, t) /\ (i < j \/ (i = j /\ s < t))
       /\ Real(L[i][s]) /\ Real(L[j][t])
       => Index(L[i][s]) < Index(L[j][t])

(* The messages that the first k SUs of f make heard.                      *)
HeardIn(f, k) == {f[s].data.m : s \in {t \in 0..(k - 1) : f[t].type = "71"}}

(* One SU after the other.                                                 *)
LEMMA HeardInSteps ==
  ASSUME NEW f, NEW k \in Nat
  PROVE  HeardIn(f, 0) = {} /\ HeardIn(f, k + 1) = HeardIn(f, k) \cup Heard(f[k])
<1>1. HeardIn(f, 0) = {} BY DEF HeardIn
<1>2. 0..((k + 1) - 1) = (0..(k - 1)) \cup {k} OBVIOUS
<1> QED BY <1>1, <1>2 DEF HeardIn, Heard

(* A frame of SUs in order keeps the decoder's invariant.                  *)
LEMMA FrameInv ==
  ASSUME NEW d, NEW h, NEW n, DecInv(d, h, n), NEW f \in Frames,
         \A s \in Places : Real(f[s]) => n <= Index(f[s]),
         \A s, t \in Places : s < t /\ Real(f[s]) /\ Real(f[t]) => Index(f[s]) < Index(f[t])
  PROVE  \E n2 \in Nat :
           /\ DecInv(DecodeFrame(d, f), h \cup Heard71(f), n2)
           /\ n2 = n \/ \E s \in Places : Real(f[s]) /\ n2 = Index(f[s]) + 1
<1> DEFINE S == SUsPerFrame
<1>0. S \in Nat /\ S >= 1 /\ plan \in Plans /\ n \in Nat BY DecoderAssumption DEF DecInv
<1>1. PICK x : /\ x[0] = d
               /\ \A k \in 1..S : x[k] = DecodeSU(x[k - 1], f[k - 1])
               /\ DecodeFrame(d, f) = x[S]
  BY FrameSteps
<1> HIDE DEF S
<1> DEFINE Q(k, n2) == /\ DecInv(x[k], h \cup HeardIn(f, k), n2)
                       /\ n2 = n \/ \E s \in Places : s < k /\ Real(f[s]) /\ n2 = Index(f[s]) + 1
           P == {k \in 0..S : \E n2 \in Nat : Q(k, n2)}
<1>2. 0 \in P
  <2>1. h \cup HeardIn(f, 0) = h BY HeardInSteps
  <2>2. Q(0, n) BY <1>1, <2>1
  <2> HIDE DEF Q
  <2> QED BY <1>0, <2>2
<1>3. ASSUME NEW k \in 0..S, k \in P, k < S PROVE k + 1 \in P
  <2>1. PICK n2 \in Nat : Q(k, n2) BY <1>3
  <2>2. k \in Places /\ k \in Nat /\ k + 1 \in 1..S /\ (k + 1) - 1 = k
    BY <1>0, <1>3 DEF Places, S
  <2>3. x[k + 1] = DecodeSU(x[k], f[k]) BY <1>1, <2>2
  <2>4. h \cup HeardIn(f, k + 1) = (h \cup HeardIn(f, k)) \cup Heard(f[k])
    BY <2>2, HeardInSteps
  <2>5. f[k] \in SUs BY <2>2 DEF Frames, Places
  <2>6. CASE ~Real(f[k])
    <3>1. f[k].type \in {"bad", "fill"} BY <1>0, <2>5, <2>6, RealSU
    <3>2. x[k + 1] = x[k] BY <2>3, <3>1 DEF DecodeSU
    <3>3. h \cup HeardIn(f, k + 1) = h \cup HeardIn(f, k) BY <2>4, <3>1 DEF Heard
    <3>4. \A s \in Places : s < k => s < k + 1 BY <2>2 DEF Places
    <3>5. Q(k + 1, n2) BY <2>1, <3>2, <3>3, <3>4
    <3> HIDE DEF Q
    <3> QED BY <1>0, <2>2, <3>5
  <2>7. CASE Real(f[k])
    <3>1. PICK m \in Msgs, q \in 0..NSsu : f[k] = Su(m, q) /\ Index(f[k]) = At(m) + q
      BY <1>0, <2>5, <2>7, RealSU
    <3>2. Index(f[k]) \in Nat BY <1>0, <2>5, <2>7, RealSU
    <3>3. n2 <= Index(f[k])
      <4>1. CASE n2 = n BY <2>2, <2>7, <4>1
      <4>2. CASE n2 # n
        <5>1. PICK s \in Places : s < k /\ Real(f[s]) /\ n2 = Index(f[s]) + 1 BY <2>1, <4>2
        <5>2. Index(f[s]) < Index(f[k]) BY <2>2, <2>7, <5>1
        <5>3. Index(f[s]) \in Nat
          <6>1. f[s] \in SUs BY DEF Frames, Places
          <6> QED BY <1>0, <5>1, <6>1, RealSU
        <5> QED BY <3>2, <5>1, <5>2, <5>3
      <4> QED BY <4>1, <4>2
    <3>4. DecInv(DecodeSU(x[k], f[k]), (h \cup HeardIn(f, k)) \cup Heard(f[k]), Index(f[k]) + 1)
      <4>1. DecInv(x[k], h \cup HeardIn(f, k), n2) BY <2>1
      <4>2. n2 <= At(m) + q BY <3>1, <3>3
      <4> HIDE DEF Q
      <4> QED BY <3>1, <4>1, <4>2, DecodeSUInv
    <3>5. k < k + 1 BY <2>2
    <3>6. Q(k + 1, Index(f[k]) + 1) BY <2>2, <2>3, <2>4, <2>7, <3>4, <3>5
    <3> HIDE DEF Q
    <3>7. Index(f[k]) + 1 \in Nat BY <3>2
    <3> QED BY <1>0, <2>2, <3>6, <3>7
  <2> QED BY <2>6, <2>7
<1>4. S \in P
  <2> HIDE DEF P
  <2>1. P \in SUBSET (0..S) BY DEF P
  <2>2. P = 0..S BY <1>0, <1>2, <1>3, <2>1, UpTo
  <2> QED BY <1>0, <2>2
<1>5. PICK n2 \in Nat : Q(S, n2) BY <1>4
<1>6. HeardIn(f, S) = Heard71(f)
  <2>1. DOMAIN f = 0..(S - 1) BY DEF Frames, S
  <2> QED BY <2>1 DEF HeardIn, Heard71
<1> QED BY <1>1, <1>5, <1>6

(* The SU on the air is put into its slot.                                 *)
LEMMA LineReceive ==
  ASSUME plan \in Plans, NEW s \in Seq(Frames), NEW b \in Frames, NEW c \in Places,
         NEW n \in Nat, NEW hi \in Nat, LineInv(Append(s, b), c, n, hi), n <= hi,
         NEW su \in SUs, NEW hi2 \in Nat, hi <= hi2,
         Real(su) => Index(su) = hi /\ hi2 = hi + 1
  PROVE  /\ [b EXCEPT ![c] = su] \in Frames
         /\ LineInv(Append(s, [b EXCEPT ![c] = su]), c + 1, n, hi2)
<1> DEFINE b2 == [b EXCEPT ![c] = su]
           L == Append(s, b)
           L2 == Append(s, b2)
           N == Len(s) + 1
<1>1. /\ b2 \in Frames /\ b2[c] = su /\ \A t \in Places : t # c => b2[t] = b[t]
  BY DEF Frames, Places
<1> HIDE DEF b2
<1>2. /\ N \in Nat /\ Len(L) = N /\ Len(L2) = N /\ L[N] = b /\ L2[N] = b2
      /\ \A i \in 1..N : i # N => L[i] = s[i] /\ L2[i] = s[i] /\ i < N /\ s[i] \in Frames
  BY <1>1
<1> HIDE DEF L, L2, N
<1>3. c \in Nat /\ \A t \in Places : t \in Nat BY DEF Places
<1>4. \A i \in 1..N, t \in Places : L2[i][t] \in SUs
  BY <1>1, <1>2 DEF Frames, Places
<1>5. \A i \in 1..N, t \in Places :
        In(L2, c + 1, i, t) => \/ i = N /\ t = c /\ L2[i][t] = su
                               \/ In(L, c, i, t) /\ L2[i][t] = L[i][t]
  BY <1>1, <1>2, <1>3 DEF In
<1>6. \A i \in 1..N, t \in Places : In(L, c, i, t) => i < N \/ t < c
  BY <1>2 DEF In
<1>7. \A i \in 1..N, t \in Places : Real(L2[i][t]) => Index(L2[i][t]) \in Nat
  BY <1>4, RealSU
<1>8. ASSUME NEW i \in 1..N, NEW t \in Places, In(L2, c + 1, i, t), Real(L2[i][t])
      PROVE  n <= Index(L2[i][t]) /\ Index(L2[i][t]) < hi2
  <2>1. Index(L2[i][t]) \in Nat BY <1>7, <1>8
  <2>2. CASE L2[i][t] = su BY <1>8, <2>2
  <2>3. CASE In(L, c, i, t) /\ L2[i][t] = L[i][t]
    <3>1. n <= Index(L[i][t]) /\ Index(L[i][t]) < hi
      BY <1>2, <1>8, <2>3 DEF LineInv, L
    <3> QED BY <2>1, <2>3, <3>1
  <2> QED BY <1>5, <1>8, <2>2, <2>3
<1>9. ASSUME NEW i \in 1..N, NEW j \in 1..N, NEW t \in Places, NEW v \in Places,
             In(L2, c + 1, i, t), In(L2, c + 1, j, v), i < j \/ (i = j /\ t < v),
             Real(L2[i][t]), Real(L2[j][v])
      PROVE  Index(L2[i][t]) < Index(L2[j][v])
  <2>1. ~(i = N /\ t = c)
    <3> SUFFICES ASSUME i = N, t = c PROVE FALSE OBVIOUS
    <3>1. j = N /\ v > c BY <1>2, <1>9
    <3> QED BY <1>2, <1>3, <1>9, <3>1 DEF In
  <2>2. In(L, c, i, t) /\ L2[i][t] = L[i][t] BY <1>5, <1>9, <2>1
  <2>3. CASE j = N /\ v = c /\ L2[j][v] = su
    <3>1. Index(L[i][t]) < hi BY <1>2, <1>9, <2>2 DEF LineInv, L
    <3> QED BY <1>9, <2>2, <2>3, <3>1
  <2>4. CASE In(L, c, j, v) /\ L2[j][v] = L[j][v]
    BY <1>2, <1>9, <2>2, <2>4 DEF LineInv, L
  <2> QED BY <1>5, <1>9, <2>3, <2>4
<1>10. LineInv(L2, c + 1, n, hi2)
  BY <1>2, <1>8, <1>9 DEF LineInv
<1> QED BY <1>1, <1>10 DEF L2, b2

(* The delay line is in order up to any earlier slot too.                  *)
LEMMA LineLess ==
  ASSUME plan \in Plans, NEW L \in Seq(Frames), NEW u \in Nat, NEW n \in Nat, NEW hi \in Nat,
         LineInv(L, u, n, hi), NEW v \in Nat, v <= u, NEW hi2 \in Nat, hi <= hi2
  PROVE  LineInv(L, v, n, hi2)
<1>1. \A i \in 1..Len(L), s \in Places : In(L, v, i, s) => In(L, u, i, s)
  BY DEF In, Places
<1>2. \A i \in 1..Len(L), s \in Places : L[i][s] \in SUs
  <2>1. \A i \in 1..Len(L) : L[i] \in Frames OBVIOUS
  <2> QED BY <2>1 DEF Frames, Places
<1>3. \A i \in 1..Len(L), s \in Places : Real(L[i][s]) => Index(L[i][s]) \in Nat
  BY <1>2, RealSU
<1>4. ASSUME NEW i \in 1..Len(L), NEW s \in Places, In(L, v, i, s), Real(L[i][s])
      PROVE  n <= Index(L[i][s]) /\ Index(L[i][s]) < hi2
  <2>1. n <= Index(L[i][s]) /\ Index(L[i][s]) < hi BY <1>1, <1>4 DEF LineInv
  <2> QED BY <1>3, <1>4, <2>1
<1>5. ASSUME NEW i \in 1..Len(L), NEW j \in 1..Len(L), NEW s \in Places, NEW t \in Places,
             In(L, v, i, s), In(L, v, j, t), i < j \/ (i = j /\ s < t),
             Real(L[i][s]), Real(L[j][t])
      PROVE  Index(L[i][s]) < Index(L[j][t])
  BY <1>1, <1>5 DEF LineInv
<1> QED BY <1>4, <1>5 DEF LineInv

(* A full frame enters the delay line, the oldest leaves it and is         *)
(* decoded.                                                                *)
LEMMA LineShift ==
  ASSUME NEW d, NEW h, NEW n, DecInv(d, h, n), NEW s \in Seq(Frames), Len(s) >= 1,
         NEW b \in Frames, NEW hi \in Nat, LineInv(Append(s, b), SUsPerFrame, n, hi), n <= hi
  PROVE  \E n2 \in Nat :
           /\ DecInv(DecodeFrame(d, Head(s)), h \cup Heard71(Head(s)), n2)
           /\ LineInv(Append(Append(Tail(s), b), b), 0, n2, hi) /\ n2 <= hi
<1> DEFINE S == SUsPerFrame
           f == Head(s)
           L == Append(s, b)
           T == Append(Append(Tail(s), b), b)
           N == Len(s) + 1
<1>1. plan \in Plans /\ n \in Nat BY DEF DecInv
<1>2. /\ N \in Nat /\ N >= 2 /\ Len(L) = N /\ Len(T) = N /\ f = L[1]
      /\ \A i \in 1..N : i < N => T[i] = L[i + 1]
  OBVIOUS
<1>3. /\ L \in Seq(Frames) /\ \A i \in 1..N : L[i] \in Frames /\ T[i] \in Frames OBVIOUS
<1> HIDE DEF L, T, N, f
<1>4. S \in Nat /\ \A t \in Places : t < S BY DecoderAssumption DEF Places
<1>5. \A i \in 1..N, t \in Places : In(L, S, i, t) BY <1>4 DEF In
<1>6. \A i \in 1..N, t \in Places : Real(L[i][t]) =>
        n <= Index(L[i][t]) /\ Index(L[i][t]) < hi /\ Index(L[i][t]) \in Nat
  <2> SUFFICES ASSUME NEW i \in 1..N, NEW t \in Places, Real(L[i][t])
               PROVE  n <= Index(L[i][t]) /\ Index(L[i][t]) < hi /\ Index(L[i][t]) \in Nat
    OBVIOUS
  <2>1. L[i][t] \in SUs BY <1>3 DEF Frames, Places
  <2>2. Index(L[i][t]) \in Nat BY <1>1, <2>1, RealSU
  <2>3. In(L, S, i, t) BY <1>5
  <2> QED BY <1>2, <2>2, <2>3 DEF LineInv, L
<1>7. \A i, j \in 1..N, t, v \in Places :
        (i < j \/ (i = j /\ t < v)) /\ Real(L[i][t]) /\ Real(L[j][v]) =>
          Index(L[i][t]) < Index(L[j][v])
  <2> SUFFICES ASSUME NEW i \in 1..N, NEW j \in 1..N, NEW t \in Places, NEW v \in Places,
                      i < j \/ (i = j /\ t < v), Real(L[i][t]), Real(L[j][v])
               PROVE  Index(L[i][t]) < Index(L[j][v])
    OBVIOUS
  <2>1. In(L, S, i, t) /\ In(L, S, j, v) BY <1>5
  <2> QED BY <1>2, <2>1 DEF LineInv, L
<1>8. f \in Frames /\ 1 \in 1..N BY <1>2, <1>3
<1>9. /\ \A t \in Places : Real(f[t]) => n <= Index(f[t])
      /\ \A t, v \in Places : t < v /\ Real(f[t]) /\ Real(f[v]) => Index(f[t]) < Index(f[v])
  BY <1>2, <1>6, <1>7, <1>8
<1>10. PICK n2 \in Nat :
         /\ DecInv(DecodeFrame(d, f), h \cup Heard71(f), n2)
         /\ n2 = n \/ \E t \in Places : Real(f[t]) /\ n2 = Index(f[t]) + 1
  BY <1>8, <1>9, FrameInv
<1>11. n2 <= hi
  <2>1. CASE n2 = n BY <2>1
  <2>2. CASE n2 # n
    <3>1. PICK t \in Places : Real(f[t]) /\ n2 = Index(f[t]) + 1 BY <1>10, <2>2
    <3> QED BY <1>2, <1>6, <1>8, <3>1
  <2> QED BY <2>1, <2>2
<1>12. \A j \in 1..N, v \in Places : j > 1 /\ Real(L[j][v]) => n2 <= Index(L[j][v])
  <2> SUFFICES ASSUME NEW j \in 1..N, NEW v \in Places, j > 1, Real(L[j][v])
               PROVE  n2 <= Index(L[j][v])
    OBVIOUS
  <2>1. CASE n2 = n BY <1>6, <2>1
  <2>2. CASE n2 # n
    <3>1. PICK t \in Places : Real(f[t]) /\ n2 = Index(f[t]) + 1 BY <1>10, <2>2
    <3>2. Index(L[1][t]) < Index(L[j][v]) BY <1>2, <1>7, <1>8, <3>1
    <3>3. Index(L[1][t]) \in Nat /\ Index(L[j][v]) \in Nat BY <1>2, <1>6, <1>8, <3>1
    <3> QED BY <1>2, <3>1, <3>2, <3>3
  <2> QED BY <2>1, <2>2
<1>13. \A i \in 1..N, t \in Places : In(T, 0, i, t) =>
         i + 1 \in 1..N /\ i + 1 > 1 /\ T[i] = L[i + 1]
  BY <1>2 DEF In, Places
<1>14. ASSUME NEW i \in 1..N, NEW t \in Places, In(T, 0, i, t), Real(T[i][t])
       PROVE  n2 <= Index(T[i][t]) /\ Index(T[i][t]) < hi
  <2>1. i + 1 \in 1..N /\ i + 1 > 1 /\ T[i] = L[i + 1] BY <1>13, <1>14
  <2> QED BY <1>6, <1>12, <1>14, <2>1
<1>15. ASSUME NEW i \in 1..N, NEW j \in 1..N, NEW t \in Places, NEW v \in Places,
              In(T, 0, i, t), In(T, 0, j, v), i < j \/ (i = j /\ t < v),
              Real(T[i][t]), Real(T[j][v])
       PROVE  Index(T[i][t]) < Index(T[j][v])
  <2>1. i + 1 \in 1..N /\ T[i] = L[i + 1] /\ j + 1 \in 1..N /\ T[j] = L[j + 1]
    BY <1>13, <1>15
  <2>2. i + 1 < j + 1 \/ (i + 1 = j + 1 /\ t < v) BY <1>15
  <2> QED BY <1>7, <1>15, <2>1, <2>2
<1>16. LineInv(T, 0, n2, hi) BY <1>2, <1>14, <1>15 DEF LineInv
<1> QED BY <1>10, <1>11, <1>16 DEF f, T

-----------------------------------------------------------------------------
(* The invariant of the decoder on the air.                                *)

(* The slots of block that the decoder has filled in this frame.           *)
Upto == IF cntr < SUsPerFrame THEN cntr ELSE 0

(* Every SU in the delay line comes after those that were decoded, and     *)
(* before those that were not sent.                                        *)
LineOK(n) ==
  /\ DecInv(dec, heard71, n)
  /\ LineInv(Append(held, block), Upto, n, sent) /\ n <= sent

(* The types of the variables.                                             *)
AeroTypeOK ==
  /\ plan \in Plans /\ useingOQPSK \in BOOLEAN
  /\ onair \in 0..SUsPerFrame /\ sent \in Nat
  /\ cntr \in 0..SUsPerFrame \cup {Idle}
  /\ held \in Seq(Frames) /\ Len(held) = Late /\ block \in Frames

(* The inductive invariant.  Faults need no mention: lost, damaged and     *)
(* misplaced slots only leave SUs out, and the order of the rest remains.  *)
AeroInv == AeroTypeOK /\ \E n \in Nat : LineOK(n)

(* A decoder that has heard nothing.                                       *)
LEMMA EmptyInv ==
  ASSUME plan \in Plans PROVE DecInv(EmptyDecoder, {}, 0)
<1>1. EmptyDecoder \in DecType
  BY DEF EmptyDecoder, DecType, LastType, AesSet
<1>2. /\ EmptyDecoder.isuitems = <<>> /\ EmptyDecoder.frags = <<>> /\ EmptyDecoder.out = <<>>
      /\ Len(<<>>) = 0 /\ 1..0 = {}
  BY DEF EmptyDecoder
<1>3. BlocksOK(<<>>, {}, 0) /\ ItemsInv(<<>>, {}, 0) /\ HeardOK({}, 0)
  BY DEF BlocksOK, ItemsInv, HeardOK
<1>4. LastInv(EmptyDecoder.last, <<>>, {}) BY DEF LastInv
<1> QED BY <1>1, <1>2, <1>3, <1>4 DEF DecInv

(* Deleting all items when the unique word comes early keeps the           *)
(* invariant.                                                              *)
LEMMA ForgetItems ==
  ASSUME NEW d, NEW h, NEW n, DecInv(d, h, n)
  PROVE  DecInv([d EXCEPT !.isuitems = <<>>], h, n)
<1> DEFINE e == [d EXCEPT !.isuitems = <<>>]
<1>1. d \in DecType BY DEF DecInv
<1>2. e = [isuitems |-> <<>>, last |-> d.last, frags |-> d.frags, out |-> d.out]
  BY <1>1, DecShape
<1> HIDE DEF e
<1>3. e.isuitems = <<>> /\ e.last = d.last /\ e.frags = d.frags /\ e.out = d.out
  BY <1>2
<1>4. e \in DecType
  <2>1. d.last \in LastType /\ d.frags \in Seq(BlockType) /\ d.out \in Seq(BlockType)
    BY <1>1 DEF DecType
  <2>2. <<>> \in Seq(ItemType) OBVIOUS
  <2> QED BY <1>2, <2>1, <2>2 DEF DecType
<1>5. ItemsInv(<<>>, h, n) BY DEF ItemsInv
<1>6. LastInv(d.last, <<>>, h) BY DEF DecInv, LastInv
<1>7. DecInv(e, h, n) BY <1>3, <1>4, <1>5, <1>6 DEF DecInv
<1> QED BY <1>7 DEF e

(* The invariant holds initially.                                          *)
LEMMA AeroInitInv == Init => AeroInv
<1> SUFFICES ASSUME Init PROVE AeroInv OBVIOUS
<1>1. plan \in Plans /\ useingOQPSK \in BOOLEAN BY DEF Init
<1>2. SUsPerFrame \in Nat /\ SUsPerFrame >= 1 BY DecoderAssumption
<1>3. block \in Frames /\ \A s \in Places : block[s] = Bad
  BY DEF Init, Frames, SUs, Places
<1>4. Late \in Nat /\ Late >= 1 BY DEF Late
<1>5. held \in Seq(Frames) /\ Len(held) = Late /\ \A i \in 1..Late : held[i] = block
  <2>1. held = [f \in 1..Late |-> block] BY DEF Init
  <2> QED BY <1>3, <1>4, <2>1
<1>6. onair \in 0..SUsPerFrame /\ sent = 0 /\ cntr = Idle /\ dec = EmptyDecoder /\ heard71 = {}
  BY <1>2 DEF Init, UwSlot
<1>7. \A i \in 1..Len(Append(held, block)), s \in Places : Append(held, block)[i][s] = Bad
  <2>1. \A i \in 1..Len(Append(held, block)) : Append(held, block)[i] = block
    BY <1>3, <1>5
  <2> QED BY <1>3, <2>1
<1>8. ~Real(Bad) BY DEF Real, Bad
<1>9. LineInv(Append(held, block), Upto, 0, sent)
  BY <1>7, <1>8 DEF LineInv
<1>10. DecInv(dec, heard71, 0) BY <1>1, <1>6, EmptyInv
<1>11. LineOK(0) BY <1>6, <1>9, <1>10 DEF LineOK
<1> QED BY <1>1, <1>3, <1>5, <1>6, <1>11 DEF AeroInv, AeroTypeOK

(* What is defined from the plan alone does not change with the state.     *)
LEMMA PlanKept ==
  ASSUME plan' = plan
  PROVE  /\ Msgs' = Msgs /\ Messages' = Messages /\ AesSet' = AesSet
         /\ \A m : RefOf(m)' = RefOf(m)
         /\ \A a, b : Between(a, b)' = Between(a, b)
<1>1. \A m : BlockIdOf(m)' = BlockIdOf(m) BY DEF BlockIdOf, Earlier
<1>2. Msgs' = Msgs /\ AesSet' = AesSet BY DEF Msgs, AesSet
<1>3. Messages' = Messages BY <1>1, <1>2 DEF Messages, UserData
<1>4. \A m : RefOf(m)' = RefOf(m) BY DEF RefOf, Earlier
<1>5. \A a, b : Between(a, b)' = Between(a, b) BY DEF Between
<1> QED BY <1>2, <1>3, <1>4, <1>5

(* The same for UnitOK.                                                    *)
LEMMA UnitKept ==
  ASSUME plan' = plan, NEW u, NEW h, NEW n
  PROVE  UnitOK(u, h, n)' <=> UnitOK(u, h, n)
BY PlanKept DEF UnitOK

(* The same for DecInv.                                                    *)
LEMMA DecKept ==
  ASSUME plan' = plan, NEW n, DecInv(dec', heard71', n)
  PROVE  DecInv(dec, heard71, n)'
<1>1. DecType' = DecType BY PlanKept DEF DecType, ItemType, BlockType, LastType
<1>2. HeardOK(heard71, n)' BY PlanKept DEF DecInv, HeardOK
<1>3. BlocksOK(dec.frags, heard71, n)' BY UnitKept DEF DecInv, BlocksOK
<1>4. BlocksOK(dec.out, heard71, n)' BY UnitKept DEF DecInv, BlocksOK
<1>5. LastInv(dec.last, dec.isuitems, heard71)' BY PlanKept DEF DecInv, LastInv
<1>6. ItemsInv(dec.isuitems, heard71, n)' BY PlanKept DEF DecInv, ItemsInv, ItemInv
<1> QED BY <1>1, <1>2, <1>3, <1>4, <1>5, <1>6 DEF DecInv

(* The same for Frames.                                                    *)
LEMMA FramesKept == ASSUME plan' = plan PROVE Frames' = Frames
<1>1. \A m : UserData(m)' = UserData(m)
  <2>1. \A m : BlockIdOf(m)' = BlockIdOf(m) BY DEF BlockIdOf, Earlier
  <2> QED BY <2>1 DEF UserData
<1>2. \A m, k : Su(m, k)' = Su(m, k) BY <1>1, PlanKept DEF Su
<1>3. SUs' = SUs BY <1>2, PlanKept DEF SUs
<1> QED BY <1>3 DEF Frames

(* One or two frames are in the delay line.                                *)
LEMMA LateIs == Late \in Nat /\ Late >= 1 /\ Late <= 2
BY DEF Late

(* A slot of the transmitter: at most one SU more is sent, the one that    *)
(* may be received.                                                        *)
LEMMA TransmitInv ==
  ASSUME AeroTypeOK, Transmit, NEW su, su = Bad \/ (onair # UwSlot /\ su = Sent(sent))
  PROVE  /\ plan' = plan /\ useingOQPSK' = useingOQPSK /\ onair' \in 0..SUsPerFrame
         /\ sent' \in Nat /\ sent <= sent' /\ su \in SUs
         /\ Real(su) => Index(su) = sent /\ sent' = sent + 1
<1>1. /\ plan \in Plans /\ sent \in Nat /\ SUsPerFrame \in Nat /\ Len(plan) \in Nat
  BY PlanType, DecoderAssumption DEF AeroTypeOK
<1>2. /\ plan' = plan /\ useingOQPSK' = useingOQPSK BY DEF Transmit
<1>3. onair' \in 0..SUsPerFrame BY <1>1 DEF Transmit, AeroTypeOK, TotalSlots
<1>4. sent' \in Nat /\ sent <= sent' BY <1>1 DEF Transmit
<1>5. Bad \in SUs /\ ~Real(Bad) BY DEF SUs, Real, Bad
<1>6. /\ Sent(sent) \in SUs
      /\ Real(Sent(sent)) => Index(Sent(sent)) = sent /\ sent < Len(plan) * (NSsu + 1)
  BY <1>1, SentSU
<1>7. sent < Len(plan) * (NSsu + 1) /\ onair # UwSlot => sent' = sent + 1
  <2>1. (Late + 1) * SUsPerFrame \in Nat BY <1>1, LateIs
  <2>2. Len(plan) * (NSsu + 1) \in Nat BY <1>1 DEF NSsu
  <2>3. sent < Len(plan) * (NSsu + 1) => sent # LastSU BY <1>1, <2>1, <2>2 DEF LastSU
  <2> QED BY <2>3 DEF Transmit
<1> QED BY <1>2, <1>3, <1>4, <1>5, <1>6, <1>7

(* A slot received, whole or damaged, keeps the invariant.                 *)
LEMMA SlotInv ==
  ASSUME AeroInv, Transmit, NEW ok \in BOOLEAN, Slot(ok)
  PROVE  AeroInv'
<1> DEFINE su == IF ok /\ Aligned /\ onair # UwSlot THEN Sent(sent) ELSE Bad
           gotsync == ok /\ onair = UwSlot /\ Searched
           done == cntr = SUsPerFrame - 1
           received == IF cntr < SUsPerFrame THEN [block EXCEPT ![cntr] = su] ELSE block
           decoded == IF done THEN DecodeFrame(dec, Head(held)) ELSE dec
           S == SUsPerFrame
<1>1. /\ block' = received
      /\ held' = IF done THEN Append(Tail(held), received) ELSE held
      /\ heard71' = IF done THEN heard71 \cup Heard71(Head(held)) ELSE heard71
      /\ dec' = IF gotsync /\ cntr + 1 # TotalSlots
                THEN [decoded EXCEPT !.isuitems = <<>>]
                ELSE decoded
      /\ cntr' = IF gotsync \/ cntr + 1 = TotalSlots THEN 0
                 ELSE IF cntr = Idle THEN Idle ELSE cntr + 1
  BY DEF Slot
<1>2. su = Bad \/ (onair # UwSlot /\ su = Sent(sent)) OBVIOUS
<1> HIDE DEF su, gotsync
<1>3. AeroTypeOK BY DEF AeroInv
<1>4. /\ plan \in Plans /\ sent \in Nat /\ S \in Nat /\ S >= 1 /\ S < Idle
      /\ cntr \in 0..S \cup {Idle} /\ held \in Seq(Frames) /\ Len(held) = Late
      /\ block \in Frames
  BY <1>3, DecoderAssumption DEF AeroTypeOK
<1>5. /\ plan' = plan /\ useingOQPSK' = useingOQPSK /\ onair' \in 0..S
      /\ sent' \in Nat /\ sent <= sent' /\ su \in SUs
      /\ Real(su) => Index(su) = sent /\ sent' = sent + 1
  BY <1>2, <1>3, TransmitInv
<1>6. PICK n \in Nat : LineOK(n) BY DEF AeroInv
<1>7. /\ DecInv(dec, heard71, n)
      /\ LineInv(Append(held, block), Upto, n, sent) /\ n <= sent
  BY <1>6 DEF LineOK
<1>8. Idle \in Nat BY DEF Idle
<1>9. cntr' \in 0..S \cup {Idle} BY <1>1, <1>4, <1>8 DEF TotalSlots
<1>10. Upto' = IF cntr' < S THEN cntr' ELSE 0 BY DEF Upto
<1> SUFFICES /\ held' \in Seq(Frames) /\ Len(held') = Len(held) /\ block' \in Frames
             /\ \E q \in Nat : /\ DecInv(decoded, heard71', q)
                               /\ LineInv(Append(held', block'), Upto', q, sent')
                               /\ q <= sent'
  <2>1. PICK q \in Nat : /\ DecInv(decoded, heard71', q)
                         /\ LineInv(Append(held', block'), Upto', q, sent')
                         /\ q <= sent'
    OBVIOUS
  <2>2. DecInv([decoded EXCEPT !.isuitems = <<>>], heard71', q) BY <2>1, ForgetItems
  <2> HIDE DEF decoded, done, received
  <2>3. DecInv(dec', heard71', q) BY <1>1, <2>1, <2>2
  <2>4. DecInv(dec, heard71, q)' BY <1>5, <2>3, DecKept
  <2>5. LineOK(q)' BY <2>1, <2>4 DEF LineOK
  <2>6. Frames' = Frames /\ Late' = Late BY <1>5, FramesKept DEF Late
  <2>7. held' \in Seq(Frames)' /\ Len(held)' = Late' /\ (block \in Frames)'
    BY <1>4, <2>6
  <2>8. AeroTypeOK' BY <1>3, <1>5, <1>9, <2>6, <2>7 DEF AeroTypeOK
  <2> QED BY <2>5, <2>8 DEF AeroInv
<1>11. CASE cntr < S
  <2>1. cntr \in Places /\ cntr \in Nat /\ Upto = cntr BY <1>4, <1>8, <1>11 DEF Places, Upto
  <2>2. received = [block EXCEPT ![cntr] = su] BY <1>11
  <2>3. received \in Frames /\ LineInv(Append(held, received), cntr + 1, n, sent')
    BY <1>4, <1>5, <1>7, <2>1, <2>2, LineReceive
  <2>4. CASE done
    <3>1. /\ held' = Append(Tail(held), received) /\ block' = received
          /\ heard71' = heard71 \cup Heard71(Head(held))
          /\ decoded = DecodeFrame(dec, Head(held))
      BY <1>1, <2>4
    <3>2. cntr + 1 = S /\ Upto' = 0
      BY <1>1, <1>4, <1>8, <1>10, <2>1, <2>4 DEF TotalSlots
    <3> HIDE DEF received, done, decoded
    <3>3. Len(held) >= 1 /\ n <= sent' BY <1>4, <1>5, <1>7, LateIs
    <3>4. held' \in Seq(Frames) /\ Len(held') = Len(held) BY <1>4, <2>3, <3>1, <3>3
    <3>5. LineInv(Append(held, received), SUsPerFrame, n, sent') BY <2>3, <3>2
    <3>6. PICK q \in Nat :
            /\ DecInv(DecodeFrame(dec, Head(held)), heard71 \cup Heard71(Head(held)), q)
            /\ LineInv(Append(Append(Tail(held), received), received), 0, q, sent')
            /\ q <= sent'
      BY <1>4, <1>5, <1>7, <2>3, <3>3, <3>5, LineShift
    <3> QED BY <2>3, <3>1, <3>2, <3>4, <3>6
  <2>5. CASE ~done
    <3>1. held' = held /\ block' = received /\ heard71' = heard71 /\ decoded = dec
      BY <1>1, <2>5
    <3>2. Upto' \in Nat /\ Upto' <= cntr + 1
      BY <1>1, <1>4, <1>8, <1>10, <2>1, <2>5 DEF TotalSlots
    <3> HIDE DEF received, done, decoded
    <3>3. Append(held, received) \in Seq(Frames) BY <1>4, <2>3
    <3>4. LineInv(Append(held, received), Upto', n, sent')
      <4>1. cntr + 1 \in Nat /\ sent' <= sent' BY <1>5, <2>1
      <4> QED BY <1>4, <1>5, <2>3, <3>2, <3>3, <4>1, LineLess
    <3> QED BY <1>4, <1>5, <1>7, <2>3, <3>1, <3>4
  <2> QED BY <2>4, <2>5
<1>12. CASE ~(cntr < S)
  <2>1. received = block /\ ~done /\ Upto = 0 BY <1>4, <1>8, <1>12 DEF Upto
  <2>2. held' = held /\ block' = block /\ heard71' = heard71 /\ decoded = dec
    BY <1>1, <2>1
  <2>3. Upto' = 0 BY <1>1, <1>4, <1>8, <1>10, <1>12 DEF TotalSlots
  <2> HIDE DEF received, done, decoded
  <2>4. Append(held, block) \in Seq(Frames) BY <1>4
  <2>5. LineInv(Append(held, block), 0, n, sent')
    <3>1. 0 \in Nat /\ 0 <= 0 /\ LineInv(Append(held, block), 0, n, sent) BY <1>7, <2>1
    <3> QED BY <1>4, <1>5, <2>4, <3>1, LineLess
  <2> QED BY <1>4, <1>5, <1>7, <2>2, <2>3, <2>5
<1> QED BY <1>11, <1>12

(* Every step keeps the invariant.                                         *)
LEMMA AeroStep == AeroInv /\ [Next]_vars => AeroInv'
<1> SUFFICES ASSUME AeroInv, [Next]_vars PROVE AeroInv' OBVIOUS
<1>1. AeroTypeOK BY DEF AeroInv
<1>2. PICK n \in Nat : LineOK(n) BY DEF AeroInv
<1>3. /\ DecInv(dec, heard71, n) /\ LineInv(Append(held, block), Upto, n, sent) /\ n <= sent
  BY <1>2 DEF LineOK
<1>4. /\ plan \in Plans /\ sent \in Nat /\ Append(held, block) \in Seq(Frames)
      /\ SUsPerFrame \in Nat /\ SUsPerFrame >= 1 /\ SUsPerFrame < Idle /\ Idle \in Nat
  BY <1>1, DecoderAssumption DEF AeroTypeOK, Idle
<1>5. Upto \in Nat BY <1>1, <1>4 DEF AeroTypeOK, Upto
<1>6. ASSUME plan' = plan, useingOQPSK' = useingOQPSK, onair' \in 0..SUsPerFrame,
             sent' \in Nat, sent <= sent', cntr' \in {cntr, Idle},
             UNCHANGED <<block, held, dec, heard71>>
      PROVE  AeroInv'
  <2>1. Upto' \in Nat /\ Upto' <= Upto BY <1>1, <1>4, <1>5, <1>6 DEF Upto, AeroTypeOK
  <2>2. LineInv(Append(held, block), Upto', n, sent')
    BY <1>3, <1>4, <1>5, <1>6, <2>1, LineLess
  <2>3. DecInv(dec', heard71', n) BY <1>3, <1>6
  <2>4. DecInv(dec, heard71, n)' BY <1>6, <2>3, DecKept
  <2>5. LineOK(n)' BY <1>3, <1>4, <1>6, <2>2, <2>4 DEF LineOK
  <2>6. Frames' = Frames /\ Late' = Late BY <1>6, FramesKept DEF Late
  <2>7. AeroTypeOK' BY <1>1, <1>6, <2>6 DEF AeroTypeOK
  <2> QED BY <2>5, <2>7 DEF AeroInv
<1>7. CASE Receive BY <1>7, SlotInv DEF Receive
<1>8. CASE ReceiveDamaged BY <1>8, SlotInv DEF ReceiveDamaged
<1>9. CASE Slip
  <2>1. Transmit /\ UNCHANGED <<cntr, block, held, dec, heard71>> BY <1>9 DEF Slip
  <2>2. /\ plan' = plan /\ useingOQPSK' = useingOQPSK /\ onair' \in 0..SUsPerFrame
        /\ sent' \in Nat /\ sent <= sent'
    BY <1>1, <2>1, TransmitInv
  <2> QED BY <1>6, <2>1, <2>2
<1>10. CASE LostSignal
  <2>1. cntr' = Idle /\ UNCHANGED <<plan, useingOQPSK, onair, sent, block, held, dec, heard71>>
    BY <1>10 DEF LostSignal
  <2> QED BY <1>1, <1>4, <1>6, <2>1 DEF AeroTypeOK
<1>11. CASE UNCHANGED vars BY <1>1, <1>4, <1>6, <1>11 DEF vars, AeroTypeOK
<1> QED BY <1>7, <1>8, <1>9, <1>10, <1>11 DEF Next

(* The invariant implies the property: what the callback got is made of    *)
(* good blocks.                                                            *)
LEMMA AeroInvMixing == AeroInv => MixingNeedsLosses
<1> SUFFICES ASSUME AeroInv PROVE MixingNeedsLosses OBVIOUS
<1>1. PICK n \in Nat : DecInv(dec, heard71, n) BY DEF AeroInv, LineOK
<1>2. dec.out \in Seq(BlockType) /\ BlocksOK(dec.out, heard71, n) BY <1>1 DEF DecInv, DecType
<1> SUFFICES ASSUME NEW i \in DOMAIN dec.out, NEW j \in DOMAIN dec.out[i].blocks,
                    NEW a \in Origin(dec.out[i].blocks[j]),
                    NEW b \in Origin(dec.out[i].blocks[j]), a < b
             PROVE  /\ b \notin heard71 \/ ~plan[dec.out[i].blocks[j][1].m].fits
                    /\ plan[a].aes = plan[b].aes =>
                         Cardinality({m \in (a + 1)..b : plan[m].aes = plan[a].aes} \ heard71)
                           >= NRefs - KeepIsu
  BY DEF MixingNeedsLosses
<1>3. i \in 1..Len(dec.out) /\ dec.out[i] \in BlockType BY <1>2
<1>4. dec.out[i].blocks \in Seq(Seq(Messages)) BY <1>3 DEF BlockType
<1> DEFINE u == dec.out[i].blocks[j]
<1>5. j \in 1..Len(dec.out[i].blocks) /\ u \in Seq(Messages) BY <1>4
<1>6. UnitOK(u, heard71, n) BY <1>2, <1>3, <1>5 DEF BlocksOK
<1> HIDE DEF u
<1>7. DOMAIN u = 1..Len(u) BY <1>5
<1>8. PICK k \in 1..Len(u), l \in 1..Len(u) : a = u[k].m /\ b = u[l].m
  BY <1>7 DEF Origin, u
<1>9. /\ b \notin heard71 \/ ~plan[u[1].m].fits
      /\ plan[a].aes = plan[b].aes => Cardinality(Between(a, b) \ heard71) >= NRefs - KeepIsu
  BY <1>6, <1>8 DEF UnitOK
<1> QED BY <1>9 DEF u, Between

(* For every plan, frame size, number of references and number of faults:  *)
(* SUs of two messages end up in one text only as MixingNeedsLosses says   *)
(* (ISUData::update, deleteoldisuitems).                                   *)
THEOREM MixingIsRare == Spec => []MixingNeedsLosses
<1>1. Spec => []AeroInv BY AeroInitInv, AeroStep, PTL DEF Spec
<1>2. QED BY <1>1, AeroInvMixing, PTL

-----------------------------------------------------------------------------
(* Texts, by the rank of their messages.                                   *)

(* A new greatest element has the last rank and leaves the others theirs.  *)
LEMMA RankGrows ==
  ASSUME NEW T, T \subseteq Nat, IsFiniteSet(T), NEW c \in Nat, \A b \in T : b < c
  PROVE  /\ Cardinality(T) \in Nat /\ Cardinality(T \cup {c}) = Cardinality(T) + 1
         /\ Rank(c, T \cup {c}) = Cardinality(T) + 1
         /\ \A b \in T : /\ Rank(b, T \cup {c}) = Rank(b, T)
                         /\ Rank(b, T) \in 1..Cardinality(T)
<1>1. c \notin T OBVIOUS
<1>2. Cardinality(T) \in Nat /\ Cardinality(T \cup {c}) = Cardinality(T) + 1
  BY <1>1, FS_AddElement, FS_CardinalityType
<1>3. {k \in T \cup {c} : k <= c} = T \cup {c}
  <2>1. \A k \in T \cup {c} : k <= c
    <3> SUFFICES ASSUME NEW k \in T \cup {c} PROVE k <= c OBVIOUS
    <3>1. CASE k \in T
      <4>1. k \in Nat /\ k < c BY <3>1
      <4> QED BY <4>1
    <3> QED BY <3>1
  <2> QED BY <2>1
<1>4. ASSUME NEW b \in T
      PROVE  Rank(b, T \cup {c}) = Rank(b, T) /\ Rank(b, T) \in 1..Cardinality(T)
  <2> DEFINE R == {k \in T : k <= b}
  <2>1. {k \in T \cup {c} : k <= b} = R
    <3>1. b \in Nat /\ b < c BY <1>4
    <3>2. ~(c <= b) BY <3>1
    <3> QED BY <3>2
  <2>2. R \subseteq T /\ b \in R BY <1>4
  <2> HIDE DEF R
  <2>3. IsFiniteSet(R) /\ Cardinality(R) <= Cardinality(T) /\ Cardinality(R) \in Nat
    BY <2>2, FS_Subset, FS_CardinalityType
  <2>4. Cardinality(R) # 0 BY <2>2, <2>3, FS_EmptySet
  <2>5. Rank(b, T \cup {c}) = Cardinality(R) BY <2>1 DEF Rank
  <2>6. Rank(b, T) = Cardinality(R) BY DEF Rank, R
  <2> QED BY <1>2, <2>3, <2>4, <2>5, <2>6
<1> QED BY <1>2, <1>3, <1>4 DEF Rank

(* blocks are the messages T, each whole, in the order they were sent.     *)
Spells(blocks, T) ==
  /\ Len(blocks) = Cardinality(T)
  /\ \A b \in T : blocks[Rank(b, T)] = Whole(b)

(* A single message.                                                       *)
LEMMA SpellsOne ==
  ASSUME NEW c \in Nat
  PROVE  Spells(<<Whole(c)>>, {c})
<1>1. Cardinality({c}) = 1 BY FS_Singleton
<1>2. {k \in {c} : k <= c} = {c} OBVIOUS
<1>3. Rank(c, {c}) = 1 BY <1>1, <1>2 DEF Rank
<1> DEFINE w == Whole(c)
<1> HIDE DEF w
<1>4. Len(<<w>>) = 1 /\ <<w>>[1] = w OBVIOUS
<1>5. Len(<<w>>) = Cardinality({c}) /\ \A b \in {c} : <<w>>[Rank(b, {c})] = Whole(b)
  BY <1>1, <1>3, <1>4 DEF w
<1> QED BY <1>5 DEF Spells, w

(* One later message more.                                                 *)
LEMMA SpellsMore ==
  ASSUME NEW X, NEW s \in Seq(X), NEW T, T \subseteq Nat, IsFiniteSet(T),
         NEW c \in Nat, \A b \in T : b < c, Spells(s, T), Whole(c) \in X
  PROVE  Spells(s \o <<Whole(c)>>, T \cup {c})
<1> DEFINE w == Whole(c)
           t == s \o <<w>>
<1> HIDE DEF w
<1>1. w \in X BY DEF w
<1>2. /\ Len(t) = Len(s) + 1 /\ t[Len(s) + 1] = w /\ \A k \in 1..Len(s) : t[k] = s[k]
  BY <1>1
<1>3. /\ Cardinality(T) \in Nat /\ Cardinality(T \cup {c}) = Cardinality(T) + 1
      /\ Rank(c, T \cup {c}) = Cardinality(T) + 1
      /\ \A b \in T : Rank(b, T \cup {c}) = Rank(b, T) /\ Rank(b, T) \in 1..Cardinality(T)
  BY RankGrows
<1> HIDE DEF t
<1>4. Len(t) = Cardinality(T \cup {c}) BY <1>2, <1>3 DEF Spells
<1>5. ASSUME NEW b \in T \cup {c} PROVE t[Rank(b, T \cup {c})] = Whole(b)
  <2>1. CASE b = c BY <1>2, <1>3, <2>1 DEF Spells, w
  <2>2. CASE b \in T BY <1>2, <1>3, <2>2 DEF Spells
  <2> QED BY <2>1, <2>2
<1> QED BY <1>4, <1>5 DEF Spells, t, w

(* Those of the first x messages that end a text.                          *)
Ends(x) == {m \in 1..x : EndsText(m)}

(* The callback got exactly the texts that end among the first x messages. *)
OutExact(o, x) ==
  /\ Len(o) = Cardinality(Ends(x))
  /\ \A m \in Ends(x) : Spells(o[Rank(m, Ends(x))].blocks, TextOf(m))

(* A message that ends no text adds none.                                  *)
LEMMA OutSkips ==
  ASSUME NEW o, NEW x \in Nat, OutExact(o, x), ~EndsText(x + 1)
  PROVE  OutExact(o, x + 1)
<1>1. Ends(x + 1) = Ends(x)
  <2>1. 1..(x + 1) = (1..x) \cup {x + 1} OBVIOUS
  <2> QED BY <2>1 DEF Ends
<1> QED BY <1>1 DEF OutExact

(* A message that ends a text adds it.                                     *)
LEMMA OutTakes ==
  ASSUME NEW X, NEW o \in Seq(X), NEW x \in Nat, OutExact(o, x), EndsText(x + 1),
         NEW b \in X, Spells(b.blocks, TextOf(x + 1))
  PROVE  OutExact(Append(o, b), x + 1)
<1> DEFINE E == Ends(x)
           p == Append(o, b)
           c == x + 1
<1>1. Ends(c) = E \cup {c}
  <2>1. 1..(x + 1) = (1..x) \cup {x + 1} OBVIOUS
  <2> QED BY <2>1 DEF Ends
<1>2. E \subseteq 1..x BY DEF Ends
<1>3. IsFiniteSet(E)
  <2>1. 1 \in Int /\ x \in Int OBVIOUS
  <2> QED BY <1>2, <2>1, FS_Interval, FS_Subset
<1> HIDE DEF E
<1>4. E \subseteq Nat /\ c \in Nat /\ \A m \in E : m < c BY <1>2
<1>5. /\ Cardinality(E) \in Nat /\ Cardinality(E \cup {c}) = Cardinality(E) + 1
      /\ Rank(c, E \cup {c}) = Cardinality(E) + 1
      /\ \A m \in E : Rank(m, E \cup {c}) = Rank(m, E) /\ Rank(m, E) \in 1..Cardinality(E)
  BY <1>3, <1>4, RankGrows
<1>6. /\ Len(p) = Len(o) + 1 /\ p[Len(o) + 1] = b /\ \A k \in 1..Len(o) : p[k] = o[k]
  OBVIOUS
<1> HIDE DEF p, c
<1>7. Len(o) = Cardinality(E) /\ \A m \in E : Spells(o[Rank(m, E)].blocks, TextOf(m))
  BY DEF OutExact, E
<1>8. Len(p) = Cardinality(Ends(c)) BY <1>1, <1>5, <1>6, <1>7
<1>9. ASSUME NEW m \in Ends(c) PROVE Spells(p[Rank(m, Ends(c))].blocks, TextOf(m))
  <2>1. CASE m = c BY <1>1, <1>5, <1>6, <1>7, <2>1 DEF c
  <2>2. CASE m \in E BY <1>1, <1>5, <1>6, <1>7, <2>2
  <2> QED BY <1>1, <2>1, <2>2
<1> QED BY <1>8, <1>9 DEF OutExact, p, c

-----------------------------------------------------------------------------
(* Which block continues which.                                            *)

(* The remainder of the successor.                                         *)
LEMMA NextRemainder ==
  ASSUME NEW c \in Nat, NEW N \in Nat \ {0}
  PROVE  ((c % N) + 1) % N = (c + 1) % N
<1> DEFINE q == c \div N
           r == c % N
<1>1. q \in Nat /\ r \in 0..(N - 1) /\ c = N * q + r OBVIOUS
<1>2. \A k \in Nat, t \in 0..(N - 1) : (N * k + t) % N = t OBVIOUS
<1> HIDE DEF q, r
<1>3. CASE r + 1 < N
  <2>1. r + 1 \in 0..(N - 1) /\ 0 \in Nat BY <1>1, <1>3
  <2>2. (N * q + (r + 1)) % N = r + 1 /\ (N * 0 + (r + 1)) % N = r + 1 BY <1>1, <1>2, <2>1
  <2>3. c + 1 = N * q + (r + 1) /\ r + 1 = N * 0 + (r + 1) BY <1>1
  <2> QED BY <2>2, <2>3 DEF r
<1>4. CASE ~(r + 1 < N)
  <2>1. r + 1 = N /\ 0 \in 0..(N - 1) /\ q + 1 \in Nat BY <1>1, <1>4
  <2>2. (N * (q + 1) + 0) % N = 0 /\ (N * 1 + 0) % N = 0 BY <1>2, <2>1
  <2>3. c + 1 = N * (q + 1) + 0 /\ r + 1 = N * 1 + 0 BY <1>1, <2>1
  <2> QED BY <2>2, <2>3 DEF r
<1> QED BY <1>3, <1>4

(* Of two ACARS messages of an aircraft with none between them, the second *)
(* has the next block identifier.                                          *)
LEMMA NextBlockId ==
  ASSUME NEW m \in Nat, NEW l \in 1..(m - 1), plan[l].kind = "acars", plan[l].aes = plan[m].aes,
         \A n \in (l + 1)..(m - 1) : plan[n].kind = "acars" => plan[n].aes # plan[l].aes
  PROVE  (BlockIdOf(l) + 1) % NBlockIds = BlockIdOf(m)
<1> DEFINE A == Earlier(l, LAMBDA x : x.kind = "acars")
           B == Earlier(m, LAMBDA x : x.kind = "acars")
<1>1. B = A \cup {l} /\ l \notin A
  <2>1. /\ \A n : n \in A <=> n \in 1..(l - 1) /\ plan[n].aes = plan[l].aes /\ plan[n].kind = "acars"
        /\ \A n : n \in B <=> n \in 1..(m - 1) /\ plan[n].aes = plan[m].aes /\ plan[n].kind = "acars"
    BY DEF Earlier
  <2> HIDE DEF A, B
  <2>2. \A n \in 1..(m - 1) : n \in 1..(l - 1) \/ n = l \/ n \in (l + 1)..(m - 1) OBVIOUS
  <2>3. \A n \in 1..(l - 1) : n \in 1..(m - 1) OBVIOUS
  <2>4. ASSUME NEW n PROVE n \in B <=> n \in A \cup {l} BY <2>1, <2>2, <2>3
  <2>5. l \notin A BY <2>1
  <2> QED BY <2>4, <2>5
<1>2. IsFiniteSet(A) /\ Cardinality(A) \in Nat
  <2>1. A \subseteq 1..(l - 1) BY DEF Earlier
  <2>2. 1 \in Int /\ l - 1 \in Int OBVIOUS
  <2>3. IsFiniteSet(1..(l - 1)) BY <2>2, FS_Interval, Zenon
  <2> QED BY <2>1, <2>3, FS_Subset, FS_CardinalityType
<1> HIDE DEF A, B
<1>3. Cardinality(B) = Cardinality(A) + 1 BY <1>1, <1>2, FS_AddElement
<1>4. BlockIdOf(l) = Cardinality(A) % NBlockIds BY DEF BlockIdOf, A
<1>5. BlockIdOf(m) = (Cardinality(A) + 1) % NBlockIds BY <1>3 DEF BlockIdOf, B
<1> QED BY <1>2, <1>4, <1>5, NextRemainder, ReassemblyAssumption

(* l is the last of the first x messages that is a block of its aircraft.  *)
LastBlock(l, x) ==
  /\ l \in 1..x /\ IsBlock(l)
  /\ \A n \in (l + 1)..x : IsBlock(n) => plan[n].aes # plan[l].aes

(* A text is made of messages up to the one that ends it.                  *)
LEMMA TextBound ==
  ASSUME NEW l \in Nat, IsBlock(l)
  PROVE  TextOf(l) \subseteq 1..l /\ IsFiniteSet(TextOf(l))
<1>1. TextOf(l) \subseteq 1..l BY DEF TextOf, BlocksOf, IsBlock
<1>2. 1 \in Int /\ l \in Int OBVIOUS
<1>3. IsFiniteSet(1..l) BY <1>2, FS_Interval, Zenon
<1> QED BY <1>1, <1>3, FS_Subset

(* If more was to come after the aircraft's last block, m continues its    *)
(* text.                                                                   *)
LEMMA TextGrows ==
  ASSUME NEW m \in Nat, IsBlock(m), NEW l, LastBlock(l, m - 1), plan[l].aes = plan[m].aes,
         plan[l].more
  PROVE  TextOf(m) = TextOf(l) \cup {m}
<1>1. l \in Nat /\ l < m /\ l \in 1..(m - 1) BY DEF LastBlock
<1>2. /\ \A n : n \in BlocksOf(l) <=> n \in 1..l /\ plan[n].aes = plan[l].aes /\ IsBlock(n)
      /\ \A n : n \in BlocksOf(m) <=> n \in 1..m /\ plan[n].aes = plan[l].aes /\ IsBlock(n)
  BY DEF BlocksOf, IsBlock
<1>3. \A n : n \in BlocksOf(m) <=> n \in BlocksOf(l) \/ n = m
  <2>1. \A n \in 1..m : n \in 1..l \/ n = m \/ n \in (l + 1)..(m - 1) BY <1>1
  <2>2. \A n \in 1..l : n \in 1..m BY <1>1
  <2>3. m \in 1..m BY <1>1
  <2> QED BY <1>2, <2>1, <2>2, <2>3 DEF LastBlock
<1>4. /\ \A b : b \in TextOf(l) <=>
           b \in BlocksOf(l) /\ \A n \in BlocksOf(l) : b <= n /\ n < l => plan[n].more
      /\ \A b : b \in TextOf(m) <=>
           b \in BlocksOf(m) /\ \A n \in BlocksOf(m) : b <= n /\ n < m => plan[n].more
  BY DEF TextOf, IsBlock, LastBlock
<1>5. \A n \in BlocksOf(l) : n \in Nat /\ n <= l BY <1>1, <1>2
<1>6. m \in TextOf(m) BY <1>3, <1>4, <1>5, <1>1
<1>7. ASSUME NEW b \in TextOf(l) PROVE b \in TextOf(m)
  <2>1. b \in BlocksOf(m) BY <1>3, <1>4
  <2>2. ASSUME NEW n \in BlocksOf(m), b <= n, n < m PROVE plan[n].more
    <3>1. n \in BlocksOf(l) BY <1>1, <1>3, <2>2
    <3>2. CASE n = l BY <3>2
    <3>3. CASE n # l
      <4>1. n < l BY <1>1, <1>5, <3>1, <3>3
      <4> QED BY <1>4, <2>2, <3>1, <4>1
    <3> QED BY <3>2, <3>3
  <2> QED BY <1>4, <2>1, <2>2
<1>8. ASSUME NEW b \in TextOf(m), b # m PROVE b \in TextOf(l)
  <2>1. b \in BlocksOf(l) BY <1>3, <1>4, <1>8
  <2>2. ASSUME NEW n \in BlocksOf(l), b <= n, n < l PROVE plan[n].more
    <3>1. n \in BlocksOf(m) /\ n < m BY <1>1, <1>3, <1>5, <2>2
    <3> QED BY <1>4, <2>2, <3>1
  <2> QED BY <1>4, <2>1, <2>2
<1> QED BY <1>6, <1>7, <1>8

(* An aircraft with a block before m has a last one.                       *)
LEMMA PreviousBlock ==
  ASSUME NEW m \in Nat, IsBlock(m), NEW b \in 1..(m - 1), IsBlock(b), plan[b].aes = plan[m].aes
  PROVE  \E l \in b..(m - 1) : LastBlock(l, m - 1) /\ plan[l].aes = plan[m].aes
<1> DEFINE Q(l) == IsBlock(l) /\ plan[l].aes = plan[m].aes
           T == {k \in Nat : k < m /\ m - k \in b..(m - 1) /\ Q(m - k)}
<1>1. m - b \in T
  <2>1. m - b \in Nat /\ m - b < m /\ m - (m - b) = b /\ b \in b..(m - 1) OBVIOUS
  <2>2. Q(b) OBVIOUS
  <2> HIDE DEF Q
  <2> QED BY <2>1, <2>2
<1> HIDE DEF Q
<1>2. T \subseteq Nat /\ T # {} BY <1>1
<1>3. PICK k \in T : \A y \in T : k <= y
  <2> HIDE DEF T
  <2> QED BY <1>2, LeastExists
<1> DEFINE l == m - k
<1>4. l \in b..(m - 1) /\ l \in 1..(m - 1) /\ Q(l) BY <1>3
<1>5. ASSUME NEW n \in (l + 1)..(m - 1), Q(n) PROVE FALSE
  <2>1. m - n \in Nat /\ m - n < m /\ m - (m - n) = n /\ n \in b..(m - 1) /\ m - n < k
    BY <1>3, <1>4
  <2>2. m - n \in T BY <1>5, <2>1
  <2> QED BY <1>3, <2>1, <2>2
<1> HIDE DEF l
<1>6. LastBlock(l, m - 1) BY <1>4, <1>5 DEF LastBlock, Q
<1> QED BY <1>4, <1>6 DEF Q

(* Otherwise m starts a text.                                              *)
LEMMA TextStarts ==
  ASSUME NEW m \in Nat, m >= 1, IsBlock(m),
         \A l : LastBlock(l, m - 1) /\ plan[l].aes = plan[m].aes => ~plan[l].more
  PROVE  TextOf(m) = {m}
<1>1. \A n : n \in BlocksOf(m) <=> n \in 1..m /\ plan[n].aes = plan[m].aes /\ IsBlock(n)
  BY DEF BlocksOf, IsBlock
<1>2. \A b : b \in TextOf(m) <=>
         b \in BlocksOf(m) /\ \A n \in BlocksOf(m) : b <= n /\ n < m => plan[n].more
  BY DEF TextOf, IsBlock
<1>3. m \in TextOf(m)
  <2>1. m \in BlocksOf(m) BY <1>1
  <2>2. \A n \in BlocksOf(m) : ~(m <= n /\ n < m) BY <1>1
  <2> QED BY <1>2, <2>1, <2>2
<1>4. ASSUME NEW b \in TextOf(m), b # m PROVE FALSE
  <2>1. b \in 1..(m - 1) /\ IsBlock(b) /\ plan[b].aes = plan[m].aes BY <1>1, <1>2, <1>4
  <2>2. PICK l \in b..(m - 1) : LastBlock(l, m - 1) /\ plan[l].aes = plan[m].aes
    BY <2>1, PreviousBlock
  <2>3. l \in BlocksOf(m) /\ b <= l /\ l < m BY <1>1, <2>1, <2>2 DEF LastBlock
  <2>4. plan[l].more BY <1>2, <2>3
  <2> QED BY <2>2, <2>4
<1> QED BY <1>3, <1>4

-----------------------------------------------------------------------------
(* The fragments of the defragmenter.                                      *)

(* The blocks of all aircraft after l, up to x: the age of a fragment that *)
(* ends with l.                                                            *)
Younger(l, x) == Cardinality({n \in (l + 1)..x : IsBlock(n)})

(* It grows by one with every block.                                       *)
LEMMA YoungerIs ==
  ASSUME NEW l \in Nat, NEW x \in Nat, l <= x
  PROVE  /\ Younger(l, x) \in Nat /\ Younger(x, x) = 0
         /\ IsBlock(x + 1) => Younger(l, x + 1) = Younger(l, x) + 1
         /\ ~IsBlock(x + 1) => Younger(l, x + 1) = Younger(l, x)
<1> DEFINE Y == {n \in (l + 1)..x : IsBlock(n)}
           Z == {n \in (l + 1)..(x + 1) : IsBlock(n)}
<1>1. IsFiniteSet(Y)
  <2>1. l + 1 \in Int /\ x \in Int OBVIOUS
  <2>2. IsFiniteSet((l + 1)..x) BY <2>1, FS_Interval, Zenon
  <2> QED BY <2>2, FS_Subset
<1>2. (l + 1)..(x + 1) = ((l + 1)..x) \cup {x + 1} /\ x + 1 \notin (l + 1)..x OBVIOUS
<1>3. IsBlock(x + 1) => Z = Y \cup {x + 1} /\ x + 1 \notin Y BY <1>2
<1>4. ~IsBlock(x + 1) => Z = Y BY <1>2
<1>5. {n \in (x + 1)..x : IsBlock(n)} = {} OBVIOUS
<1>6. Cardinality(Y) \in Nat BY <1>1, FS_CardinalityType
<1>7. IsBlock(x + 1) => Cardinality(Z) = Cardinality(Y) + 1
  <2> HIDE DEF Y, Z
  <2> QED BY <1>1, <1>3, FS_AddElement
<1>8. Cardinality({n \in (x + 1)..x : IsBlock(n)}) = 0 BY <1>5, FS_EmptySet
<1>9. Younger(l, x) = Cardinality(Y) /\ Younger(l, x + 1) = Cardinality(Z) BY DEF Younger
<1> HIDE DEF Y, Z
<1> QED BY <1>4, <1>6, <1>7, <1>8, <1>9 DEF Younger

(* Fragment f is the text, so far, that message l ends among the first x:  *)
(* with its aircraft, its block identifier, its age and all its blocks.    *)
IsFrag(f, l, x) ==
  /\ LastBlock(l, x) /\ plan[l].more
  /\ f.aes = plan[l].aes /\ f.more /\ f.bi = BlockIdOf(l) /\ f.count = Younger(l, x)
  /\ Spells(f.blocks, TextOf(l))

(* The fragments after x messages: each is such a text, there is one for   *)
(* an aircraft at most, and every text that is not too old has one.        *)
FragsExact(s, x) ==
  /\ \A i \in 1..Len(s) : \E l : IsFrag(s[i], l, x)
  /\ \A i, j \in 1..Len(s) : s[i].aes = s[j].aes => i = j
  /\ \A l : LastBlock(l, x) /\ plan[l].more /\ Younger(l, x) <= KeepFrag
              => \E i \in 1..Len(s) : IsFrag(s[i], l, x)

(* The same, but for aircraft a.                                           *)
FragsBut(s, x, a) ==
  /\ \A i \in 1..Len(s) : s[i].aes # a => \E l : IsFrag(s[i], l, x)
  /\ \A i, j \in 1..Len(s) : s[i].aes = s[j].aes => i = j
  /\ \A l : LastBlock(l, x) /\ plan[l].more /\ Younger(l, x) <= KeepFrag /\ plan[l].aes # a
              => \E i \in 1..Len(s) : IsFrag(s[i], l, x)

(* A message that is no block changes none.                                *)
LEMMA FragsSkip ==
  ASSUME NEW s, NEW x \in Nat, FragsExact(s, x), ~IsBlock(x + 1)
  PROVE  FragsExact(s, x + 1)
<1>1. \A l : LastBlock(l, x + 1) <=> LastBlock(l, x)
  <2> SUFFICES ASSUME NEW l PROVE LastBlock(l, x + 1) <=> LastBlock(l, x) OBVIOUS
  <2>1. ASSUME LastBlock(l, x + 1) PROVE LastBlock(l, x)
    <3>1. l # x + 1 /\ l \in 1..(x + 1) BY <2>1 DEF LastBlock
    <3>2. l \in 1..x /\ \A n \in (l + 1)..x : n \in (l + 1)..(x + 1) BY <3>1
    <3> QED BY <2>1, <3>2 DEF LastBlock
  <2>2. ASSUME LastBlock(l, x) PROVE LastBlock(l, x + 1)
    <3>1. l \in 1..x BY <2>2 DEF LastBlock
    <3>2. l \in 1..(x + 1) /\ \A n \in (l + 1)..(x + 1) : n \in (l + 1)..x \/ n = x + 1 BY <3>1
    <3> QED BY <2>2, <3>2 DEF LastBlock
  <2> QED BY <2>1, <2>2
<1>2. \A l : LastBlock(l, x) => Younger(l, x + 1) = Younger(l, x)
  <2> SUFFICES ASSUME NEW l, LastBlock(l, x) PROVE Younger(l, x + 1) = Younger(l, x) OBVIOUS
  <2>1. l \in Nat /\ l <= x BY DEF LastBlock
  <2> QED BY <2>1, YoungerIs
<1>3. \A f, l : IsFrag(f, l, x) <=> IsFrag(f, l, x + 1)
  BY <1>1, <1>2 DEF IsFrag
<1> QED BY <1>1, <1>2, <1>3 DEF FragsExact

(* A block is its aircraft's last one, and leaves the others theirs.       *)
LEMMA LastBlockSteps ==
  ASSUME NEW x \in Nat, IsBlock(x + 1), NEW l
  PROVE  /\ LastBlock(l, x) /\ plan[l].aes # plan[x + 1].aes => LastBlock(l, x + 1)
         /\ LastBlock(l, x + 1) /\ plan[l].aes # plan[x + 1].aes => LastBlock(l, x)
         /\ LastBlock(x + 1, x + 1)
<1>1. ASSUME LastBlock(l, x), plan[l].aes # plan[x + 1].aes PROVE LastBlock(l, x + 1)
  <2>1. l \in 1..x BY <1>1 DEF LastBlock
  <2>2. l \in 1..(x + 1) /\ \A n \in (l + 1)..(x + 1) : n \in (l + 1)..x \/ n = x + 1 BY <2>1
  <2> QED BY <1>1, <2>2 DEF LastBlock
<1>2. ASSUME LastBlock(l, x + 1), plan[l].aes # plan[x + 1].aes PROVE LastBlock(l, x)
  <2>1. l # x + 1 /\ l \in 1..(x + 1) BY <1>2 DEF LastBlock
  <2>2. l \in 1..x /\ \A n \in (l + 1)..x : n \in (l + 1)..(x + 1) BY <2>1
  <2> QED BY <1>2, <2>2 DEF LastBlock
<1>3. LastBlock(x + 1, x + 1)
  <2>1. x + 1 \in 1..(x + 1) /\ ((x + 1) + 1)..(x + 1) = {} OBVIOUS
  <2> QED BY <2>1 DEF LastBlock
<1> QED BY <1>1, <1>2, <1>3

(* Fragment f is the one that block m continues.                           *)
Continues(f, l, m) ==
  /\ LastBlock(l, m - 1) /\ plan[l].more /\ plan[l].aes = plan[m].aes
  /\ f.more /\ f.bi = BlockIdOf(l) /\ Spells(f.blocks, TextOf(l))

(* The fragments after the flush that block x + 1 begins with: those of    *)
(* other aircraft are one block older, and its own one is there if it is   *)
(* not too old.                                                            *)
LEMMA AgedFrags ==
  ASSUME plan \in Plans, NEW s \in Seq(BlockType), NEW x \in Nat, FragsExact(s, x),
         IsBlock(x + 1), NEW r, r = Aged(s, KeepFrag)
  PROVE  /\ r \in Seq(BlockType)
         /\ FragsBut(r, x + 1, plan[x + 1].aes)
         /\ \A i \in 1..Len(r) : r[i].aes = plan[x + 1].aes => \E l : Continues(r[i], l, x + 1)
         /\ \A l : /\ LastBlock(l, x) /\ plan[l].more /\ plan[l].aes = plan[x + 1].aes
                   /\ Younger(l, x + 1) <= KeepFrag
                   => \E i \in 1..Len(r) : r[i].aes = plan[x + 1].aes
<1> DEFINE a == plan[x + 1].aes
           m == x + 1
<1>1. r \in Seq(BlockType) /\ \E src : AgedFrom(s, KeepFrag, Len(s), r, src)
  BY OlderBlock, AgedKeeps, ReassemblyAssumption
<1>2. PICK src : AgedFrom(s, KeepFrag, Len(s), r, src) BY <1>1
<1>3. \A i \in 1..Len(s) : s[i] \in BlockType OBVIOUS
<1>4. ASSUME NEW i \in 1..Len(r)
      PROVE  /\ src[i] \in 1..Len(s) /\ s[src[i]] \in BlockType
             /\ r[i].aes = s[src[i]].aes /\ r[i].bi = s[src[i]].bi /\ r[i].more = s[src[i]].more
             /\ r[i].blocks = s[src[i]].blocks /\ r[i].count = s[src[i]].count + 1
  <2> DEFINE y == s[src[i]]
  <2>1. src[i] \in 1..Len(s) /\ r[i] = OneOlder(y) /\ y \in BlockType
    BY <1>2, <1>3 DEF AgedFrom
  <2> HIDE DEF y
  <2>2. OneOlder(y) = [aes |-> y.aes, bi |-> y.bi, more |-> y.more, isu |-> y.isu,
                       blocks |-> y.blocks, count |-> y.count + 1]
    BY <2>1, OlderBlock
  <2>3. /\ r[i].aes = y.aes /\ r[i].bi = y.bi /\ r[i].more = y.more
        /\ r[i].blocks = y.blocks /\ r[i].count = y.count + 1
    BY <2>1, <2>2
  <2> QED BY <2>1, <2>3 DEF y
<1>5. \A i, j \in 1..Len(r) : r[i].aes = r[j].aes => i = j
  <2> SUFFICES ASSUME NEW i \in 1..Len(r), NEW j \in 1..Len(r), r[i].aes = r[j].aes PROVE i = j
    OBVIOUS
  <2>4. /\ src[i] \in 1..Len(s) /\ src[j] \in 1..Len(s)
        /\ s[src[i]].aes = s[src[j]].aes BY <1>4
  <2>5. \A p, q \in 1..Len(s) : s[p].aes = s[q].aes => p = q BY DEF FragsExact
  <2>1. src[i] = src[j] BY <2>4, <2>5
  <2>2. src[i] \in Nat /\ src[j] \in Nat BY <1>4
  <2>3. ~(src[i] < src[j]) /\ ~(src[j] < src[i]) BY <2>1, <2>2
  <2> QED BY <1>2, <2>3 DEF AgedFrom
<1>6. ASSUME NEW l, LastBlock(l, x)
      PROVE  Younger(l, x) \in Nat /\ Younger(l, m) = Younger(l, x) + 1
  <2>1. l \in Nat /\ l <= x BY <1>6 DEF LastBlock
  <2> QED BY <2>1, YoungerIs
<1>7. ASSUME NEW i \in 1..Len(r), NEW l, IsFrag(s[src[i]], l, x), plan[l].aes # a
      PROVE  IsFrag(r[i], l, m)
  <2>1. LastBlock(l, m) BY <1>7, LastBlockSteps DEF IsFrag
  <2>2. r[i].count = Younger(l, m) BY <1>4, <1>6, <1>7 DEF IsFrag
  <2> QED BY <1>4, <1>7, <2>1, <2>2 DEF IsFrag
<1>8. \A i \in 1..Len(r) : r[i].aes # a => \E l : IsFrag(r[i], l, m)
  <2> SUFFICES ASSUME NEW i \in 1..Len(r), r[i].aes # a PROVE \E l : IsFrag(r[i], l, m) OBVIOUS
  <2>1. PICK l : IsFrag(s[src[i]], l, x) BY <1>4 DEF FragsExact
  <2>2. plan[l].aes # a BY <1>4, <2>1 DEF IsFrag
  <2> QED BY <1>7, <2>1, <2>2
<1>9. \A i \in 1..Len(r) : r[i].aes = a => \E l : Continues(r[i], l, m)
  <2> SUFFICES ASSUME NEW i \in 1..Len(r), r[i].aes = a PROVE \E l : Continues(r[i], l, m)
    OBVIOUS
  <2>1. PICK l : IsFrag(s[src[i]], l, x) BY <1>4 DEF FragsExact
  <2>2. m - 1 = x OBVIOUS
  <2>3. Continues(r[i], l, m) BY <1>4, <2>1, <2>2 DEF IsFrag, Continues
  <2> QED BY <2>3
<1>10. ASSUME NEW l, LastBlock(l, x), plan[l].more, Younger(l, m) <= KeepFrag
       PROVE  \E i \in 1..Len(r) : IsFrag(s[src[i]], l, x) /\ r[i].aes = plan[l].aes
  <2>1. Younger(l, x) <= KeepFrag /\ Younger(l, x) < KeepFrag
    BY <1>6, <1>10, ReassemblyAssumption
  <2>2. PICK j \in 1..Len(s) : IsFrag(s[j], l, x) BY <1>10, <2>1 DEF FragsExact
  <2>3. s[j].count < KeepFrag BY <2>1, <2>2 DEF IsFrag
  <2>4. PICK i \in 1..Len(r) : src[i] = j BY <1>2, <2>3 DEF AgedFrom
  <2> QED BY <1>4, <2>2, <2>4 DEF IsFrag
<1>11. ASSUME NEW l, LastBlock(l, m), plan[l].more, Younger(l, m) <= KeepFrag, plan[l].aes # a
       PROVE  \E i \in 1..Len(r) : IsFrag(r[i], l, m)
  <2>1. LastBlock(l, x) BY <1>11, LastBlockSteps
  <2>2. PICK i \in 1..Len(r) : IsFrag(s[src[i]], l, x) BY <1>10, <1>11, <2>1
  <2> QED BY <1>7, <1>11, <2>2
<1>12. FragsBut(r, m, a) BY <1>5, <1>8, <1>11 DEF FragsBut
<1>13. \A l : /\ LastBlock(l, x) /\ plan[l].more /\ plan[l].aes = a /\ Younger(l, m) <= KeepFrag
              => \E i \in 1..Len(r) : r[i].aes = a
  BY <1>10
<1> QED BY <1>1, <1>9, <1>12, <1>13

(* A block is the last one of its aircraft.                                *)
LEMMA OwnLast ==
  ASSUME NEW m \in Nat, m >= 1, IsBlock(m), NEW l, LastBlock(l, m), plan[l].aes = plan[m].aes
  PROVE  l = m
<1>1. l \in 1..m BY DEF LastBlock
<1>2. l # m => m \in (l + 1)..m BY <1>1
<1> QED BY <1>2 DEF LastBlock

(* t is r with the fragment of block m, if more is to come, in place of    *)
(* that of its aircraft a.                                                 *)
Replaces(t, r, m, a) ==
  /\ \A i \in 1..Len(t) : \/ IsFrag(t[i], m, m)
                           \/ \E j \in 1..Len(r) : t[i] = r[j] /\ r[j].aes # a
  /\ \A i, j \in 1..Len(t) : t[i].aes = t[j].aes => i = j
  /\ \A j \in 1..Len(r) : r[j].aes # a => \E i \in 1..Len(t) : t[i] = r[j]
  /\ plan[m].more => \E i \in 1..Len(t) : IsFrag(t[i], m, m)

(* Then t is what the fragments should be.                                 *)
LEMMA FragsFrom ==
  ASSUME NEW r, NEW m \in Nat, m >= 1, IsBlock(m), NEW a, a = plan[m].aes,
         FragsBut(r, m, a), NEW t, Replaces(t, r, m, a)
  PROVE  FragsExact(t, m)
<1>1. \A i \in 1..Len(t) : \E l : IsFrag(t[i], l, m)
  <2> SUFFICES ASSUME NEW i \in 1..Len(t) PROVE \E l : IsFrag(t[i], l, m) OBVIOUS
  <2>1. CASE IsFrag(t[i], m, m) BY <2>1
  <2>2. CASE \E j \in 1..Len(r) : t[i] = r[j] /\ r[j].aes # a BY <2>2 DEF FragsBut
  <2> QED BY <2>1, <2>2 DEF Replaces
<1>2. ASSUME NEW l, LastBlock(l, m), plan[l].more, Younger(l, m) <= KeepFrag
      PROVE  \E i \in 1..Len(t) : IsFrag(t[i], l, m)
  <2>1. CASE plan[l].aes = a
    <3>1. l = m BY <1>2, <2>1, OwnLast
    <3> QED BY <1>2, <3>1 DEF Replaces
  <2>2. CASE plan[l].aes # a
    <3>1. PICK j \in 1..Len(r) : IsFrag(r[j], l, m) BY <1>2, <2>2 DEF FragsBut
    <3>2. r[j].aes # a BY <2>2, <3>1 DEF IsFrag
    <3>3. PICK i \in 1..Len(t) : t[i] = r[j] BY <3>2 DEF Replaces
    <3> QED BY <3>1, <3>3
  <2> QED BY <2>1, <2>2
<1> QED BY <1>1, <1>2 DEF FragsExact, Replaces

(* The user data of a message received whole.                              *)
LEMMA WholeType ==
  ASSUME plan \in Plans, NEW m \in Msgs
  PROVE  Whole(m) \in Seq(Messages) /\ Len(Whole(m)) = 3 /\ \A k \in 1..3 : Whole(m)[k] = UserData(m)
<1> DEFINE u == UserData(m)
<1>1. u \in Messages BY UserDataOf
<1> HIDE DEF u
<1>2. [k \in 1..3 |-> u] \in Seq(Messages) /\ Len([k \in 1..3 |-> u]) = 3
  BY <1>1
<1>3. Whole(m) = [k \in 1..3 |-> u] BY DEF Whole, NSsu, u
<1> QED BY <1>2, <1>3 DEF u

(* A fragment that block m continues, joined with it, is m's text.         *)
LEMMA BlockJoins ==
  ASSUME plan \in Plans, NEW m \in Msgs, IsBlock(m), NEW f \in BlockType, NEW l,
         Continues(f, l, m)
  PROVE  Spells(f.blocks \o <<Whole(m)>>, TextOf(m))
<1>1. Len(plan) \in Nat BY PlanType
<1>2. m \in Nat /\ l \in 1..(m - 1) /\ IsBlock(l) BY <1>1 DEF Msgs, Continues, LastBlock
<1>3. TextOf(m) = TextOf(l) \cup {m} BY <1>2, TextGrows DEF Continues
<1>4. TextOf(l) \subseteq 1..l /\ IsFiniteSet(TextOf(l))
  <2>1. l \in Nat BY <1>2
  <2> QED BY <1>2, <2>1, TextBound
<1>5. TextOf(l) \subseteq Nat /\ \A b \in TextOf(l) : b < m BY <1>2, <1>4
<1>6. f.blocks \in Seq(Seq(Messages)) BY DEF BlockType
<1>7. Whole(m) \in Seq(Messages) BY WholeType
<1>8. Spells(f.blocks, TextOf(l)) BY DEF Continues
<1> QED BY <1>2, <1>3, <1>4, <1>5, <1>6, <1>7, <1>8, SpellsMore

(* In an orderly plan the fragment that a block continues is found: its    *)
(* identifier is the one before, and it is not too old.                    *)
LEMMA OrderlyIs ==
  ASSUME plan \in Plans, Orderly, NEW m \in Msgs, IsBlock(m), NEW l, LastBlock(l, m - 1),
         plan[l].aes = plan[m].aes, plan[l].more
  PROVE  /\ (BlockIdOf(l) + 1) % NBlockIds = BlockIdOf(m)
         /\ Younger(l, m) <= KeepFrag
<1>1. Len(plan) \in Nat /\ DOMAIN plan = Msgs
  <2>1. plan \in Seq([aes : {plan[i].aes : i \in DOMAIN plan},
                      kind : {"acars", "data", "badparity"}, more : BOOLEAN, fits : BOOLEAN])
    BY DecoderAssumption
  <2> QED BY <2>1 DEF Msgs
<1>2. m \in Nat /\ l \in 1..(m - 1) /\ l \in Msgs /\ l < m /\ IsBlock(l)
  BY <1>1 DEF Msgs, LastBlock
<1>3. \A n \in (l + 1)..(m - 1) : IsBlock(n) => plan[n].aes # plan[l].aes BY DEF LastBlock
<1>4. /\ \A n \in (l + 1)..(m - 1) : plan[n].kind = "acars" => plan[n].aes # plan[l].aes
      /\ Cardinality({n \in (l + 1)..m : IsBlock(n)}) <= KeepFrag
  BY <1>1, <1>2, <1>3 DEF Orderly
<1>5. plan[l].kind = "acars" BY <1>2 DEF IsBlock
<1> QED BY <1>2, <1>4, <1>5, NextBlockId DEF Younger

(* A block through defragment: the fragments and what the callback got are *)
(* as they should be after its message.                                    *)
LEMMA BlockExact ==
  ASSUME plan \in Plans, Orderly, NEW d \in DecType, NEW x \in Nat, x + 1 \in Msgs,
         IsBlock(x + 1), FragsExact(d.frags, x), OutExact(d.out, x),
         NEW b \in BlockType, b.aes = plan[x + 1].aes, b.bi = BlockIdOf(x + 1),
         b.more = plan[x + 1].more, b.count = 0, b.blocks = <<Whole(x + 1)>>,
         NEW e, e = defragment(d, b)
  PROVE  /\ e \in DecType /\ e.isuitems = d.isuitems /\ e.last = d.last
         /\ FragsExact(e.frags, x + 1) /\ OutExact(e.out, x + 1)
<1> DEFINE m == x + 1
           a == plan[m].aes
           r == Aged(d.frags, KeepFrag)
           i == findfragment(r, b)
           j == Joined(r[i], b)
<1>1. m \in Nat /\ m >= 1 /\ m \in Msgs /\ IsBlock(m) /\ m - 1 = x OBVIOUS
<1>2. d.frags \in Seq(BlockType) /\ d.out \in Seq(BlockType) /\ d.isuitems \in Seq(ItemType)
      /\ d.last \in LastType
  BY DEF DecType
<1>3. /\ r \in Seq(BlockType) /\ FragsBut(r, m, a)
      /\ \A k \in 1..Len(r) : r[k].aes = a => \E l : Continues(r[k], l, m)
      /\ \A l : /\ LastBlock(l, x) /\ plan[l].more /\ plan[l].aes = a
                /\ Younger(l, m) <= KeepFrag
                => \E k \in 1..Len(r) : r[k].aes = a
  <2> DEFINE s == d.frags
  <2>1. s \in Seq(BlockType) /\ FragsExact(s, x) BY <1>2
  <2> HIDE DEF s
  <2>2. ASSUME NEW q, q = Aged(s, KeepFrag)
        PROVE  /\ q \in Seq(BlockType) /\ FragsBut(q, x + 1, plan[x + 1].aes)
               /\ \A k \in 1..Len(q) : q[k].aes = plan[x + 1].aes => \E l : Continues(q[k], l, x + 1)
               /\ \A l : /\ LastBlock(l, x) /\ plan[l].more /\ plan[l].aes = plan[x + 1].aes
                         /\ Younger(l, x + 1) <= KeepFrag
                         => \E k \in 1..Len(q) : q[k].aes = plan[x + 1].aes
    BY <2>1, <2>2, AgedFrags
  <2> QED BY <2>2 DEF s
<1>4. /\ i = 0 => \A k \in 1..Len(r) :
            ~(r[k].aes = a /\ r[k].more /\ (r[k].bi + 1) % NBlockIds = BlockIdOf(m))
      /\ i # 0 => i \in 1..Len(r) /\ r[i].aes = a
      /\ i = 0 \/ i \in 1..Len(r)
  <2>1. Len(r) \in Nat BY <1>3
  <2> HIDE DEF r
  <2>2. \/ /\ i = 0
           /\ \A k \in 1..Len(r) :
                ~(r[k].aes = b.aes /\ r[k].more /\ (r[k].bi + 1) % NBlockIds = b.bi)
        \/ /\ i \in 1..Len(r) /\ i # 0
           /\ r[i].aes = b.aes /\ r[i].more /\ (r[i].bi + 1) % NBlockIds = b.bi
    BY <2>1, FoundFragment
  <2> HIDE DEF i
  <2> QED BY <2>2
<1>5. LET f == defragment(d, b) IN
      /\ i = 0 /\ b.more => f = [isuitems |-> d.isuitems, last |-> d.last,
                                 frags |-> Append(r, b), out |-> d.out]
      /\ i = 0 /\ ~b.more => f = [isuitems |-> d.isuitems, last |-> d.last,
                                  frags |-> r, out |-> Append(d.out, b)]
      /\ i # 0 /\ b.more => f = [isuitems |-> d.isuitems, last |-> d.last,
                                 frags |-> [r EXCEPT ![i] = j], out |-> d.out]
      /\ i # 0 /\ ~b.more => f = [isuitems |-> d.isuitems, last |-> d.last,
                                  frags |-> RemoveAt(r, i), out |-> Append(d.out, j)]
  <2>1. r \in Seq(BlockType) /\ (i = 0 \/ i \in 1..Len(r)) BY <1>3, <1>4
  <2> QED BY <2>1, DefragmentIs
<1> HIDE DEF r, i
<1>6. ASSUME i = 0, NEW k \in 1..Len(r), r[k].aes = a PROVE FALSE
  <2>1. PICK l : Continues(r[k], l, m) BY <1>3, <1>6
  <2>2. (BlockIdOf(l) + 1) % NBlockIds = BlockIdOf(m)
    BY <1>1, <2>1, OrderlyIs DEF Continues
  <2>3. r[k].more /\ r[k].bi = BlockIdOf(l) BY <2>1 DEF Continues
  <2> HIDE DEF m, a
  <2> QED BY <1>4, <1>6, <2>2, <2>3
<1>7. ASSUME i = 0 PROVE Spells(b.blocks, TextOf(m))
  <2>1. ASSUME NEW l, LastBlock(l, m - 1), plan[l].aes = a, plan[l].more PROVE FALSE
    <3>1. Younger(l, m) <= KeepFrag BY <1>1, <2>1, OrderlyIs
    <3>2. \E k \in 1..Len(r) : r[k].aes = a BY <1>1, <1>3, <2>1, <3>1
    <3> QED BY <1>6, <1>7, <3>2
  <2>2. TextOf(m) = {m}
    <3>1. \A l : LastBlock(l, m - 1) /\ plan[l].aes = plan[m].aes => ~plan[l].more BY <2>1
    <3> HIDE DEF m
    <3> QED BY <1>1, <3>1, TextStarts
  <2> QED BY <2>2, SpellsOne
<1>8. ASSUME i # 0
      PROVE  /\ r[i] \in BlockType /\ j \in BlockType /\ Spells(j.blocks, TextOf(m))
             /\ j = [aes |-> a, bi |-> b.bi, more |-> b.more, isu |-> r[i].isu,
                     blocks |-> r[i].blocks \o b.blocks, count |-> 0]
  <2>1. i \in 1..Len(r) /\ r[i].aes = a BY <1>4, <1>8
  <2>2. r[i] \in BlockType BY <1>3, <2>1
  <2>3. PICK l : Continues(r[i], l, m) BY <1>3, <2>1
  <2>4. Spells(r[i].blocks \o b.blocks, TextOf(m)) BY <1>1, <2>2, <2>3, BlockJoins
  <2>5. /\ j \in BlockType
        /\ j = [aes |-> a, bi |-> b.bi, more |-> b.more, isu |-> r[i].isu,
                blocks |-> r[i].blocks \o b.blocks, count |-> 0]
    <3>1. ASSUME NEW g \in BlockType
          PROVE  /\ Joined(g, b) = [aes |-> g.aes, bi |-> b.bi, more |-> b.more, isu |-> g.isu,
                            blocks |-> g.blocks \o b.blocks, count |-> 0]
                 /\ Joined(g, b) \in BlockType
      BY JoinedIs
    <3>2. /\ Joined(r[i], b) = [aes |-> r[i].aes, bi |-> b.bi, more |-> b.more, isu |-> r[i].isu,
                            blocks |-> r[i].blocks \o b.blocks, count |-> 0]
          /\ Joined(r[i], b) \in BlockType
      BY <3>1, <2>2
    <3> HIDE DEF a
    <3> QED BY <2>1, <3>2
  <2>6. j.blocks = r[i].blocks \o b.blocks BY <2>5
  <2> QED BY <2>2, <2>4, <2>5, <2>6
<1> HIDE DEF j
<1>9. ASSUME NEW f, f.aes = a, f.bi = BlockIdOf(m), f.more = plan[m].more, f.count = 0,
             Spells(f.blocks, TextOf(m)), plan[m].more
      PROVE  IsFrag(f, m, m)
  <2>1. LastBlock(m, m)
    <3>1. LastBlock(x + 1, x + 1) BY LastBlockSteps
    <3> QED BY <3>1
  <2>2. Younger(m, m) = 0 BY <1>1, YoungerIs
  <2> HIDE DEF m
  <2> QED BY <1>9, <2>1, <2>2 DEF IsFrag, a
<1>u. \A p, q \in 1..Len(r) : r[p].aes = r[q].aes => p = q BY <1>3 DEF FragsBut
<1>m. b.more \in BOOLEAN BY DEF BlockType
<1>10. ASSUME plan[m].more, OutExact(d.out, x) PROVE OutExact(d.out, m)
  <2>1. ~EndsText(m) BY <1>1, <1>10 DEF EndsText, IsBlock
  <2> QED BY <1>10, <2>1, OutSkips
<1>11. ASSUME NEW f \in BlockType, ~plan[m].more, Spells(f.blocks, TextOf(m))
       PROVE  OutExact(Append(d.out, f), m)
  <2>1. EndsText(m) BY <1>1, <1>11 DEF EndsText, IsBlock
  <2> QED BY <1>2, <1>11, <2>1, OutTakes

<1>12. CASE i = 0 /\ b.more
  <2> DEFINE t == Append(r, b)
  <2>1. e = [isuitems |-> d.isuitems, last |-> d.last, frags |-> t, out |-> d.out]
    BY <1>5, <1>12
  <2>2. /\ Len(t) = Len(r) + 1 /\ t[Len(r) + 1] = b /\ \A k \in 1..Len(r) : t[k] = r[k]
        /\ t \in Seq(BlockType) /\ Len(r) \in Nat
    BY <1>3
  <2>3. IsFrag(b, m, m) BY <1>7, <1>9, <1>12
  <2> HIDE DEF t, a
  <2>4. \A k \in 1..Len(r) : r[k].aes # a BY <1>6, <1>12
  <2>5. \A k \in 1..Len(t) : \/ IsFrag(t[k], m, m)
                             \/ \E l \in 1..Len(r) : t[k] = r[l] /\ r[l].aes # a
    <3> SUFFICES ASSUME NEW k \in 1..Len(t), k # Len(r) + 1
                 PROVE  \E l \in 1..Len(r) : t[k] = r[l] /\ r[l].aes # a
      BY <2>2, <2>3
    <3>1. k \in 1..Len(r) BY <2>2
    <3> QED BY <2>2, <2>4, <3>1
  <2>6. \A k, l \in 1..Len(t) : t[k].aes = t[l].aes => k = l
    <3> SUFFICES ASSUME NEW k \in 1..Len(t), NEW l \in 1..Len(t), t[k].aes = t[l].aes PROVE k = l
      OBVIOUS
    <3>1. \A n \in 1..Len(t) : n \in 1..Len(r) \/ n = Len(r) + 1 BY <2>2
    <3>2. b.aes = a BY DEF a
    <3>3. CASE k \in 1..Len(r) /\ l \in 1..Len(r) BY <1>u, <2>2, <3>3
    <3>4. CASE k \in 1..Len(r) /\ l = Len(r) + 1 BY <2>2, <2>4, <3>2, <3>4
    <3>5. CASE l \in 1..Len(r) /\ k = Len(r) + 1 BY <2>2, <2>4, <3>2, <3>5
    <3> QED BY <3>1, <3>3, <3>4, <3>5
  <2>7. \A l \in 1..Len(r) : r[l].aes # a => \E k \in 1..Len(t) : t[k] = r[l] BY <2>2
  <2>8. \E k \in 1..Len(t) : IsFrag(t[k], m, m)
    <3>1. Len(r) + 1 \in 1..Len(t) BY <2>2
    <3> QED BY <2>2, <2>3, <3>1
  <2>9. FragsExact(t, m)
    <3>1. a = plan[m].aes BY DEF a
    <3> HIDE DEF m
    <3>2. Replaces(t, r, m, a) BY <2>5, <2>6, <2>7, <2>8 DEF Replaces
    <3> QED BY <1>1, <1>3, <3>1, <3>2, FragsFrom
  <2>10. e \in DecType BY <1>2, <2>1, <2>2 DEF DecType
  <2>11. e.isuitems = d.isuitems /\ e.last = d.last /\ e.frags = t /\ e.out = d.out BY <2>1
  <2> QED BY <1>10, <1>12, <2>9, <2>10, <2>11
<1>13. CASE i = 0 /\ ~b.more
  <2> DEFINE o == Append(d.out, b)
  <2>1. e = [isuitems |-> d.isuitems, last |-> d.last, frags |-> r, out |-> o]
    BY <1>5, <1>13
  <2>2. o \in Seq(BlockType) BY <1>2
  <2>3. OutExact(o, m) BY <1>7, <1>11, <1>13
  <2> HIDE DEF o, a
  <2>4. \A k \in 1..Len(r) : r[k].aes # a BY <1>6, <1>13
  <2>5. FragsExact(r, m)
    <3>1. a = plan[m].aes /\ ~plan[m].more BY <1>13 DEF a
    <3>2. /\ \A k \in 1..Len(r) : \E l \in 1..Len(r) : r[k] = r[l] /\ r[l].aes # a
          /\ \A l \in 1..Len(r) : r[l].aes # a => \E k \in 1..Len(r) : r[k] = r[l]
      BY <2>4
    <3> HIDE DEF m
    <3>3. Replaces(r, r, m, a) BY <1>u, <3>1, <3>2 DEF Replaces
    <3> QED BY <1>1, <1>3, <3>1, <3>3, FragsFrom
  <2>10. e \in DecType BY <1>2, <1>3, <2>1, <2>2 DEF DecType
  <2>11. e.isuitems = d.isuitems /\ e.last = d.last /\ e.frags = r /\ e.out = o BY <2>1
  <2> QED BY <2>3, <2>5, <2>10, <2>11
<1>14. CASE i # 0 /\ b.more
  <2> DEFINE t == [r EXCEPT ![i] = j]
  <2>1. e = [isuitems |-> d.isuitems, last |-> d.last, frags |-> t, out |-> d.out]
    BY <1>5, <1>14
  <2>i. i \in 1..Len(r) /\ r[i].aes = a BY <1>4, <1>14
  <2>j. j \in BlockType /\ Spells(j.blocks, TextOf(m)) /\ j.aes = a
        /\ j.bi = BlockIdOf(m) /\ j.more = plan[m].more /\ j.count = 0
    <3>1. /\ j \in BlockType /\ Spells(j.blocks, TextOf(m))
          /\ j = [aes |-> a, bi |-> b.bi, more |-> b.more, isu |-> r[i].isu,
                     blocks |-> r[i].blocks \o b.blocks, count |-> 0]
      BY <1>8, <1>14
    <3>2. j.aes = a /\ j.bi = b.bi /\ j.more = b.more /\ j.count = 0 BY <3>1
    <3> QED BY <3>1, <3>2
  <2>2. /\ Len(t) = Len(r) /\ t[i] = j /\ \A k \in 1..Len(r) : k # i => t[k] = r[k]
        /\ t \in Seq(BlockType) /\ Len(r) \in Nat
    BY <1>3, <2>i, <2>j
  <2>3. IsFrag(j, m, m) BY <1>9, <1>14, <2>j
  <2> HIDE DEF t, a
  <2>4. \A k \in 1..Len(r) : k # i => r[k].aes # a BY <1>u, <2>i
  <2>5. \A k \in 1..Len(t) : \/ IsFrag(t[k], m, m)
                             \/ \E l \in 1..Len(r) : t[k] = r[l] /\ r[l].aes # a
    BY <2>2, <2>3, <2>4
  <2>6. \A k, l \in 1..Len(t) : t[k].aes = t[l].aes => k = l
    <3>1. \A k \in 1..Len(t) : t[k].aes = r[k].aes BY <2>2, <2>i, <2>j
    <3> QED BY <1>u, <2>2, <3>1
  <2>7. \A l \in 1..Len(r) : r[l].aes # a => \E k \in 1..Len(t) : t[k] = r[l] BY <2>2, <2>i
  <2>8. \E k \in 1..Len(t) : IsFrag(t[k], m, m) BY <2>2, <2>3, <2>i
  <2>9. FragsExact(t, m)
    <3>1. a = plan[m].aes BY DEF a
    <3> HIDE DEF m
    <3>2. Replaces(t, r, m, a) BY <2>5, <2>6, <2>7, <2>8 DEF Replaces
    <3> QED BY <1>1, <1>3, <3>1, <3>2, FragsFrom
  <2>10. e \in DecType BY <1>2, <2>1, <2>2 DEF DecType
  <2>11. e.isuitems = d.isuitems /\ e.last = d.last /\ e.frags = t /\ e.out = d.out BY <2>1
  <2> QED BY <1>10, <1>14, <2>9, <2>10, <2>11
<1>15. CASE i # 0 /\ ~b.more
  <2> DEFINE o == Append(d.out, j)
             t == RemoveAt(r, i)
  <2>1. e = [isuitems |-> d.isuitems, last |-> d.last, frags |-> t, out |-> o]
    BY <1>5, <1>15
  <2>i. i \in 1..Len(r) /\ r[i].aes = a BY <1>4, <1>15
  <2>j. j \in BlockType /\ Spells(j.blocks, TextOf(m)) BY <1>8, <1>15
  <2>2. o \in Seq(BlockType) BY <1>2, <2>j
  <2>3. OutExact(o, m) BY <1>11, <1>15, <2>j
  <2>4. /\ t \in Seq(BlockType) /\ Len(t) = Len(r) - 1 /\ Len(r) \in Nat
        /\ \A k \in 1..(Len(r) - 1) : t[k] = IF k < i THEN r[k] ELSE r[k + 1]
    <3>1. r \in Seq(BlockType) /\ i \in 1..Len(r) BY <1>3, <2>i
    <3>2. /\ RemoveAt(r, i) \in Seq(BlockType) /\ Len(RemoveAt(r, i)) = Len(r) - 1
          /\ \A k \in 1..(Len(r) - 1) : RemoveAt(r, i)[k] = IF k < i THEN r[k] ELSE r[k + 1]
      BY <3>1, RemoveAtIs
    <3> QED BY <3>1, <3>2
  <2> HIDE DEF o, a, t
  <2>5. \A k \in 1..Len(r) : k # i => r[k].aes # a BY <1>u, <2>i
  <2> DEFINE src(k) == IF k < i THEN k ELSE k + 1
  <2>6. \A k \in 1..Len(t) : src(k) \in 1..Len(r) /\ src(k) # i /\ t[k] = r[src(k)]
    BY <2>i, <2>4
  <2>7. \A k, l \in 1..Len(t) : src(k) = src(l) => k = l BY <2>i, <2>4
  <2>8. \A n \in 1..Len(r) : n # i => \E k \in 1..Len(t) : src(k) = n
    <3> SUFFICES ASSUME NEW n \in 1..Len(r), n # i PROVE \E k \in 1..Len(t) : src(k) = n OBVIOUS
    <3>1. CASE n < i
      <4>1. n \in 1..Len(t) /\ src(n) = n BY <2>i, <2>4, <3>1
      <4> QED BY <4>1
    <3>2. CASE ~(n < i)
      <4>1. n - 1 \in 1..Len(t) /\ src(n - 1) = n BY <2>i, <2>4, <3>2
      <4> QED BY <4>1
    <3> QED BY <3>1, <3>2
  <2> HIDE DEF src
  <2>9. FragsExact(t, m)
    <3>1. a = plan[m].aes /\ ~plan[m].more BY <1>15 DEF a
    <3>2. \A k \in 1..Len(t) : \E l \in 1..Len(r) : t[k] = r[l] /\ r[l].aes # a
      BY <2>5, <2>6
    <3>3. \A k, l \in 1..Len(t) : t[k].aes = t[l].aes => k = l
      <4> SUFFICES ASSUME NEW k \in 1..Len(t), NEW l \in 1..Len(t), t[k].aes = t[l].aes
                   PROVE  k = l
        OBVIOUS
      <4>1. src(k) \in 1..Len(r) /\ src(l) \in 1..Len(r) /\ r[src(k)].aes = r[src(l)].aes
        BY <2>6
      <4>2. src(k) = src(l) BY <1>u, <4>1
      <4> QED BY <2>7, <4>2
    <3>4. \A l \in 1..Len(r) : r[l].aes # a => \E k \in 1..Len(t) : t[k] = r[l]
      BY <2>6, <2>8, <2>i
    <3> HIDE DEF m
    <3>5. Replaces(t, r, m, a) BY <3>1, <3>2, <3>3, <3>4 DEF Replaces
    <3> QED BY <1>1, <1>3, <3>1, <3>5, FragsFrom
  <2>10. e \in DecType BY <1>2, <2>1, <2>2, <2>4 DEF DecType
  <2>11. e.isuitems = d.isuitems /\ e.last = d.last /\ e.frags = t /\ e.out = o BY <2>1
  <2> QED BY <2>3, <2>9, <2>10, <2>11
<1> QED BY <1>m, <1>12, <1>13, <1>14, <1>15

-----------------------------------------------------------------------------
(* A message, SU by SU.                                                    *)

(* Item x is made of exactly the first k SUs of message m.                 *)
Partial(x, m, k) ==
  /\ x.aes = plan[m].aes /\ x.ref = RefOf(m) /\ x.seq = NSsu + 1 - k
  /\ Len(x.userdata) = k /\ \A i \in 1..k : x.userdata[i] = UserData(m)

(* After k SUs of message m: anisuitem is its own, and if it fits the      *)
(* first item with its key is made of just these SUs.                      *)
Midway(d, m, k) ==
  /\ d.last.aes = plan[m].aes /\ d.last.fits = plan[m].fits
  /\ plan[m].fits => \E p \in 1..Len(d.isuitems) :
       /\ Partial(d.isuitems[p], m, k)
       /\ \A q \in 1..(p - 1) : ~SameKey(d.isuitems[q], NewItem(m))

(* The 0x71 SU starts its message, whatever items are left of others.      *)
LEMMA StartExact ==
  ASSUME plan \in Plans, NEW d \in DecType, NEW m \in Msgs, NEW e, e = update71(d, Su(m, 0))
  PROVE  /\ e \in DecType /\ e.frags = d.frags /\ e.out = d.out /\ Midway(e, m, 1)
<1> DEFINE r == Aged(d.isuitems, KeepIsu)
           x == NewItem(m)
<1>1. d.isuitems \in Seq(ItemType) /\ d.frags \in Seq(BlockType) /\ d.out \in Seq(BlockType)
  BY DEF DecType
<1>2. r \in Seq(ItemType)
  <2>1. \A y \in ItemType : y.count \in Nat /\ OneOlder(y) \in ItemType BY OlderItem
  <2> QED BY <1>1, <2>1, AgedKeeps, ReassemblyAssumption
<1>3. /\ plan[m].aes \in AesSet /\ plan[m].fits \in BOOLEAN /\ m \in Nat
      /\ UserData(m) \in Messages /\ RefOf(m) \in Nat
  BY PlanType, UserDataOf, RefType
<1>4. x \in ItemType
  <2>1. <<UserData(m)>> \in Seq(Messages) BY <1>3
  <2> QED BY <1>3, <2>1 DEF NewItem, ItemType, NSsu
<1>5. Partial(x, m, 1)
  <2> DEFINE u == UserData(m)
             w == <<u>>
  <2> HIDE DEF u
  <2>1. Len(w) = 1 /\ \A i \in 1..1 : w[i] = u OBVIOUS
  <2> HIDE DEF w
  <2>2. x = [aes |-> plan[m].aes, ref |-> RefOf(m), seq |-> NSsu, userdata |-> w, count |-> 0]
    BY DEF NewItem, w, u
  <2>3. x.aes = plan[m].aes /\ x.ref = RefOf(m) /\ x.seq = NSsu /\ x.userdata = w BY <2>2
  <2> HIDE DEF x
  <2> QED BY <2>1, <2>3 DEF Partial, NSsu, u
<1>6. Len(r) \in Nat BY <1>2
<1> HIDE DEF r
<1>7. PICK i :
        /\ e = [isuitems |-> IF i = 0 THEN Append(r, x) ELSE [r EXCEPT ![i] = x],
                last |-> [aes |-> plan[m].aes, fits |-> plan[m].fits],
                frags |-> d.frags, out |-> d.out]
        /\ \/ /\ i = 0
              /\ \/ ~plan[m].fits
                 \/ \A j \in 1..Len(r) : ~SameKey(r[j], x)
           \/ /\ plan[m].fits /\ i \in 1..Len(r) /\ i # 0 /\ SameKey(r[i], x)
              /\ \A j \in 1..Len(r) : SameKey(r[j], x) => i <= j
  BY <1>6, Update71Is DEF r
<1> DEFINE s == IF i = 0 THEN Append(r, x) ELSE [r EXCEPT ![i] = x]
           p == IF i = 0 THEN Len(r) + 1 ELSE i
           last == [aes |-> plan[m].aes, fits |-> plan[m].fits]
<1> HIDE DEF x
<1>9. /\ s \in Seq(ItemType) /\ p \in 1..Len(s) /\ s[p] = x
      /\ \A j \in 1..Len(s) : j # p => j \in 1..Len(r) /\ s[j] = r[j]
      /\ Len(s) \in Nat
  <2>1. CASE i = 0 BY <1>2, <1>4, <2>1
  <2>2. CASE i # 0
    <3>1. i \in 1..Len(r) BY <1>7, <2>2
    <3>2. s = [r EXCEPT ![i] = x] /\ p = i BY <2>2
    <3> QED BY <1>2, <1>4, <3>1, <3>2
  <2> QED BY <2>1, <2>2
<1>10. plan[m].fits => \A q \in 1..(p - 1) : ~SameKey(s[q], x)
  <2> SUFFICES ASSUME plan[m].fits, NEW q \in 1..(p - 1), SameKey(s[q], x) PROVE FALSE
    OBVIOUS
  <2>1. q \in 1..Len(s) /\ q # p BY <1>9
  <2>2. q \in 1..Len(r) /\ SameKey(r[q], x) BY <1>9, <2>1
  <2>3. i # 0 /\ i <= q /\ p = i BY <1>7, <2>2
  <2>4. i \in 1..Len(r) BY <1>7, <2>3
  <2> QED BY <2>3, <2>4
<1>11. last \in LastType /\ last.aes = plan[m].aes /\ last.fits = plan[m].fits
  BY <1>3 DEF LastType
<1>12. e = [isuitems |-> s, last |-> last, frags |-> d.frags, out |-> d.out]
  BY <1>7
<1> HIDE DEF s, p, last
<1>13. e.isuitems = s /\ e.last = last /\ e.frags = d.frags /\ e.out = d.out BY <1>12
<1>14. e \in DecType BY <1>1, <1>9, <1>11, <1>12 DEF DecType
<1>15. Midway(e, m, 1)
  <2>1. Partial(s[p], m, 1) BY <1>5, <1>9
  <2>2. plan[m].fits => \E q \in 1..Len(s) :
          /\ Partial(s[q], m, 1)
          /\ \A o \in 1..(q - 1) : ~SameKey(s[o], NewItem(m))
    BY <1>9, <1>10, <2>1 DEF x
  <2> QED BY <1>11, <1>13, <2>2 DEF Midway
<1> QED BY <1>13, <1>14, <1>15

(* What updateC0 does with the item it continued.                          *)
Complete(d, x) == IF x.seq = 0 THEN parse(d, x) ELSE d

(* An SSU continues the item of its message and no other.                  *)
LEMMA SsuExact ==
  ASSUME plan \in Plans, NEW d \in DecType, NEW m \in Msgs, NEW k \in 1..NSsu, Midway(d, m, k),
         NEW e, e = updateC0(d, Su(m, k))
  PROVE  \/ ~plan[m].fits /\ e = d
         \/ /\ plan[m].fits
            /\ \E y \in ItemType, c \in DecType :
                 /\ Partial(y, m, k + 1) /\ Midway(c, m, k + 1)
                 /\ c.frags = d.frags /\ c.out = d.out /\ e = Complete(c, y)
<1> DEFINE su == Su(m, k)
           s == d.isuitems
           i == findisuitemC0(d, su)
           x == s[i]
           y == [x EXCEPT !.seq = @ - 1, !.userdata = Append(@, UserData(m))]
           t == [s EXCEPT ![i] = y]
           c == [isuitems |-> t, last |-> d.last, frags |-> d.frags, out |-> d.out]
<1>1. /\ s \in Seq(ItemType) /\ d.last \in LastType /\ d.frags \in Seq(BlockType)
      /\ d.out \in Seq(BlockType) /\ Len(s) \in Nat
  BY DEF DecType
<1>2. e = IF i = 0 THEN d ELSE IF y.seq = 0 THEN parse(c, y) ELSE c
  BY UpdateC0Is
<1>3. su.ref = RefOf(m) /\ su.seq = NSsu - k BY DEF Su, NSsu
<1>4. \/ /\ i = 0
         /\ \/ ~d.last.fits
            \/ \A j \in 1..Len(s) : ~(SameMessage(s[j], su, d.last.aes) /\ su.seq + 1 = s[j].seq)
      \/ /\ d.last.fits /\ i \in 1..Len(s) /\ i # 0
         /\ SameMessage(s[i], su, d.last.aes) /\ su.seq + 1 = s[i].seq
         /\ \A j \in 1..Len(s) :
              SameMessage(s[j], su, d.last.aes) /\ su.seq + 1 = s[j].seq => i <= j
  BY <1>1, FoundC0
<1>5. d.last.aes = plan[m].aes /\ d.last.fits = plan[m].fits BY DEF Midway
<1> HIDE DEF i, su, y, c
<1>6. CASE ~plan[m].fits
  <2>1. i = 0 BY <1>4, <1>5, <1>6
  <2> QED BY <1>2, <1>6, <2>1
<1>7. CASE plan[m].fits
  <2>1. PICK p \in 1..Len(s) : /\ Partial(s[p], m, k)
                               /\ \A q \in 1..(p - 1) : ~SameKey(s[q], NewItem(m))
    BY <1>7 DEF Midway
  <2>n. NewItem(m).aes = plan[m].aes /\ NewItem(m).ref = RefOf(m) BY DEF NewItem
  <2>2. SameMessage(s[p], su, d.last.aes) /\ su.seq + 1 = s[p].seq
    <3>1. s[p].aes = plan[m].aes /\ s[p].ref = RefOf(m) /\ s[p].seq = NSsu + 1 - k
      BY <2>1 DEF Partial
    <3>2. (NSsu - k) + 1 = NSsu + 1 - k BY DEF NSsu
    <3> QED BY <1>3, <1>5, <3>1, <3>2 DEF SameMessage
  <2>3. i \in 1..Len(s) /\ i # 0 /\ SameMessage(s[i], su, d.last.aes) /\ i <= p
    BY <1>4, <1>5, <1>7, <2>1, <2>2
  <2>4. SameKey(s[i], NewItem(m)) BY <1>3, <1>5, <2>3, <2>n DEF SameKey, SameMessage
  <2>5. i = p
    <3>1. ~(i \in 1..(p - 1)) BY <2>1, <2>4
    <3> QED BY <2>1, <2>3, <3>1
  <2> HIDE DEF s
  <2>6. x \in ItemType /\ Partial(x, m, k) BY <1>1, <2>1, <2>3, <2>5
  <2>7. UserData(m) \in Messages /\ m \in Nat BY UserDataOf
  <2> HIDE DEF x
  <2>8. y \in ItemType /\ Partial(y, m, k + 1)
    <3> DEFINE u == x.userdata
               v == Append(u, UserData(m))
               z == [x EXCEPT !.seq = @ - 1]
    <3>1. /\ u \in Seq(Messages) /\ x.aes \in AesSet /\ x.ref \in Nat /\ x.seq \in Nat
          /\ x.count \in Nat
      BY <2>6, ItemShape
    <3>2. /\ x.aes = plan[m].aes /\ x.ref = RefOf(m) /\ x.seq = NSsu + 1 - k
          /\ Len(u) = k /\ \A n \in 1..k : u[n] = UserData(m)
      BY <2>6 DEF Partial
    <3>3. x = [aes |-> x.aes, ref |-> x.ref, seq |-> x.seq, userdata |-> x.userdata,
               count |-> x.count]
      BY <2>6, ItemShape
    <3>4. z = [aes |-> x.aes, ref |-> x.ref, seq |-> x.seq - 1, userdata |-> u, count |-> x.count]
      BY <3>3
    <3>5. y = [z EXCEPT !.userdata = Append(z.userdata, UserData(m))] BY Zenon DEF y
    <3> HIDE DEF z
    <3>6. z.userdata = u BY <3>4
    <3>7. y = [z EXCEPT !.userdata = v] BY <3>5, <3>6
    <3>8. /\ v \in Seq(Messages) /\ Len(v) = k + 1 /\ \A n \in 1..(k + 1) : v[n] = UserData(m)
      <4> HIDE DEF u
      <4>1. /\ v \in Seq(Messages) /\ Len(v) = k + 1 /\ v[k + 1] = UserData(m)
            /\ \A n \in 1..k : v[n] = u[n]
        BY <2>7, <3>1, <3>2
      <4>2. \A n \in 1..(k + 1) : n \in 1..k \/ n = k + 1 BY DEF NSsu
      <4> HIDE DEF v
      <4> QED BY <3>2, <4>1, <4>2
    <3> HIDE DEF v, u
    <3> DEFINE q == x.seq - 1
    <3>9. q \in Nat /\ q = NSsu + 1 - (k + 1) BY <3>1, <3>2 DEF NSsu
    <3>10. y = [aes |-> x.aes, ref |-> x.ref, seq |-> q, userdata |-> v, count |-> x.count]
      BY <3>4, <3>7
    <3> HIDE DEF q
    <3>11. y \in ItemType BY <3>1, <3>8, <3>9, <3>10 DEF ItemType
    <3>12. y.aes = x.aes /\ y.ref = x.ref /\ y.seq = q /\ y.userdata = v BY <3>10
    <3>13. y.aes = plan[m].aes /\ y.ref = RefOf(m) /\ y.seq = NSsu + 1 - (k + 1)
      BY <3>2, <3>9, <3>12
    <3> QED BY <3>8, <3>11, <3>12, <3>13 DEF Partial
  <2>9. /\ t \in Seq(ItemType) /\ Len(t) = Len(s) /\ t[i] = y
        /\ \A j \in 1..Len(s) : j # i => t[j] = s[j]
    <3> HIDE DEF s
    <3> QED BY <1>1, <2>3, <2>8
  <2> HIDE DEF t
  <2>10. c.isuitems = t /\ c.last = d.last /\ c.frags = d.frags /\ c.out = d.out BY DEF c
  <2>11. c \in DecType BY <1>1, <2>9 DEF c, DecType
  <2>12. Midway(c, m, k + 1)
    <3>1. \A q \in 1..(i - 1) : ~SameKey(t[q], NewItem(m))
      <4> SUFFICES ASSUME NEW q \in 1..(i - 1) PROVE ~SameKey(t[q], NewItem(m)) OBVIOUS
      <4>1. q \in 1..Len(s) /\ q # i /\ q \in 1..(p - 1) BY <1>1, <2>3, <2>5
      <4> QED BY <2>1, <2>9, <4>1
    <3>2. i \in 1..Len(t) BY <2>3, <2>9
    <3> QED BY <1>5, <2>8, <2>9, <2>10, <3>1, <3>2 DEF Midway
  <2>13. e = Complete(c, y) BY <1>2, <2>3 DEF Complete
  <2> QED BY <1>7, <2>8, <2>10, <2>11, <2>12, <2>13
<1> QED BY <1>6, <1>7

(* The last SSU: the message is parsed, whole.                             *)
LEMMA FinishExact ==
  ASSUME plan \in Plans, Orderly, NEW d \in DecType, NEW x \in Nat, x + 1 \in Msgs,
         plan[x + 1].fits, NEW y \in ItemType, Partial(y, x + 1, NSsu + 1),
         FragsExact(d.frags, x), OutExact(d.out, x), NEW e, e = parse(d, y)
  PROVE  e \in DecType /\ FragsExact(e.frags, x + 1) /\ OutExact(e.out, x + 1)
<1> DEFINE m == x + 1
           u == y.userdata
           b == BlockOf(y)
           c == [b EXCEPT !.more = FALSE]
<1>1. /\ m \in Nat /\ m \in Msgs /\ plan[m].kind \in {"acars", "data", "badparity"}
      /\ plan[m].fits
  BY PlanType
<1>2. /\ u \in Seq(Messages) /\ Len(u) = 3 /\ \A k \in 1..3 : u[k] = UserData(m)
      /\ y.aes = plan[m].aes
  BY ItemShape DEF Partial, NSsu
<1>3. u = Whole(m)
  <2>1. /\ Whole(m) \in Seq(Messages) /\ Len(Whole(m)) = 3
        /\ \A k \in 1..3 : Whole(m)[k] = UserData(m)
    BY <1>1, WholeType
  <2> HIDE DEF m, u
  <2>2. \A k \in 1..Len(u) : u[k] = Whole(m)[k] BY <1>2, <2>1
  <2> QED BY <1>2, <2>1, <2>2, SeqEqual
<1>4. /\ UserData(m).kind = plan[m].kind /\ UserData(m).more = plan[m].more
      /\ UserData(m).bi = BlockIdOf(m)
  BY <1>1, UserDataOf
<1>5. u[1] = UserData(m) /\ u[Len(u)] = UserData(m)
  <2>1. 1 \in 1..3 /\ 3 \in 1..3 OBVIOUS
  <2> HIDE DEF m, u
  <2> QED BY <1>2, <2>1
<1>6. e = CASE y.aes = NoAes -> d
        [] y.aes # NoAes /\ u[1].kind = "badparity" -> d
        [] y.aes # NoAes /\ u[1].kind = "acars" -> defragment(d, b)
        [] OTHER -> [d EXCEPT !.out = Append(@, c)]
  BY DEF parse, BlockOf
<1>7. b \in BlockType /\ c \in BlockType /\ c.blocks = b.blocks
  <2>1. Len(y.userdata) >= 1 BY <1>2
  <2> QED BY <2>1, BlockOfType
<1>8. /\ b.aes = plan[m].aes /\ b.bi = BlockIdOf(m) /\ b.more = plan[m].more /\ b.count = 0
      /\ b.blocks = <<Whole(m)>>
  <2> DEFINE w == <<u>>
  <2> HIDE DEF w, m
  <2>1. b = [aes |-> y.aes, bi |-> u[1].bi, more |-> u[Len(u)].more, isu |-> u, blocks |-> w,
             count |-> 0]
    BY DEF BlockOf, w
  <2> HIDE DEF b, u
  <2>2. /\ b.aes = y.aes /\ b.bi = u[1].bi /\ b.more = u[Len(u)].more /\ b.count = 0
        /\ b.blocks = w
    BY <2>1
  <2>3. w = <<Whole(m)>> BY <1>3 DEF w
  <2> QED BY <1>2, <1>4, <1>5, <2>2, <2>3
<1>9. u[1].kind = plan[m].kind BY <1>4, <1>5
<1>10. CASE y.aes = NoAes \/ plan[m].kind = "badparity"
  <2>1. e = d BY <1>6, <1>9, <1>10
  <2>2. ~IsBlock(m) /\ ~EndsText(m) BY <1>2, <1>10 DEF IsBlock, EndsText
  <2>3. FragsExact(d.frags, m) BY <2>2, FragsSkip
  <2>4. OutExact(d.out, m) BY <2>2, OutSkips
  <2> QED BY <2>1, <2>3, <2>4
<1>11. CASE y.aes # NoAes /\ plan[m].kind = "acars"
  <2>1. e = defragment(d, b) BY <1>6, <1>9, <1>11
  <2>2. IsBlock(m) BY <1>1, <1>2, <1>11 DEF IsBlock
  <2> HIDE DEF b
  <2> QED BY <1>7, <1>8, <2>1, <2>2, BlockExact
<1>12. CASE y.aes # NoAes /\ plan[m].kind = "data"
  <2> DEFINE o == Append(d.out, c)
  <2> HIDE DEF c, b
  <2>1. e = [d EXCEPT !.out = o] BY <1>6, <1>9, <1>12
  <2>2. e = [isuitems |-> d.isuitems, last |-> d.last, frags |-> d.frags, out |-> o]
    BY <2>1, DecShape
  <2>3. /\ d.frags \in Seq(BlockType) /\ d.out \in Seq(BlockType) /\ d.last \in LastType
        /\ d.isuitems \in Seq(ItemType)
    BY DEF DecType
  <2>4. o \in Seq(BlockType) BY <1>7, <2>3
  <2>5. ~IsBlock(m) /\ EndsText(m) BY <1>1, <1>2, <1>12 DEF IsBlock, EndsText
  <2>6. TextOf(m) = {m} BY <1>12 DEF TextOf
  <2>7. Spells(c.blocks, TextOf(m)) BY <1>1, <1>7, <1>8, <2>6, SpellsOne
  <2>8. FragsExact(d.frags, m) BY <2>5, FragsSkip
  <2>9. OutExact(o, m) BY <1>7, <2>3, <2>5, <2>7, OutTakes
  <2> HIDE DEF o
  <2>10. e \in DecType BY <2>2, <2>3, <2>4 DEF DecType
  <2>11. e.frags = d.frags /\ e.out = o BY <2>2
  <2> QED BY <2>8, <2>9, <2>10, <2>11
<1> QED BY <1>1, <1>10, <1>11, <1>12

-----------------------------------------------------------------------------
(* The decoder after i SUs.                                                *)

(* The messages all of whose SUs are numbered below i.                     *)
Done(i) == IF i < 0 THEN 0
           ELSE IF i \div (NSsu + 1) > Len(plan) THEN Len(plan) ELSE i \div (NSsu + 1)

(* SU i, where the frames before the first are bad.                        *)
SentAt(i) == IF i < 0 THEN Bad ELSE Sent(i)

(* The decoder after every SU numbered below i.                            *)
ExactDec(d, i) ==
  /\ d \in DecType
  /\ FragsExact(d.frags, Done(i)) /\ OutExact(d.out, Done(i))
  /\ \A m \in Msgs, k \in 1..NSsu : i = At(m) + k => Midway(d, m, k)

(* Done, message by message.                                               *)
LEMMA DoneIs ==
  ASSUME plan \in Plans
  PROVE  /\ \A i \in Int : i < 0 => Done(i) = 0 /\ Done(i + 1) = 0
         /\ \A m \in Msgs, k \in 0..NSsu : Done(At(m) + k) = m - 1
         /\ \A m \in Msgs : Done(At(m) + (NSsu + 1)) = m
         /\ \A i \in Nat : i >= Len(plan) * (NSsu + 1) => Done(i) = Len(plan)
         /\ \A i \in Int : Done(i) \in Nat /\ Done(i) <= Len(plan)
<1>1. Len(plan) \in Nat BY PlanType
<1>2. \A i \in Int : i < 0 => Done(i) = 0 /\ Done(i + 1) = 0
  <2> SUFFICES ASSUME NEW i \in Int, i < 0 PROVE Done(i) = 0 /\ Done(i + 1) = 0 OBVIOUS
  <2>1. CASE i + 1 < 0 BY <2>1 DEF Done
  <2>2. CASE i + 1 = 0
    <3>1. 0 \div 3 = 0 OBVIOUS
    <3> QED BY <1>1, <2>2, <3>1 DEF Done, NSsu
  <2> QED BY <2>1, <2>2
<1>3. \A m \in Msgs, k \in 0..NSsu : Done(At(m) + k) = m - 1
  <2> SUFFICES ASSUME NEW m \in Msgs, NEW k \in 0..NSsu PROVE Done(At(m) + k) = m - 1 OBVIOUS
  <2>1. m \in 1..Len(plan) /\ k \in 0..2 /\ m - 1 \in Nat BY <1>1 DEF Msgs, NSsu
  <2>2. At(m) + k = (m - 1) * 3 + k BY DEF At, NSsu
  <2>3. ((m - 1) * 3 + k) \div 3 = m - 1 /\ ~((m - 1) * 3 + k < 0) BY <2>1
  <2> QED BY <1>1, <2>1, <2>2, <2>3 DEF Done, NSsu
<1>4. \A m \in Msgs : Done(At(m) + (NSsu + 1)) = m
  <2> SUFFICES ASSUME NEW m \in Msgs PROVE Done(At(m) + (NSsu + 1)) = m OBVIOUS
  <2>1. m \in 1..Len(plan) /\ m \in Nat BY <1>1 DEF Msgs
  <2>2. At(m) + (NSsu + 1) = m * 3 BY <2>1 DEF At, NSsu
  <2>3. (m * 3) \div 3 = m /\ ~(m * 3 < 0) BY <2>1
  <2> QED BY <1>1, <2>1, <2>2, <2>3 DEF Done, NSsu
<1>5. \A i \in Nat : i >= Len(plan) * (NSsu + 1) => Done(i) = Len(plan)
  <2> SUFFICES ASSUME NEW i \in Nat, i >= Len(plan) * 3 PROVE Done(i) = Len(plan) BY DEF NSsu
  <2>1. i \div 3 >= Len(plan) /\ ~(i < 0) /\ i \div 3 \in Nat BY <1>1
  <2> QED BY <1>1, <2>1 DEF Done, NSsu
<1>6. \A i \in Int : Done(i) \in Nat /\ Done(i) <= Len(plan)
  <2> SUFFICES ASSUME NEW i \in Int PROVE Done(i) \in Nat /\ Done(i) <= Len(plan) OBVIOUS
  <2>1. CASE i < 0 BY <1>1, <2>1 DEF Done
  <2>2. CASE ~(i < 0)
    <3>1. i \div 3 \in Nat BY <2>2
    <3> QED BY <1>1, <2>2, <3>1 DEF Done, NSsu
  <2> QED BY <2>1, <2>2
<1> QED BY <1>2, <1>3, <1>4, <1>5, <1>6

(* SU i is of a message or follows the last one.                           *)
LEMMA SentIs ==
  ASSUME plan \in Plans, NEW i \in Nat
  PROVE  \/ i >= Len(plan) * (NSsu + 1) /\ Sent(i) = Fill
         \/ \E m \in Msgs, k \in 0..NSsu : i = At(m) + k /\ Sent(i) = Su(m, k)
<1> DEFINE m == i \div (NSsu + 1) + 1
           k == i % (NSsu + 1)
<1>1. m \in Nat /\ m >= 1 /\ k \in 0..NSsu /\ i = At(m) + k BY DEF At, NSsu
<1>2. Sent(i) = IF m > Len(plan) THEN Fill ELSE Su(m, k)
  BY DEF Sent, Su
<1>3. Len(plan) \in Nat BY PlanType
<1> HIDE DEF m, k
<1>4. CASE m > Len(plan)
  <2>1. i >= Len(plan) * (NSsu + 1) BY <1>1, <1>3, <1>4 DEF At, NSsu
  <2> QED BY <1>2, <1>4, <2>1
<1>5. CASE ~(m > Len(plan))
  <2>1. m \in Msgs BY <1>1, <1>3, <1>5 DEF Msgs
  <2> QED BY <1>1, <1>2, <1>5, <2>1
<1> QED BY <1>4, <1>5

(* An SU has one place in one message.                                     *)
LEMMA SamePlace ==
  ASSUME plan \in Plans, NEW m \in Msgs, NEW n \in Msgs, NEW k \in 0..NSsu, NEW q \in 0..NSsu,
         At(m) + k = At(n) + q
  PROVE  m = n /\ k = q
<1>1. m \in Nat /\ n \in Nat BY PlanType DEF Msgs
<1>2. k \in 0..2 /\ q \in 0..2 /\ (m - 1) * 3 + k = (n - 1) * 3 + q BY DEF At, NSsu
<1> QED BY <1>1, <1>2

(* One SU more.                                                            *)
LEMMA StepExact ==
  ASSUME plan \in Plans, Orderly, NEW i \in Int, NEW d, ExactDec(d, i)
  PROVE  ExactDec(DecodeSU(d, SentAt(i)), i + 1)
<1> DEFINE e == DecodeSU(d, SentAt(i))
<1>1. d \in DecType /\ FragsExact(d.frags, Done(i)) /\ OutExact(d.out, Done(i))
  BY DEF ExactDec
<1>2. Len(plan) \in Nat /\ \A m \in Msgs : m \in Nat /\ m >= 1 /\ m <= Len(plan)
  BY PlanType DEF Msgs
<1>3. CASE i < 0
  <2>1. SentAt(i) = Bad BY <1>3 DEF SentAt
  <2>2. e = d BY <2>1 DEF DecodeSU, Bad
  <2>3. Done(i + 1) = Done(i) BY <1>3, DoneIs
  <2>4. \A m \in Msgs, k \in 1..NSsu : i + 1 # At(m) + k BY <1>2, <1>3 DEF At, NSsu
  <2> HIDE DEF e
  <2>5. ExactDec(e, i + 1) BY <1>1, <2>2, <2>3, <2>4 DEF ExactDec
  <2> QED BY <2>5 DEF e
<1>4. CASE i \in Nat /\ i >= Len(plan) * (NSsu + 1) /\ Sent(i) = Fill
  <2>1. SentAt(i) = Fill BY <1>4 DEF SentAt
  <2>2. e = d BY <2>1 DEF DecodeSU, Fill
  <2>3. i + 1 \in Nat /\ i + 1 >= Len(plan) * (NSsu + 1) BY <1>2, <1>4 DEF NSsu
  <2>4. Done(i + 1) = Done(i) BY <1>4, <2>3, DoneIs
  <2>5. \A m \in Msgs, k \in 1..NSsu : i + 1 # At(m) + k
    <3> SUFFICES ASSUME NEW m \in Msgs, NEW k \in 1..NSsu PROVE i + 1 # At(m) + k OBVIOUS
    <3>1. m \in Nat /\ m <= Len(plan) /\ k <= 2 /\ k \in Nat BY <1>2 DEF NSsu
    <3> QED BY <1>2, <1>4, <3>1 DEF At, NSsu
  <2> HIDE DEF e
  <2>6. ExactDec(e, i + 1) BY <1>1, <2>2, <2>4, <2>5 DEF ExactDec
  <2> QED BY <2>6 DEF e
<1>5. ASSUME NEW m \in Msgs, NEW k \in 0..NSsu, i = At(m) + k, i \in Nat, Sent(i) = Su(m, k)
      PROVE  ExactDec(e, i + 1)
  <2>1. SentAt(i) = Su(m, k) BY <1>5 DEF SentAt
  <2>2. Done(i) = m - 1 BY <1>5, DoneIs
  <2>3. m \in Nat /\ m >= 1 /\ m - 1 \in Nat /\ (m - 1) + 1 = m BY <1>2
  <2>4. CASE k = 0
    <3>1. Su(m, 0).type = "71" BY DEF Su
    <3>2. e = update71(d, Su(m, 0)) BY <2>1, <2>4, <3>1 DEF DecodeSU
    <3> HIDE DEF e
    <3>3. e \in DecType /\ e.frags = d.frags /\ e.out = d.out /\ Midway(e, m, 1)
      BY <1>1, <3>2, StartExact
    <3>4. i + 1 = At(m) + 1 /\ 1 \in 0..NSsu BY <1>5, <2>3, <2>4 DEF At, NSsu
    <3>5. Done(i + 1) = m - 1 BY <3>4, DoneIs
    <3>6. ASSUME NEW n \in Msgs, NEW q \in 1..NSsu, i + 1 = At(n) + q PROVE Midway(e, n, q)
      <4>1. q \in 0..NSsu BY DEF NSsu
      <4>2. n = m /\ q = 1 BY <3>4, <3>6, <4>1, SamePlace
      <4> QED BY <3>3, <4>2
    <3> QED BY <1>1, <2>2, <3>3, <3>5, <3>6 DEF ExactDec
  <2>5. CASE k \in 1..NSsu
    <3>1. Su(m, k).type = "C0" BY <2>5 DEF Su, NSsu
    <3>2. e = updateC0(d, Su(m, k)) BY <2>1, <3>1 DEF DecodeSU
    <3>3. Midway(d, m, k) BY <1>5, <2>5 DEF ExactDec
    <3> HIDE DEF e
    <3>4. \/ ~plan[m].fits /\ e = d
          \/ /\ plan[m].fits
             /\ \E y \in ItemType, c \in DecType :
                  /\ Partial(y, m, k + 1) /\ Midway(c, m, k + 1)
                  /\ c.frags = d.frags /\ c.out = d.out /\ e = Complete(c, y)
      BY <1>1, <2>5, <3>2, <3>3, SsuExact
    <3>5. CASE k < NSsu
      <4>0. k = 1 /\ k + 1 \in 1..NSsu /\ k + 1 \in 0..NSsu BY <2>5, <3>5 DEF NSsu
      <4>1. e \in DecType /\ e.frags = d.frags /\ e.out = d.out /\ Midway(e, m, k + 1)
        <5>1. CASE ~plan[m].fits /\ e = d BY <1>1, <3>3, <5>1 DEF Midway
        <5>2. CASE plan[m].fits /\ ~(~plan[m].fits /\ e = d)
          <6>1. PICK y \in ItemType, c \in DecType :
                  /\ Partial(y, m, k + 1) /\ Midway(c, m, k + 1)
                  /\ c.frags = d.frags /\ c.out = d.out /\ e = Complete(c, y)
            BY <3>4, <5>2
          <6>2. y.seq = NSsu + 1 - (k + 1) BY <6>1 DEF Partial
          <6>3. y.seq # 0 BY <4>0, <6>2 DEF NSsu
          <6> QED BY <6>1, <6>3 DEF Complete
        <5> QED BY <3>4, <5>1, <5>2
      <4>2. i + 1 = At(m) + (k + 1) BY <1>5, <2>3, <4>0 DEF At, NSsu
      <4>3. Done(i + 1) = m - 1 BY <4>0, <4>2, DoneIs
      <4>4. ASSUME NEW n \in Msgs, NEW q \in 1..NSsu, i + 1 = At(n) + q PROVE Midway(e, n, q)
        <5>1. q \in 0..NSsu BY DEF NSsu
        <5>2. n = m /\ q = k + 1 BY <4>0, <4>2, <4>4, <5>1, SamePlace
        <5> QED BY <4>1, <5>2
      <4> QED BY <1>1, <2>2, <4>1, <4>3, <4>4 DEF ExactDec
    <3>6. CASE k = NSsu
      <4>1. i + 1 = At(m) + (NSsu + 1) BY <1>5, <2>3, <3>6 DEF At, NSsu
      <4>2. Done(i + 1) = m BY <4>1, DoneIs
      <4>3. ASSUME NEW n \in Msgs, NEW q \in 1..NSsu PROVE i + 1 # At(n) + q
        <5>1. n \in Nat /\ q \in 1..2 BY <1>2 DEF NSsu
        <5>2. At(n) = (n - 1) * 3 /\ At(m) = (m - 1) * 3 BY DEF At, NSsu
        <5> QED BY <2>3, <4>1, <5>1, <5>2 DEF NSsu
      <4>4. FragsExact(d.frags, m - 1) /\ OutExact(d.out, m - 1) BY <1>1, <2>2
      <4>5. e \in DecType /\ FragsExact(e.frags, m) /\ OutExact(e.out, m)
        <5>1. CASE ~plan[m].fits /\ e = d
          <6>1. ~IsBlock(m) /\ ~EndsText(m) BY <5>1 DEF IsBlock, EndsText
          <6> DEFINE x == m - 1
          <6>2. x \in Nat /\ x + 1 = m BY <2>3
          <6> HIDE DEF x
          <6>3. FragsExact(d.frags, x) /\ OutExact(d.out, x) BY <4>4 DEF x
          <6>4. FragsExact(d.frags, x + 1) BY <6>1, <6>2, <6>3, FragsSkip
          <6>5. OutExact(d.out, x + 1) BY <6>1, <6>2, <6>3, OutSkips
          <6> QED BY <1>1, <5>1, <6>2, <6>4, <6>5
        <5>2. CASE plan[m].fits /\ ~(~plan[m].fits /\ e = d)
          <6>1. PICK y \in ItemType, c \in DecType :
                  /\ Partial(y, m, k + 1) /\ Midway(c, m, k + 1)
                  /\ c.frags = d.frags /\ c.out = d.out /\ e = Complete(c, y)
            BY <3>4, <5>2
          <6>2. y.seq = NSsu + 1 - (k + 1) BY <6>1 DEF Partial
          <6>3. y.seq = 0 BY <3>6, <6>2 DEF NSsu
          <6>4. e = parse(c, y) BY <6>1, <6>3 DEF Complete
          <6> DEFINE x == m - 1
          <6>5. x \in Nat /\ x + 1 = m BY <2>3
          <6> HIDE DEF x
          <6>6. FragsExact(c.frags, x) /\ OutExact(c.out, x) BY <4>4, <6>1 DEF x
          <6>7. Partial(y, x + 1, NSsu + 1) BY <3>6, <6>1, <6>5
          <6>8. e \in DecType /\ FragsExact(e.frags, x + 1) /\ OutExact(e.out, x + 1)
            BY <5>2, <6>4, <6>5, <6>6, <6>7, FinishExact
          <6> QED BY <6>5, <6>8
        <5> QED BY <3>4, <5>1, <5>2
      <4> QED BY <4>2, <4>3, <4>5 DEF ExactDec
    <3> QED BY <2>5, <3>5, <3>6 DEF NSsu
  <2> QED BY <2>4, <2>5 DEF NSsu
<1>6. CASE i \in Nat
  <2>1. \/ i >= Len(plan) * (NSsu + 1) /\ Sent(i) = Fill
        \/ \E m \in Msgs, k \in 0..NSsu : i = At(m) + k /\ Sent(i) = Su(m, k)
    BY <1>6, SentIs
  <2> HIDE DEF e
  <2>2. ExactDec(e, i + 1) BY <1>4, <1>5, <1>6, <2>1 DEF e
  <2> QED BY <2>2 DEF e
<1> QED BY <1>3, <1>6

(* One frame more.                                                         *)
LEMMA FrameExact ==
  ASSUME plan \in Plans, Orderly, NEW i \in Int, NEW d, ExactDec(d, i), NEW f,
         \A s \in Places : f[s] = SentAt(i + s)
  PROVE  ExactDec(DecodeFrame(d, f), i + SUsPerFrame)
<1> DEFINE S == SUsPerFrame
<1>0. S \in Nat /\ S >= 1 BY DecoderAssumption
<1>1. PICK x : /\ x[0] = d
               /\ \A k \in 1..S : x[k] = DecodeSU(x[k - 1], f[k - 1])
               /\ DecodeFrame(d, f) = x[S]
  BY FrameSteps
<1> HIDE DEF S
<1> DEFINE P == {k \in 0..S : ExactDec(x[k], i + k)}
<1>2. 0 \in P
  <2>1. i + 0 = i /\ 0 \in 0..S BY <1>0
  <2> QED BY <1>1, <2>1
<1>3. ASSUME NEW k \in 0..S, k \in P, k < S PROVE k + 1 \in P
  <2>1. k \in Places /\ k + 1 \in 1..S /\ (k + 1) - 1 = k /\ k + 1 \in 0..S
    BY <1>0, <1>3 DEF Places, S
  <2>2. x[k + 1] = DecodeSU(x[k], SentAt(i + k)) BY <1>1, <2>1
  <2>3. i + k \in Int /\ (i + k) + 1 = i + (k + 1) BY <1>0
  <2>4. ExactDec(x[k], i + k) BY <1>3
  <2>5. ExactDec(x[k + 1], (i + k) + 1) BY <2>2, <2>3, <2>4, StepExact
  <2> QED BY <2>1, <2>3, <2>5
<1>4. S \in P
  <2> HIDE DEF P
  <2>1. P \in SUBSET (0..S) BY DEF P
  <2>2. P = 0..S BY <1>0, <1>2, <1>3, <2>1, UpTo
  <2> QED BY <1>0, <2>2
<1> QED BY <1>1, <1>4 DEF S

-----------------------------------------------------------------------------
(* The exact line.                                                         *)

(* What is defined from the plan alone does not change with the state.     *)
LEMMA TextKept ==
  ASSUME plan' = plan
  PROVE  /\ \A m : Whole(m)' = Whole(m) /\ BlockIdOf(m)' = BlockIdOf(m) /\ NewItem(m)' = NewItem(m)
         /\ \A m : UserData(m)' = UserData(m)
         /\ \A m : TextOf(m)' = TextOf(m)
         /\ \A m : EndsText(m)' <=> EndsText(m)
         /\ \A m : IsBlock(m)' <=> IsBlock(m)
         /\ \A i : Done(i)' = Done(i) /\ Sent(i)' = Sent(i) /\ SentAt(i)' = SentAt(i)
         /\ DecType' = DecType
         /\ Orderly' <=> Orderly
<1>1. \A m : BlockIdOf(m)' = BlockIdOf(m) BY DEF BlockIdOf, Earlier
<1>2. \A m : UserData(m)' = UserData(m) BY <1>1 DEF UserData
<1>3. \A m : Whole(m)' = Whole(m) BY <1>2 DEF Whole
<1>4. \A m : NewItem(m)' = NewItem(m) BY <1>2, PlanKept DEF NewItem
<1>5. \A m : TextOf(m)' = TextOf(m)
  <2>1. \A m : BlocksOf(m)' = BlocksOf(m) BY DEF BlocksOf
  <2> QED BY <2>1 DEF TextOf
<1>6. \A m : EndsText(m)' <=> EndsText(m) BY DEF EndsText
<1>7. \A m : IsBlock(m)' <=> IsBlock(m) BY DEF IsBlock
<1>8. \A i : Done(i)' = Done(i) BY DEF Done
<1>9. \A i : Sent(i)' = Sent(i) BY <1>2, PlanKept DEF Sent
<1>10. \A i : SentAt(i)' = SentAt(i) BY <1>9 DEF SentAt
<1>11. DecType' = DecType BY PlanKept DEF DecType, ItemType, BlockType, LastType
<1>12. Orderly' <=> Orderly
  <2> DEFINE Y(l, b) == {n \in (l + 1)..b : IsBlock(n)}
  <2>1. \A l, b : Y(l, b)' = Y(l, b) BY <1>7
  <2>2. Orderly <=> \A l, b \in DOMAIN plan :
           /\ l < b /\ IsBlock(l) /\ plan[l].more /\ IsBlock(b) /\ plan[b].aes = plan[l].aes
           /\ \A n \in (l + 1)..(b - 1) : IsBlock(n) => plan[n].aes # plan[l].aes
           => /\ \A n \in (l + 1)..(b - 1) : plan[n].kind = "acars" => plan[n].aes # plan[l].aes
              /\ Cardinality(Y(l, b)) <= KeepFrag
    BY Zenon DEF Orderly
  <2>3. Orderly' <=> \A l, b \in DOMAIN plan' :
           /\ l < b /\ IsBlock(l)' /\ plan'[l].more /\ IsBlock(b)' /\ plan'[b].aes = plan'[l].aes
           /\ \A n \in (l + 1)..(b - 1) : IsBlock(n)' => plan'[n].aes # plan'[l].aes
           => /\ \A n \in (l + 1)..(b - 1) : plan'[n].kind = "acars" => plan'[n].aes # plan'[l].aes
              /\ Cardinality(Y(l, b)') <= KeepFrag
    BY Zenon DEF Orderly
  <2> HIDE DEF Y
  <2> QED BY <1>7, <2>1, <2>2, <2>3
<1> QED BY <1>1, <1>2, <1>3, <1>4, <1>5, <1>6, <1>7, <1>8, <1>9, <1>10, <1>11, <1>12

(* The same for ExactDec.                                                  *)
LEMMA ExactKept ==
  ASSUME plan' = plan, NEW i, ExactDec(dec', i)
  PROVE  ExactDec(dec, i)'
<1>1. \A b, T : Spells(b, T)' <=> Spells(b, T) BY TextKept DEF Spells
<1>2. \A l, x : LastBlock(l, x)' <=> LastBlock(l, x) BY TextKept DEF LastBlock
<1>3. \A l, x : Younger(l, x)' = Younger(l, x) BY TextKept DEF Younger
<1>4. \A f, l, x : IsFrag(f, l, x)' <=> IsFrag(f, l, x)
  BY <1>1, <1>2, <1>3, TextKept DEF IsFrag
<1>5. \A s, x : FragsExact(s, x)' <=> FragsExact(s, x)
  BY <1>2, <1>3, <1>4 DEF FragsExact
<1>6. \A x : Ends(x)' = Ends(x) BY TextKept DEF Ends
<1>7. \A o, x : OutExact(o, x)' <=> OutExact(o, x) BY <1>1, <1>6, TextKept DEF OutExact
<1>8. \A y, m, k : Partial(y, m, k)' <=> Partial(y, m, k) BY TextKept, PlanKept DEF Partial
<1>9. \A d, m, k : Midway(d, m, k)' <=> Midway(d, m, k) BY <1>8, TextKept DEF Midway
<1> QED BY <1>5, <1>7, <1>9, TextKept, PlanKept DEF ExactDec

(* The SUs of the frame on the air that were sent.                         *)
Filled == IF onair = UwSlot THEN 0 ELSE onair

(* Frame f holds the SUs from number i.                                    *)
FrameAt(f, i) == \A s \in Places : f[s] = SentAt(i + s)

(* With base SUs sent in whole frames: the decoder is in step or has not   *)
(* started, the delay line holds the last frames and the decoder has       *)
(* decoded all the earlier ones.                                           *)
LineExact(base) ==
  /\ sent = IF base + Filled > LastSU THEN LastSU ELSE base + Filled
  /\ cntr = onair \/ (cntr = Idle /\ onair = UwSlot /\ base = 0)
  /\ \A s \in Places : s < Filled => block[s] = SentAt(base + s)
  /\ \A j \in 1..Late : FrameAt(held[j], base - (Late - j + 1) * SUsPerFrame)
  /\ ExactDec(dec, base - Late * SUsPerFrame)

(* The inductive invariant: that holds as long as nothing was lost.        *)
AeroExact ==
  /\ AeroInv /\ faults \in Nat
  /\ faults = 0 /\ Orderly => \E base \in Nat : LineExact(base)

(* A decoder that has heard nothing, before the first SU.                  *)
LEMMA EmptyExact ==
  ASSUME plan \in Plans, NEW i \in Int, i <= 0
  PROVE  ExactDec(EmptyDecoder, i)
<1>1. Done(i) = 0
  <2>1. i < 0 => Done(i) = 0 BY DoneIs
  <2>2. (0 - 1) \in Int /\ 0 - 1 < 0 /\ (0 - 1) + 1 = 0 OBVIOUS
  <2>3. Done(0) = 0 BY <2>2, DoneIs
  <2> QED BY <2>1, <2>3
<1> DEFINE d == EmptyDecoder
<1>2. d \in DecType BY DEF EmptyDecoder, DecType, LastType, AesSet
<1>3. d.frags = <<>> /\ d.out = <<>> BY DEF EmptyDecoder
<1>4. FragsExact(<<>>, 0)
  <2>1. \A l : ~LastBlock(l, 0) BY DEF LastBlock
  <2>2. 1..Len(<<>>) = {} OBVIOUS
  <2> QED BY <2>1, <2>2 DEF FragsExact
<1>5. OutExact(<<>>, 0)
  <2>1. Ends(0) = {} BY DEF Ends
  <2>2. Cardinality(Ends(0)) = 0 BY <2>1, FS_EmptySet
  <2> QED BY <2>1, <2>2 DEF OutExact
<1>6. \A m \in Msgs, k \in 1..NSsu : i # At(m) + k
  <2>1. \A m \in Msgs : m \in Nat /\ m >= 1 BY PlanType DEF Msgs
  <2> QED BY <2>1 DEF At, NSsu
<1> HIDE DEF d
<1>7. ExactDec(d, i) BY <1>1, <1>2, <1>3, <1>4, <1>5, <1>6 DEF ExactDec
<1> QED BY <1>7 DEF d

(* Deleting all items before the first message loses nothing: this is what *)
(* the first unique word does.                                             *)
LEMMA ForgetExact ==
  ASSUME plan \in Plans, NEW i \in Int, i <= 0, NEW d, ExactDec(d, i)
  PROVE  ExactDec([d EXCEPT !.isuitems = <<>>], i)
<1> DEFINE none == <<>>
           e == [d EXCEPT !.isuitems = none]
<1>1. none \in Seq(ItemType) OBVIOUS
<1> HIDE DEF none
<1>2. d \in DecType BY DEF ExactDec
<1>3. e = [isuitems |-> none, last |-> d.last, frags |-> d.frags, out |-> d.out]
  BY <1>2, DecShape
<1>4. e \in DecType BY <1>1, <1>2, <1>3 DEF DecType
<1>5. e.frags = d.frags /\ e.out = d.out BY <1>3
<1>6. \A m \in Msgs, k \in 1..NSsu : i # At(m) + k
  <2>1. \A m \in Msgs : m \in Nat /\ m >= 1 BY PlanType DEF Msgs
  <2> QED BY <2>1 DEF At, NSsu
<1> HIDE DEF e
<1>7. ExactDec(e, i) BY <1>4, <1>5, <1>6 DEF ExactDec
<1> QED BY <1>7 DEF e, none

(* The invariant holds initially.                                          *)
LEMMA ExactInit == Init => AeroExact
<1> SUFFICES ASSUME Init PROVE AeroExact OBVIOUS
<1>1. AeroInv BY AeroInitInv
<1>2. /\ plan \in Plans /\ onair = UwSlot /\ sent = 0 /\ faults = 0 /\ cntr = Idle
      /\ block = [s \in 0..(SUsPerFrame - 1) |-> Bad] /\ held = [f \in 1..Late |-> block]
      /\ dec = EmptyDecoder
  BY DEF Init
<1>3. /\ SUsPerFrame \in Nat /\ SUsPerFrame >= 1 /\ Late \in Nat /\ Late >= 1
      /\ (Late = 1 \/ Late = 2) /\ Len(plan) \in Nat
  BY <1>2, DecoderAssumption, LateIs, PlanType
<1>4. Filled = 0 BY <1>2 DEF Filled
<1>5. LastSU \in Nat
  <2>1. CASE Late = 1 BY <1>3, <2>1 DEF LastSU, NSsu
  <2>2. CASE Late = 2 BY <1>3, <2>2 DEF LastSU, NSsu
  <2> QED BY <1>3, <2>1, <2>2
<1>6. ASSUME NEW j \in 1..Late PROVE FrameAt(held[j], 0 - (Late - j + 1) * SUsPerFrame)
  <2>1. held[j] = block BY <1>2
  <2>2. ASSUME NEW s \in Places
        PROVE  block[s] = SentAt((0 - (Late - j + 1) * SUsPerFrame) + s)
    <3>1. (0 - (Late - j + 1) * SUsPerFrame) + s < 0
      <4>1. Late - j + 1 \in Nat /\ Late - j + 1 >= 1 /\ s \in Nat /\ s < SUsPerFrame
        BY <1>3 DEF Places
      <4>2. Late - j + 1 = 1 \/ Late - j + 1 = 2 BY <1>3
      <4> DEFINE q == Late - j + 1
      <4> HIDE DEF q
      <4>3. CASE q = 1 BY <1>3, <4>1, <4>3 DEF q
      <4>4. CASE q = 2
        <5>1. q * SUsPerFrame = 2 * SUsPerFrame BY <4>4
        <5>2. (0 - q * SUsPerFrame) + s < 0 BY <1>3, <4>1, <5>1
        <5> QED BY <5>2 DEF q
      <4> QED BY <4>2, <4>3, <4>4 DEF q
    <3>2. block[s] = Bad BY <1>2 DEF Places
    <3> QED BY <3>1, <3>2 DEF SentAt
  <2> QED BY <2>1, <2>2 DEF FrameAt
<1>7. ExactDec(dec, 0 - Late * SUsPerFrame)
  <2>1. 0 - Late * SUsPerFrame \in Int /\ 0 - Late * SUsPerFrame <= 0
    <3>1. CASE Late = 1 BY <1>3, <3>1
    <3>2. CASE Late = 2 BY <1>3, <3>2
    <3> QED BY <1>3, <3>1, <3>2
  <2> QED BY <1>2, <2>1, EmptyExact
<1>8. \A s \in Places : ~(s < Filled) BY <1>3, <1>4 DEF Places
<1>9. sent = IF 0 + Filled > LastSU THEN LastSU ELSE 0 + Filled BY <1>2, <1>4, <1>5
<1>10. LineExact(0) BY <1>2, <1>6, <1>7, <1>8, <1>9 DEF LineExact
<1> QED BY <1>1, <1>2, <1>10 DEF AeroExact

(* A slot received keeps the line exact.                                   *)
LEMMA ReceiveExact ==
  ASSUME AeroInv, Orderly, NEW base \in Nat, LineExact(base), Receive
  PROVE  \E next \in Nat : LineExact(next)'
<1> DEFINE S == SUsPerFrame
           C == Filled
<1>1. AeroTypeOK BY DEF AeroInv
<1>2. /\ plan \in Plans /\ S \in Nat /\ S >= 1 /\ S < Idle /\ Idle \in Nat
      /\ onair \in 0..S /\ cntr \in 0..S \cup {Idle} /\ held \in Seq(Frames) /\ Len(held) = Late
      /\ block \in Frames /\ sent \in Nat
      /\ Late \in Nat /\ (Late = 1 \/ Late = 2) /\ Len(plan) \in Nat
  BY <1>1, DecoderAssumption, LateIs, PlanType DEF AeroTypeOK, Idle
<1>3. /\ plan' = plan /\ useingOQPSK' = useingOQPSK /\ onair' = (onair + 1) % (S + 1)
      /\ sent' = IF onair = S \/ sent = LastSU THEN sent ELSE sent + 1
  BY DEF Receive, Transmit, UwSlot, TotalSlots
<1>4. Late' = Late /\ LastSU' = LastSU BY <1>3 DEF Late, LastSU
<1>5. LastSU \in Nat /\ LastSU >= Len(plan) * (NSsu + 1)
  <2>1. CASE Late = 1 BY <1>2, <2>1 DEF LastSU, NSsu
  <2>2. CASE Late = 2 BY <1>2, <2>2 DEF LastSU, NSsu
  <2> QED BY <1>2, <2>1, <2>2
<1>6. /\ sent = IF base + C > LastSU THEN LastSU ELSE base + C
      /\ cntr = onair \/ (cntr = Idle /\ onair = UwSlot /\ base = 0)
      /\ \A s \in Places : s < C => block[s] = SentAt(base + s)
      /\ \A j \in 1..Late : FrameAt(held[j], base - (Late - j + 1) * S)
      /\ ExactDec(dec, base - Late * S)
  BY DEF LineExact
<1> DEFINE su == IF TRUE /\ Aligned /\ onair # UwSlot THEN Sent(sent) ELSE Bad
           gotsync == TRUE /\ onair = UwSlot /\ Searched
           done == cntr = S - 1
           received == IF cntr < S THEN [block EXCEPT ![cntr] = su] ELSE block
           decoded == IF done THEN DecodeFrame(dec, Head(held)) ELSE dec
<1>7. /\ block' = received
      /\ held' = IF done THEN Append(Tail(held), received) ELSE held
      /\ dec' = IF gotsync /\ cntr + 1 # TotalSlots
                THEN [decoded EXCEPT !.isuitems = <<>>]
                ELSE decoded
      /\ cntr' = IF gotsync \/ cntr + 1 = TotalSlots THEN 0
                 ELSE IF cntr = Idle THEN Idle ELSE cntr + 1
  BY DEF Receive, Slot
<1>9. ASSUME NEW i, ExactDec(dec', i) PROVE ExactDec(dec, i)' BY <1>3, <1>9, ExactKept
<1>10. base - Late * S \in Int
  <2>1. CASE Late = 1 BY <1>2, <2>1
  <2>2. CASE Late = 2 BY <1>2, <2>2
  <2> QED BY <1>2, <2>1, <2>2
<1>11. CASE onair = S
  <2>1. C = 0 /\ UwSlot = S BY <1>11 DEF Filled, UwSlot
  <2>2. ~(cntr < S) /\ ~done /\ received = block /\ decoded = dec BY <1>2, <1>6, <1>11
  <2>3. gotsync BY <1>6, <1>11, <2>1 DEF Searched
  <2>4. onair' = 0 /\ sent' = sent /\ cntr' = 0 /\ block' = block /\ held' = held
    <3>1. (S + 1) % (S + 1) = 0 BY <1>2
    <3> HIDE DEF gotsync, received, done, decoded
    <3> QED BY <1>3, <1>7, <1>11, <2>2, <2>3, <3>1
  <2>5. Filled' = 0 BY <1>2, <2>4 DEF Filled, UwSlot
  <2>6. ExactDec(dec', base - Late * S)
    <3>1. CASE cntr = S
      <4>1. cntr + 1 = TotalSlots BY <3>1 DEF TotalSlots
      <4>2. dec' = dec BY <1>7, <2>2, <4>1
      <4> QED BY <1>6, <4>2
    <3>2. CASE cntr # S
      <4>1. base = 0 /\ cntr = Idle BY <1>6, <1>11, <3>2
      <4>2. base - Late * S <= 0
        <5>1. CASE Late = 1 BY <1>2, <4>1, <5>1
        <5>2. CASE Late = 2 BY <1>2, <4>1, <5>2
        <5> QED BY <1>2, <5>1, <5>2
      <4>3. cntr + 1 # TotalSlots BY <1>2, <4>1 DEF TotalSlots
      <4>4. dec' = [dec EXCEPT !.isuitems = <<>>] BY <1>7, <2>2, <2>3, <4>3
      <4> QED BY <1>2, <1>6, <1>10, <4>2, <4>4, ForgetExact
    <3> QED BY <3>1, <3>2
  <2> HIDE DEF gotsync, received, done, decoded, su
  <2>7. \A j \in 1..Late' : FrameAt(held[j], base - (Late - j + 1) * S)'
    <3> SUFFICES ASSUME NEW j \in 1..Late PROVE FrameAt(held[j], base - (Late - j + 1) * S)'
      BY <1>4
    <3>1. FrameAt(held[j], base - (Late - j + 1) * S) BY <1>6
    <3>2. held'[j] = held[j] /\ Late' = Late BY <1>4, <2>4
    <3> QED BY <1>3, <3>1, <3>2, TextKept DEF FrameAt
  <2>8. ExactDec(dec, base - Late * S)' BY <1>4, <1>9, <2>6
  <2>9. \A s \in Places : ~(s < Filled') BY <1>2, <2>5 DEF Places
  <2>10. sent' = IF base + Filled' > LastSU' THEN LastSU' ELSE base + Filled'
    BY <1>4, <1>6, <2>1, <2>4, <2>5
  <2>11. LineExact(base)'
    BY <2>4, <2>7, <2>8, <2>9, <2>10 DEF LineExact
  <2> QED BY <2>11
<1>12. CASE onair # S
  <2> DEFINE c == onair
  <2>1. /\ C = c /\ cntr = c /\ c \in 0..(S - 1) /\ c \in Places /\ c \in Nat /\ UwSlot = S
    BY <1>2, <1>6, <1>12 DEF Filled, UwSlot, Places
  <2>2. su = Sent(sent) /\ ~gotsync BY <1>12, <2>1 DEF Aligned, UwSlot
  <2>3. su = SentAt(base + c)
    <3>1. CASE base + c > LastSU
      <4>1. sent = LastSU BY <1>6, <2>1, <3>1
      <4>2. /\ Sent(LastSU) = Fill \/ \E m \in Msgs, k \in 0..NSsu : LastSU = At(m) + k
            /\ Sent(base + c) = Fill \/ \E m \in Msgs, k \in 0..NSsu : base + c = At(m) + k
        BY <1>2, <1>5, <2>1, SentIs
      <4>3. \A m \in Msgs, k \in 0..NSsu : At(m) + k < Len(plan) * (NSsu + 1)
        <5>1. \A m \in Msgs : m \in Nat /\ m <= Len(plan) BY <1>2 DEF Msgs
        <5> QED BY <1>2, <5>1 DEF At, NSsu
      <4>4. base + c >= Len(plan) * (NSsu + 1) /\ Len(plan) * (NSsu + 1) \in Nat
        BY <1>2, <1>5, <2>1, <3>1 DEF NSsu
      <4>5. \A m \in Msgs, k \in 0..NSsu : At(m) + k \in Nat BY <1>2 DEF At, NSsu, Msgs
      <4>6. Sent(LastSU) = Fill BY <1>5, <4>2, <4>3, <4>4, <4>5
      <4>7. Sent(base + c) = Fill BY <2>1, <4>2, <4>3, <4>4, <4>5
      <4> QED BY <2>1, <2>2, <4>1, <4>6, <4>7 DEF SentAt
    <3>2. CASE ~(base + c > LastSU)
      <4>1. sent = base + c /\ ~(base + c < 0) BY <1>6, <2>1, <3>2
      <4> QED BY <2>2, <4>1 DEF SentAt
    <3> QED BY <3>1, <3>2
  <2>4. /\ block' = [block EXCEPT ![c] = su]
        /\ cntr' = c + 1 /\ onair' = c + 1 /\ dec' = decoded
    <3>1. (c + 1) % (S + 1) = c + 1 BY <1>2, <2>1
    <3>2. cntr + 1 # TotalSlots /\ cntr # Idle /\ cntr < S BY <1>2, <2>1 DEF TotalSlots
    <3>3. received = [block EXCEPT ![c] = su] BY <2>1, <3>2
    <3> HIDE DEF gotsync, received, done, decoded, su
    <3> QED BY <1>3, <1>7, <2>1, <2>2, <3>1, <3>2, <3>3
  <2>5. \A s \in Places : s < c + 1 => block'[s] = SentAt(base + s)
    <3> HIDE DEF su
    <3> SUFFICES ASSUME NEW s \in Places, s < c + 1 PROVE block'[s] = SentAt(base + s) OBVIOUS
    <3>1. DOMAIN block = Places BY <1>2 DEF Frames, Places
    <3>2. CASE s = c BY <2>1, <2>3, <2>4, <3>1, <3>2
    <3>3. CASE s # c
      <4>1. s < c BY <2>1, <3>3 DEF Places
      <4>2. block'[s] = block[s] BY <2>4, <3>1, <3>3
      <4> QED BY <1>6, <2>1, <4>1, <4>2
    <3> QED BY <3>2, <3>3
  <2>6. sent' = IF base + (c + 1) > LastSU THEN LastSU ELSE base + (c + 1)
    BY <1>3, <1>5, <1>6, <1>12, <2>1
  <2>7. \A s : SentAt(s)' = SentAt(s) BY <1>3, TextKept
  <2>8. CASE c + 1 < S
    <3>1. ~done /\ Filled' = c + 1 BY <1>2, <2>1, <2>4, <2>8 DEF Filled, UwSlot
    <3>2. held' = held /\ dec' = dec BY <1>7, <2>4, <3>1
    <3> HIDE DEF gotsync, received, done, decoded, su
    <3>3. \A j \in 1..Late' : FrameAt(held[j], base - (Late - j + 1) * S)'
      <4> SUFFICES ASSUME NEW j \in 1..Late PROVE FrameAt(held[j], base - (Late - j + 1) * S)'
        BY <1>4
      <4>1. FrameAt(held[j], base - (Late - j + 1) * S) BY <1>6
      <4>2. held'[j] = held[j] /\ Late' = Late BY <1>4, <3>2
      <4> QED BY <1>3, <4>1, <4>2, TextKept DEF FrameAt
    <3>4. ExactDec(dec', base - Late * S) BY <1>6, <3>2
    <3>5. ExactDec(dec, base - Late * S)' BY <1>4, <1>9, <3>4
    <3>6. \A s \in Places : s < Filled' => block'[s] = SentAt(base + s)' BY <2>5, <2>7, <3>1
    <3>7. sent' = IF base + Filled' > LastSU' THEN LastSU' ELSE base + Filled'
      BY <1>4, <2>6, <3>1
    <3>8. LineExact(base)' BY <2>4, <3>3, <3>5, <3>6, <3>7 DEF LineExact
    <3> QED BY <3>8
  <2>9. CASE ~(c + 1 < S)
    <3>1. done /\ c + 1 = S /\ Filled' = 0 BY <1>2, <2>1, <2>4, <2>9 DEF Filled, UwSlot
    <3>2. held' = Append(Tail(held), block') /\ dec' = DecodeFrame(dec, Head(held))
      BY <1>7, <2>4, <3>1
    <3> HIDE DEF gotsync, received, done, decoded, su
    <3> DEFINE next == base + S
    <3>3. next \in Nat BY <1>2
    <3>b. block' \in Frames
      <4>1. SentAt(base + c) \in SUs
        <5>1. base + c \in Nat BY <2>1
        <5> QED BY <1>2, <5>1, SentSU DEF SentAt
      <4> QED BY <1>2, <2>3, <2>4, <4>1 DEF Frames
    <3>4. /\ Head(held) = held[1] /\ 1 \in 1..Late
          /\ \A j \in 1..Late : j < Late => held'[j] = held[j + 1] /\ j + 1 \in 1..Late
          /\ held'[Late] = block'
      <4>1. Len(held) >= 1 /\ held # <<>> BY <1>2
      <4>2. Len(Tail(held)) = Late - 1 /\ Tail(held) \in Seq(Frames)
            /\ \A j \in 1..(Late - 1) : Tail(held)[j] = held[j + 1]
        BY <1>2, <4>1
      <4> QED BY <1>2, <3>2, <3>b, <4>1, <4>2
    <3>5. FrameAt(block', base)
      <4>1. \A s \in Places : s < c + 1 BY <1>2, <3>1 DEF Places
      <4> QED BY <2>5, <4>1 DEF FrameAt
    <3>6. ASSUME NEW j \in 1..Late PROVE FrameAt(held'[j], next - (Late - j + 1) * S)
      <4>1. CASE j = Late
        <5>1. next - (Late - j + 1) * S = base BY <1>2, <4>1
        <5> QED BY <3>4, <3>5, <4>1, <5>1
      <4>2. CASE j # Late
        <5>1. j < Late /\ j + 1 \in 1..Late BY <1>2, <4>2
        <5>2. FrameAt(held[j + 1], base - (Late - (j + 1) + 1) * S) BY <1>6, <5>1
        <5>3. j = 1 /\ Late = 2 BY <1>2, <5>1
        <5>4. next - (Late - j + 1) * S = base - (Late - (j + 1) + 1) * S
          <6>1. next - (2 - 1 + 1) * S = base - (2 - (1 + 1) + 1) * S BY <1>2
          <6> QED BY <5>3, <6>1
        <5> QED BY <3>4, <5>1, <5>2, <5>4
      <4> QED BY <4>1, <4>2
    <3>7. \A j \in 1..Late' : FrameAt(held[j], next - (Late - j + 1) * S)'
      <4> SUFFICES ASSUME NEW j \in 1..Late PROVE FrameAt(held[j], next - (Late - j + 1) * S)'
        BY <1>4
      <4>1. FrameAt(held'[j], next - (Late - j + 1) * S) BY <3>6
      <4> HIDE DEF next
      <4> QED BY <1>4, <2>7, <4>1 DEF FrameAt
    <3>8. ExactDec(dec', next - Late * S)
      <4>1. FrameAt(held[1], base - Late * S)
        <5>1. FrameAt(held[1], base - (Late - 1 + 1) * S) BY <1>6, <3>4
        <5>2. Late - 1 + 1 = Late BY <1>2
        <5> QED BY <5>1, <5>2
      <4>2. ExactDec(DecodeFrame(dec, held[1]), (base - Late * S) + S)
        <5>1. \A s \in Places : held[1][s] = SentAt((base - Late * S) + s) BY <4>1 DEF FrameAt
        <5> QED BY <1>2, <1>6, <1>10, <5>1, FrameExact
      <4>3. (base - Late * S) + S = next - Late * S
        <5>1. CASE Late = 1 BY <1>2, <5>1
        <5>2. CASE Late = 2 BY <1>2, <5>2
        <5> QED BY <1>2, <5>1, <5>2
      <4> QED BY <3>2, <3>4, <4>2, <4>3
    <3>9. ExactDec(dec, next - Late * S)' BY <1>4, <1>9, <3>8
    <3>10. \A s \in Places : ~(s < Filled') BY <1>2, <3>1 DEF Places
    <3>11. sent' = IF next + Filled' > LastSU' THEN LastSU' ELSE next + Filled'
      BY <1>2, <1>4, <2>1, <2>6, <3>1
    <3>12. cntr' = onair' BY <2>4
    <3> HIDE DEF next
    <3>13. LineExact(next)' BY <3>7, <3>9, <3>10, <3>11, <3>12 DEF LineExact
    <3> QED BY <3>3, <3>13
  <2> QED BY <2>8, <2>9
<1> QED BY <1>11, <1>12

(* Every step keeps the invariant.                                         *)
LEMMA ExactStep == AeroExact /\ [Next]_vars => AeroExact'
<1> SUFFICES ASSUME AeroExact, [Next]_vars PROVE AeroExact' OBVIOUS
<1>1. AeroInv /\ AeroInv' /\ faults \in Nat BY AeroStep DEF AeroExact
<1>2. ASSUME faults' \in Nat, faults' # 0 PROVE AeroExact' BY <1>1, <1>2 DEF AeroExact
<1>3. CASE Receive
  <2>1. faults' = faults /\ plan' = plan BY <1>3 DEF Receive, Transmit
  <2>2. Orderly' <=> Orderly BY <2>1, TextKept
  <2>3. ASSUME faults = 0, Orderly PROVE \E next \in Nat : LineExact(next)'
    <3>1. PICK base \in Nat : LineExact(base) BY <2>3 DEF AeroExact
    <3> QED BY <1>1, <1>3, <2>3, <3>1, ReceiveExact
  <2> QED BY <1>1, <2>1, <2>2, <2>3 DEF AeroExact
<1>4. CASE ReceiveDamaged BY <1>1, <1>2, <1>4 DEF ReceiveDamaged
<1>5. CASE Slip BY <1>1, <1>2, <1>5 DEF Slip
<1>6. CASE LostSignal BY <1>1, <1>2, <1>6 DEF LostSignal
<1>7. CASE UNCHANGED vars
  <2>1. /\ plan' = plan /\ useingOQPSK' = useingOQPSK /\ onair' = onair /\ sent' = sent
        /\ faults' = faults /\ cntr' = cntr /\ block' = block /\ held' = held /\ dec' = dec
    BY <1>7 DEF vars
  <2>2. Orderly' <=> Orderly BY <2>1, TextKept
  <2>3. Late' = Late /\ LastSU' = LastSU /\ Filled' = Filled
    BY <2>1 DEF Late, LastSU, Filled
  <2>4. ASSUME NEW base \in Nat, LineExact(base) PROVE LineExact(base)'
    <3>1. ExactDec(dec', base - Late * SUsPerFrame) BY <2>1, <2>4 DEF LineExact
    <3>2. ExactDec(dec, base - Late * SUsPerFrame)' BY <2>1, <2>3, <3>1, ExactKept
    <3>3. \A i : SentAt(i)' = SentAt(i) BY <2>1, TextKept
    <3>4. \A j \in 1..Late' : FrameAt(held[j], base - (Late - j + 1) * SUsPerFrame)'
      <4> SUFFICES ASSUME NEW j \in 1..Late
                   PROVE  FrameAt(held[j], base - (Late - j + 1) * SUsPerFrame)'
        BY <2>3
      <4>1. FrameAt(held[j], base - (Late - j + 1) * SUsPerFrame) BY <2>4 DEF LineExact
      <4> QED BY <2>1, <2>3, <3>3, <4>1 DEF FrameAt
    <3>5. \A s \in Places : s < Filled' => block'[s] = SentAt(base + s)'
      BY <2>1, <2>3, <2>4, <3>3 DEF LineExact
    <3>6. /\ sent' = IF base + Filled' > LastSU' THEN LastSU' ELSE base + Filled'
          /\ cntr' = onair' \/ (cntr' = Idle /\ onair' = UwSlot /\ base = 0)
      BY <2>1, <2>3, <2>4 DEF LineExact
    <3> QED BY <3>2, <3>4, <3>5, <3>6 DEF LineExact
  <2> QED BY <1>1, <2>1, <2>2, <2>4 DEF AeroExact
<1> QED BY <1>3, <1>4, <1>5, <1>6, <1>7 DEF Next

(* The messages that left the delay line are those whose SUs were all      *)
(* decoded, also when the transmitter only sends fill-in SUs.              *)
LEMMA PassedIs ==
  ASSUME AeroTypeOK, NEW base \in Nat, LineExact(base)
  PROVE  Passed = 1..Done(base - Late * SUsPerFrame)
<1> DEFINE S == SUsPerFrame
           C == Filled
           N == Len(plan)
           H == Late * S
           i == base - H
           n == (sent - (H + C)) \div 3
<1>1. /\ plan \in Plans /\ S \in Nat /\ S >= 1 /\ N \in Nat /\ onair \in 0..S
      /\ (Late = 1 \/ Late = 2)
  BY DecoderAssumption, LateIs, PlanType DEF AeroTypeOK
<1>2. H \in Nat /\ LastSU = N * 3 + H + S
  <2>1. CASE Late = 1 BY <1>1, <2>1 DEF LastSU, NSsu
  <2>2. CASE Late = 2 BY <1>1, <2>2 DEF LastSU, NSsu
  <2> QED BY <1>1, <2>1, <2>2
<1>3. C \in Nat /\ C < S BY <1>1 DEF Filled, UwSlot
<1>4. sent = IF base + C > LastSU THEN LastSU ELSE base + C BY DEF LineExact
<1>5. Passed = IF n < 0 THEN {} ELSE {m \in 1..n : m <= N}
  BY DEF Passed, Filled, NSsu
<1>6. Done(i) = IF i < 0 THEN 0 ELSE IF i \div 3 > N THEN N ELSE i \div 3 BY DEF Done, NSsu
<1> HIDE DEF S, C, N, H
<1>7. CASE base + C > LastSU
  <2>1. sent - (H + C) = N * 3 + (S - C) /\ i >= N * 3 /\ i \in Nat
    BY <1>1, <1>2, <1>3, <1>4, <1>7
  <2>2. n \in Nat /\ n >= N
    <3> DEFINE q == N * 3 + (S - C)
    <3>1. q \in Nat /\ q >= N * 3 BY <1>1, <1>3
    <3>2. q \div 3 \in Nat /\ q \div 3 >= N
      <4> HIDE DEF q
      <4> QED BY <1>1, <3>1
    <3> QED BY <2>1, <3>2
  <2>3. Done(i) = N
    <3>1. i \div 3 \in Nat /\ i \div 3 >= N
      <4> HIDE DEF i
      <4> QED BY <1>1, <2>1
    <3> HIDE DEF i
    <3> QED BY <1>1, <1>6, <2>1, <3>1
  <2> HIDE DEF n, i
  <2>4. {m \in 1..n : m <= N} = 1..N BY <1>1, <2>2
  <2>5. ~(n < 0) BY <2>2
  <2> QED BY <1>5, <2>3, <2>4, <2>5 DEF i, H, S
<1>8. CASE ~(base + C > LastSU)
  <2>1. sent - (H + C) = i /\ i \in Int BY <1>2, <1>3, <1>4, <1>8
  <2>2. n = i \div 3 BY <2>1
  <2> HIDE DEF n, i
  <2>3. CASE i < 0
    <3>1. n < 0 BY <2>1, <2>2, <2>3
    <3>2. Done(i) = 0 BY <1>6, <2>3
    <3> QED BY <1>5, <3>1, <3>2 DEF i, H, S
  <2>4. CASE ~(i < 0)
    <3>1. n \in Nat BY <2>1, <2>2, <2>4
    <3>2. Done(i) = IF n > N THEN N ELSE n BY <1>6, <2>2, <2>4
    <3>3. {m \in 1..n : m <= N} = 1..Done(i) BY <1>1, <3>1, <3>2
    <3>4. ~(n < 0) BY <3>1
    <3> QED BY <1>5, <3>3, <3>4 DEF i, H, S
  <2> QED BY <2>3, <2>4
<1> QED BY <1>7, <1>8

(* The invariant implies the property.                                     *)
LEMMA ExactText == AeroExact => LosslessIsExact
<1> SUFFICES ASSUME AeroExact, Lossless, Orderly
             PROVE  LET ends == {m \in Passed : EndsText(m)}
                    IN  /\ Len(dec.out) = Cardinality(ends)
                        /\ \A m \in ends :
                             LET text == dec.out[Rank(m, ends)].blocks
                             IN  /\ Len(text) = Cardinality(TextOf(m))
                                 /\ \A b \in TextOf(m) : text[Rank(b, TextOf(m))] = Whole(b)
  BY DEF LosslessIsExact
<1>1. PICK base \in Nat : LineExact(base) BY DEF AeroExact, Lossless
<1>2. AeroTypeOK BY DEF AeroExact, AeroInv
<1> DEFINE x == Done(base - Late * SUsPerFrame)
<1>3. Passed = 1..x BY <1>1, <1>2, PassedIs
<1>4. OutExact(dec.out, x) BY <1>1 DEF LineExact, ExactDec
<1> HIDE DEF x
<1>5. {m \in Passed : EndsText(m)} = Ends(x) BY <1>3 DEF Ends
<1> QED BY <1>4, <1>5 DEF OutExact, Spells

(* For every plan, frame size and modulation: while nothing is lost the    *)
(* callback gets exactly the texts that were sent, in order and whole      *)
(* (AeroL::Decode, ISUData::update, ACARSDefragmenter::defragment).        *)
THEOREM LosslessTexts == Spec => []LosslessIsExact
<1>1. Init => AeroExact BY ExactInit
<1>2. AeroExact /\ [Next]_vars => AeroExact' BY ExactStep
<1>3. AeroExact => LosslessIsExact BY ExactText
<1> QED BY <1>1, <1>2, <1>3, PTL DEF Spec

=============================================================================
