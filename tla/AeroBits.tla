------------------------------ MODULE AeroBits ------------------------------
(***************************************************************************)
(* aerol.cpp, aerol.h, jconvolutionalcodec.cpp: the way of the bits of a   *)
(* continuous channel from the demodulator to the signal units, with the   *)
(* sizes of the code.  libcorrect's Viterbi decoder is external: it turns  *)
(* two coded bits into the bit they carry, so that a coded stream is       *)
(* written as the sequence of the bits it carries, each standing for its   *)
(* two coded bits.  A bit is the number it has in the transmitter's stream.*)
(***************************************************************************)
EXTENDS Integers, Sequences, FiniteSets

(* setSettings: coded bits per block, blocks per frame, length of dl2, and *)
(* the frames that the data are late by.                                   *)
Rates ==
  { [block |-> 6 * 64,  blocks |-> 3, dl2 |-> 576 - 6,  late |-> 1],    \* 600
    [block |-> 9 * 64,  blocks |-> 2, dl2 |-> 576 - 6,  late |-> 1],    \* 1200
    [block |-> 78 * 64, blocks |-> 1, dl2 |-> 4992 - 6, late |-> 2] }   \* 10500

-----------------------------------------------------------------------------
(* AeroLInterleaver: blocks of 64 rows, numbered from 0 *)

interleaverowdepermute == [i \in 0..63 |-> (i * 27) % 64]
interleaverowpermute == [j \in 0..63 |-> CHOOSE i \in 0..63 : (i * 27) % 64 = j]

interleave(block, N) ==
  [k \in 0..(64 * N - 1) |-> block[interleaverowpermute[k \div N] + 64 * (k % N)]]

deinterleave(block, cols) ==
  [k \in 0..(64 * cols - 1) |-> block[interleaverowdepermute[k % 64] * cols + k \div 64]]

-----------------------------------------------------------------------------
(* JConvolutionalCodec::Decode_Continuous *)

Overlap == 62   \* coded bits kept from the last call
Padding == 24   \* neutral coded bits put behind the block
NoBit == -1     \* what padding decodes to

(* Blocks 0, 1, ... of n bits each; block 0 finds an empty buffer.  The    *)
(* bits kept from the block before, the number of bits that the call for   *)
(* block b returns, and the i-th of them.                                  *)
Kept(b) == IF b = 0 THEN 0 ELSE Overlap \div 2

Returned(b, n) ==
  LET all == Kept(b) + n + Padding \div 2
  IN  IF Padding + 1 + n > all THEN all - (Padding + 1) ELSE n

Decode_Continuous(b, n, i) ==
  LET pos == Padding + 1 + i - Kept(b)   \* the place in block b
  IN  IF pos <= n THEN b * n + pos ELSE NoBit

(* PuncturedCode::depunture_soft_block: in front of every pattern-th bit a *)
(* neutral one is put in again; the last source bit is dropped.            *)
depuncture(source, pattern) ==
  LET n == Len(source) - 1
      m == n + n \div (pattern - 1)
  IN  [i \in 1..m |-> IF i % pattern = 0 THEN NoBit
                      ELSE source[i - i \div pattern]]

(* DelayLine::update: a buffer of length + 1 that is read one place behind *)
(* the one written delays its input, whose t-th bit is In(t), by length.   *)
DelayLine(In(_), length, t) == IF t > length THEN In(t - length) ELSE NoBit

-----------------------------------------------------------------------------
(* AeroL::Decode *)

BlockBits(r) == r.block \div 2
FrameBits(r) == BlockBits(r) * r.blocks

(* The t-th bit out of the Viterbi decoder, over all calls. *)
DecodedStream(n, t) ==
  LET first == Returned(0, n)
      b == ((t - first - 1) \div n) + 1
  IN  IF t <= first THEN Decode_Continuous(0, n, t)
      ELSE Decode_Continuous(b, n, t - first - (b - 1) * n)

(* Once the decoder runs, frame f comes out as frame f + late, every bit   *)
(* in its place, so that the scrambler and the SUs are where Decode looks  *)
(* for them.                                                               *)
FramesAligned(r) ==
  LET n == BlockBits(r)
      start == Returned(0, n) - n + (r.late + 1) * FrameBits(r)
  IN  \A i \in 1..FrameBits(r) :
        DelayLine(LAMBDA t : DecodedStream(n, t), r.dl2, start + i) = FrameBits(r) + i

-----------------------------------------------------------------------------
(* AeroL::DecodeC, 8400: a frame is 4096 punctured bits; of the 2730       *)
(* decoded ones 2714 are kept, and 24 sub-blocks of 109 are read.          *)

SubBlockBits == 1 + 96 + 12

CStream(t) == Decode_Continuous(((t - 1) \div 2714) + 1, 2730, ((t - 1) % 2714) + 1)

CFramesAligned ==
  /\ Len(depuncture([i \in 1..4096 |-> i], 4)) = 2 * 2730
  /\ \A i \in 1..(24 * SubBlockBits) :
       DelayLine(CStream, 2714 - 6, 2714 + i) = 2730 + i

-----------------------------------------------------------------------------
(* The preamble detectors of a channel with phase ambiguity *)

BitsOf(word, len) == [i \in 1..len |-> (word \div 2^(len - i)) % 2]

(* The two patterns of a C channel, 52 bits; as two halves, since integers *)
(* are of 32 bits here.                                                    *)
PreambleI == BitsOf(44883364, 26) \o BitsOf(59492912, 26)
PreambleQ == BitsOf(3231559, 26) \o BitsOf(9891029, 26)

xorsum(buffer, preamble) == Cardinality({i \in DOMAIN preamble : buffer[i] # preamble[i]})

(* Update: "inverted" or "straight" if the buffer is one of the preambles  *)
(* up to tollerence errors; the first is tried before the second.          *)
Detect(buffer, preambles, tollerence) ==
  LET found(p) == IF xorsum(buffer, p) >= Len(p) - tollerence THEN "inverted"
                  ELSE IF xorsum(buffer, p) <= tollerence THEN "straight" ELSE "no"
  IN  IF found(preambles[1]) # "no" THEN found(preambles[1]) ELSE found(preambles[2])

Flipped(word, errors) ==
  [i \in DOMAIN word |-> IF i \in errors THEN 1 - word[i] ELSE word[i]]

(* Each preamble, sent straight or inverted and with errors, is told.      *)
PolarityTold ==
  \A p \in {PreambleI, PreambleQ}, a \in 1..52, b \in 1..52 :
    /\ Detect(Flipped(p, {a, b}), <<PreambleQ, PreambleI>>, 6) = "straight"
    /\ Detect(Flipped(p, (1..52) \ {a, b}), <<PreambleQ, PreambleI>>, 6) = "inverted"

(* For every rate of a continuous channel the de-interleaver undoes the    *)
(* interleaver, the overlap of the Viterbi decoder and the delay line put  *)
(* the bits of a frame exactly at the places of a later frame, and the     *)
(* preamble detectors tell the polarity of the carrier.                    *)
BitPathExact ==
  /\ \A N \in {4, 6, 9, 78} :
       LET b == [i \in 0..(64 * N - 1) |-> i] IN deinterleave(interleave(b, N), N) = b
  /\ \A r \in Rates : FramesAligned(r)
  /\ CFramesAligned
  /\ PolarityTold

=============================================================================
