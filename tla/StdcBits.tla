------------------------------ MODULE StdcBits ------------------------------
(***************************************************************************)
(* What the STD-C receiver computes on the bits of a frame: the sync word, *)
(* the two permutations and the scrambler of stdc_decode.c, the check sum  *)
(* of a packet, and the Viterbi decoder of viterbi.c.  A frame is taken    *)
(* at its real dimensions; the decoder on short messages.  Bits are 0 and  *)
(* 1, soft symbols numbers of -127..127, and the packing of bits into      *)
(* bytes is left out where nothing depends on it.  Indices into arrays     *)
(* count from 0 as in the code.                                            *)
(***************************************************************************)
EXTENDS Integers, Sequences, FiniteSets, Functions, FiniteSetsExt, SequencesExt

Rows == 64      \* STDC_FRAME_ROWS
Cols == 162     \* STDC_FRAME_COLS, the first two of a row hold its sync bit

-----------------------------------------------------------------------------
(* The frame *)

sync_word ==
    <<0, 0, 0, 0, 0, 1, 1, 1, 1, 1, 1, 0, 1, 0, 1, 0, 1, 1, 0, 0, 1, 1, 0, 1,
      1, 1, 0, 1, 1, 0, 1, 0, 0, 1, 0, 0, 1, 1, 1, 0, 0, 0, 1, 0, 1, 1, 1, 1,
      0, 0, 1, 0, 1, 0, 0, 0, 1, 1, 0, 0, 0, 0, 1, 0>>

\* rows[i + 1] holds the two hard bits at the head of row i.
check_sync(rows) ==
    LET match_nrm == Cardinality({p \in (1..Rows) \X (1..2) :
                                    rows[p[1]][p[2]] = sync_word[p[1]]})
        match_inv == 2 * Rows - match_nrm
    IN  IF match_inv > match_nrm
        THEN [score |-> match_inv, inverted |-> TRUE]
        ELSE [score |-> match_nrm, inverted |-> FALSE]

\* Where the symbol at an index of the output comes from.
depermute(i) == (((i \div Cols) * 23) % 64) * Cols + (i % Cols)
deinterleave(i) == (i % Rows) * Cols + (i \div Rows) + 2

Bit(x, i) == (x \div 2^i) % 2

\* Three exchanges of neighbouring groups of 1, 2 and 4 bits.
reverse_bits(b) ==
    LET exchange(x, w) ==
          SumSet({2^i * Bit(x, IF (i \div w) % 2 = 0 THEN i + w ELSE i - w) : i \in 0..7})
    IN  exchange(exchange(exchange(b, 1), 2), 4)

\* One byte, where the scrambling sequence has `seq`; ^ 0xFF complements.
descramble(b, seq) == IF seq = 1 THEN 255 - reverse_bits(b) ELSE reverse_bits(b)

\* The two sums are C shorts; their conversions to a byte keep eight bits.
compute_crc(data) ==
    LET sums == FoldLeft(LAMBDA s, b : <<(s[1] + b) % 2^16, (s[2] + s[1] + b) % 2^16>>,
                         <<0, 0>>, SubSeq(data, 1, Len(data) - 2) \o <<0, 0>>)
    IN  <<(sums[1] - sums[2]) % 256, (sums[2] - 2 * sums[1]) % 256>>

-----------------------------------------------------------------------------
(* The convolutional code: rate 1/2, K = 7 *)

K == 7
G1 == 109
G2 == 79
States == 0..63
Unreached == 2147483647     \* 0x7FFFFFFF

parity(reg, poly) == SumFunction([i \in 0..(K - 1) |-> Bit(reg, i) * Bit(poly, i)]) % 2

encode_sym == [s \in States, bit \in 0..1 |->
    <<parity(bit * 2^(K - 1) + s, G1), parity(bit * 2^(K - 1) + s, G2)>>]

NextState(s, bit) == (s \div 2) + bit * 2^(K - 2)

viterbi_encode(bits) ==
    FoldLeft(LAMBDA e, bit : [state |-> NextState(e.state, bit),
                              syms |-> e.syms \o encode_sym[e.state, bit]],
             [state |-> 0, syms |-> <<>>], bits).syms

Distance(soft, bit) == LET d == soft - (IF bit = 1 THEN 127 ELSE -127)
                       IN  IF d < 0 THEN -d ELSE d
branch_metric(soft, exp) == Distance(soft[1], exp[1]) + Distance(soft[2], exp[2])

(* One step of the forward pass.  Two states lead to `next`, with the same *)
(* input bit; the loop meets the lower one first, and only a better metric *)
(* replaces what it stored.                                                *)
Forward(metric, soft) ==
    LET Via(s, bit) == IF metric[s + 1] >= Unreached THEN Unreached
                       ELSE metric[s + 1] + branch_metric(soft, encode_sym[s, bit])
        Best(next) == LET s == 2 * (next % 32)
                          bit == next \div 32
                          prev == IF Via(s + 1, bit) < Via(s, bit) THEN s + 1 ELSE s
                      IN  <<Via(prev, bit), prev, bit>>
    IN  [next \in 1..64 |-> Best(next - 1)] \o <<>>

viterbi_init == [s \in 1..64 |-> IF s = 1 THEN 0 ELSE Unreached]

\* The forward pass, the best final state (the first minimum), the traceback.
viterbi_decode(soft) ==
    LET T == Len(soft) \div 2
        trellis == FoldLeft(LAMBDA h, t :
                       LET metric == IF h = <<>> THEN viterbi_init
                                     ELSE [s \in 1..64 |-> Last(h)[s][1]]
                       IN  Append(h, Forward(metric, <<soft[2 * t - 1], soft[2 * t]>>)),
                     <<>>, [t \in 1..T |-> t])
        metrics == [s \in 1..64 |-> trellis[T][s][1]]
        best == CHOOSE s \in 1..64 : /\ \A o \in 1..64 : metrics[s] <= metrics[o]
                                     /\ \A o \in 1..(s - 1) : metrics[s] < metrics[o]
        back == FoldRight(LAMBDA step, b : [state |-> step[b.state][2] + 1,
                                            bits |-> <<step[b.state][3]>> \o b.bits],
                          trellis, [state |-> best, bits |-> <<>>])
    IN  [metric |-> metrics[best], bits |-> back.bits]

\* The symbols whose sign is not what the decoded bits would have sent.
viterbi_ber(bits, soft) ==
    LET syms == viterbi_encode(bits)
    IN  Cardinality({i \in DOMAIN soft : (soft[i] > 0) # (syms[i] = 1)})

-----------------------------------------------------------------------------
(* References *)

(* stdc_decoder_feed locks at 110 matches of 128 and stays locked at 100:  *)
(* a frame read a whole number of rows off scores below both, in either    *)
(* polarity, and a frame in place scores 128 with its polarity.            *)
SyncUnambiguous ==
    LET shifted(k, inv) == [i \in 1..Rows |->
            LET b == sync_word[((i - 1 + k) % Rows) + 1]
            IN  IF inv THEN <<1 - b, 1 - b>> ELSE <<b, b>>]
    IN  \A inv \in BOOLEAN :
          /\ check_sync(shifted(0, inv)) = [score |-> 128, inverted |-> inv]
          /\ \A k \in 1..(Rows - 1) : check_sync(shifted(k, inv)).score < 100

\* The two permutations take every data symbol of the frame once, and no sync bit.
DataTakenOnce ==
    LET taken == {depermute(deinterleave(i)) : i \in 0..(Rows * 160 - 1)}
    IN  taken = {i \in 0..(Rows * Cols - 1) : i % Cols >= 2}

\* Bit i of the result is bit 7 - i of the byte.
ReverseExact ==
    \A b \in 0..255 : \A i \in 0..7 : Bit(reverse_bits(b), i) = Bit(b, 7 - i)

\* With the check bytes in place both Fletcher sums of the packet are zero.
CrcExact(Packets) ==
    \A p \in Packets :
      LET checked == p \o compute_crc(p \o <<0, 0>>)
      IN  /\ SumFunction(checked) % 256 = 0
          /\ SumFunction([i \in DOMAIN checked |-> (Len(checked) + 1 - i) * checked[i]]) % 256 = 0

(* The decoder returns a message whose encoding is as near to the received *)
(* symbols as any message's, and its metric is that distance.              *)
ViterbiExact(received, n) ==
    LET far(bits) == LET syms == viterbi_encode(bits)
                     IN  SumFunction([i \in DOMAIN received |-> Distance(received[i], syms[i])])
        found == viterbi_decode(received)
    IN  /\ found.metric = Min({far(bits) : bits \in [1..n -> 0..1]})
        /\ far(found.bits) = found.metric

\* A message sent clean but for the symbols of `flipped` comes back, and those are its errors.
ViterbiCorrects(bits, flipped) ==
    LET syms == viterbi_encode(bits)
        soft == [i \in DOMAIN syms |-> IF (syms[i] = 1) # (i \in flipped) THEN 127 ELSE -127]
        found == viterbi_decode(soft)
    IN  found.bits = bits /\ viterbi_ber(found.bits, soft) = Cardinality(flipped)
=============================================================================
