---------------------------- MODULE SimdKernels -----------------------------
(***************************************************************************)
(* The kernels of simd_generic.c and their vector forms for AVX2, SSE4.2   *)
(* and NEON: what each lane computes, in which order the lanes are loaded, *)
(* shuffled and stored, and where the vector loop hands over to the scalar *)
(* tail.  A float is an integer here, so that sums do not depend on their  *)
(* order: rounding is left out, and a quotient m / b is the pair of both.  *)
(* A complex array is the sequence of its floats re0, im0, re1, im1, ...;  *)
(* indices into arrays count from 0 as in the code.                        *)
(***************************************************************************)
EXTENDS Integers, Sequences, SequencesExt

\* The w floats at &s[i], and one of them.
Load(s, i, w) == SubSeq(s, i + 1, i + w)
At(s, i) == s[i + 1]

Lanewise(Op(_, _), a, b) == [j \in DOMAIN a |-> Op(a[j], b[j])]
Add(a, b) == Lanewise(LAMBDA x, y : x + y, a, b)
Sub(a, b) == Lanewise(LAMBDA x, y : x - y, a, b)
Mul(a, b) == Lanewise(LAMBDA x, y : x * y, a, b)
MaxOf(a, b) == Lanewise(LAMBDA x, y : IF x > y THEN x ELSE y, a, b)
Splat(x, w) == [j \in 1..w |-> x]
SumLanes(a) == FoldLeft(LAMBDA x, y : x + y, 0, a)

\* The shuffles of the instruction sets, on registers of four lanes.
Lo(v) == SubSeq(v, 1, 4)
Hi(v) == SubSeq(v, 5, 8)
unpacklo(a, b) == <<a[1], b[1], a[2], b[2]>>
unpackhi(a, b) == <<a[3], b[3], a[4], b[4]>>
uzp1(a, b) == <<a[1], a[3], b[1], b[3]>>
uzp2(a, b) == <<a[2], a[4], b[2], b[4]>>
shuffle(a, b, z, y, x, w) == <<At(a, w), At(a, x), At(b, y), At(b, z)>>
deinterleave8(v) == [j \in 1..8 |-> v[<<1, 3, 5, 7, 2, 4, 6, 8>>[j]]]

\* for (; i + step - 1 < n; i += step) Vec(i); for (; i < n; i++) Rest(i):
\* what the iterations store, one after the other.
Loop(n, step, Vec(_), Rest(_)) ==
    FlattenSeq([b \in 1..(n \div step) |-> Vec((b - 1) * step)])
      \o FlattenSeq([j \in 1..(n % step) |-> Rest(n - (n % step) + j - 1)])

\* The sum over the taps of Term(k), lane by lane.
Accumulate(ntaps, w, Term(_)) ==
    FoldLeft(Add, Splat(0, w), [k \in 1..ntaps |-> Term(k - 1)])

-----------------------------------------------------------------------------
(* simd_generic.c *)

generic_fir_ccf(taps, in, i) ==
    Accumulate(Len(taps), 2, LAMBDA k : Mul(Splat(At(taps, k), 2), Load(in, (i + k) * 2, 2)))

generic_fir_ccf_dec(taps, in, i, decimation) ==
    generic_fir_ccf(taps, in, i * decimation)

generic_fir_fff(taps, in, i) ==
    Accumulate(Len(taps), 1, LAMBDA k : <<At(taps, k) * At(in, i + k)>>)

generic_window_cf(samples, window, i) ==
    Mul(Load(samples, i * 2, 2), Splat(At(window, i), 2))

generic_mag_squared(in, i) == <<At(in, i * 2) * At(in, i * 2) + At(in, i * 2 + 1) * At(in, i * 2 + 1)>>

\* The upper half of the spectrum comes first.
fftshift(half, Half(_)) == Half(half) \o Half(0)

generic_fftshift_mag(fft_out, i) == generic_mag_squared(fft_out, i)

generic_baseline_update(sum, old_hist, new_mag, i) ==
    <<At(sum, i) - At(old_hist, i) + At(new_mag, i)>>

generic_relative_mag(mag, baseline, i) ==
    <<IF At(baseline, i) > 0 THEN <<At(mag, i), At(baseline, i)>> ELSE 0>>

\* A byte is a number of -128..127; the factor 1/128 is left out.
generic_convert_i8_cf(iq, i) == Load(iq, i * 2, 2)

Lowest == -1000000000   \* -1e30f

generic_max_float(in) ==
    FoldLeft(LAMBDA m, x : IF x > m THEN x ELSE m, Lowest, in)

generic_csquare_window(in, window, i) ==
    LET re == At(in, i * 2)
        im == At(in, i * 2 + 1)
    IN  Mul(<<re * re - im * im, 2 * re * im>>, Splat(At(window, i), 2))

-----------------------------------------------------------------------------
(* Filters: w lanes per register *)

VectorFirCcf(w, taps, in, n) ==
    Loop(n, w \div 2,
         LAMBDA i : Accumulate(Len(taps), w,
                      LAMBDA k : Mul(Splat(At(taps, k), w), Load(in, (i + k) * 2, w))),
         LAMBDA i : generic_fir_ccf(taps, in, i))
avx2_fir_ccf(taps, in, n)  == VectorFirCcf(8, taps, in, n)
sse42_fir_ccf(taps, in, n) == VectorFirCcf(4, taps, in, n)
neon_fir_ccf(taps, in, n)  == VectorFirCcf(4, taps, in, n)

VectorFirFff(w, taps, in, n) ==
    Loop(n, w,
         LAMBDA i : Accumulate(Len(taps), w,
                      LAMBDA k : Mul(Splat(At(taps, k), w), Load(in, i + k, w))),
         LAMBDA i : generic_fir_fff(taps, in, i))
avx2_fir_fff(taps, in, n)  == VectorFirFff(8, taps, in, n)
sse42_fir_fff(taps, in, n) == VectorFirFff(4, taps, in, n)
neon_fir_fff(taps, in, n)  == VectorFirFff(4, taps, in, n)

\* The taps from k on that are left to the scalar loop, applied at p.
TapTail(taps, in, p, k) ==
    Accumulate(Len(taps) - k, 2,
               LAMBDA j : Mul(Splat(At(taps, k + j), 2), Load(in, (p + k + j) * 2, 2)))

\* Four taps at a time, doubled by the unpacks; two horizontal additions.
avx2_fir_ccf_dec(taps, in, i, decimation) ==
    LET p == i * decimation
        steps == Len(taps) \div 4
        acc == Accumulate(steps, 8, LAMBDA s :
                 LET t4 == Load(taps, 4 * s, 4)
                 IN  Mul(unpacklo(t4, t4) \o unpackhi(t4, t4), Load(in, (p + 4 * s) * 2, 8)))
        sum == Add(Lo(acc), Hi(acc))
        result == Add(sum, shuffle(sum, sum, 3, 2, 3, 2))
    IN  Add(<<At(result, 0), At(shuffle(result, result, 0, 0, 0, 1), 0)>>,
            TapTail(taps, in, p, 4 * steps))

sse42_fir_ccf_dec(taps, in, i, decimation) ==
    LET p == i * decimation
        steps == Len(taps) \div 2
        acc == Accumulate(steps, 4, LAMBDA s :
                 LET t == Load(taps, 2 * s, 2)
                 IN  Mul(<<t[1], t[1], t[2], t[2]>>, Load(in, (p + 2 * s) * 2, 4)))
        result == Add(acc, shuffle(acc, acc, 3, 2, 3, 2))
    IN  Add(<<At(result, 0), At(shuffle(result, result, 0, 0, 0, 1), 0)>>,
            TapTail(taps, in, p, 2 * steps))

\* Eight taps at a time into two pairs of accumulators, then four, then one.
neon_fir_ccf_dec(taps, in, i, decimation) ==
    LET p == i * decimation
        eights == Len(taps) \div 8
        fours == (Len(taps) % 8) \div 4
        part(k, odd) == Mul([j \in 1..4 |-> At(in, (p + k) * 2 + 2 * (j - 1) + odd)],
                            Load(taps, k, 4))
        even0(odd) == Add(Accumulate(eights, 4, LAMBDA s : part(8 * s, odd)),
                          Accumulate(fours, 4, LAMBDA s : part(8 * eights + 4 * s, odd)))
        acc1(odd) == Accumulate(eights, 4, LAMBDA s : part(8 * s + 4, odd))
    IN  Add(<<SumLanes(Add(even0(0), acc1(0))), SumLanes(Add(even0(1), acc1(1)))>>,
            TapTail(taps, in, p, 8 * eights + 4 * fours))

-----------------------------------------------------------------------------
(* Lane-by-lane kernels *)

avx2_window_cf(samples, window, n) ==
    Loop(n, 4, LAMBDA i : LET w4 == Load(window, i, 4)
                          IN  Mul(Load(samples, i * 2, 8), unpacklo(w4, w4) \o unpackhi(w4, w4)),
         LAMBDA i : generic_window_cf(samples, window, i))
sse42_window_cf(samples, window, n) ==
    Loop(n, 2, LAMBDA i : Mul(Load(samples, i * 2, 4),
                              <<At(window, i), At(window, i), At(window, i + 1), At(window, i + 1)>>),
         LAMBDA i : generic_window_cf(samples, window, i))
neon_window_cf(samples, window, n) ==
    Loop(n, 4, LAMBDA i : LET w == Load(window, i, 4)
                          IN  Mul(Load(samples, i * 2, 4), unpacklo(w, w))
                                \o Mul(Load(samples, i * 2 + 4, 4), unpackhi(w, w)),
         LAMBDA i : generic_window_cf(samples, window, i))

\* The parts of the complex numbers at i, as each instruction set separates
\* them: four, two (twice) and four of them.
avx2_parts(in, i) == LET d == deinterleave8(Load(in, i * 2, 8)) IN [re |-> Lo(d), im |-> Hi(d)]
sse42_parts(in, i) == LET d == Load(in, i * 2, 4)
                      IN  [re |-> shuffle(d, d, 2, 0, 2, 0), im |-> shuffle(d, d, 3, 1, 3, 1)]
neon_parts(in, i) == LET a == Load(in, i * 2, 4)
                         b == Load(in, i * 2 + 4, 4)
                     IN  [re |-> uzp1(a, b), im |-> uzp2(a, b)]

Squares(p) == Add(Mul(p.re, p.re), Mul(p.im, p.im))

avx2_mag_squared(in, from, n) ==
    Loop(n, 4, LAMBDA i : Squares(avx2_parts(in, from + i)), LAMBDA i : generic_mag_squared(in, from + i))
\* _mm_store_sd stores the lower two lanes.
sse42_mag_squared(in, from, n) ==
    Loop(n, 2, LAMBDA i : Load(Squares(sse42_parts(in, from + i)), 0, 2),
         LAMBDA i : generic_mag_squared(in, from + i))
neon_mag_squared(in, from, n) ==
    Loop(n, 4, LAMBDA i : Squares(neon_parts(in, from + i)), LAMBDA i : generic_mag_squared(in, from + i))

avx2_fftshift_mag(in, size) ==
    fftshift(size \div 2, LAMBDA from : avx2_mag_squared(in, from, size \div 2))
sse42_fftshift_mag(in, size) ==
    fftshift(size \div 2, LAMBDA from : sse42_mag_squared(in, from, size \div 2))
neon_fftshift_mag(in, size) ==
    fftshift(size \div 2, LAMBDA from : neon_mag_squared(in, from, size \div 2))

VectorBaselineUpdate(w, sum, old_hist, new_mag, n) ==
    Loop(n, w, LAMBDA i : Add(Sub(Load(sum, i, w), Load(old_hist, i, w)), Load(new_mag, i, w)),
         LAMBDA i : generic_baseline_update(sum, old_hist, new_mag, i))
avx2_baseline_update(sum, old_hist, new_mag, n)  == VectorBaselineUpdate(8, sum, old_hist, new_mag, n)
sse42_baseline_update(sum, old_hist, new_mag, n) == VectorBaselineUpdate(4, sum, old_hist, new_mag, n)
neon_baseline_update(sum, old_hist, new_mag, n)  == VectorBaselineUpdate(4, sum, old_hist, new_mag, n)

\* The quotient is computed in every lane and masked where b is not positive.
VectorRelativeMag(w, mag, baseline, n) ==
    Loop(n, w, LAMBDA i :
                 LET b == Load(baseline, i, w)
                     div == Lanewise(LAMBDA x, y : <<x, y>>, Load(mag, i, w), b)
                 IN  [j \in 1..w |-> IF b[j] > 0 THEN div[j] ELSE 0],
         LAMBDA i : generic_relative_mag(mag, baseline, i))
avx2_relative_mag(mag, baseline, n)  == VectorRelativeMag(8, mag, baseline, n)
sse42_relative_mag(mag, baseline, n) == VectorRelativeMag(4, mag, baseline, n)
neon_relative_mag(mag, baseline, n)  == VectorRelativeMag(4, mag, baseline, n)

\* The bytes of one load, sign-extended in groups and stored group by group.
Groups(bytes, w) == FlattenSeq([g \in 1..(Len(bytes) \div w) |-> Load(bytes, (g - 1) * w, w)])
avx2_convert_i8_cf(iq, n) ==
    Loop(n, 8, LAMBDA i : Groups(Load(iq, i * 2, 16), 8), LAMBDA i : generic_convert_i8_cf(iq, i))
sse42_convert_i8_cf(iq, n) ==
    Loop(n, 4, LAMBDA i : Groups(Load(iq, i * 2, 8), 4), LAMBDA i : generic_convert_i8_cf(iq, i))
neon_convert_i8_cf(iq, n) ==
    Loop(n, 8, LAMBDA i : Groups(Load(iq, i * 2, 16), 4), LAMBDA i : generic_convert_i8_cf(iq, i))

\* The maxima of the w columns.
Columns(w, in) ==
    FoldLeft(MaxOf, Splat(Lowest, w), [b \in 1..(Len(in) \div w) |-> Load(in, (b - 1) * w, w)])
ScalarRest(w, in, m) ==
    FoldLeft(LAMBDA x, y : IF y > x THEN y ELSE x, m, Load(in, Len(in) - (Len(in) % w), Len(in) % w))
\* Two shuffles bring the largest of four lanes into lane 0.
Horizontal(v) ==
    LET half == MaxOf(v, shuffle(v, v, 1, 0, 3, 2))
    IN  At(MaxOf(half, shuffle(half, half, 0, 1, 0, 1)), 0)
avx2_max_float(in) ==
    LET v == Columns(8, in) IN ScalarRest(8, in, Horizontal(MaxOf(Lo(v), Hi(v))))
sse42_max_float(in) == ScalarRest(4, in, Horizontal(Columns(4, in)))
neon_max_float(in) == ScalarRest(4, in, generic_max_float(Columns(4, in)))

\* (a + bi)^2 times the window, re-interleaved by Store.
Csquare(p, w, Store(_, _)) ==
    Store(Mul(Sub(Mul(p.re, p.re), Mul(p.im, p.im)), w),
          Mul(Mul(Splat(2, 4), Mul(p.re, p.im)), w))
Interleaved(re, im) == unpacklo(re, im) \o unpackhi(re, im)
avx2_csquare_window(in, window, n) ==
    Loop(n, 4, LAMBDA i : Csquare(avx2_parts(in, i), Load(window, i, 4), Interleaved),
         LAMBDA i : generic_csquare_window(in, window, i))
sse42_csquare_window(in, window, n) ==
    Loop(n, 2, LAMBDA i : Csquare(sse42_parts(in, i),
                                  <<At(window, i), At(window, i + 1), At(window, i), At(window, i + 1)>>,
                                  unpacklo),
         LAMBDA i : generic_csquare_window(in, window, i))
neon_csquare_window(in, window, n) ==
    Loop(n, 4, LAMBDA i : Csquare(neon_parts(in, i), Load(window, i, 4), Interleaved),
         LAMBDA i : generic_csquare_window(in, window, i))

-----------------------------------------------------------------------------
(* Which set simd_init installs: what was asked for, if the processor has  *)
(* it, and the next simpler one otherwise.                                 *)
simd_init(mode, arch, features) ==
    CASE arch = "x86" /\ mode \in {"auto", "avx2"} /\ {"avx2", "fma"} \subseteq features -> "avx2"
      [] arch = "x86" /\ mode = "sse42" /\ "sse4.2" \in features -> "sse42"
      [] arch = "x86" /\ mode \in {"auto", "avx2"} /\ ~({"avx2", "fma"} \subseteq features)
           /\ "sse4.2" \in features -> "sse42"
      [] arch = "arm64" /\ mode # "scalar" -> "neon"
      [] OTHER -> "scalar"

-----------------------------------------------------------------------------
(* Inputs that tell the lanes apart, and the comparison of all kernels.    *)

Sample(seed, len) == [j \in 1..len |-> ((j * j * 7 + j * seed + 3 * seed) % 29) - 14]

EachOut(n, Out(_)) == FlattenSeq([i \in 1..n |-> Out(i - 1)])

(* For arrays of n elements and filters of ntaps taps every vector kernel  *)
(* stores what the scalar one stores, at every index, tail included.       *)
KernelsAgree(n, ntaps) ==
    LET taps == Sample(5, ntaps)
        win == Sample(11, n)
        cin == Sample(3, 4 * (n + ntaps))
        old == Sample(8, n)
        all(set, v) == \A x \in set : x = v
    IN  /\ all({avx2_fir_ccf(taps, cin, n), sse42_fir_ccf(taps, cin, n), neon_fir_ccf(taps, cin, n)},
               EachOut(n, LAMBDA i : generic_fir_ccf(taps, cin, i)))
        /\ all({avx2_fir_fff(taps, cin, n), sse42_fir_fff(taps, cin, n), neon_fir_fff(taps, cin, n)},
               EachOut(n, LAMBDA i : generic_fir_fff(taps, cin, i)))
        /\ \A i \in 0..1 : all({avx2_fir_ccf_dec(taps, cin, i, n + 1), sse42_fir_ccf_dec(taps, cin, i, n + 1),
                                neon_fir_ccf_dec(taps, cin, i, n + 1)},
                               generic_fir_ccf_dec(taps, cin, i, n + 1))
        /\ all({avx2_window_cf(cin, win, n), sse42_window_cf(cin, win, n), neon_window_cf(cin, win, n)},
               EachOut(n, LAMBDA i : generic_window_cf(cin, win, i)))
        /\ all({avx2_mag_squared(cin, 0, n), sse42_mag_squared(cin, 0, n), neon_mag_squared(cin, 0, n)},
               EachOut(n, LAMBDA i : generic_mag_squared(cin, i)))
        /\ all({avx2_fftshift_mag(cin, n), sse42_fftshift_mag(cin, n), neon_fftshift_mag(cin, n)},
               fftshift(n \div 2, LAMBDA from :
                          EachOut(n \div 2, LAMBDA i : generic_fftshift_mag(cin, from + i))))
        /\ all({avx2_baseline_update(win, old, cin, n), sse42_baseline_update(win, old, cin, n),
                neon_baseline_update(win, old, cin, n)},
               EachOut(n, LAMBDA i : generic_baseline_update(win, old, cin, i)))
        /\ all({avx2_relative_mag(win, old, n), sse42_relative_mag(win, old, n), neon_relative_mag(win, old, n)},
               EachOut(n, LAMBDA i : generic_relative_mag(win, old, i)))
        /\ all({avx2_convert_i8_cf(cin, n), sse42_convert_i8_cf(cin, n), neon_convert_i8_cf(cin, n)},
               EachOut(n, LAMBDA i : generic_convert_i8_cf(cin, i)))
        /\ all({avx2_max_float(win), sse42_max_float(win), neon_max_float(win)}, generic_max_float(win))
        /\ all({avx2_csquare_window(cin, win, n), sse42_csquare_window(cin, win, n),
                neon_csquare_window(cin, win, n)},
               EachOut(n, LAMBDA i : generic_csquare_window(cin, win, i)))
=============================================================================
