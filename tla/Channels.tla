------------------------------ MODULE Channels ------------------------------
(***************************************************************************)
(* The channelizer (channelizer.c) and the channel table of main.c: the    *)
(* bands and channels set up from the plan, the channels added while       *)
(* running from frequencies that STD-C announces on the air, the frequency *)
(* calibration, and the demodulator that each channel's first output       *)
(* creates.                                                                *)
(*                                                                         *)
(* All of it runs in main's thread, but not in a line: an announcement     *)
(* adds a channel from inside process_block's flush loop, through the      *)
(* STD-C demodulator's callback, and the calibration moves every band from *)
(* inside the same loop.  A block is therefore one action whose effects    *)
(* come one after the other, over the channels in slot order.              *)
(*                                                                         *)
(* Frequencies are whole Hz; a band's centroid is rounded down.            *)
(***************************************************************************)
EXTENDS TunePlan

CONSTANTS
    Configs,          \* the command lines considered, see TunePlan!Plan
    Announced,        \* downlink frequencies STD-C may announce
    Offsets,          \* carrier offsets the calibration may measure
    MAX_CHANNELS,     \* = MAX_JAERO_DEMODS in main.c
    MAX_BANDS,
    MaxAnnounced      \* bound on the ids handed out to announced channels

ASSUME ChannelLimits ==
    /\ MAX_CHANNELS \in Nat \ {0} /\ MAX_BANDS \in Nat \ {0}
    /\ Announced \subseteq Int /\ Offsets \subseteq Int

VARIABLES
    conf,             \* the command line
    chz,              \* the channelizer: [center, rate, mode, bands, channels]
    jaero_chans,      \* the demodulators: sequence of [id, baud]
    cal,              \* calibration: NotYet, the id of its channel, or Done
    next_dynamic_channel_id,
    asked,            \* ghost: the channels accepted, [id, frequency, type]
    correction        \* ghost: the sum of the corrections applied
chvars == <<conf, chz, jaero_chans, cal, next_dynamic_channel_id, asked,
            correction>>

FirstDynamicId == 100
L_BAND_LOW == 1525000000
L_BAND_HIGH == 1559000000
Silent == 0           \* no announcement
NotYet == -1
Done == -2
Pending == 48000      \* no offset: the calibration buffer is not full yet

\* The ids of a table are its own, and leave 100 and more to announcements;
\* the device gives at least the intermediate rate of the wide channels.
PlannedChannel == [frequency : Int, type : AeroTypes \cup {"stdc"},
                   id : 0..(FirstDynamicId - 1)]
ASSUME PlansAssumption ==
    \A o \in Configs :
       /\ o.ppm \in Int /\ Plan(o).center \in Int
       /\ Plan(o).rate \in Int /\ Plan(o).rate >= target_intermediate_rate("10500")
       /\ Plan(o).channels \in Seq(PlannedChannel)
       /\ \A i, j \in DOMAIN Plan(o).channels :
             Plan(o).channels[i].id = Plan(o).channels[j].id => i = j

-----------------------------------------------------------------------------
(* channelizer.c.  A band: [center, nco, s1, inter, family, members]; a    *)
(* channel: [id, type, band, nco, step, s2].                               *)
(*                                                                         *)
(* A mixer turns by a phase step, kept here in turns per c.rate samples.   *)
(* The band's is made from c.rate, at which it runs: its step is its nco,  *)
(* in Hz.  The channel's (step) is made from the rate the band is planned  *)
(* to have, c.rate / s1, and applied at the rate its stages really leave.  *)

CompatibleBand(c, b, frequency, type, s1) ==
    /\ c.bands[b].family = modulation_family(type)
    /\ Abs(c.bands[b].inter - c.rate \div s1) <= (c.rate \div s1) \div 100
    /\ Abs(c.bands[b].center - frequency) <= ((c.rate \div s1) * 2) \div 5
    /\ Len(c.bands[b].members) < MAX_CHANNELS

init_band(c, frequency, type, s1) ==
    [center |-> frequency, nco |-> frequency - c.center, s1 |-> s1,
     inter |-> c.rate \div s1, family |-> modulation_family(type),
     members |-> <<>>]

\* [bands, b]: the bands, and the one to use; b is 0 when MAX_BANDS is reached.
find_or_create_band(c, frequency, type, s1) ==
    LET fits == {b \in DOMAIN c.bands : CompatibleBand(c, b, frequency, type, s1)}
    IN IF fits # {} THEN [bands |-> c.bands, b |-> Min(fits)]
       ELSE IF Len(c.bands) >= MAX_BANDS THEN [bands |-> c.bands, b |-> 0]
       ELSE [bands |-> Append(c.bands, init_band(c, frequency, type, s1)),
             b |-> Len(c.bands) + 1]

\* The channelizer with one more channel, or as it was.
channelizer_add_channel(c, frequency, type, id) ==
    LET split == Split(type, c.rate)
        found == find_or_create_band(c, frequency, type, split.s1)
        band == found.bands[found.b]
        slot == Len(c.channels) + 1
    IN IF slot > MAX_CHANNELS \/ found.b = 0 THEN c
       ELSE [c EXCEPT
               !.bands = [found.bands EXCEPT
                            ![found.b].members = Append(@, slot)],
               !.channels = Append(@,
                    [id |-> id, type |-> type, band |-> found.b,
                     nco |-> frequency - band.center,
                     step |-> (frequency - band.center) * band.s1,
                     s2 |-> split.s2])]

ChannelFreq(c, slot) ==
    c.bands[c.channels[slot].band].center + c.channels[slot].nco

\* A fault: an announcement is compared with the bands, not with the channels.
channelizer_has_freq_Bands(c, frequency, tolerance) ==
    \E b \in DOMAIN c.bands : Abs(c.bands[b].center - frequency) < tolerance

channelizer_has_freq(c, frequency, tolerance) ==
    \E slot \in DOMAIN c.channels :
        Abs(ChannelFreq(c, slot) - frequency) < tolerance

\* The rate the demodulators are told: the planned one of the band, divided
\* by the stages of the channel.
channelizer_output_rate(c, slot) ==
    LET ch == c.channels[slot]
    IN c.bands[ch.band].inter \div Product(plan_decimation(ch.s2))

\* A fault: the new centre is not kept for the bands made later.
channelizer_adjust_center_KeepsCenter(c, offset) ==
    [c EXCEPT !.bands = [b \in DOMAIN c.bands |->
                           [c.bands[b] EXCEPT !.nco = @ + offset]]]

\* Every band follows a correction of the tuner; later bands start from it.
channelizer_adjust_center(c, offset) ==
    [c EXCEPT !.center = @ - offset,
              !.bands = [b \in DOMAIN c.bands |->
                           [c.bands[b] EXCEPT !.nco = @ + offset]]]

\* The mean of the mixers of the slots m; less than 1 Hz is not worth a move.
Centroid(c, m) ==
    LET sum[n \in 0..Len(m)] ==
            IF n = 0 THEN 0 ELSE sum[n - 1] + c.channels[m[n]].nco
        mean == sum[Len(m)] \div Len(m)
    IN IF Abs(mean) < 1 THEN 0 ELSE mean

\* Each band moves to the centroid of its channels, and they move back.
channelizer_finalize(c) ==
    LET Shift(b) == Centroid(c, c.bands[b].members)
        Nco(ch) == ch.nco - Shift(ch.band)
    IN [c EXCEPT
          !.bands = [b \in DOMAIN c.bands |->
                       [c.bands[b] EXCEPT !.nco = @ + Shift(b),
                                          !.center = @ + Shift(b)]],
          !.channels = [slot \in DOMAIN c.channels |->
                          [c.channels[slot] EXCEPT
                             !.nco = Nco(c.channels[slot]),
                             !.step = Nco(c.channels[slot])
                                      * c.bands[c.channels[slot].band].s1]]]

-----------------------------------------------------------------------------
(* main.c: set-up *)

AddPlanned(c, p) == channelizer_add_channel(c, p.frequency, p.type, p.id)

channelizer_create(p) ==
    [center |-> p.center, rate |-> p.rate, mode |-> p.mode,
     bands |-> <<>>, channels |-> <<>>]

\* --ppm shifts the bands of every device but an RTL-SDR, which retuned.
PpmShift(o, center) ==
    IF o.ppm # 0 /\ "rtl" \notin o.sdrs THEN o.ppm * (center \div 1000000) ELSE 0

AddAllPlanned(p) ==
    LET added[n \in 0..Len(p.channels)] ==
            IF n = 0 THEN channelizer_create(p)
            ELSE AddPlanned(added[n - 1], p.channels[n])
    IN added[Len(p.channels)]

SetUpFrom(o, p) ==
    channelizer_adjust_center(channelizer_finalize(AddAllPlanned(p)),
                              PpmShift(o, p.center))

Accepted(c, p) ==
    {[id |-> d.id, frequency |-> d.frequency, type |-> d.type] :
        d \in {q \in ToSet(p.channels) :
                 \E slot \in DOMAIN c.channels : c.channels[slot].id = q.id}}

ChInit ==
    /\ conf \in Configs
    /\ \E p \in {Plan(conf)} : \E c \in {SetUpFrom(conf, p)} :
         /\ chz = c
         /\ asked = Accepted(c, p)
         /\ correction = PpmShift(conf, p.center)
    /\ jaero_chans = <<>> /\ cal = NotYet
    /\ next_dynamic_channel_id = FirstDynamicId

-----------------------------------------------------------------------------
(* main.c: the channels' output.  st: [c, jaero, cal, next, asked, corr].  *)

GuessType(frequency) ==
    IF frequency >= 1546050000 THEN "8400"
    ELSE IF frequency >= 1545800000 THEN "10500"
    ELSE IF frequency < 1545150000 THEN "600" ELSE "1200"

\* An announcement in range, on no channel yet, becomes a channel; the id is
\* used up whether or not the channelizer has room.
try_add_dynamic_channel(st, frequency) ==
    IF \/ st.c.mode = "stdc"
       \/ frequency < L_BAND_LOW \/ frequency > L_BAND_HIGH
       \/ ~InBandwidth(frequency, Plan(conf).center, st.c.rate)
       \/ channelizer_has_freq(st.c, frequency, 5000)
    THEN st
    ELSE LET type == GuessType(frequency)
             c == channelizer_add_channel(st.c, frequency, type, st.next)
         IN [st EXCEPT
               !.c = c, !.next = @ + 1,
               !.asked = IF c = st.c THEN @
                         ELSE @ \cup {[id |-> st.next, frequency |-> frequency,
                                       type |-> type]}]

\* The first 600 or 1200 baud channel measures the tuner once.
Calibrate(st, ch, offset) ==
    LET chosen == IF st.cal = NotYet /\ ch.type \in {"600", "1200"} THEN ch.id
                  ELSE st.cal
    IN IF conf.ppm # 0 THEN st
       ELSE IF chosen # ch.id \/ offset = Pending THEN [st EXCEPT !.cal = chosen]
       ELSE [st EXCEPT
               !.cal = Done,
               !.c = IF Abs(offset) > 50 THEN channelizer_adjust_center(@, offset)
                     ELSE @,
               !.corr = IF Abs(offset) > 50 THEN @ + offset ELSE @]

\* The demodulator of a channel is created at its first output.
DemodFor(st, ch) ==
    IF \/ \E i \in DOMAIN st.jaero : st.jaero[i].id = ch.id
       \/ Len(st.jaero) >= MAX_CHANNELS
    THEN st
    ELSE [st EXCEPT !.jaero = Append(@, [id |-> ch.id, baud |-> ch.type])]

channel_output_cb(st, slot, announced, offset) ==
    LET ch == st.c.channels[slot]
    IN IF ch.type = "stdc"
       THEN IF announced = Silent THEN st ELSE try_add_dynamic_channel(st, announced)
       ELSE DemodFor(Calibrate(st, ch, offset), ch)

\* The flush of process_block: the slots with at least 32 samples, in order.
\* A channel added on the way has none, so the slots are those of the start.
process_block(st, flushed, announced, offset) ==
    LET after[n \in 0..Len(st.c.channels)] ==
            IF n = 0 THEN st
            ELSE IF n \in flushed
            THEN channel_output_cb(after[n - 1], n, announced, offset)
            ELSE after[n - 1]
    IN after[Len(st.c.channels)]

\* A block of samples.  STD-C has the lowest rate: a short block may flush
\* the other channels only.
Block ==
    \E flushed \in {DOMAIN chz.channels,
                    {i \in DOMAIN chz.channels : chz.channels[i].type # "stdc"}},
       announced \in {Silent} \cup
           (IF next_dynamic_channel_id < FirstDynamicId + MaxAnnounced
            THEN Announced ELSE {}),
       offset \in IF cal = Done THEN {Pending} ELSE Offsets \cup {Pending} :
      \E st \in {process_block([c |-> chz, jaero |-> jaero_chans, cal |-> cal,
                                next |-> next_dynamic_channel_id,
                                asked |-> asked, corr |-> correction],
                               flushed, announced, offset)} :
        /\ chz' = st.c /\ jaero_chans' = st.jaero /\ cal' = st.cal
        /\ next_dynamic_channel_id' = st.next
        /\ asked' = st.asked /\ correction' = st.corr
        /\ UNCHANGED conf

ChNext == Block
ChSpec == ChInit /\ [][ChNext]_chvars

-----------------------------------------------------------------------------
(* Properties *)

\* What the stages of a band really divide the rate by, and whether that is
\* the number that its intermediate rate was computed from.
BandDecimation(b) == Product(plan_decimation(chz.bands[b].s1))
BandExact(b) == BandDecimation(b) = chz.bands[b].s1

\* The two mixers of each channel together move its own frequency, corrected
\* once, to zero: the channel's mixer, at the rate that the band's stages
\* leave, takes away exactly what the band's has left over.  Bands made before
\* and after a correction agree.  In a band whose stages are not exact it
\* does not: the step is too large by s1 over BandDecimation, and which
\* built-in plan has such a band is what DecimationExact is about.
MixedToZero ==
    \A a \in asked : \E slot \in DOMAIN chz.channels :
       LET ch == chz.channels[slot]
           left == a.frequency - Plan(conf).center + correction
                     - chz.bands[ch.band].nco
       IN /\ ch.id = a.id /\ ch.type = a.type
          /\ BandExact(ch.band) => ch.step = left * BandDecimation(ch.band)

\* The whole signal of each channel lies inside the intermediate rate of its
\* band; the rate that the stages leave is never below it.
SignalsInBand ==
    \A ch \in ToSet(chz.channels) :
       2 * Abs(ch.nco) + signal_bandwidth(ch.type) <= chz.bands[ch.band].inter

\* Whatever order announcements, calibration and --ppm come in, no built-in
\* plan loses a channel to a limit, and every channel of a band with exact
\* stages is mixed to zero.  Recentring a band on its centroid, after its
\* channels were chosen around another centre, leaves all signals inside it.
ChannelsOnFrequency ==
    /\ \A p \in ToSet(Plan(conf).channels) : \E a \in asked : a.id = p.id
    /\ MixedToZero
    /\ SignalsInBand

\* The demodulators and the Aero channels correspond: no two demodulators
\* have one channel, each has the rate of its channel, ids made while running
\* never meet those of the tables, and no announcement made a second channel
\* within 5 kHz of another.
OneDemodPerChannel ==
    /\ \A i, j \in DOMAIN jaero_chans :
          jaero_chans[i].id = jaero_chans[j].id => i = j
    /\ \A i \in DOMAIN jaero_chans :
          \E a \in asked : a.id = jaero_chans[i].id /\ a.type = jaero_chans[i].baud
    /\ \A a, b \in asked :
          /\ a.id = b.id => a = b
          /\ a # b /\ a.id >= FirstDynamicId => Abs(a.frequency - b.frequency) >= 5000

\* The stages of a band and of a channel multiply to the decimation that its
\* rate was computed from ("stage_rate should now equal b->intermediate_rate",
\* "guarantee exact total decimation", "guarantee correct output rate").
\* Where a band's do not, its channels are not mixed to zero either.
DecimationExact ==
    /\ \A b \in DOMAIN chz.bands : BandExact(b)
    /\ \A slot \in DOMAIN chz.channels :
          Product(plan_decimation(chz.channels[slot].s2)) = chz.channels[slot].s2

=============================================================================
