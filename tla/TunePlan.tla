------------------------------ MODULE TunePlan ------------------------------
(***************************************************************************)
(* What the station tunes to, before a sample is read: the channel tables  *)
(* of satellites.c, the choice of centre frequency, sample rate and mode   *)
(* that main() makes from them, and the factors into which channelizer.c   *)
(* splits the decimation from that rate to a channel's rate.               *)
(*                                                                         *)
(* Frequencies and rates are whole Hz, as all of the table is.  A rate of  *)
(* 0 and a frequency of 0 stand for "not given on the command line".       *)
(***************************************************************************)
EXTENDS Integers, Sequences, SequencesExt, FiniteSetsExt

AeroTypes == {"600", "1200", "10500", "8400"}
Abs(n) == IF n < 0 THEN 0 - n ELSE n

-----------------------------------------------------------------------------
(* satellites.c *)

\* Channels of one type with consecutive ids; the frequencies in 100 Hz.
Group(type, firstId, freqs) ==
    [i \in 1..Len(freqs) |->
        [frequency |-> 100 * freqs[i], type |-> type, id |-> firstId + i - 1]]

channels_4f3 ==
    Group("stdc", 0, <<15377000>>)
    \o Group("600", 1, <<15450200, 15450500, 15450600, 15450650, 15450800,
                         15450850, 15450900, 15451000, 15451100, 15451700,
                         15451750, 15452050>>)
    \o Group("1200", 13, <<15450750>>)
    \o Group("10500", 14, <<15460050, 15460200, 15460625, 15460775>>)
    \o Group("8400", 18, <<15429375, 15429425, 15429475, 15429525, 15429575,
                           15429775, 15429825, 15429875, 15429925>>)

channels_3f5 ==
    Group("stdc", 0, <<15414500>>)
    \o Group("600", 1, <<15450250, 15450300, 15450350, 15450400>>)
    \o Group("10500", 5, <<15460550, 15460700>>)
    \o Group("8400", 7, <<15429750, 15429800, 15429850>>)

channels_af1 ==
    Group("stdc", 0, <<15371000>>)
    \o Group("600", 12, <<15451150>>)
    \o Group("600", 1, <<15451200, 15451300>>)
    \o Group("1200", 3, <<15451250>>)
    \o Group("10500", 4, <<15460125, 15460275>>)
    \o Group("8400", 6, <<15461425, 15461475, 15461525,
                          15461825, 15461875, 15461925>>)

channels_f1 ==
    Group("600", 1, <<15451600, 15451650, 15451850, 15452150, 15452200,
                      15452250>>)
    \o Group("10500", 7, <<15460425, 15460925, 15461075, 15461225>>)
    \o Group("8400", 11, <<15461575, 15461625, 15461675, 15461725, 15461775>>)

\* Preferred rates that the table leaves out are 0.
Rate(rtl, sdrplay, hackrf) == [rtl |-> rtl, sdrplay |-> sdrplay, hackrf |-> hackrf]

satellites ==
    [s \in {"4F3", "3F5", "AF1", "F1"} |->
        CASE s = "4F3" -> [channels |-> channels_4f3,
                           freq_min |-> 1537700000, freq_max |-> 1546186430,
                           preferred |-> Rate(1536000, 3072000, 6000000)]
          [] s = "3F5" -> [channels |-> channels_3f5,
                           freq_min |-> 1541450000, freq_max |-> 1546070000,
                           preferred |-> Rate(1920000, 3072000, 6000000)]
          [] s = "AF1" -> [channels |-> channels_af1,
                           freq_min |-> 1537100000, freq_max |-> 1546192500,
                           preferred |-> Rate(1536000, 3072000, 6000000)]
          [] s = "F1"  -> [channels |-> channels_f1,
                           freq_min |-> 1545160000, freq_max |-> 1546177500,
                           preferred |-> Rate(0, 0, 0)]]

\* satellite_lookup: by designator, else by position or a common name.
Aliases == [a \in {"98W", "54W", "25E", "AF4", "4AF4", "alphasat", "143E",
                   "143.5E", "4F1"} |->
              CASE a = "98W" -> "4F3" [] a = "54W" -> "3F5"
                [] a \in {"143E", "143.5E", "4F1"} -> "F1" [] OTHER -> "AF1"]
NoSatellite == "none"
satellite_lookup(name) ==
    IF name \in DOMAIN satellites THEN name
    ELSE IF name \in DOMAIN Aliases THEN Aliases[name] ELSE NoSatellite

-----------------------------------------------------------------------------
(* main(): skip-c, centre and rate, mode.                                  *)
(* o: [satellite, sdrs (the devices -i selected), mode, skip_c,            *)
(*     samp_rate, center_freq, ppm].                                       *)

Freqs(channels) == {channels[i].frequency : i \in DOMAIN channels}
Span(freqs) == Max(freqs) - Min(freqs)
WithMargin(hz) == (hz * 6) \div 5        \* hz * 1.2

\* An RTL-SDR cannot span the Aero channels of some satellites.
AutoSkipC(o) ==
    LET aero == SelectSeq(satellites[o.satellite].channels,
                          LAMBDA c : c.type # "stdc")
    IN \/ o.skip_c
       \/ /\ "rtl" \in o.sdrs /\ o.samp_rate = 0 /\ o.mode # "stdc"
          /\ WithMargin(Span(Freqs(aero))) > 2400000

\* The filters of the mode and of --skip-c-channel.
Decodes(mode, skip_c, c) ==
    /\ ~(mode = "aero" /\ c.type = "stdc")
    /\ ~(mode = "stdc" /\ c.type # "stdc")
    /\ ~(skip_c /\ c.type = "8400")

Preferred(o) ==
    LET rates == satellites[o.satellite].preferred
    IN IF "hackrf" \in o.sdrs THEN rates.hackrf
       ELSE IF "sdrplay" \in o.sdrs THEN rates.sdrplay
       ELSE IF "rtl" \in o.sdrs THEN rates.rtl ELSE 0

MinRate(sdrs) ==
    IF "rtl" \in sdrs THEN 1536000
    ELSE IF "sdrplay" \in sdrs THEN 3072000
    ELSE IF "hackrf" \in sdrs THEN 6000000 ELSE 2400000

AutoRate(o, span) ==
    LET preferred == Preferred(o)
        rate == IF preferred > 0 /\ preferred >= span THEN preferred
                ELSE Max({WithMargin(span), MinRate(o.sdrs)})
    IN IF "sdrplay" \in o.sdrs THEN Min({rate, 10000000}) ELSE rate

InBandwidth(frequency, center, rate) == Abs(frequency - center) <= rate \div 2

AutoMode(mode, channels, center, rate) ==
    LET reach == {channels[i].type : i \in
                    {j \in DOMAIN channels :
                        InBandwidth(channels[j].frequency, center, rate)}}
    IN IF mode # "auto" THEN mode
       ELSE IF "stdc" \in reach /\ reach \ {"stdc"} # {} THEN "full"
       ELSE IF "stdc" \in reach THEN "stdc"
       ELSE IF reach # {} THEN "aero" ELSE "auto"

\* What main() has decided when it creates the channelizer.
Plan(o) ==
    LET sat == satellites[o.satellite]
        skip_c == AutoSkipC(o)
        freqs == Freqs(SelectSeq(sat.channels,
                                 LAMBDA c : Decodes(o.mode, skip_c, c)))
        lo == IF freqs = {} THEN sat.freq_min ELSE Min(freqs)
        hi == IF freqs = {} THEN sat.freq_max ELSE Max(freqs)
        center == IF o.center_freq = 0 THEN lo + (hi - lo) \div 2
                  ELSE o.center_freq
        rate == IF o.samp_rate = 0 THEN AutoRate(o, hi - lo) ELSE o.samp_rate
        mode == AutoMode(o.mode, sat.channels, center, rate)
    IN [center |-> center, rate |-> rate, mode |-> mode, skip_c |-> skip_c,
        channels |-> SelectSeq(sat.channels,
                               LAMBDA c : /\ InBandwidth(c.frequency, center, rate)
                                          /\ Decodes(mode, skip_c, c))]

-----------------------------------------------------------------------------
(* channelizer.c: rates, families and decimation factors *)

MAX_STAGES == 4
MAX_PER_STAGE == 16

target_output_rate(type) == IF type = "stdc" THEN 19200 ELSE 48000
target_intermediate_rate(type) ==
    IF type \in {"10500", "8400"} THEN 200000 ELSE 400000
modulation_family(type) ==
    CASE type = "stdc" -> 0 [] type \in {"600", "1200"} -> 1
      [] type = "10500" -> 2 [] type = "8400" -> 3
signal_bandwidth(type) ==
    CASE type = "stdc" -> 4800 [] type \in {"600", "1200"} -> 6000
      [] type = "10500" -> 21000 [] type = "8400" -> 14000

AtLeast1(n) == IF n < 1 THEN 1 ELSE n

\* The largest factor of n up to limit.
largest_factor_leq(n, limit) == Max({1} \cup {d \in 2..limit : n % d = 0})

\* The factors of the stages.  A total above 16 with no factor up to 16 gets
\* a stage of 2, and the division that follows it rounds down.
StageFactor(remaining) ==
    IF remaining <= MAX_PER_STAGE THEN remaining
    ELSE Max({2} \cup {d \in 2..MAX_PER_STAGE : remaining % d = 0})

plan_decimation(total) ==
    LET stage(p, n) == IF p.remaining <= 1 THEN p
                       ELSE [remaining |-> p.remaining \div StageFactor(p.remaining),
                             decim |-> Append(p.decim, StageFactor(p.remaining))]
    IN FoldLeftDomain(stage, [remaining |-> total, decim |-> <<>>],
                      [n \in 1..MAX_STAGES |-> n]).decim

Product(factors) == FoldLeft(LAMBDA a, b : a * b, 1, factors)

\* The split of a channel's decimation into stage 1 (its band) and stage 2.
Split(type, rate) ==
    LET total == AtLeast1(rate \div target_output_rate(type))
        s1 == largest_factor_leq(total,
                  AtLeast1(rate \div target_intermediate_rate(type)))
    IN [total |-> total, s1 |-> s1, s2 |-> AtLeast1(total \div s1)]

\* The inputs at which a stage produces an output: its counter lets one in
\* decim pass, wherever the blocks of input end.
decim_stage_process(inputs, decim) ==
    {k \in inputs : Cardinality({j \in inputs : j <= k}) % decim = 0}

\* The same for a cascade of stages, each fed by the outputs of the last.
Cascade(decims, n) == FoldLeft(decim_stage_process, 1..n, decims)

-----------------------------------------------------------------------------
\* A cascade of stages takes exactly one sample in every product of its
\* factors, wherever a block of input ends: the counters carry over.
CascadeExact(Totals, n) ==
    \A total \in Totals :
        LET decim == plan_decimation(total)
        IN Cascade(decim, n) = {k \in 1..n : k % Product(decim) = 0}

\* largest_factor_leq leaves a whole number of outputs: s1 * s2 = total; and
\* stages whose factors do not multiply to s1 leave a higher rate, never a
\* lower one, than the planned.
SplitExact(Rates) ==
    \A rate \in Rates, type \in AeroTypes \cup {"stdc"} :
        LET s == Split(type, rate)
        IN s.s1 * s.s2 = s.total /\ Product(plan_decimation(s.s1)) <= s.s1

\* channelizer_process feeds 0.05 s at a time into buffers of 0.1 s: neither
\* the band's buffer nor a channel's, with up to 31 samples left in it by the
\* flush threshold, ever truncates a block.
BuffersSuffice(Rates) ==
    \A rate \in Rates, type \in AeroTypes \cup {"stdc"} :
        LET s == Split(type, rate)
            p1 == Product(plan_decimation(s.s1))
            p2 == Product(plan_decimation(s.s2))
            block == AtLeast1(rate \div 20)
            inter == block \div p1 + 1
        IN /\ inter <= (rate \div s.s1) \div 10 + 512
           /\ 31 + inter \div p2 + 1 <= (rate \div (s.s1 * p2)) \div 10 + 512
=============================================================================
