------------------------------ MODULE Options -------------------------------
(***************************************************************************)
(* parse_options of options.c and the choice of the input that main makes  *)
(* from it, for a build with every backend.  The command line is a         *)
(* sequence of options [o, s, n]: its name, its argument as a name and as  *)
(* a number (what atoi or atof makes of it), "" and 0 if it has none.      *)
(* Options that only set a value of their own (gains, ports, hosts,        *)
(* credentials, the station's name) are one option, "value".               *)
(***************************************************************************)
EXTENDS Integers, Sequences, SequencesExt, FiniteSets, FiniteSetsExt, TLC

UDP_MAX == 4
SOAPY_SETTINGS_MAX == 8
SOAPY_GAINS_MAX == 8

Formats == {"ci8", "cu8", "ci16", "cf32"}
Spelling(f) == CASE f = "cs8" -> "ci8" [] f = "cs16" -> "ci16" [] OTHER -> f
Extension(f) == IF f = "fc32" THEN "cf32" ELSE Spelling(f)
Modes == {"auto", "aero", "stdc", "full"}
Interfaces == {"rtl", "hackrf", "bladerf", "usrp", "airspy", "sdrplay",
               "soapyargs", "soapynum"}

Defaults ==
    [end |-> "no", in_filename |-> "", live |-> FALSE, chosen |-> {},
     samp_rate |-> 0, center_freq |-> 0, iq_format |-> "ci8",
     format_explicit |-> FALSE, satellite_name |-> "", op_mode |-> "aero",
     web_enabled |-> FALSE, spectrum_enabled |-> FALSE, iq_zmq_enabled |-> FALSE,
     vita49_enabled |-> FALSE, update_db_flag |-> FALSE, skip_c_channel |-> FALSE,
     oqpsk_lockingbw |-> 0, udp_count |-> 0, settings |-> 0, gains |-> 0]

Failed(c) == [c EXCEPT !.end = "error"]

\* One option that takes HOST:PORT or KEY:VALUE, of which there is room for
\* a few; s is "" when the separator is missing.
Listed(c, field, max, ok) ==
    IF c[field] >= max \/ ~ok THEN Failed(c) ELSE [c EXCEPT ![field] = @ + 1]

\* One turn of the loop over getopt_long.
Apply(c, t) ==
    CASE c.end # "no" -> c
      [] t.o = "file" -> [c EXCEPT !.in_filename = t.s]
      [] t.o = "live" -> [c EXCEPT !.live = TRUE]
      [] t.o = "interface" ->
            IF t.s \in Interfaces
            THEN [c EXCEPT !.live = TRUE, !.chosen = @ \cup {t.s}]
            ELSE Failed(c)
      [] t.o = "sample-rate" -> [c EXCEPT !.samp_rate = t.n]
      [] t.o = "center-freq" -> [c EXCEPT !.center_freq = t.n]
      [] t.o = "format" ->
            IF Spelling(t.s) \in Formats
            THEN [c EXCEPT !.iq_format = Spelling(t.s), !.format_explicit = TRUE]
            ELSE Failed(c)
      [] t.o \in {"help", "list", "list-satellites"} -> [c EXCEPT !.end = "done"]
      [] t.o = "satellite" -> [c EXCEPT !.satellite_name = t.s]
      [] t.o = "mode" -> IF t.s \in Modes THEN [c EXCEPT !.op_mode = t.s]
                         ELSE Failed(c)
      [] t.o = "web" -> [c EXCEPT !.web_enabled = TRUE]
      [] t.o = "spectrum" ->
            [c EXCEPT !.web_enabled = TRUE, !.spectrum_enabled = TRUE]
      [] t.o = "iq-zmq" -> [c EXCEPT !.iq_zmq_enabled = TRUE]
      [] t.o = "vita49" -> [c EXCEPT !.vita49_enabled = TRUE]
      [] t.o = "update-db" -> [c EXCEPT !.update_db_flag = TRUE]
      [] t.o = "skip-c-channel" -> [c EXCEPT !.skip_c_channel = TRUE]
      [] t.o = "oqpsk-lockingbw" ->
            IF t.n < 1000 \/ t.n > 40000 THEN Failed(c)
            ELSE [c EXCEPT !.oqpsk_lockingbw = t.n]
      [] t.o = "udp" -> Listed(c, "udp_count", UDP_MAX,
                               t.s # "" /\ t.n >= 1 /\ t.n <= 65535)
      [] t.o = "soapy-setting" ->
            Listed(c, "settings", SOAPY_SETTINGS_MAX, t.s # "")
      [] t.o = "soapy-gain-element" ->
            Listed(c, "gains", SOAPY_GAINS_MAX, t.s # "")
      [] t.o = "value" -> c
      [] OTHER -> Failed(c)

\* The checks after the loop.
Refused(c) ==
    /\ ~c.update_db_flag
    /\ \/ c.in_filename = "" /\ ~c.live /\ ~c.vita49_enabled
       \/ c.vita49_enabled /\ (c.live \/ c.in_filename # "")
       \/ c.in_filename # "" /\ c.live
       \/ /\ c.live /\ c.satellite_name = ""
          /\ ~(c.iq_zmq_enabled /\ c.center_freq > 0 /\ c.samp_rate > 0)
       \/ c.iq_zmq_enabled /\ c.samp_rate <= 0 /\ c.satellite_name = ""

\* The format a file's name suggests counts if none was given; "-" has none.
\* A file name is abstracted to what follows its last dot.
Detected(c) ==
    IF c.in_filename \notin {"", "-"} /\ ~c.format_explicit
       /\ Extension(c.in_filename) \in Formats
    THEN Extension(c.in_filename) ELSE c.iq_format

parse_options(argv) ==
    LET c == FoldLeft(Apply, Defaults, argv)
    IN IF c.end # "no" THEN c
       ELSE IF Refused(c) THEN Failed(c)
       ELSE IF c.update_db_flag THEN c
       ELSE [c EXCEPT !.iq_format = Detected(c)]

\* main: the thread that is started, in the order in which it asks.
Order == <<"rtl", "hackrf", "bladerf", "usrp", "airspy", "sdrplay">>
InputThread(c) ==
    IF c.vita49_enabled THEN "vita49"
    ELSE IF ~c.live THEN "file"
    ELSE LET asked == {i \in DOMAIN Order : Order[i] \in c.chosen}
         IN IF asked = {} THEN "soapy" ELSE Order[Min(asked)]

-----------------------------------------------------------------------------
(* Checks over bounded command lines *)

Proceeds(c) == c.end = "no" /\ ~c.update_db_flag

\* A command line that is accepted names one input and says enough to tune:
\* a live receiver has a satellite, or a centre and a rate of its own.
AcceptedHasOneInput(argv) ==
    LET c == parse_options(argv)
        inputs == {i \in 1..3 : <<c.in_filename # "", c.live, c.vita49_enabled>>[i]}
    IN Proceeds(c) =>
          /\ Cardinality(inputs) = 1
          /\ (InputThread(c) = "file") <=> (c.in_filename # "")
          /\ c.live => c.satellite_name # "" \/ (c.center_freq > 0 /\ c.samp_rate > 0)

\* The order of the options does not matter: not for what is accepted, and
\* not for the format, which an explicit option decides before the file name.
OrderDoesNotMatter(opts) ==
    \A argv, other \in SetToSeqs(opts) :
       LET c == parse_options(argv)
           d == parse_options(other)
       IN c.end = d.end /\ (c.end = "no" => c = d)

OptionsExact(Opts, n) ==
    \A k \in 0..n : \A opts \in kSubset(k, Opts) :
       /\ \A argv \in SetToSeqs(opts) : AcceptedHasOneInput(argv)
       /\ (\A s, t \in opts : s.o = t.o => s = t) => OrderDoesNotMatter(opts)
=============================================================================
