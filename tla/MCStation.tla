----------------------------- MODULE MCStation ------------------------------
(***************************************************************************)
(* The parts of the station around the decoders, for TLC: the channelizer, *)
(* the BaseStation connections, what becomes of an ACARS message, the      *)
(* control of a demodulator, the VITA-49 receiver and the set-up of a      *)
(* device.  They share no variable, so their properties are checked one    *)
(* part at a time: `part` says which part moves in a behaviour, and the    *)
(* others stay in an initial state.                                        *)
(***************************************************************************)
EXTENDS MCChannels, MCBaseStation, Acars, DemodControl, Vita49, DeviceSetup

Cli == INSTANCE Options
Simd == INSTANCE SimdKernels

VARIABLE part

allVars == <<chvars, bsvars, acvars, dcvars, vitaVars, sdrVars>>
stationVars == <<allVars, part>>

-----------------------------------------------------------------------------
(* Messages.  Three aircraft, two of which the database knows. *)

Message(reg, label) ==
  [reg |-> reg, label |-> label, complete |-> TRUE, tags |-> <<>>,
   coords |-> <<0, 0, 0>>, idents |-> <<>>, alts |-> <<0, 0, 0, 0>>, plan |-> <<>>]

Report(tag, pos, alt, valid) == [tag |-> tag, pos |-> pos, alt |-> alt, valid |-> valid]
Pair(ident, len, pos) == [ident |-> ident, len |-> len, pos |-> pos]
Line(hex, digits, reg) == [hex |-> hex, digits |-> digits, reg |-> reg]

A == <<65>>
B == <<DOT, 66>>
C == <<67>>

MCMessages ==
  {[Message(A, "B6") EXCEPT !.tags = <<Report(7, -1, 0, FALSE), Report(9, 2, 300, FALSE),
                                       Report(14, 0, 0, TRUE)>>],
   [Message(A, "H1") EXCEPT !.coords = <<-1, 4, 0>>],
   [Message(A, "H1") EXCEPT !.complete = FALSE],
   [Message(B, "H1") EXCEPT !.coords = <<6, 0, 0>>],
   [Message(C, "20") EXCEPT !.idents = <<"FAROS">>],
   [Message(C, "H1") EXCEPT !.plan = <<Pair("X", 1, 3), Pair("FAROS", 5, 8)>>],
   [Message(B, "H1") EXCEPT !.plan = <<Pair("FAROS", 5, 9)>>]}

MCWaypoints == <<[fields |-> 3, len |-> 5, ident |-> "TUPAC", pos |-> 12]>>
MCAircraft == <<Line(20, TRUE, <<66, DASH>>), Line(10, TRUE, <<97>>), Line(30, FALSE, C)>>

-----------------------------------------------------------------------------
(* Demodulators and requests.  The last demodulator is on its carrier. *)

Oqpsk(bw, carrier) ==
  [kind |-> "oqpsk", Fs |-> 48000, freq_center |-> 8000, lockingbw |-> bw, carrier |-> carrier]
OnCarrier ==
  [kind |-> "pmsk", Fs |-> 48000, freq_center |-> 1000, lockingbw |-> 1800, carrier |-> 1000]

MCDemods == {Oqpsk(10500, 6000), Oqpsk(30000, 12000),
             [OnCarrier EXCEPT !.carrier = 1600], OnCarrier}

Tune(hz, got_hz, got_afc, on) ==
  [hz |-> hz, got_hz |-> got_hz, got_afc |-> got_afc, afc |-> on]
MCRequests == {Tune(7000, TRUE, FALSE, FALSE), Tune(30000, TRUE, TRUE, TRUE),
               Tune(0, FALSE, TRUE, TRUE)}

-----------------------------------------------------------------------------
(* Datagrams. *)

Shape(len, vrl, type, size, cif) ==
  [len |-> len, vrl |-> vrl, type |-> type, class_id |-> FALSE, trailer |-> FALSE,
   tsi |-> TRUE, tsf |-> FALSE, size |-> size, cif |-> cif]

MCEndpoints == {[port |-> p, resolves |-> TRUE, binds |-> TRUE] : p \in {0, 4991}}
MCData == {Shape(36, TRUE, 1, 6, {}), Shape(32, FALSE, 1, 9, {})}
MCContext == {Shape(40, FALSE, 4, 8, {3, 11})}

MCShapes ==
  [len : {0, 3, 4, 8, 11, 12, 16, 24, 28, 32, 36, 48}, vrl : BOOLEAN, type : {0, 1, 4},
   class_id : BOOLEAN, trailer : BOOLEAN, tsi : BOOLEAN, tsf : BOOLEAN,
   size : {0, 1, 3, 4, 5, 7, 8, 9}, cif : {{}, {5}, {3, 11}, {1, 8, 11}}]

-----------------------------------------------------------------------------
(* The specification. *)

Parts == {"channels", "basestation", "acars", "demod", "vita49", "device"}

(* Where a part stands while another one moves: a state in which nothing   *)
(* is owed, so that a part that is not run violates nothing.               *)
Still ==
  /\ part # "channels" =>
       conf = [satellite |-> "3F5", sdrs |-> {}, mode |-> "stdc", skip_c |-> FALSE,
               samp_rate |-> 0, center_freq |-> 0, ppm |-> 0]
  /\ part # "basestation" => bs_mode = "server"
  /\ part # "demod" => demod = OnCarrier
  /\ part # "device" => sdr = "rtlsdr"

StationInit ==
  /\ part \in Parts
  /\ ChInit /\ BsInit /\ AcInit /\ DcInit /\ VitaInit /\ SdrInit
  /\ Still

OnlyChannels == UNCHANGED <<bsvars, acvars, dcvars, vitaVars, sdrVars, part>>
OnlyBaseStation == UNCHANGED <<chvars, acvars, dcvars, vitaVars, sdrVars, part>>
OnlyAcars == UNCHANGED <<chvars, bsvars, dcvars, vitaVars, sdrVars, part>>
OnlyDemod == UNCHANGED <<chvars, bsvars, acvars, vitaVars, sdrVars, part>>
OnlyVita49 == UNCHANGED <<chvars, bsvars, acvars, dcvars, sdrVars, part>>
OnlyDevice == UNCHANGED <<chvars, bsvars, acvars, dcvars, vitaVars, part>>

StationNext ==
  \/ part = "channels" /\ ChNext /\ OnlyChannels
  \/ part = "basestation" /\ BsNext /\ OnlyBaseStation
  \/ part = "acars" /\ AcNext /\ OnlyAcars
  \/ part = "demod" /\ DcNext /\ OnlyDemod
  \/ part = "vita49" /\ VitaNext /\ OnlyVita49
  \/ part = "device" /\ SdrNext /\ OnlyDevice

BsDoes(action) == part = "basestation" /\ action /\ OnlyBaseStation
DcDoes(action) == part = "demod" /\ action /\ OnlyDemod

(* BsFairness and DcFairness, of the part that moves. *)
StationFairness ==
  /\ WF_stationVars(BsDoes(BsThread))
  /\ SF_stationVars(BsDoes(Connected /\ bs_mode = "push"))
  /\ WF_stationVars(BsDoes(ConnectRefused))
  /\ WF_stationVars(BsDoes(SendPosition))
  /\ WF_stationVars(DcDoes(Estimate \/ Move))
  /\ \A t \in Tuners : WF_stationVars(DcDoes(TuneStep(t)))

StationSpec == StationInit /\ [][StationNext]_stationVars /\ StationFairness

-----------------------------------------------------------------------------
(* The pure parts, against their references. *)

PlannedRates == {Plan(o).rate : o \in MCConfigs}

ASSUME DecimationChecked == CascadeExact(2..40, 130)

ASSUME RatesChecked == SplitExact(PlannedRates) /\ BuffersSuffice(PlannedRates)

ASSUME TablesChecked ==
  /\ StdcListExact(7)
  /\ LookupByHexExact({Line(1, TRUE, A), Line(3, TRUE, B), Line(3, TRUE, C),
                       Line(5, FALSE, C), Line(7, TRUE, <<DASH, 97>>)}, 0..8, 4)
  /\ LookupRoundTrips({Line(1, TRUE, A), Line(3, TRUE, B), Line(4, TRUE, <<97, DASH>>),
                       Line(5, FALSE, C), Line(7, TRUE, <<DOT>>)}, 4)

ASSUME HeadersChecked == HeadersExact(MCShapes)

ASSUME DevicesChecked ==
  DeviceChoicesExact({25, 30, 60, 100}, {1, 24, 25, 31, 60, 101},
                     <<0, 9, 140, 402, 480, 496>>, {0, 100, 400, 401, 450, 480, 900})

Opt(o, s, n) == [o |-> o, s |-> s, n |-> n]

ASSUME OptionsChecked ==
  Cli!OptionsExact(
    {Opt("file", "cs16", 0), Opt("file", "-", 0), Opt("file", "fc32", 0), Opt("live", "", 0),
     Opt("interface", "hackrf", 0), Opt("interface", "soapynum", 0), Opt("interface", "rtl", 0),
     Opt("sample-rate", "", 3000000), Opt("center-freq", "", 1545100000),
     Opt("format", "cu8", 0), Opt("format", "fc32", 0), Opt("satellite", "4F3", 0),
     Opt("mode", "full", 0), Opt("spectrum", "", 0), Opt("iq-zmq", "", 0),
     Opt("vita49", "", 0), Opt("update-db", "", 0), Opt("oqpsk-lockingbw", "", 50000),
     Opt("udp", "host", 5555), Opt("value", "", 7), Opt("soapy-setting", "", 0)}, 3)

ASSUME KernelsChecked ==
  /\ \A n \in 0..20 : Simd!KernelsAgree(n, 1 + (n % 13))
  /\ \A t \in 0..20 : Simd!KernelsAgree(3, t)

=============================================================================
