---------------------------- MODULE DeviceSetup -----------------------------
(***************************************************************************)
(* How the SDR backends acquire and release their devices: the set-up that *)
(* main calls before it starts the input thread, the start of the stream   *)
(* in that thread, its end, and, for SDRplay, the handler that runs at     *)
(* exit.  A library call succeeds or fails; a failure that errx follows    *)
(* ends the process.  Calls that only a warning follows change nothing     *)
(* here and are left out, with gains, antennas and bias tees.              *)
(*                                                                         *)
(* `service` is what the library, for SDRplay a service outside of the     *)
(* process, holds for the program.  The operating system closes what an    *)
(* ended process left open, but not in that service: "a device left        *)
(* selected wedges the API service" (sdrplay.c:44).                        *)
(***************************************************************************)
EXTENDS Integers, Sequences, FiniteSets, FiniteSetsExt

CONSTANTS SdrBackends,  \* the backends to consider
          MaxInterrupts \* bound: SIGINTs from the user

ASSUME SdrAssumption ==
    /\ SdrBackends \subseteq {"rtlsdr", "hackrf", "airspy", "sdrplay", "bladerf", "usrp", "soapy"}
    /\ MaxInterrupts \in Nat

VARIABLES sdr,          \* the backend in use
          phase,        \* "setup", "listing", "starting", "streaming", "ending", "exiting", "gone"
          at,           \* the next step of the phase
          service,      \* resources held in the library
          ctx,          \* sdrplay_ctx_t: opened, locked, selected, initialized
          active_ctx,   \* ctx is registered for the handler at exit
          up,           \* the program's flag `running`
          interrupts,   \* SIGINTs so far
          left,         \* "no", "exit" (return or errx) or "_exit"
          misused       \* ghost: a release out of order, or of something not held

sdrVars == <<sdr, phase, at, service, ctx, active_ctx, up, interrupts, left, misused>>

-----------------------------------------------------------------------------
(* Steps: the resource a call acquires or releases, if any.                *)

Check == [does |-> "check", what |-> "none"]
Get(r) == [does |-> "get", what |-> r]
Free(r) == [does |-> "free", what |-> r]

\* Device count and index, open.
rtlsdr_backend_setup == <<Check, Get("device")>>
\* hackrf_init is not tested; open, sample rate, frequency.
hackrf_backend_setup == <<Get("device"), Check, Check>>
\* Open, sample type, the list of rates, the rate, the frequency.
airspy_backend_setup == <<Get("device"), Check, Check, Check, Check>>
\* Open by instance or else any device, bandwidth, frequency.
bladerf_backend_setup == <<Get("device"), Check, Check>>
\* Make, rate, frequency.
usrp_backend_setup == <<Get("device"), Check, Check>>
\* Open by arguments or by index, rate, frequency.
soapy_setup == <<Check, Get("device"), Check, Check>>
\* Open, version, lock, list, match the serial, select, unlock, parameters, init.
sdrplay_setup ==
    <<Get("api"), Check, Get("lock"), Check, Check, Get("device"), Free("lock"), Check, Get("stream")>>

SetupOf == [rtlsdr |-> rtlsdr_backend_setup, hackrf |-> hackrf_backend_setup,
            airspy |-> airspy_backend_setup, bladerf |-> bladerf_backend_setup,
            usrp |-> usrp_backend_setup, soapy |-> soapy_setup, sdrplay |-> sdrplay_setup]

\* sdrplay_list takes the same steps up to the list and undoes them by hand.
sdrplay_list == <<Get("api"), Check, Get("lock"), Check>>

(* What the input thread does before its loop, and after it.  For rtlsdr   *)
(* the loop is a call whose result is not tested, and main closes.         *)
StartOf == [rtlsdr |-> <<>>, hackrf |-> <<Get("stream")>>, airspy |-> <<Get("stream")>>,
            bladerf |-> <<Get("stream"), Check, Check, Get("module")>>, usrp |-> <<Get("stream")>>,
            soapy |-> <<Get("stream"), Get("active")>>, sdrplay |-> <<>>]
EndOf == [rtlsdr |-> <<Free("device")>>,
          hackrf |-> <<Free("stream"), Free("device")>>, airspy |-> <<Free("stream")>>,
          bladerf |-> <<Free("module")>>, usrp |-> <<Free("stream")>>,
          soapy |-> <<Free("active"), Free("stream")>>, sdrplay |-> <<>>]

\* What must have been released before a resource is.
Above(r) == CASE r = "api" -> {"lock", "device", "stream"}
              [] r = "device" -> {"stream", "module", "active"}
              [] r = "stream" -> {"module", "active"}
              [] OTHER -> {}

Release(r) ==
    /\ misused' = (misused \/ r \notin service \/ Above(r) \cap service # {})
    /\ service' = service \ {r}

\* The four flags of ctx in the order of teardown, and what they stand for.
Flags == <<"stream", "lock", "device", "api">>

-----------------------------------------------------------------------------

SdrInit ==
    /\ sdr \in SdrBackends
    /\ phase \in {"setup", "listing"} /\ (phase = "listing" => sdr = "sdrplay")
    /\ at = 1 /\ service = {} /\ ctx = {}
    /\ active_ctx = (phase = "setup" /\ sdr = "sdrplay")
    /\ up = TRUE /\ interrupts = 0 /\ left = "no" /\ misused = FALSE

Steps == CASE phase = "setup" -> SetupOf[sdr]
           [] phase = "listing" -> sdrplay_list
           [] phase = "starting" -> StartOf[sdr]
           [] phase = "ending" -> EndOf[sdr]
           [] OTHER -> <<>>

AtStep == at <= Len(Steps)

\* ctx is marked only when the parameters are known.
Marks_Late(r) == IF sdr = "sdrplay" /\ at > 6 THEN ctx \cup {r} ELSE ctx

\* Only SDRplay keeps a context, and marks what it has acquired.
Marks(r) == IF phase = "setup" /\ sdr = "sdrplay" THEN ctx \cup {r} ELSE ctx

CallSucceeds ==
    /\ AtStep
    /\ LET s == Steps[at]
       IN  \/ s.does = "check" /\ UNCHANGED <<service, ctx, misused>>
           \/ /\ s.does = "get"
              /\ service' = service \cup {s.what} /\ ctx' = Marks(s.what)
              /\ UNCHANGED misused
           \/ /\ s.does = "free"
              /\ Release(s.what) /\ ctx' = ctx \ {s.what}
    /\ at' = at + 1
    /\ UNCHANGED <<sdr, phase, active_ctx, up, interrupts, left>>

(* errx in the set-up or in the input thread; the list releases what it    *)
(* has and returns, and airspy only stops when its stream does not start.  *)
CallFails ==
    /\ AtStep /\ Steps[at].does # "free"
    /\ at' = 1
    /\ \/ /\ phase = "listing"
          /\ service' = {} /\ phase' = "gone" /\ left' = "exit"
          /\ UNCHANGED up
       \/ /\ phase \in {"setup", "starting"} /\ ~(phase = "starting" /\ sdr = "airspy")
          /\ phase' = "exiting"
          /\ UNCHANGED <<service, left, up>>
       \/ /\ phase = "starting" /\ sdr = "airspy"
          /\ phase' = "exiting" /\ up' = FALSE
          /\ UNCHANGED <<service, left>>
    /\ UNCHANGED <<sdr, ctx, active_ctx, interrupts, misused>>

ListEnds ==
    /\ phase = "listing" /\ ~AtStep
    /\ service' = {} /\ phase' = "gone" /\ left' = "exit"
    /\ UNCHANGED <<sdr, at, ctx, active_ctx, up, interrupts, misused>>

\* The set-up is followed by the input thread, its loop, and its end.
NextPhase ==
    /\ ~AtStep
    /\ \/ phase = "setup" /\ phase' = "starting"
       \/ phase = "starting" /\ phase' = "streaming"
       \/ phase = "streaming" /\ ~up /\ phase' = "ending"
       \/ phase = "ending" /\ (sdr = "sdrplay" => ctx = {}) /\ phase' = "exiting"
    /\ at' = 1
    /\ active_ctx' = (active_ctx /\ phase # "ending")
    /\ UNCHANGED <<sdr, service, ctx, up, interrupts, left, misused>>

NextFlag == Min({i \in DOMAIN Flags : Flags[i] \in ctx})

(* One step of teardown, by the stream thread or by the handler at exit:   *)
(* a flag is cleared before its call is made.                              *)
teardown ==
    /\ sdr = "sdrplay" /\ ctx # {}
    /\ phase = "ending" \/ (phase = "exiting" /\ active_ctx)
    /\ ctx' = ctx \ {Flags[NextFlag]}
    /\ Release(Flags[NextFlag])
    /\ UNCHANGED <<sdr, phase, at, active_ctx, up, interrupts, left>>

\* The process ends after its exit handlers.
Exit ==
    /\ phase = "exiting" /\ (active_ctx => ctx = {})
    /\ phase' = "gone" /\ left' = "exit"
    /\ UNCHANGED <<sdr, at, service, ctx, active_ctx, up, interrupts, misused>>

\* sig_handler; the second signal ends the process without the handlers.
Interrupt ==
    /\ phase # "gone" /\ interrupts < MaxInterrupts
    /\ interrupts' = interrupts + 1
    /\ IF up THEN up' = FALSE /\ UNCHANGED <<phase, left>>
       ELSE phase' = "gone" /\ left' = "_exit" /\ UNCHANGED up
    /\ UNCHANGED <<sdr, at, service, ctx, active_ctx, misused>>

\* The device is unplugged, or the stream ends by itself.
StreamEnds ==
    /\ phase = "streaming" /\ up
    /\ up' = FALSE
    /\ UNCHANGED <<sdr, phase, at, service, ctx, active_ctx, interrupts, left, misused>>

SdrNext == CallSucceeds \/ CallFails \/ ListEnds \/ NextPhase \/ teardown \/ Exit \/ Interrupt \/ StreamEnds

SdrSpec == SdrInit /\ [][SdrNext]_sdrVars

-----------------------------------------------------------------------------
(* Choices made from what a device offers *)

\* The smallest rate that is large enough, else the largest one.
airspy_pick_samplerate(rates, requested) ==
    LET enough == {r \in rates : r >= requested}
    IN  IF rates = {} THEN 0 ELSE IF enough # {} THEN Min(enough) ELSE Max(rates)

\* --airspy-gain, else --soapy-gain mapped from tenths of dB and clamped, else 19.
airspy_gain(native, explicit, tenths) ==
    IF native >= 0 THEN native
    ELSE IF ~explicit THEN 19
    ELSE Max({0, Min({21, (tenths * 42 + 496) \div 992})})

\* The nearest supported gain; a target of 40 dB or less means the maximum.
rtlsdr_gain(gains, tenths) ==
    LET target == IF tenths <= 400 THEN 496 ELSE tenths
        Dist(i) == IF gains[i] < target THEN target - gains[i] ELSE gains[i] - target
    IN  gains[CHOOSE i \in DOMAIN gains : /\ \A j \in DOMAIN gains : Dist(i) <= Dist(j)
                                          /\ \A j \in 1..(i - 1) : Dist(i) < Dist(j)]

\* Filter bandwidths in kHz: the first one not below the rate, else the widest.
pick_bandwidth(kHz) ==
    LET offered == {300, 600, 1536, 5000, 6000, 7000}
        wide == {b \in offered : kHz <= b}
    IN  IF wide = {} THEN 8000 ELSE Min(wide)

\* CS8 wherever it is listed, else CF32 if listed, else CS16.
soapy_format(formats) ==
    IF "CS8" \in formats THEN "CS8" ELSE IF "CF32" \in formats THEN "CF32" ELSE "CS16"

\* The formats the stream thread tries, from the chosen one on.
soapy_tries(formats) ==
    LET f == soapy_format(formats)
    IN  IF f = "CS8" THEN <<"CS8", "CF32", "CS16">> ELSE IF f = "CF32" THEN <<"CF32", "CS16">> ELSE <<"CS16">>

(* An airspy runs at a rate it offers, and never below what the channels   *)
(* need if it can do better; an rtlsdr's gain is one the tuner has.        *)
DeviceChoicesExact(Rates, Requests, Gains, Targets) ==
    /\ \A rates \in SUBSET Rates \ {{}} : \A q \in Requests :
         LET pick == airspy_pick_samplerate(rates, q)
         IN  pick \in rates /\ (pick < q => \A r \in rates : r < q)
    /\ \A t \in Targets : /\ rtlsdr_gain(Gains, t) \in {Gains[i] : i \in DOMAIN Gains}
                          /\ airspy_gain(-1, TRUE, t) \in 0..21

-----------------------------------------------------------------------------
(* Properties *)

(* Whatever call of a set-up, of a list or of a stream fails, and whenever *)
(* the program is told to stop, a process that ends by exit leaves nothing *)
(* in the SDRplay service (sdrplay.c:44), and no backend releases a        *)
(* resource that it does not hold, twice, or before what depends on it.    *)
(* A second SIGINT ends the process with _exit and is the exception.       *)
ServiceReleased ==
    /\ ~misused
    /\ sdr = "sdrplay" /\ left = "exit" => service = {}
=============================================================================
