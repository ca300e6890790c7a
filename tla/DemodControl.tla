---------------------------- MODULE DemodControl ----------------------------
(***************************************************************************)
(* What steers an Aero demodulator: the coarse frequency estimates and the *)
(* automatic frequency control in the channel's worker thread              *)
(* (mskdemodulator.cpp, oqpskdemodulator.cpp, coarsefreqestimate.cpp), the *)
(* signal status that resets the frame decoder (jaero_demod.cpp), and the  *)
(* tuning requests of the dashboard's client threads (web.c, the accessors *)
(* of main.c), which write the same members without a lock.                *)
(*                                                                         *)
(* Frequencies are in Hz of audio.  The filters, the timing and the phase  *)
(* loop are abstracted to one fact: the mean square error is below the     *)
(* threshold when mixer2 sits on a lock point, the carrier or a false lock *)
(* beside it; noise can make an estimate say otherwise, and can throw      *)
(* mixer2 onto the false lock, MaxNoise times.                             *)
(***************************************************************************)
EXTENDS Integers, FiniteSets

CONSTANTS
    Demods,        \* [kind, Fs, freq_center, lockingbw, carrier]
    Tuners,        \* client threads of the dashboard
    TuneRequests,  \* [hz, got_hz, got_afc, afc]
    FalseLock,     \* distance of the false lock from the carrier
    MaxNoise, MaxRequests    \* bounds: disturbances, requests

ASSUME DemodAssumption ==
    \A d \in Demods : d.kind \in {"pmsk", "oqpsk"} /\ d.Fs > 0 /\ d.lockingbw > 0

VARIABLES
    demod, mixer_center, mixer2, afc,
    afc_on,                    \* the copy the dashboard shows
    countdown, countdown2,     \* freqest_countdown, freqest_countdown2
    emptying,                  \* emptyingcountdown of the estimator
    moving,                    \* the worker is about to move mixer_center here
    sigstat_last, sigstat_good,
    tuner,                     \* client thread -> [at, req]
    noise, requests,           \* counts for the bounds
    good,                      \* ghost: what the last estimate found
    everbad,                   \* ghost: some estimate found no signal
    fresh,                     \* ghost: the decoder was reset since "good"
    tuned                      \* ghost: the centre that is to stay
dcvars == <<demod, mixer_center, mixer2, afc, afc_on, countdown, countdown2,
            emptying, moving, sigstat_last, sigstat_good, tuner, noise,
            requests, good, everbad, fresh, tuned>>

Distance(a, b) == IF a > b THEN a - b ELSE b - a
Clamp(f, lo, hi) == IF f < lo THEN lo ELSE IF f > hi THEN hi ELSE f
Nowhere == 0 - 1
Half(x) == x \div 2
NoRequest == [at |-> "idle", req |-> Nowhere, alone |-> FALSE]

\* setSettings: a wide locking bandwidth pulls the centre down.
Centre(d) == LET top == Half(d.Fs) - Half(d.lockingbw)
             IN IF d.freq_center > top THEN top ELSE d.freq_center

\* jaero_pmsk_create, jaero_oqpsk_cont_create: AFC on, the status callback
\* taken to have said "good" while the wrapper's copy says "bad".
DcInit ==
    /\ demod \in Demods
    /\ mixer_center = Centre(demod) /\ mixer2 = Centre(demod)
    /\ afc = TRUE /\ afc_on = TRUE
    /\ countdown = 4 /\ countdown2 = 5 /\ emptying = 1 /\ moving = Nowhere
    /\ sigstat_last = TRUE /\ sigstat_good = FALSE
    /\ tuner = [t \in Tuners |-> NoRequest]
    /\ noise = 0 /\ requests = 0
    /\ good = TRUE /\ everbad = FALSE /\ fresh = FALSE /\ tuned = Nowhere

-----------------------------------------------------------------------------
(* The worker *)

\* The false lock is the "bad stable state" that the OQPSK code provides for.
LockPoints == IF demod.kind = "oqpsk"
              THEN {demod.carrier, demod.carrier + FalseLock} ELSE {demod.carrier}

\* The estimator sees half its bandwidth to either side, and nothing while
\* its averages fill again after a big change.
InReach == Distance(demod.carrier, mixer_center) <= Half(demod.lockingbw)
Offset == IF emptying > 0 \/ ~InReach THEN 0 ELSE demod.carrier - mixer_center

\* A fault: the last status told is not remembered.
TellStatus_KeepsLast(g) ==
    /\ sigstat_last' = sigstat_last
    /\ sigstat_good' = IF g # sigstat_last THEN g ELSE sigstat_good
    /\ fresh' = (~g /\ (fresh \/ g # sigstat_last))

\* Edges of the signal status reach the wrapper and, if the signal is lost,
\* the frame decoder.
TellStatus(g) ==
    /\ sigstat_last' = g
    /\ sigstat_good' = IF g # sigstat_last THEN g ELSE sigstat_good
    /\ fresh' = (~g /\ (fresh \/ g # sigstat_last))

\* Where an estimate puts mixer2.  Without a signal, where the estimate says;
\* for OQPSK also once the signal has looked good five times, because no data
\* carrier detect ever confirms it.
Retuned(g) ==
    LET aim == mixer_center + Offset
    IN IF demod.kind = "pmsk" THEN IF g THEN mixer2 ELSE aim
       ELSE IF g THEN IF countdown2 > 0 THEN mixer2 ELSE aim
       ELSE IF Distance(mixer2, aim) > 3 THEN aim ELSE mixer2

\* AFC wants to move the centre; for MSK it waits for a data carrier detect
\* that nothing reports.
WantsMove(g, m2) ==
    demod.kind = "oqpsk" /\ afc /\ g /\ Distance(m2, mixer_center) > 3

\* FreqOffsetEstimateSlot, up to the move of mixer_center.
Estimate ==
    /\ moving = Nowhere
    /\ \E g \in BOOLEAN :
          /\ g # (mixer2 \in LockPoints) => noise < MaxNoise
          /\ noise' = IF g # (mixer2 \in LockPoints) THEN noise + 1 ELSE noise
          /\ mixer2' = Retuned(g)
          /\ countdown2' = IF demod.kind = "oqpsk" /\ g
                           THEN IF countdown2 > 0 THEN countdown2 - 1 ELSE 0
                           ELSE 5
          /\ countdown' = IF WantsMove(g, mixer2')
                          THEN IF countdown > 0 THEN countdown - 1 ELSE 0
                          ELSE 4
          /\ moving' = IF WantsMove(g, mixer2') /\ countdown = 0 THEN mixer2'
                       ELSE Nowhere
          /\ TellStatus(g)
          /\ good' = g /\ everbad' = (everbad \/ ~g)
    /\ emptying' = IF emptying > 0 THEN emptying - 1 ELSE 0
    /\ UNCHANGED <<demod, mixer_center, afc, afc_on, tuner, requests, tuned>>

\* A fault: limits counted from 0 Hz, which cross for a wide bandwidth.
MoveTo_Absolute(f) ==
    LET half == Half(demod.lockingbw)
        up == IF f < half THEN half ELSE f
    IN IF up > Half(demod.Fs) - half THEN Half(demod.Fs) - half ELSE up

\* Half the bandwidth around the nominal centre, and clear of both ends.
MoveTo(f) ==
    LET half == Half(demod.lockingbw)
        lo == IF Centre(demod) - half < 500 THEN 500 ELSE Centre(demod) - half
        hi == IF Centre(demod) + half > Half(demod.Fs) - 500
              THEN Half(demod.Fs) - 500 ELSE Centre(demod) + half
    IN Clamp(f, lo, hi)

\* The rest of the slot.  The client threads may have written in between.
Move ==
    /\ moving # Nowhere
    /\ mixer_center' = MoveTo(moving)
    /\ moving' = Nowhere /\ emptying' = 4
    /\ tuner' = [t \in Tuners |-> [tuner[t] EXCEPT !.alone = FALSE]]
    /\ tuned' = IF ~afc /\ \A t \in Tuners : tuner[t].at = "idle"
                THEN MoveTo(moving) ELSE tuned
    /\ UNCHANGED <<demod, mixer2, afc, afc_on, countdown, countdown2,
                   sigstat_last, sigstat_good, noise, requests, good, everbad,
                   fresh>>

\* The phase loop slips from the carrier to the false lock.
Slip ==
    /\ demod.kind = "oqpsk" /\ mixer2 = demod.carrier /\ noise < MaxNoise
    /\ mixer2' = demod.carrier + FalseLock /\ noise' = noise + 1
    /\ UNCHANGED <<demod, mixer_center, afc, afc_on, countdown, countdown2,
                   emptying, moving, sigstat_last, sigstat_good, tuner,
                   requests, good, everbad, fresh, tuned>>

-----------------------------------------------------------------------------
(* The client threads: /api/tune *)

\* A fault: a frequency leaves AFC as it is.
afc_action_Leaves(req) == IF req.got_afc THEN IF req.afc THEN 1 ELSE -1 ELSE 0

\* 1 on, -1 off, 0 leave: a frequency alone turns AFC off.
afc_action(req) ==
    IF req.got_afc THEN IF req.afc THEN 1 ELSE -1
    ELSE IF req.got_hz THEN -1 ELSE 0

\* setManualTune keeps clear of both ends.
ManualHz(hz) == Clamp(hz, 500, Half(demod.Fs) - 500)

OthersIdle(t) == \A u \in Tuners \ {t} : tuner[u].at = "idle"

\* client_thread: the request is read.  One that names neither is refused.
Request(t, req) ==
    /\ tuner[t].at = "idle" /\ requests < MaxRequests
    /\ req.got_hz \/ req.got_afc
    /\ requests' = requests + 1
    /\ tuner' = [u \in Tuners |->
                   IF u = t
                   THEN [at |-> IF req.got_hz THEN "center" ELSE "afc",
                         req |-> req,
                         alone |-> moving = Nowhere /\ OthersIdle(t)]
                   ELSE [tuner[u] EXCEPT !.alone = FALSE]]
    /\ tuned' = Nowhere
    /\ UNCHANGED <<demod, mixer_center, mixer2, afc, afc_on, countdown,
                   countdown2, emptying, moving, sigstat_last, sigstat_good,
                   noise, good, everbad, fresh>>

\* web_set_tune_by_channel: the two mixers, then AFC, then the copy of it.
TuneStep(t) ==
    /\ \/ /\ tuner[t].at = "center"
          /\ mixer_center' = ManualHz(tuner[t].req.hz)
          /\ tuner' = [tuner EXCEPT ![t].at = "mixer2"]
          /\ UNCHANGED <<mixer2, afc, afc_on, emptying, tuned>>
       \/ /\ tuner[t].at = "mixer2"
          /\ mixer2' = ManualHz(tuner[t].req.hz) /\ emptying' = 4
          /\ tuner' = [tuner EXCEPT ![t].at = "afc"]
          /\ UNCHANGED <<mixer_center, afc, afc_on, tuned>>
       \/ /\ tuner[t].at = "afc"
          /\ afc' = IF afc_action(tuner[t].req) = 0 THEN afc
                    ELSE afc_action(tuner[t].req) > 0
          /\ tuner' = [tuner EXCEPT ![t].at = "shadow"]
          /\ UNCHANGED <<mixer_center, mixer2, afc_on, emptying, tuned>>
       \/ /\ tuner[t].at = "shadow"
          /\ afc_on' = IF afc_action(tuner[t].req) = 0 THEN afc_on
                       ELSE afc_action(tuner[t].req) > 0
          /\ tuner' = [tuner EXCEPT ![t] = NoRequest]
          /\ tuned' = IF /\ tuner[t].alone /\ moving = Nowhere
                         /\ tuner[t].req.got_hz /\ ~tuner[t].req.got_afc
                      THEN ManualHz(tuner[t].req.hz)
                      ELSE IF ~afc /\ moving = Nowhere /\ OthersIdle(t)
                      THEN mixer_center ELSE tuned
          /\ UNCHANGED <<mixer_center, mixer2, afc, emptying>>
    /\ UNCHANGED <<demod, countdown, countdown2, moving, sigstat_last,
                   sigstat_good, noise, requests, good, everbad, fresh>>

DcNext == \/ Estimate \/ Move \/ Slip
          \/ \E t \in Tuners : TuneStep(t) \/ \E req \in TuneRequests : Request(t, req)

\* Samples keep coming, and a request that was read is served.
DcFairness == WF_dcvars(Estimate \/ Move) /\ \A t \in Tuners : WF_dcvars(TuneStep(t))
DcSpec == DcInit /\ [][DcNext]_dcvars /\ DcFairness

-----------------------------------------------------------------------------
(* Properties *)

\* Once some estimate has found no signal, the status the dashboard shows is
\* what the last estimate found; and whenever an estimate finds no signal the
\* frame decoder has been reset since the last one that did.
SignalStatusTold ==
    /\ everbad => sigstat_good = good
    /\ ~good => fresh

\* A frequency set from the dashboard sticks until the next request, whatever
\* estimates come.  The promise is for a request that no other request and no
\* AFC move already begun ran into; one that something ran into may end on
\* another frequency.  But once the requests and that move are done and AFC is
\* off, mixer_center stays where it then is, whichever write was the last.
TuneSticks == tuned # Nowhere => mixer_center = tuned

\* A steady carrier within reach is followed whatever the noise did before:
\* MSK brings mixer2 to it, OQPSK with AFC on also the centre, false lock or
\* not, however wide the locking bandwidth.
CarrierFollowed ==
    <>[](afc /\ InReach) =>
        <>[](/\ mixer2 = demod.carrier
             /\ demod.kind = "oqpsk" => mixer_center = demod.carrier)
=============================================================================
