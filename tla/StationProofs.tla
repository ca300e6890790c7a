--------------------------- MODULE StationProofs ----------------------------
(***************************************************************************)
(* Proofs about the parts of the station around the decoders: the control  *)
(* of a demodulator, the VITA-49 receiver, the set-up of a device, the     *)
(* BaseStation connections, the aircraft that ACARS messages report and    *)
(* the channel table.  They hold for any number of pipes, streams,         *)
(* packets, devices, connections, messages and channels.                   *)
(***************************************************************************)
EXTENDS BaseStation, Acars, DemodControl, Vita49, DeviceSetup, Channels,
        FiniteSetTheorems, SequenceTheorems, WellFoundedInduction, TLAPS

(* What is told is the edge from the last status told: the argument needs  *)
(* that the last one told is the last one found, and that the first status *)
(* that is not good is an edge because the callback begins with "good".    *)
StatusInv ==
    /\ sigstat_last \in BOOLEAN /\ good \in BOOLEAN /\ everbad \in BOOLEAN
    /\ sigstat_good \in BOOLEAN /\ fresh \in BOOLEAN
    /\ sigstat_last = good
    /\ ~good => everbad
    /\ SignalStatusTold

LEMMA StatusInit == DcInit => StatusInv
BY DEF DcInit, StatusInv, SignalStatusTold

LEMMA StatusStep == StatusInv /\ [DcNext]_dcvars => StatusInv'
<1> SUFFICES ASSUME StatusInv, [DcNext]_dcvars PROVE StatusInv'
  OBVIOUS
<1> USE DEF StatusInv, SignalStatusTold
<1>1. CASE Estimate
  <2>1. PICK g \in BOOLEAN : TellStatus(g) /\ good' = g /\ everbad' = (everbad \/ ~g)
    BY <1>1 DEF Estimate
  <2> QED BY <2>1 DEF TellStatus
<1>2. CASE Move BY <1>2 DEF Move
<1>3. CASE Slip BY <1>3 DEF Slip
<1>4. ASSUME NEW t \in Tuners, TuneStep(t) PROVE StatusInv'
  BY <1>4 DEF TuneStep
<1>5. ASSUME NEW t \in Tuners, NEW req \in TuneRequests, Request(t, req)
      PROVE  StatusInv'
  BY <1>5 DEF Request
<1>6. CASE UNCHANGED dcvars BY <1>6 DEF dcvars
<1> QED BY <1>1, <1>2, <1>3, <1>4, <1>5, <1>6 DEF DcNext

(* The dashboard shows what the last estimate found, and the frame decoder *)
(* of a signal that is not there has been reset since it was last there,   *)
(* although oqpsk_cont_sigstat_adapter hears of edges only.                *)
THEOREM StatusIsTold == DcSpec => []SignalStatusTold
<1>1. StatusInv => SignalStatusTold BY DEF StatusInv
<1> QED BY <1>1, StatusInit, StatusStep, PTL DEF DcSpec

-----------------------------------------------------------------------------
(* A request that is served while nothing else happens to the mixers is    *)
(* `alone`.  The argument: while it is, the others are idle and the centre *)
(* is where it put it; it has turned AFC off before it is done, so that no *)
(* later estimate begins a move; and the next request ends the promise.    *)
(* When something ran into a request, the last of the requests and of the  *)
(* move in flight leaves the same state, with the centre wherever it is.   *)

Places == {"idle", "center", "mixer2", "afc", "shadow"}

TunerType ==
    tuner \in [Tuners -> [at : Places, req : TuneRequests \cup {Nowhere},
                          alone : BOOLEAN]]

AloneInv ==
    \A t \in Tuners : tuner[t].alone =>
      /\ \A u \in Tuners \ {t} : tuner[u].at = "idle"
      /\ tuner[t].at \in {"mixer2", "afc", "shadow"} /\ tuner[t].req.got_hz =>
           mixer_center = ManualHz(tuner[t].req.hz)
      /\ tuner[t].at = "shadow" /\ tuner[t].req.got_hz /\ ~tuner[t].req.got_afc =>
           ~afc

TunedInv ==
    tuned # Nowhere =>
      /\ \A t \in Tuners : tuner[t].at = "idle"
      /\ ~afc /\ moving = Nowhere
      /\ mixer_center = tuned

TuneInv == TunerType /\ AloneInv /\ TunedInv

LEMMA TuneInit == DcInit => TuneInv
BY DEF DcInit, TuneInv, TunerType, AloneInv, TunedInv, NoRequest, Places

LEMMA FrequencyAlone ==
  ASSUME NEW req, req.got_hz, ~req.got_afc
  PROVE  afc_action(req) # 0 /\ ~(afc_action(req) > 0)
BY DEF afc_action

LEMMA TuneStepType ==
  ASSUME TunerType, NEW t \in Tuners, TuneStep(t)
  PROVE  /\ TunerType'
         /\ \A u \in Tuners \ {t} : tuner'[u] = tuner[u]
<1> DEFINE R == [at : Places, req : TuneRequests \cup {Nowhere}, alone : BOOLEAN]
<1>1. tuner \in [Tuners -> R] BY DEF TunerType
<1>2. ASSUME NEW a \in Places, tuner' = [tuner EXCEPT ![t].at = a]
      PROVE  tuner' \in [Tuners -> R] /\ \A u \in Tuners \ {t} : tuner'[u] = tuner[u]
  BY <1>1, <1>2
<1>3. ASSUME tuner' = [tuner EXCEPT ![t] = NoRequest]
      PROVE  tuner' \in [Tuners -> R] /\ \A u \in Tuners \ {t} : tuner'[u] = tuner[u]
  <2>1. NoRequest \in R BY DEF NoRequest, Places
  <2> QED BY <1>1, <1>3, <2>1
<1>4. \/ \E a \in Places : tuner' = [tuner EXCEPT ![t].at = a]
      \/ tuner' = [tuner EXCEPT ![t] = NoRequest]
  BY DEF TuneStep, Places
<1> QED BY <1>2, <1>3, <1>4 DEF TunerType

LEMMA TuneInductive == TuneInv /\ [DcNext]_dcvars => TuneInv'
<1> SUFFICES ASSUME TuneInv, [DcNext]_dcvars PROVE TuneInv'
  OBVIOUS
<1> USE DEF TuneInv
<1>1. CASE Estimate
  <2>1. UNCHANGED <<demod, mixer_center, afc, tuner, tuned>> BY <1>1 DEF Estimate
  <2>2. ~afc => moving' = Nowhere BY <1>1 DEF Estimate, WantsMove
  <2> QED BY <2>1, <2>2 DEF TunerType, AloneInv, TunedInv, ManualHz
<1>2. CASE Move
  <2>1. /\ UNCHANGED afc
        /\ moving # Nowhere /\ moving' = Nowhere /\ mixer_center' = MoveTo(moving)
        /\ tuned' = IF ~afc /\ \A t \in Tuners : tuner[t].at = "idle"
                    THEN MoveTo(moving) ELSE tuned
        /\ tuner' = [t \in Tuners |-> [tuner[t] EXCEPT !.alone = FALSE]]
    BY <1>2 DEF Move
  <2>2. TunerType' BY <2>1 DEF TunerType
  <2>3. \A t \in Tuners : tuner'[t].alone = FALSE BY <2>1 DEF TunerType
  <2>4. AloneInv' BY <2>3 DEF AloneInv
  <2>5. \A t \in Tuners : tuner'[t].at = tuner[t].at BY <2>1 DEF TunerType
  <2>6. tuned = Nowhere BY <2>1 DEF TunedInv
  <2>7. TunedInv' BY <2>1, <2>5, <2>6 DEF TunedInv
  <2> QED BY <2>2, <2>4, <2>7
<1>3. CASE Slip
  BY <1>3 DEF Slip, TunerType, AloneInv, TunedInv, ManualHz
<1>4. ASSUME NEW t \in Tuners, TuneStep(t) PROVE TuneInv'
  <2>1. TunerType' /\ \A u \in Tuners \ {t} : tuner'[u] = tuner[u]
    BY <1>4, TuneStepType
  <2>2. UNCHANGED <<demod, moving>> BY <1>4 DEF TuneStep
  <2>3. tuner[t].at # "idle" BY <1>4 DEF TuneStep
  <2>4. tuned = Nowhere BY <2>3 DEF TunedInv
  <2>5. ASSUME NEW u \in Tuners \ {t} PROVE ~tuner[u].alone
    BY <2>3 DEF AloneInv, TunerType
  <2>6. CASE tuner[t].at = "center"
    <3>1. /\ mixer_center' = ManualHz(tuner[t].req.hz)
          /\ tuner' = [tuner EXCEPT ![t].at = "mixer2"]
          /\ UNCHANGED tuned
      BY <1>4, <2>6 DEF TuneStep
    <3>2. tuner'[t].at = "mixer2" /\ tuner'[t].req = tuner[t].req
          /\ tuner'[t].alone = tuner[t].alone
      BY <3>1 DEF TunerType
    <3>3. AloneInv' BY <2>1, <2>2, <2>5, <3>1, <3>2 DEF AloneInv, ManualHz
    <3> QED BY <2>1, <2>4, <3>1, <3>3 DEF TunedInv
  <2>7. CASE tuner[t].at = "mixer2"
    <3>1. /\ tuner' = [tuner EXCEPT ![t].at = "afc"]
          /\ UNCHANGED <<mixer_center, tuned>>
      BY <1>4, <2>7 DEF TuneStep
    <3>2. tuner'[t].at = "afc" /\ tuner'[t].req = tuner[t].req
          /\ tuner'[t].alone = tuner[t].alone
      BY <3>1 DEF TunerType
    <3>3. AloneInv' BY <2>1, <2>2, <2>5, <2>7, <3>1, <3>2 DEF AloneInv, ManualHz
    <3> QED BY <2>1, <2>4, <3>1, <3>3 DEF TunedInv
  <2>8. CASE tuner[t].at = "afc"
    <3>1. /\ tuner' = [tuner EXCEPT ![t].at = "shadow"]
          /\ afc' = IF afc_action(tuner[t].req) = 0 THEN afc
                    ELSE afc_action(tuner[t].req) > 0
          /\ UNCHANGED <<mixer_center, tuned>>
      BY <1>4, <2>8 DEF TuneStep
    <3>2. tuner'[t].at = "shadow" /\ tuner'[t].req = tuner[t].req
          /\ tuner'[t].alone = tuner[t].alone
      BY <3>1 DEF TunerType
    <3>3. ASSUME tuner[t].req.got_hz, ~tuner[t].req.got_afc PROVE ~afc'
      <4>1. afc_action(tuner[t].req) # 0 /\ ~(afc_action(tuner[t].req) > 0)
        BY <3>3, FrequencyAlone
      <4> QED BY <3>1, <4>1, Zenon
    <3>4. AloneInv' BY <2>1, <2>2, <2>5, <2>8, <3>1, <3>2, <3>3 DEF AloneInv, ManualHz
    <3> QED BY <2>1, <2>4, <3>1, <3>4 DEF TunedInv
  <2>9. CASE tuner[t].at = "shadow"
    <3>1. /\ tuner' = [tuner EXCEPT ![t] = NoRequest]
          /\ tuned' = IF /\ tuner[t].alone /\ moving = Nowhere
                         /\ tuner[t].req.got_hz /\ ~tuner[t].req.got_afc
                      THEN ManualHz(tuner[t].req.hz)
                      ELSE IF ~afc /\ moving = Nowhere /\ OthersIdle(t)
                      THEN mixer_center ELSE tuned
          /\ UNCHANGED <<mixer_center, afc>>
      BY <1>4, <2>9 DEF TuneStep
    <3>2. tuner'[t].at = "idle" /\ ~tuner'[t].alone
      BY <3>1 DEF TunerType, NoRequest
    <3>3. AloneInv' BY <2>1, <2>5, <3>2 DEF AloneInv
    <3>4. CASE tuned' = Nowhere BY <2>1, <3>3, <3>4 DEF TunedInv
    <3>5. CASE ~afc /\ moving = Nowhere /\ OthersIdle(t) /\ tuned' = mixer_center
      <4>1. \A u \in Tuners : tuner'[u].at = "idle" BY <2>1, <3>2, <3>5 DEF OthersIdle
      <4> QED BY <2>1, <2>2, <3>1, <3>3, <3>5, <4>1 DEF TunedInv
    <3>6. CASE /\ tuned' # Nowhere
               /\ ~(~afc /\ moving = Nowhere /\ OthersIdle(t) /\ tuned' = mixer_center)
      <4>1. /\ tuner[t].alone /\ moving = Nowhere
            /\ tuner[t].req.got_hz /\ ~tuner[t].req.got_afc
            /\ tuned' = ManualHz(tuner[t].req.hz)
        BY <2>4, <3>1, <3>6
      <4>2. mixer_center = ManualHz(tuner[t].req.hz) /\ ~afc
        BY <2>9, <4>1 DEF AloneInv
      <4>3. \A u \in Tuners : tuner'[u].at = "idle"
        BY <2>1, <3>2, <4>1 DEF AloneInv
      <4> QED BY <2>1, <2>2, <3>1, <3>3, <4>1, <4>2, <4>3 DEF TunedInv
    <3> QED BY <3>4, <3>5, <3>6
  <2> QED BY <1>4, <2>6, <2>7, <2>8, <2>9 DEF TuneStep
<1>5. ASSUME NEW t \in Tuners, NEW req \in TuneRequests, Request(t, req)
      PROVE  TuneInv'
  <2> DEFINE lone == /\ moving = Nowhere
                     /\ \A v \in Tuners \ {t} : tuner[v].at = "idle"
             mine == [at |-> IF req.got_hz THEN "center" ELSE "afc",
                      req |-> req, alone |-> lone]
  <2>1. /\ tuner' = [u \in Tuners |-> IF u = t THEN mine
                                      ELSE [tuner[u] EXCEPT !.alone = FALSE]]
        /\ tuned' = Nowhere
    BY <1>5 DEF Request, OthersIdle
  <2>2. lone \in BOOLEAN OBVIOUS
  <2>3. mine \in [at : Places, req : TuneRequests \cup {Nowhere}, alone : BOOLEAN]
    BY <2>2 DEF Places
  <2>4. TunerType' BY <2>1, <2>3 DEF TunerType
  <2>5. ASSUME NEW u \in Tuners \ {t}
        PROVE  ~tuner'[u].alone /\ tuner'[u].at = tuner[u].at
    BY <2>1 DEF TunerType
  <2>6. /\ tuner'[t].alone => \A v \in Tuners \ {t} : tuner[v].at = "idle"
        /\ tuner'[t].at = IF req.got_hz THEN "center" ELSE "afc"
        /\ tuner'[t].req = req
    BY <2>1
  <2>7. AloneInv' BY <2>5, <2>6 DEF AloneInv
  <2> QED BY <2>1, <2>4, <2>7 DEF TunedInv
<1>6. CASE UNCHANGED dcvars
  BY <1>6 DEF dcvars, TunerType, AloneInv, TunedInv, ManualHz
<1> QED BY <1>1, <1>2, <1>3, <1>4, <1>5, <1>6 DEF DcNext

(* A frequency set with /api/tune, by a request that no other request and  *)
(* no AFC move already begun ran into, stays until the next request,       *)
(* whatever the estimates of the worker say.  Where one did, both having   *)
(* written mixer_center without a lock, the frequency asked for may be     *)
(* lost, but with AFC off the centre comes to rest and stays.              *)
THEOREM TunedStays == DcSpec => []TuneSticks
<1>1. TuneInv => TuneSticks BY DEF TuneInv, TunedInv, TuneSticks
<1> QED BY <1>1, TuneInit, TuneInductive, PTL DEF DcSpec

-----------------------------------------------------------------------------
(* The VITA-49 receiver.                                                   *)

(* Two numbers less than R apart with the same remainder are equal.        *)
LEMMA SameRemainder ==
  ASSUME NEW R \in Nat \ {0}, NEW a \in Nat, NEW b \in Nat,
         a % R = b % R, a - b < R, b - a < R
  PROVE  a = b
<1> DEFINE k == (a \div R) - (b \div R)
<1>1. /\ a \div R \in Nat /\ a = R * (a \div R) + (a % R) /\ a % R \in Nat
      /\ b \div R \in Nat /\ b = R * (b \div R) + (b % R)
  OBVIOUS
<1>2. k \in Int /\ a - b = R * k BY <1>1
<1> HIDE DEF k
<1>3. CASE k >= 1
  <2>1. R * k >= R BY <1>2, <1>3
  <2> QED BY <1>2, <2>1
<1>4. CASE k <= -1
  <2>1. R * k <= -R BY <1>2, <1>4
  <2> QED BY <1>2, <2>1
<1>5. CASE k = 0 BY <1>2, <1>5
<1> QED BY <1>2, <1>3, <1>4, <1>5

(* The counter that the receiver expects next is that of the next number.  *)
LEMMA NextRemainder ==
  ASSUME NEW R \in Nat \ {0}, NEW a \in Nat
  PROVE  ((a % R) + 1) % R = (a + 1) % R
<1> DEFINE q == a \div R
           r == a % R
<1>1. q \in Nat /\ r \in 0..(R - 1) /\ a = R * q + r OBVIOUS
<1> HIDE DEF q, r
<1>2. CASE r + 1 < R
  <2>1. (r + 1) % R = r + 1 BY <1>1, <1>2
  <2>2. (R * q + (r + 1)) % R = r + 1 BY <1>1, <1>2
  <2>3. a + 1 = R * q + (r + 1) BY <1>1
  <2> QED BY <2>1, <2>2, <2>3 DEF r
<1>3. CASE r + 1 = R
  <2>1. (r + 1) % R = 0 BY <1>1, <1>3
  <2>2. a + 1 = R * (q + 1) + 0 BY <1>1, <1>3
  <2>3. (R * (q + 1) + 0) % R = 0 BY <1>1
  <2> QED BY <2>1, <2>2, <2>3 DEF r
<1> QED BY <1>1, <1>2, <1>3

(* The datagrams on their way and what was heard of them: none is overtaken *)
(* by MaxDelay later ones, and the counter is that of the last one heard.   *)
AirInv ==
  /\ sent \in Nat /\ faults \in Nat /\ skipped_pkts \in Nat /\ gap_pkts \in Nat
  /\ heard \in Seq(Nat)
  /\ \A p \in air : /\ p[1] \in Nat /\ p[1] >= sent - MaxDelay
                    /\ ~IsContext(p[2]) => p[1] < sent

HeardInv ==
  /\ have_count <=> heard # <<>>
  /\ heard # <<>> => /\ last_count = heard[Len(heard)] % CountMod
                     /\ heard[Len(heard)] < sent
  /\ v_state = "starts" => heard = <<>>

(* The data packets behind n that neither arrived nor can still arrive.    *)
AirNos == {p[1] : p \in {q \in air : ~IsContext(q[2])}}
LostAfter(n) == {x \in (n + MaxDelay)..(sent - 1) : x \notin AirNos}

LossInv ==
  v_state = "receives" /\ heard # <<>> =>
    Cardinality(LostAfter(heard[Len(heard)])) <= faults + skipped_pkts

Consecutive == \A i \in 2..Len(heard) : heard[i] = heard[i - 1] + 1
Fewer == faults + skipped_pkts + 2 * (MaxDelay - 1) < CountMod

VitaInv == AirInv /\ HeardInv /\ LossInv /\ GapsTellLoss

LEMMA VitaInitInv == VitaInit => VitaInv
BY VitaAssumption DEF VitaInit, VitaInv, AirInv, HeardInv, LossInv, GapsTellLoss

(* Facts about finite sets of numbers.                                     *)
LEMMA IntervalMinus ==
  ASSUME NEW a \in Int, NEW b \in Int, NEW S
  PROVE  LET R == {x \in a..b : x \notin S} IN IsFiniteSet(R) /\ Cardinality(R) \in Nat
<1>1. IsFiniteSet(a..b) BY FS_Interval
<1>2. {x \in a..b : x \notin S} \in SUBSET (a..b) OBVIOUS
<1>3. IsFiniteSet({x \in a..b : x \notin S}) BY <1>1, <1>2, FS_Subset
<1> QED BY <1>3, FS_CardinalityType

LEMMA IntervalInside ==
  ASSUME NEW a \in Int, NEW b \in Int, a <= b, NEW R, IsFiniteSet(R), a..b \subseteq R
  PROVE  b - a + 1 <= Cardinality(R)
<1>1. Cardinality(a..b) = b - a + 1 BY FS_Interval
<1>2. Cardinality(a..b) <= Cardinality(R) BY FS_Subset
<1> QED BY <1>1, <1>2

LEMMA OneMore ==
  ASSUME NEW R, IsFiniteSet(R), NEW x, NEW K, K \subseteq R \cup {x}
  PROVE  IsFiniteSet(K) /\ Cardinality(K) <= Cardinality(R) + 1
<1>1. Cardinality(R) \in Nat BY FS_CardinalityType
<1>2. /\ IsFiniteSet(R \cup {x})
      /\ Cardinality(R \cup {x}) = IF x \in R THEN Cardinality(R) ELSE Cardinality(R) + 1
  BY FS_AddElement
<1>3. IsFiniteSet(K) /\ Cardinality(K) <= Cardinality(R \cup {x}) BY <1>2, FS_Subset
<1>4. Cardinality(K) \in Nat BY <1>3, FS_CardinalityType
<1> QED BY <1>1, <1>2, <1>3, <1>4

(* A step that neither sends nor receives data keeps LossInv if each       *)
(* datagram it takes from the air is counted.                              *)
LEMMA LossKept ==
  ASSUME AirInv, LossInv, AirInv',
         sent' = sent, heard' = heard, v_state' # "receives" \/ v_state = "receives",
         faults' + skipped_pkts' >= faults + skipped_pkts,
         NEW x \in Nat,
         \A n \in AirNos : n \in AirNos' \/ (n = x /\ faults' + skipped_pkts' > faults + skipped_pkts)
  PROVE  LossInv'
<1>0. faults + skipped_pkts \in Nat /\ faults' + skipped_pkts' \in Nat
  <2>1. faults \in Nat /\ skipped_pkts \in Nat BY DEF AirInv
  <2>2. faults' \in Nat /\ skipped_pkts' \in Nat BY DEF AirInv
  <2>3. \A a, b \in Nat : a + b \in Nat OBVIOUS
  <2> QED BY <2>1, <2>2, <2>3, Zenon
<1> SUFFICES ASSUME v_state = "receives", heard # <<>>
             PROVE  Cardinality(LostAfter(heard[Len(heard)])') <= faults' + skipped_pkts'
  BY DEF LossInv
<1> DEFINE n == heard[Len(heard)]
           L == LostAfter(n)
<1>1. n \in Nat BY DEF AirInv
<1> DEFINE K == {y \in (n + MaxDelay)..(sent - 1) : y \notin AirNos'}
<1>2. IsFiniteSet(L) /\ Cardinality(L) \in Nat /\ Cardinality(K) \in Nat
  <2>1. n + MaxDelay \in Int /\ sent - 1 \in Int BY VitaAssumption, <1>1 DEF AirInv
  <2> HIDE DEF n
  <2>2. IsFiniteSet(L) /\ Cardinality(L) \in Nat BY <2>1, IntervalMinus DEF LostAfter
  <2> QED BY <2>1, <2>2, IntervalMinus
<1>3. Cardinality(L) <= faults + skipped_pkts BY DEF LossInv
<1>4. LostAfter(heard[Len(heard)])' = K
  BY DEF LostAfter
<1>7. L = {y \in (n + MaxDelay)..(sent - 1) : y \notin AirNos} BY DEF LostAfter
<1>8. K \subseteq L \cup {x} BY <1>7
<1>5. CASE faults' + skipped_pkts' > faults + skipped_pkts
  <2> HIDE DEF K, L
  <2>1. Cardinality(K) <= Cardinality(L) + 1
    BY <1>2, <1>8, OneMore
  <2>3. Cardinality(K) <= faults' + skipped_pkts' BY <1>0, <1>2, <1>3, <1>5, <2>1
  <2> QED BY <1>4, <2>3, Zenon
<1>6. CASE ~(faults' + skipped_pkts' > faults + skipped_pkts)
  <2>1. K \subseteq L BY <1>6, <1>7
  <2> HIDE DEF K, L
  <2>2. Cardinality(K) <= Cardinality(L)
    BY <1>2, <2>1, FS_Subset
  <2>4. Cardinality(K) <= faults' + skipped_pkts' BY <1>0, <1>2, <1>3, <1>6, <2>2
  <2> QED BY <1>4, <2>4, Zenon
<1> QED BY <1>5, <1>6

(* The gap count of a packet that is taken: with few enough losses it is   *)
(* told from its successor's by the remainder alone.                       *)
LEMMA GapExact ==
  ASSUME AirInv, HeardInv, LossInv, v_state = "receives",
         NEW p \in air, ~IsContext(p[2]), heard # <<>>
  PROVE  LET n == heard[Len(heard)]
         IN  /\ p[1] = n + 1 => ~IsGap(p[1] % CountMod)
             /\ Fewer /\ p[1] # n + 1 => IsGap(p[1] % CountMod)
<1> DEFINE n == heard[Len(heard)]
<1>1. n \in Nat /\ p[1] \in Nat /\ n < sent /\ p[1] < sent /\ p[1] >= sent - MaxDelay
  BY DEF AirInv, HeardInv
<1>2. IsGap(p[1] % CountMod) <=> p[1] % CountMod # (n + 1) % CountMod
  BY VitaAssumption, <1>1, NextRemainder DEF IsGap, HeardInv
<1>3. ASSUME Fewer, p[1] % CountMod = (n + 1) % CountMod PROVE p[1] = n + 1
  <2>1. (n + 1) - p[1] < CountMod
    BY VitaAssumption, <1>1, <1>3 DEF Fewer, AirInv
  <2>2. p[1] - (n + 1) < CountMod
    <3> SUFFICES ASSUME p[1] - (n + 1) >= CountMod PROVE FALSE
      BY VitaAssumption, <1>1
    <3> DEFINE a == n + MaxDelay
               b == p[1] - MaxDelay
    <3>1. a \in Int /\ b \in Int /\ sent - 1 \in Int
      BY VitaAssumption, <1>1 DEF AirInv
    <3>2. a <= b
      BY VitaAssumption, <1>1, <1>3, SMTT(30) DEF Fewer, AirInv
    <3>3. \A x \in a..b : x \notin AirNos /\ x \in a..(sent - 1)
      BY VitaAssumption, <1>1 DEF AirNos, AirInv
    <3>4. LostAfter(n) = {x \in a..(sent - 1) : x \notin AirNos} BY DEF LostAfter
    <3>5. a..b \subseteq LostAfter(n) BY <3>3, <3>4
    <3>6. IsFiniteSet(LostAfter(n)) /\ Cardinality(LostAfter(n)) \in Nat
      <4> HIDE DEF a, n
      <4> QED BY <3>1, <3>4, IntervalMinus
    <3>7. b - a + 1 <= Cardinality(LostAfter(n))
      <4> HIDE DEF a, b, n
      <4> QED BY <3>1, <3>2, <3>5, <3>6, IntervalInside
    <3>8. Cardinality(LostAfter(n)) <= faults + skipped_pkts BY DEF LossInv
    <3>9. b - a + 1 <= faults + skipped_pkts
      <4> HIDE DEF a, b, n
      <4> QED BY <3>1, <3>6, <3>7, <3>8 DEF AirInv
    <3>10. /\ faults + skipped_pkts + 2 * (MaxDelay - 1) < CountMod
           /\ faults \in Nat /\ skipped_pkts \in Nat /\ MaxDelay \in Nat /\ CountMod \in Nat
      BY <1>3, VitaAssumption DEF Fewer, AirInv
    <3>11. n \in Nat /\ p[1] \in Nat /\ p[1] - (n + 1) >= CountMod BY <1>1
    <3> HIDE DEF n
    <3> QED BY <3>9, <3>10, <3>11
  <2> QED BY VitaAssumption, <1>1, <1>3, <2>1, <2>2, SameRemainder, SMTT(30)
<1> QED BY <1>2, <1>3

LEMMA VitaInductive == VitaInv /\ [VitaNext]_vitaVars => VitaInv'
<1> SUFFICES ASSUME VitaInv, [VitaNext]_vitaVars PROVE VitaInv'
  OBVIOUS
<1> USE VitaAssumption
<1>0. AirInv /\ HeardInv /\ LossInv /\ GapsTellLoss BY DEF VitaInv
<1>1. ASSUME NEW d \in DataShapes, SendData(d) PROVE VitaInv'
  <2>1. /\ air' = air \cup {<<sent, d, 0>>} /\ sent' = sent + 1
        /\ \A p \in air : p[1] > sent - MaxDelay
        /\ UNCHANGED <<v_state, faults, last_count, have_count, skipped_pkts, gap_pkts, heard>>
    BY <1>1 DEF SendData, countVars
  <2>2. ~IsContext(d) BY ShapesAssumption
  <2>3. AirInv' BY <1>0, <2>1, <2>2 DEF AirInv
  <2>4. HeardInv' BY <1>0, <2>1 DEF HeardInv, AirInv
  <2>5. LossInv'
    <3> SUFFICES ASSUME v_state = "receives", heard # <<>>
                 PROVE  Cardinality(LostAfter(heard[Len(heard)])') <= faults' + skipped_pkts'
      BY <2>1 DEF LossInv
    <3> DEFINE n == heard[Len(heard)]
    <3>1. n \in Nat BY <1>0 DEF AirInv
    <3>2. AirNos' = AirNos \cup {sent}
      <4>1. AirNos' = {q[1] : q \in {r \in air \cup {<<sent, d, 0>>} : ~IsContext(r[2])}}
        BY <2>1 DEF AirNos
      <4> DEFINE new == <<sent, d, 0>>
      <4>2. new[1] = sent /\ ~IsContext(new[2]) BY <2>2
      <4> HIDE DEF new
      <4>3. AirNos' = {q[1] : q \in {r \in air \cup {new} : ~IsContext(r[2])}}
        BY <4>1 DEF new
      <4> QED BY <4>2, <4>3 DEF AirNos
    <3>3. LostAfter(n)' = LostAfter(n)
      BY <1>0, <2>1, <3>1, <3>2 DEF LostAfter, AirInv
    <3> QED BY <1>0, <2>1, <3>3 DEF LossInv
  <2>6. GapsTellLoss' BY <1>0, <2>1 DEF GapsTellLoss
  <2> QED BY <2>3, <2>4, <2>5, <2>6 DEF VitaInv
<1>2. ASSUME NEW d \in ContextShapes, SendContext(d) PROVE VitaInv'
  <2>1. /\ air' = air \cup {<<sent, d, 0>>}
        /\ UNCHANGED <<v_state, sent, faults, last_count, have_count, skipped_pkts, gap_pkts,
                       heard>>
    BY <1>2 DEF SendContext, countVars
  <2>2. IsContext(d) BY ShapesAssumption
  <2>3. AirInv' BY <1>0, <2>1, <2>2 DEF AirInv
  <2>4. HeardInv' BY <1>0, <2>1 DEF HeardInv
  <2>5. AirNos' = AirNos BY <2>1, <2>2 DEF AirNos
  <2>6. LossInv' BY <1>0, <2>1, <2>5 DEF LossInv, LostAfter
  <2>7. GapsTellLoss' BY <1>0, <2>1 DEF GapsTellLoss
  <2> QED BY <2>3, <2>4, <2>6, <2>7 DEF VitaInv
<1>3. ASSUME NEW p \in air, Lose(p) \/ ReceiveMalformed(p) PROVE VitaInv'
  <2>1. /\ air' = air \ {p}
        /\ \/ faults' = faults + 1 /\ skipped_pkts' = skipped_pkts
           \/ faults' = faults /\ skipped_pkts' = skipped_pkts + 1
        /\ UNCHANGED <<v_state, sent, last_count, have_count, gap_pkts, heard>>
    BY <1>3 DEF Lose, ReceiveMalformed, Taking, countVars
  <2>2. AirInv' BY <1>0, <2>1 DEF AirInv
  <2>3. HeardInv' BY <1>0, <2>1 DEF HeardInv
  <2>4. p[1] \in Nat BY <1>0 DEF AirInv
  <2>5. faults' + skipped_pkts' > faults + skipped_pkts
        /\ faults' + skipped_pkts' >= faults + skipped_pkts
    BY <1>0, <2>1 DEF AirInv
  <2>6. \A n \in AirNos : n \in AirNos' \/ n = p[1] BY <2>1 DEF AirNos
  <2>7. LossInv' BY <1>0, <2>1, <2>2, <2>4, <2>5, <2>6, LossKept
  <2>8. Fewer' => Fewer BY <1>0, <2>1 DEF Fewer, AirInv
  <2>9. GapsTellLoss' BY <1>0, <2>1, <2>8 DEF GapsTellLoss, Fewer
  <2> QED BY <2>2, <2>3, <2>7, <2>9 DEF VitaInv
<1>4. ASSUME NEW p \in air, Duplicate(p) PROVE VitaInv'
  <2>1. /\ air' = air \cup {<<p[1], p[2], 1>>}
        /\ faults' = faults + 1
        /\ UNCHANGED <<v_state, sent, last_count, have_count, skipped_pkts, gap_pkts, heard>>
    BY <1>4 DEF Duplicate, countVars
  <2>2. AirInv' BY <1>0, <2>1 DEF AirInv
  <2>3. HeardInv' BY <1>0, <2>1 DEF HeardInv
  <2>4. p[1] \in Nat BY <1>0 DEF AirInv
  <2>5. faults' + skipped_pkts' >= faults + skipped_pkts BY <1>0, <2>1 DEF AirInv
  <2>6. \A n \in AirNos : n \in AirNos' BY <2>1 DEF AirNos
  <2>7. LossInv' BY <1>0, <2>1, <2>2, <2>4, <2>5, <2>6, LossKept
  <2>8. Fewer' => Fewer BY <1>0, <2>1 DEF Fewer, AirInv
  <2>9. GapsTellLoss' BY <1>0, <2>1, <2>8 DEF GapsTellLoss, Fewer
  <2> QED BY <2>2, <2>3, <2>7, <2>9 DEF VitaInv
<1>5. ASSUME NEW p \in air, ArrivesUnbound(p) PROVE VitaInv'
  <2>1. /\ v_state # "receives" /\ air' = air \ {p}
        /\ UNCHANGED <<v_state, sent, faults, last_count, have_count, skipped_pkts, gap_pkts,
                       heard>>
    BY <1>5 DEF ArrivesUnbound, countVars
  <2> QED BY <1>0, <2>1 DEF VitaInv, AirInv, HeardInv, LossInv, GapsTellLoss
<1>6. ASSUME NEW p \in air, ReceiveContext(p) PROVE VitaInv'
  <2>1. /\ IsContext(p[2]) /\ air' = air \ {p}
        /\ UNCHANGED <<v_state, sent, faults, last_count, have_count, skipped_pkts, gap_pkts,
                       heard>>
    BY <1>6 DEF ReceiveContext, Taking
  <2>2. AirInv' BY <1>0, <2>1 DEF AirInv
  <2>3. HeardInv' BY <1>0, <2>1 DEF HeardInv
  <2>5. AirNos' = AirNos BY <2>1 DEF AirNos
  <2>6. LossInv' BY <1>0, <2>1, <2>5 DEF LossInv, LostAfter
  <2>7. GapsTellLoss' BY <1>0, <2>1 DEF GapsTellLoss
  <2> QED BY <2>2, <2>3, <2>6, <2>7 DEF VitaInv
<1>7. ASSUME NEW p \in air, ReceiveData(p) PROVE VitaInv'
  <2>1. /\ v_state = "receives" /\ ~IsContext(p[2]) /\ air' = air \ {p}
        /\ gap_pkts' = gap_pkts + Flag(IsGap(p[1] % CountMod))
        /\ last_count' = p[1] % CountMod /\ have_count'
        /\ heard' = Append(heard, p[1])
        /\ UNCHANGED <<v_state, sent, faults, skipped_pkts>>
    BY <1>7 DEF ReceiveData, Taking
  <2>2. p[1] \in Nat /\ p[1] < sent /\ p[1] >= sent - MaxDelay BY <1>0, <2>1 DEF AirInv
  <2>3. heard' \in Seq(Nat) /\ Len(heard') = Len(heard) + 1 /\ heard' # <<>>
        /\ heard'[Len(heard')] = p[1] /\ \A i \in 1..Len(heard) : heard'[i] = heard[i]
    BY <1>0, <2>1, <2>2 DEF AirInv
  <2>4. gap_pkts \in Nat /\ Flag(IsGap(p[1] % CountMod)) \in {0, 1} BY <1>0 DEF AirInv, Flag
  <2>5. AirInv' BY <1>0, <2>1, <2>3, <2>4 DEF AirInv
  <2>6. HeardInv' BY <2>1, <2>2, <2>3 DEF HeardInv
  <2>7. LossInv'
    <3>1. sent' - 1 < p[1] + MaxDelay BY <1>0, <2>1, <2>2 DEF AirInv
    <3>2. \A x \in (p[1] + MaxDelay)..(sent' - 1) : FALSE
      BY <1>0, <2>1, <2>2, <3>1 DEF AirInv
    <3>3. LostAfter(heard[Len(heard)])' = {} BY <2>3, <3>2 DEF LostAfter
    <3>4. Cardinality({}) = 0 BY FS_EmptySet
    <3>5. 0 <= faults' + skipped_pkts' BY <1>0, <2>1 DEF AirInv
    <3> QED BY <3>3, <3>4, <3>5 DEF LossInv
  <2>8. GapsTellLoss'
    <3> SUFFICES ASSUME Fewer PROVE gap_pkts' = 0 <=> Consecutive'
      BY <2>1 DEF GapsTellLoss, Fewer, Consecutive
    <3>1. gap_pkts = 0 <=> Consecutive BY <1>0 DEF GapsTellLoss, Fewer, Consecutive
    <3>2. CASE heard = <<>>
      <4>1. ~IsGap(p[1] % CountMod) BY <1>0, <3>2 DEF IsGap, HeardInv
      <4>2. Consecutive /\ Consecutive' BY <2>3, <3>2 DEF Consecutive
      <4> QED BY <2>1, <3>1, <4>1, <4>2 DEF Flag
    <3>3. CASE heard # <<>>
      <4>1. IsGap(p[1] % CountMod) <=> p[1] # heard[Len(heard)] + 1
        BY <1>0, <2>1, <3>3, GapExact
      <4>2. Len(heard) \in Nat \ {0} BY <1>0, <3>3 DEF AirInv
      <4>3. Consecutive' <=> Consecutive /\ p[1] = heard[Len(heard)] + 1
        <5>1. \A i \in 2..Len(heard) : heard'[i] = heard[i] /\ heard'[i - 1] = heard[i - 1]
          BY <2>3, <4>2
        <5>2. heard'[Len(heard) + 1] = p[1] /\ heard'[Len(heard) + 1 - 1] = heard[Len(heard)]
          BY <2>3, <4>2
        <5>3. \A i : i \in 2..Len(heard') <=> (i \in 2..Len(heard) \/ i = Len(heard) + 1)
          BY <2>3, <4>2
        <5>4. Consecutive' <=> \A i \in 2..Len(heard') : heard'[i] = heard'[i - 1] + 1
          BY DEF Consecutive
        <5>5. Consecutive' <=> /\ \A i \in 2..Len(heard) : heard'[i] = heard'[i - 1] + 1
                               /\ heard'[Len(heard) + 1] = heard'[Len(heard) + 1 - 1] + 1
          <6>1. ASSUME Consecutive'
                PROVE  /\ \A i \in 2..Len(heard) : heard'[i] = heard'[i - 1] + 1
                       /\ heard'[Len(heard) + 1] = heard'[Len(heard) + 1 - 1] + 1
            <7>1. Len(heard) + 1 \in 2..Len(heard') BY <5>3
            <7>2. heard'[Len(heard) + 1] = heard'[Len(heard) + 1 - 1] + 1
              BY <5>4, <6>1, <7>1
            <7>3. ASSUME NEW i \in 2..Len(heard) PROVE heard'[i] = heard'[i - 1] + 1
              BY <5>3, <5>4, <6>1
            <7> QED BY <7>2, <7>3
          <6>2. ASSUME \A i \in 2..Len(heard) : heard'[i] = heard'[i - 1] + 1,
                       heard'[Len(heard) + 1] = heard'[Len(heard) + 1 - 1] + 1
                PROVE  Consecutive'
            <7>1. SUFFICES ASSUME NEW i \in 2..Len(heard') PROVE heard'[i] = heard'[i - 1] + 1
              BY <5>4
            <7>2. CASE i = Len(heard) + 1 BY <6>2, <7>2
            <7>3. CASE i \in 2..Len(heard) BY <6>2, <7>3
            <7> QED BY <5>3, <7>1, <7>2, <7>3
          <6> QED BY <6>1, <6>2
        <5>6. Consecutive <=> \A i \in 2..Len(heard) : heard[i] = heard[i - 1] + 1
          BY DEF Consecutive
        <5>7. (\A i \in 2..Len(heard) : heard'[i] = heard'[i - 1] + 1) <=> Consecutive
          BY <5>1, <5>6
        <5>8. heard'[Len(heard) + 1] = heard'[Len(heard) + 1 - 1] + 1
                <=> p[1] = heard[Len(heard)] + 1
          BY <5>2
        <5> QED BY <5>5, <5>7, <5>8, Zenon
      <4>4. gap_pkts' = 0 <=> gap_pkts = 0 /\ ~IsGap(p[1] % CountMod)
        BY <2>1, <2>4 DEF Flag
      <4> QED BY <3>1, <4>1, <4>3, <4>4
    <3> QED BY <3>2, <3>3
  <2> QED BY <2>5, <2>6, <2>7, <2>8 DEF VitaInv
<1>8. ASSUME NEW ep \in Endpoints, OpenSocket(ep) PROVE VitaInv'
  <2>1. /\ v_state = "starts" /\ v_state' # "starts"
        /\ UNCHANGED <<air, sent, faults, last_count, have_count, skipped_pkts, gap_pkts, heard>>
    BY <1>8 DEF OpenSocket, Ends, linkVars, countVars
  <2>2. heard = <<>> BY <1>0, <2>1 DEF HeardInv
  <2>3. AirInv' BY <1>0, <2>1 DEF AirInv
  <2>4. HeardInv' /\ LossInv' BY <1>0, <2>1, <2>2 DEF HeardInv, LossInv
  <2>5. GapsTellLoss' BY <1>0, <2>1 DEF GapsTellLoss
  <2> QED BY <2>3, <2>4, <2>5 DEF VitaInv
<1>9. CASE RecvFails \/ Stop \/ Leave \/ UNCHANGED vitaVars
  <2>1. /\ v_state' = v_state \/ v_state' = "ended"
        /\ UNCHANGED <<air, sent, faults, last_count, have_count, skipped_pkts, gap_pkts, heard>>
    BY <1>9 DEF RecvFails, Stop, Leave, Ends, vitaVars, linkVars, countVars
  <2>2. AirNos' = AirNos BY <2>1 DEF AirNos
  <2> QED BY <1>0, <2>1, <2>2
       DEF VitaInv, AirInv, HeardInv, LossInv, LostAfter, GapsTellLoss
<1> QED BY <1>1, <1>2, <1>3, <1>4, <1>5, <1>6, <1>7, <1>8, <1>9 DEF VitaNext

(* The gap count of vita49.c is zero exactly when the packets it took were *)
(* consecutive, as long as fewer packets than the counter tells apart were *)
(* lost, skipped or overtaken: for every modulus, delay, loss and          *)
(* duplication, and whichever packet is heard first.                       *)
THEOREM GapsAreTold == VitaSpec => []GapsTellLoss
<1>1. VitaInv => GapsTellLoss BY DEF VitaInv
<1> QED BY <1>1, VitaInitInv, VitaInductive, PTL DEF VitaSpec

-----------------------------------------------------------------------------
(* The devices.                                                            *)

Backends == {"rtlsdr", "hackrf", "airspy", "sdrplay", "bladerf", "usrp", "soapy"}

(* What the first n - 1 steps of s acquire, and what they release.         *)
Got(s, n) == {s[i].what : i \in {j \in 1..(n - 1) : s[j].does = "get"}}
Freed(s, n) == {s[i].what : i \in {j \in 1..(n - 1) : s[j].does = "free"}}

\* What a backend holds while it streams.
Streaming(b) == Got(SetupOf[b], Len(SetupOf[b]) + 1) \cup Got(StartOf[b], Len(StartOf[b]) + 1)

(* The tables of calls: a backend other than SDRplay acquires first and    *)
(* then releases something it has acquired, what depends on it before it.  *)
LEMMA EndInOrder ==
  ASSUME NEW b \in Backends \ {"sdrplay"}, NEW n \in 1..Len(EndOf[b])
  PROVE  /\ EndOf[b][n].does = "free"
         /\ EndOf[b][n].what \in Streaming(b) \ Freed(EndOf[b], n)
         /\ Above(EndOf[b][n].what) \cap Streaming(b) \subseteq Freed(EndOf[b], n)
<1> USE DEF Get, Check, Free, Above, Streaming, Got, Freed
<1>1. CASE b = "rtlsdr"
  BY <1>1 DEF EndOf, SetupOf, StartOf, rtlsdr_backend_setup
<1>2. CASE b = "hackrf"
  BY <1>2 DEF EndOf, SetupOf, StartOf, hackrf_backend_setup
<1>3. CASE b = "airspy"
  BY <1>3 DEF EndOf, SetupOf, StartOf, airspy_backend_setup
<1>4. CASE b = "bladerf"
  BY <1>4 DEF EndOf, SetupOf, StartOf, bladerf_backend_setup
<1>5. CASE b = "usrp"
  BY <1>5 DEF EndOf, SetupOf, StartOf, usrp_backend_setup
<1>6. CASE b = "soapy"
  BY <1>6 DEF EndOf, SetupOf, StartOf, soapy_setup
<1> QED BY <1>1, <1>2, <1>3, <1>4, <1>5, <1>6 DEF Backends

LEMMA NoEarlyFree ==
  ASSUME NEW b \in Backends \ {"sdrplay"}
  PROVE  /\ Len(SetupOf[b]) \in Nat /\ Len(StartOf[b]) \in Nat /\ Len(EndOf[b]) \in Nat
         /\ \A i \in 1..Len(SetupOf[b]) : SetupOf[b][i].does \in {"check", "get"}
         /\ \A i \in 1..Len(StartOf[b]) : StartOf[b][i].does \in {"check", "get"}
<1> USE DEF Get, Check, Free
<1>1. CASE b = "rtlsdr"
  BY <1>1 DEF EndOf, SetupOf, StartOf, rtlsdr_backend_setup
<1>2. CASE b = "hackrf"
  BY <1>2 DEF EndOf, SetupOf, StartOf, hackrf_backend_setup
<1>3. CASE b = "airspy"
  BY <1>3 DEF EndOf, SetupOf, StartOf, airspy_backend_setup
<1>4. CASE b = "bladerf"
  BY <1>4 DEF EndOf, SetupOf, StartOf, bladerf_backend_setup
<1>5. CASE b = "usrp"
  BY <1>5 DEF EndOf, SetupOf, StartOf, usrp_backend_setup
<1>6. CASE b = "soapy"
  BY <1>6 DEF EndOf, SetupOf, StartOf, soapy_setup
<1> QED BY <1>1, <1>2, <1>3, <1>4, <1>5, <1>6 DEF Backends

FlagSet == {"stream", "lock", "device", "api"}

LEMMA SdrplayTables ==
  /\ Len(sdrplay_setup) = 9 /\ Len(sdrplay_list) = 4
  /\ \A i \in 1..9 : /\ sdrplay_setup[i].does = "get" => sdrplay_setup[i].what \in FlagSet
                     /\ sdrplay_setup[i].does = "free" => i = 7
  /\ sdrplay_setup[3] = Get("lock") /\ sdrplay_setup[7] = Free("lock")
  /\ \A i \in 4..6 : sdrplay_setup[i].does # "free"
  /\ \A i \in 1..4 : sdrplay_list[i].does # "free"
  /\ SetupOf["sdrplay"] = sdrplay_setup
  /\ StartOf["sdrplay"] = <<>> /\ EndOf["sdrplay"] = <<>>
BY DEF sdrplay_setup, sdrplay_list, Get, Check, Free, FlagSet, SetupOf, StartOf, EndOf

(* Each further step adds what it acquires or releases.                    *)
LEMMA OneStepMore ==
  ASSUME NEW s, NEW n \in Nat \ {0}
  PROVE  /\ s[n].does = "get" => Got(s, n + 1) = Got(s, n) \cup {s[n].what}
         /\ s[n].does # "get" => Got(s, n + 1) = Got(s, n)
         /\ s[n].does = "free" => Freed(s, n + 1) = Freed(s, n) \cup {s[n].what}
<1>1. 1..(n + 1 - 1) = (1..(n - 1)) \cup {n} OBVIOUS
<1> QED BY <1>1 DEF Got, Freed

LEMMA NothingYet == ASSUME NEW s PROVE Got(s, 1) = {} /\ Freed(s, 1) = {}
BY DEF Got, Freed

PhaseInv ==
  /\ sdr \in Backends /\ at \in Nat \ {0}
  /\ phase \in {"setup", "listing", "starting", "streaming", "ending", "exiting", "gone"}
  /\ phase = "listing" => sdr = "sdrplay"
  /\ phase \in {"setup", "listing", "starting", "streaming", "ending"} => at <= Len(Steps) + 1
  /\ left = "exit" => phase = "gone"

(* A backend without a handler at exit holds what its steps so far         *)
(* acquired ...                                                            *)
HeldInv ==
  sdr # "sdrplay" =>
    /\ phase = "setup" => service = Got(SetupOf[sdr], at)
    /\ phase = "starting" =>
         service = Got(SetupOf[sdr], Len(SetupOf[sdr]) + 1) \cup Got(StartOf[sdr], at)
    /\ phase = "streaming" => service = Streaming(sdr)
    /\ phase = "ending" => service = Streaming(sdr) \ Freed(EndOf[sdr], at)

(* ... and SDRplay what its context says, which the handler at exit sees.  *)
PlayInv ==
  sdr = "sdrplay" =>
    /\ ctx \subseteq FlagSet
    /\ phase \in {"setup", "starting", "streaming", "ending", "exiting"} => service = ctx
    /\ phase = "setup" /\ at \in 4..7 => "lock" \in service
    /\ phase \in {"setup", "starting", "streaming", "ending"} => active_ctx
    /\ phase = "exiting" => active_ctx \/ ctx = {}
    /\ left = "exit" => service = {}

SdrInv == PhaseInv /\ HeldInv /\ PlayInv /\ ~misused

LEMMA SdrInitInv == SdrInit => SdrInv
<1> SUFFICES ASSUME SdrInit PROVE SdrInv OBVIOUS
<1>1. sdr \in Backends BY SdrAssumption DEF SdrInit, Backends
<1>2. Len(Steps) \in Nat
  BY <1>1, NoEarlyFree, SdrplayTables DEF SdrInit, Steps
<1>3. PhaseInv BY <1>1, <1>2 DEF SdrInit, PhaseInv
<1>4. HeldInv
  <2>1. at = 1 /\ service = {} /\ phase \in {"setup", "listing"} BY DEF SdrInit
  <2>2. service = Got(SetupOf[sdr], at) BY <2>1, NothingYet
  <2> QED BY <2>1, <2>2 DEF HeldInv
<1>5. PlayInv
  <2>1. /\ phase \in {"setup", "listing"} /\ ctx = {} /\ service = {} /\ at = 1 /\ left = "no"
        /\ active_ctx = (phase = "setup" /\ sdr = "sdrplay")
    BY DEF SdrInit
  <2>2. phase = "setup" /\ sdr = "sdrplay" => active_ctx BY <2>1, Zenon
  <2> QED BY <2>1, <2>2 DEF PlayInv
<1> QED BY <1>3, <1>4, <1>5 DEF SdrInv, SdrInit

LEMMA CallKeeps == SdrInv /\ CallSucceeds => SdrInv'
<1> SUFFICES ASSUME SdrInv, CallSucceeds PROVE SdrInv' OBVIOUS
<1>0. PhaseInv /\ HeldInv /\ PlayInv /\ ~misused BY DEF SdrInv
<1>1. /\ at <= Len(Steps) /\ at' = at + 1
      /\ UNCHANGED <<sdr, phase, active_ctx, up, interrupts, left>>
  BY DEF CallSucceeds, AtStep
<1>2. Steps' = Steps BY <1>1 DEF Steps
<1>3. phase \in {"setup", "listing", "starting", "ending"} /\ Len(Steps) \in Nat
  BY <1>0, <1>1, NoEarlyFree, SdrplayTables DEF Steps, PhaseInv
<1>4. PhaseInv' BY <1>0, <1>1, <1>2, <1>3 DEF PhaseInv
<1>5. \/ Steps[at].does = "check" /\ UNCHANGED <<service, ctx, misused>>
      \/ /\ Steps[at].does = "get" /\ service' = service \cup {Steps[at].what}
         /\ ctx' = Marks(Steps[at].what) /\ UNCHANGED misused
      \/ /\ Steps[at].does = "free" /\ ctx' = ctx \ {Steps[at].what}
         /\ misused' = (misused \/ Steps[at].what \notin service
                                \/ Above(Steps[at].what) \cap service # {})
         /\ service' = service \ {Steps[at].what}
  BY DEF CallSucceeds, Release
<1>6. CASE sdr # "sdrplay"
  <2>1. PlayInv' BY <1>1, <1>6 DEF PlayInv
  <2>2. CASE phase = "setup"
    <3>1. Steps = SetupOf[sdr] BY <2>2 DEF Steps
    <3>2. Steps[at].does \in {"check", "get"} BY <1>0, <1>1, <1>6, <3>1, NoEarlyFree DEF PhaseInv
    <3>3. service' = Got(SetupOf[sdr], at + 1) /\ ~misused'
      <4>1. /\ Steps[at].does = "get" => Got(Steps, at + 1) = Got(Steps, at) \cup {Steps[at].what}
            /\ Steps[at].does # "get" => Got(Steps, at + 1) = Got(Steps, at)
        BY <1>0, OneStepMore DEF PhaseInv
      <4>2. service = Got(Steps, at) BY <1>0, <1>6, <2>2, <3>1 DEF HeldInv
      <4> QED BY <1>0, <1>5, <3>1, <3>2, <4>1, <4>2
    <3>4. HeldInv' BY <1>1, <2>2, <3>3 DEF HeldInv
    <3> QED BY <1>4, <2>1, <3>3, <3>4 DEF SdrInv
  <2>3. CASE phase = "starting"
    <3>1. Steps = StartOf[sdr] BY <2>3 DEF Steps
    <3>2. Steps[at].does \in {"check", "get"} BY <1>0, <1>1, <1>6, <3>1, NoEarlyFree DEF PhaseInv
    <3>3. service' = Got(SetupOf[sdr], Len(SetupOf[sdr]) + 1) \cup Got(StartOf[sdr], at + 1)
          /\ ~misused'
      <4>1. /\ Steps[at].does = "get" => Got(Steps, at + 1) = Got(Steps, at) \cup {Steps[at].what}
            /\ Steps[at].does # "get" => Got(Steps, at + 1) = Got(Steps, at)
        BY <1>0, OneStepMore DEF PhaseInv
      <4>2. service = Got(SetupOf[sdr], Len(SetupOf[sdr]) + 1) \cup Got(Steps, at)
        BY <1>0, <1>6, <2>3, <3>1 DEF HeldInv
      <4> QED BY <1>0, <1>5, <3>1, <3>2, <4>1, <4>2
    <3>4. HeldInv' BY <1>1, <2>3, <3>3 DEF HeldInv
    <3> QED BY <1>4, <2>1, <3>3, <3>4 DEF SdrInv
  <2>4. CASE phase = "ending"
    <3>1. Steps = EndOf[sdr] /\ at \in 1..Len(EndOf[sdr])
      BY <1>0, <1>1, <1>3, <2>4 DEF Steps, PhaseInv
    <3>2. /\ Steps[at].does = "free"
          /\ Steps[at].what \in Streaming(sdr) \ Freed(EndOf[sdr], at)
          /\ Above(Steps[at].what) \cap Streaming(sdr) \subseteq Freed(EndOf[sdr], at)
      BY <1>0, <1>6, <3>1, EndInOrder DEF PhaseInv
    <3>3. service = Streaming(sdr) \ Freed(EndOf[sdr], at) BY <1>0, <1>6, <2>4 DEF HeldInv
    <3>4. service' = Streaming(sdr) \ Freed(EndOf[sdr], at + 1)
      BY <1>0, <1>5, <3>1, <3>2, <3>3, OneStepMore DEF PhaseInv
    <3>5. ~misused' BY <1>0, <1>5, <3>2, <3>3
    <3>6. HeldInv' BY <1>1, <2>4, <3>4 DEF HeldInv
    <3> QED BY <1>4, <2>1, <3>5, <3>6 DEF SdrInv
  <2> QED BY <1>0, <1>3, <1>6, <2>2, <2>3, <2>4 DEF PhaseInv
<1>7. CASE sdr = "sdrplay"
  <2>1. HeldInv' BY <1>1, <1>7 DEF HeldInv
  <2>2. CASE phase = "setup"
    <3>1. Steps = sdrplay_setup /\ at \in 1..9 /\ at + 1 \in 2..10
      <4>1. Steps = SetupOf["sdrplay"] BY <1>7, <2>2 DEF Steps
      <4>2. Steps = sdrplay_setup /\ Len(Steps) = 9 BY <4>1, SdrplayTables
      <4> QED BY <1>0, <1>1, <4>2 DEF PhaseInv
    <3>2. \/ Steps[at].does = "check" /\ UNCHANGED <<service, ctx>>
          \/ /\ Steps[at].does = "get" /\ Steps[at].what \in FlagSet
             /\ service' = service \cup {Steps[at].what} /\ ctx' = ctx \cup {Steps[at].what}
          \/ /\ at = 7 /\ service' = service \ {"lock"} /\ ctx' = ctx \ {"lock"}
      BY <1>5, <1>7, <2>2, <3>1, SdrplayTables DEF Marks, Free
    <3>3. at = 3 => "lock" \in service'
      BY <1>5, <3>1, SdrplayTables DEF Get
    <3>4. at \in 4..6 => "lock" \in service'
      BY <1>0, <1>7, <2>2, <3>2 DEF PlayInv
    <3>5. ~misused'
      <4>1. CASE Steps[at].does # "free" BY <1>0, <1>5, <4>1
      <4>2. CASE Steps[at].does = "free"
        <5>1. at = 7 /\ Steps[at].what = "lock" BY <3>1, <4>2, SdrplayTables DEF Free
        <5>2. "lock" \in service BY <1>0, <1>7, <2>2, <5>1 DEF PlayInv
        <5>3. Above("lock") = {} BY DEF Above
        <5> QED BY <1>0, <1>5, <4>2, <5>1, <5>2, <5>3
      <4> QED BY <4>1, <4>2
    <3>6. service' = ctx' /\ ctx' \subseteq FlagSet
      BY <1>0, <1>7, <2>2, <3>2 DEF PlayInv
    <3>7. at' \in 4..7 => "lock" \in service'
      BY <1>1, <3>1, <3>3, <3>4
    <3>8. PlayInv' BY <1>0, <1>1, <1>7, <2>2, <3>6, <3>7 DEF PlayInv, PhaseInv
    <3> QED BY <1>4, <2>1, <3>5, <3>8 DEF SdrInv
  <2>3. CASE phase = "listing"
    <3>1. Steps[at].does # "free"
      <4>1. Steps = sdrplay_list BY <2>3 DEF Steps
      <4>2. at \in 1..4 BY <1>0, <1>1, <4>1, SdrplayTables DEF PhaseInv
      <4> QED BY <4>1, <4>2, SdrplayTables
    <3>2. ctx' = ctx /\ ~misused' BY <1>0, <1>5, <2>3, <3>1 DEF Marks
    <3>3. PlayInv' BY <1>0, <1>1, <2>3, <3>2 DEF PlayInv, PhaseInv
    <3> QED BY <1>4, <2>1, <3>2, <3>3 DEF SdrInv
  <2>4. CASE phase \in {"starting", "ending"}
    BY <1>0, <1>1, <1>7, <2>4, SdrplayTables DEF Steps, PhaseInv
  <2> QED BY <1>3, <2>2, <2>3, <2>4
<1> QED BY <1>6, <1>7

LEMMA SdrInductive == SdrInv /\ [SdrNext]_sdrVars => SdrInv'
<1> SUFFICES ASSUME SdrInv, [SdrNext]_sdrVars PROVE SdrInv' OBVIOUS
<1>0. PhaseInv /\ HeldInv /\ PlayInv /\ ~misused BY DEF SdrInv
<1>1. CASE CallSucceeds BY <1>1, CallKeeps
<1>2. CASE CallFails \/ ListEnds \/ Exit
  <2>1. /\ UNCHANGED <<sdr, ctx, active_ctx, misused>> /\ at' \in Nat \ {0}
        /\ \/ phase = "listing" /\ phase' = "gone" /\ service' = {} /\ left' = "exit"
           \/ /\ phase \in {"setup", "starting"} /\ phase' = "exiting" /\ UNCHANGED <<service, left>>
           \/ /\ phase = "exiting" /\ phase' = "gone" /\ (active_ctx => ctx = {})
              /\ UNCHANGED service
    BY <1>0, <1>2 DEF CallFails, ListEnds, Exit, PhaseInv
  <2>2. PhaseInv' BY <1>0, <2>1 DEF PhaseInv
  <2>3. HeldInv' BY <2>1 DEF HeldInv
  <2>4. PlayInv' BY <1>0, <2>1 DEF PlayInv, PhaseInv
  <2> QED BY <1>0, <2>1, <2>2, <2>3, <2>4 DEF SdrInv
<1>3. CASE NextPhase
  <2>1. /\ ~AtStep /\ at' = 1 /\ active_ctx' = (active_ctx /\ phase # "ending")
        /\ UNCHANGED <<sdr, service, ctx, left, misused>>
        /\ \/ phase = "setup" /\ phase' = "starting"
           \/ phase = "starting" /\ phase' = "streaming"
           \/ phase = "streaming" /\ phase' = "ending"
           \/ phase = "ending" /\ (sdr = "sdrplay" => ctx = {}) /\ phase' = "exiting"
    BY <1>3 DEF NextPhase
  <2>2. Len(Steps)' \in Nat
    BY <1>0, <2>1, NoEarlyFree, SdrplayTables DEF Steps, PhaseInv
  <2>3. PhaseInv' BY <1>0, <2>1, <2>2 DEF PhaseInv
  <2>4. PlayInv' BY <1>0, <2>1 DEF PlayInv, PhaseInv
  <2>5. HeldInv'
    <3> SUFFICES ASSUME sdr # "sdrplay" PROVE HeldInv' BY <2>1 DEF HeldInv
    <3>1. phase = "setup" => at = Len(SetupOf[sdr]) + 1
      BY <1>0, <2>1, NoEarlyFree DEF AtStep, Steps, PhaseInv
    <3>2. phase = "starting" => at = Len(StartOf[sdr]) + 1
      BY <1>0, <2>1, NoEarlyFree DEF AtStep, Steps, PhaseInv
    <3>3. Got(StartOf[sdr], 1) = {} /\ Freed(EndOf[sdr], 1) = {} BY NothingYet
    <3> QED BY <1>0, <2>1, <3>1, <3>2, <3>3 DEF HeldInv, Streaming
  <2> QED BY <1>0, <2>1, <2>3, <2>4, <2>5 DEF SdrInv
<1>4. CASE teardown
  <2>1. /\ sdr = "sdrplay" /\ ctx # {} /\ phase \in {"ending", "exiting"}
        /\ ctx' = ctx \ {Flags[NextFlag]} /\ service' = service \ {Flags[NextFlag]}
        /\ misused' = (misused \/ Flags[NextFlag] \notin service
                               \/ Above(Flags[NextFlag]) \cap service # {})
        /\ UNCHANGED <<sdr, phase, at, active_ctx, left>>
    BY <1>4 DEF teardown, Release
  <2>2. service = ctx /\ ctx \subseteq FlagSet BY <1>0, <2>1 DEF PlayInv
  <2>3. Flags[NextFlag] \in ctx /\ Above(Flags[NextFlag]) \cap ctx = {}
    <3>0. Flags[1] = "stream" /\ Flags[2] = "lock" /\ Flags[3] = "device" /\ Flags[4] = "api"
      BY DEF Flags
    <3>1. PICK i \in {1, 2, 3, 4} : /\ Flags[i] \in ctx
                                    /\ \A j \in {1, 2, 3, 4} : Flags[j] \in ctx => i <= j
      <4>1. CASE "stream" \in ctx
        <5>1. Flags[1] \in ctx /\ \A j \in {1, 2, 3, 4} : 1 <= j BY <3>0, <4>1
        <5> QED BY <5>1
      <4>2. CASE "stream" \notin ctx /\ "lock" \in ctx
        <5>1. Flags[2] \in ctx /\ \A j \in {1, 2, 3, 4} : Flags[j] \in ctx => 2 <= j
          BY <3>0, <4>2
        <5> QED BY <5>1
      <4>3. CASE "stream" \notin ctx /\ "lock" \notin ctx /\ "device" \in ctx
        <5>1. Flags[3] \in ctx /\ \A j \in {1, 2, 3, 4} : Flags[j] \in ctx => 3 <= j
          BY <3>0, <4>3
        <5> QED BY <5>1
      <4>4. CASE "stream" \notin ctx /\ "lock" \notin ctx /\ "device" \notin ctx
        <5>1. Flags[4] \in ctx BY <2>1, <2>2, <3>0, <4>4 DEF FlagSet
        <5>2. \A j \in {1, 2, 3, 4} : Flags[j] \in ctx => 4 <= j BY <3>0, <4>4
        <5> QED BY <5>1, <5>2
      <4> QED BY <4>1, <4>2, <4>3, <4>4
    <3>2. NextFlag = i
      <4> DEFINE S == {k \in DOMAIN Flags : Flags[k] \in ctx}
      <4>1. DOMAIN Flags = {1, 2, 3, 4} BY DEF Flags
      <4>2. i \in S /\ \A k \in S : k >= i BY <3>1, <4>1
      <4>3. \A k \in S : (\A j \in S : k <= j) => k = i BY <3>1, <4>1, <4>2
      <4> QED BY <4>1, <4>2, <4>3 DEF NextFlag, Min
    <3>3. Above(Flags[i]) \cap ctx = {}
      BY <2>2, <3>0, <3>1 DEF Above, FlagSet
    <3> QED BY <3>1, <3>2, <3>3
  <2>4. ~misused' BY <1>0, <2>1, <2>2, <2>3
  <2>5. Steps' = Steps BY <2>1 DEF Steps
  <2>6. PhaseInv' BY <1>0, <2>1, <2>5 DEF PhaseInv
  <2>7. HeldInv' BY <2>1 DEF HeldInv
  <2>8. PlayInv' BY <1>0, <2>1, <2>2 DEF PlayInv, PhaseInv
  <2> QED BY <2>4, <2>6, <2>7, <2>8 DEF SdrInv
<1>5. CASE Interrupt \/ StreamEnds \/ UNCHANGED sdrVars
  <2>1. /\ UNCHANGED <<sdr, at, service, ctx, active_ctx, misused>>
        /\ \/ UNCHANGED <<phase, left>>
           \/ phase # "gone" /\ phase' = "gone" /\ left' = "_exit"
    BY <1>5 DEF Interrupt, StreamEnds, sdrVars
  <2>2. phase' = phase => Steps' = Steps BY <2>1 DEF Steps
  <2>3. PhaseInv' BY <1>0, <2>1, <2>2 DEF PhaseInv
  <2>4. HeldInv' BY <1>0, <2>1 DEF HeldInv
  <2>5. PlayInv' BY <1>0, <2>1 DEF PlayInv
  <2> QED BY <1>0, <2>1, <2>3, <2>4, <2>5 DEF SdrInv
<1> QED BY <1>1, <1>2, <1>3, <1>4, <1>5 DEF SdrNext

(* A process that ends by exit leaves nothing in the SDRplay service, and  *)
(* no backend releases what it does not hold or what something else still  *)
(* needs, whichever call fails and whenever SIGINT comes.                  *)
THEOREM DevicesReleased == SdrSpec => []ServiceReleased
<1>1. SdrInv => ServiceReleased BY DEF SdrInv, PlayInv, ServiceReleased
<1> QED BY <1>1, SdrInitInv, SdrInductive, PTL DEF SdrSpec

-----------------------------------------------------------------------------
(* The BaseStation connections.  Every open descriptor is in exactly one   *)
(* place: once in the list, or in the hands of the thread that has just    *)
(* got it.  In push mode the list and bs_client_fd agree, and a thread     *)
(* that connects does so because there is no connection.                   *)

BsType ==
    /\ bs_mode \in {"server", "push"}
    /\ clients \in Seq(Fds) /\ bs_client_fd \in Fds \cup {NoFd}
    /\ fds \in [Fds -> {"free", "up", "gone"}]
    /\ bs_thread \in [at : {"check", "select", "connect", "got", "exited"},
                      fd : Fds \cup {NoFd}]
    /\ bs_main \in {"loop", "join", "done", "killed"}
    /\ missed \in [Fds -> Nat] /\ losses \in Nat

Listed(f) == \E i \in 1..Len(clients) : clients[i] = f
InHand(f) == bs_thread.at = "got" /\ bs_thread.fd = f

PlaceInv ==
    /\ \A i, j \in 1..Len(clients) : clients[i] = clients[j] => i = j
    /\ \A f \in Fds : fds[f] # "free" <=> Listed(f) \/ InHand(f)
    /\ \A f \in Fds : ~(Listed(f) /\ InHand(f))
    /\ bs_thread.at = "got" => bs_thread.fd \in Fds

ModeInv ==
    /\ bs_mode = "server" => bs_client_fd = NoFd
    /\ bs_mode = "push" =>
         /\ ~bs_listening /\ bs_thread.at # "select"
         /\ clients = IF bs_client_fd = NoFd THEN <<>> ELSE <<bs_client_fd>>
         /\ bs_thread.at \in {"connect", "got"} => bs_client_fd = NoFd

DoneInv ==
    bs_main = "done" => bs_thread.at = "exited" /\ clients = <<>>

(* Every miss was paid for by a peer that has left and has been cleared    *)
(* away: the peers that left and are not cleared yet can still cost one.   *)
GoneFds == {f \in Fds : fds[f] = "gone"}
MissInv ==
    /\ IsFiniteSet(GoneFds) /\ Cardinality(GoneFds) <= losses
    /\ \A i \in 1..Len(clients) : missed[clients[i]] + Cardinality(GoneFds) <= losses
    /\ bs_thread.at = "got" => missed[bs_thread.fd] = 0

BsInv == BsType /\ PlaceInv /\ ModeInv /\ DoneInv /\ MissInv

LEMMA BsInitInv == BsInit => BsInv
<1> SUFFICES ASSUME BsInit PROVE BsInv
  OBVIOUS
<1>1. PICK fd \in {NoFd} \cup (IF bs_mode = "push" THEN Fds ELSE {}) :
        /\ bs_client_fd = fd
        /\ clients = IF fd = NoFd THEN <<>> ELSE <<fd>>
        /\ fds = [f \in Fds |-> IF f = fd THEN "up" ELSE "free"]
  BY DEF BsInit
<1>2. /\ bs_mode \in {"server", "push"} /\ bs_listening = (bs_mode = "server")
      /\ bs_thread = [at |-> "check", fd |-> NoFd] /\ bs_main = "loop"
      /\ missed = [f \in Fds |-> 0] /\ losses = 0
  BY BsAssumption DEF BsInit, Thread
<1>3. CASE fd = NoFd
  <2>1. clients = <<>> BY <1>1, <1>3
  <2>2. BsType BY <1>1, <1>2, <1>3, <2>1 DEF BsType
  <2>3. PlaceInv BY <1>1, <1>2, <1>3, <2>1, BsAssumption DEF PlaceInv, Listed, InHand
  <2>4. ModeInv /\ DoneInv BY <1>1, <1>2, <1>3, <2>1 DEF ModeInv, DoneInv
  <2>5. GoneFds = {} BY <1>1 DEF GoneFds
  <2>6. MissInv BY <1>2, <2>1, <2>5, FS_EmptySet DEF MissInv
  <2> QED BY <2>2, <2>3, <2>4, <2>6 DEF BsInv
<1>4. CASE fd # NoFd
  <2>1. fd \in Fds /\ bs_mode = "push" /\ clients = <<fd>> BY <1>1, <1>4
  <2>2. BsType BY <1>1, <1>2, <2>1 DEF BsType
  <2>3. PlaceInv BY <1>1, <1>2, <2>1 DEF PlaceInv, Listed, InHand
  <2>4. ModeInv /\ DoneInv BY <1>1, <1>2, <1>4, <2>1 DEF ModeInv, DoneInv
  <2>5. GoneFds = {} BY <1>1 DEF GoneFds
  <2>6. MissInv BY <1>2, <2>1, <2>5, FS_EmptySet DEF MissInv
  <2> QED BY <2>2, <2>3, <2>4, <2>6 DEF BsInv
<1> QED BY <1>3, <1>4

(* The failed connection gives its place to the last one.                  *)
LEMMA ClientRemoved ==
  ASSUME BsType, NEW i \in 1..Len(clients)
  PROVE  /\ WithoutClient(i) \in Seq(Fds)
         /\ Len(WithoutClient(i)) = Len(clients) - 1
         /\ \A k \in 1..(Len(clients) - 1) :
              WithoutClient(i)[k] = IF k = i THEN clients[Len(clients)] ELSE clients[k]
<1> DEFINE n == Len(clients)
           s == [clients EXCEPT ![i] = clients[n]]
<1>1. clients \in Seq(Fds) /\ n \in Nat /\ n >= 1 BY DEF BsType
<1>2. clients[n] \in Fds BY <1>1
<1>3. /\ s \in Seq(Fds) /\ Len(s) = n
      /\ \A j \in 1..n : s[j] = IF j = i THEN clients[n] ELSE clients[j]
  BY <1>1, <1>2, ExceptSeq
<1>4. WithoutClient(i) = SubSeq(s, 1, n - 1) BY <1>3 DEF WithoutClient, Front, Last
<1> HIDE DEF s
<1> QED BY <1>1, <1>3, <1>4

LEMMA GoneShrinks ==
  ASSUME IsFiniteSet(GoneFds), GoneFds' \subseteq GoneFds
  PROVE  /\ IsFiniteSet(GoneFds') /\ Cardinality(GoneFds') <= Cardinality(GoneFds)
         /\ Cardinality(GoneFds) \in Nat /\ Cardinality(GoneFds') \in Nat
BY FS_Subset, FS_CardinalityType

LEMMA BsStep == BsInv /\ [BsNext]_bsvars => BsInv'
<1> SUFFICES ASSUME BsInv, [BsNext]_bsvars PROVE BsInv'
  OBVIOUS
<1> USE DEF BsInv
<1>1. ASSUME UNCHANGED <<bs_mode, bs_listening, clients, bs_client_fd, fds, missed,
                         losses>>,
             bs_thread' \in [at : {"check", "select", "connect", "exited"}, fd : {NoFd}],
             bs_thread.at # "got", bs_main' = bs_main, bs_main # "done",
             bs_thread'.at = "select" => bs_mode = "server",
             bs_thread'.at = "connect" => bs_client_fd = NoFd
      PROVE  BsInv'
  <2>1. BsType' BY <1>1 DEF BsType
  <2>2. PlaceInv' BY <1>1 DEF PlaceInv, Listed, InHand
  <2>3. ModeInv' /\ DoneInv' BY <1>1 DEF ModeInv, DoneInv
  <2>4. GoneFds' = GoneFds BY <1>1 DEF GoneFds
  <2>5. MissInv' BY <1>1, <2>4 DEF MissInv
  <2> QED BY <2>1, <2>2, <2>3, <2>5
<1>2. CASE ThreadChecks
  BY <1>1, <1>2 DEF ThreadChecks, Thread, Alive, UNCHANGED_CONF, BsType
<1>3. CASE SelectReturns
  BY <1>1, <1>3 DEF SelectReturns, Thread, Alive, UNCHANGED_CONF
<1>4. CASE ConnectRefused
  BY <1>1, <1>4 DEF ConnectRefused, Thread, Alive, UNCHANGED_CONF
<1>5. CASE Connected
  <2>1. PICK fd \in Fds : /\ fds[fd] = "free"
                          /\ fds' = [fds EXCEPT ![fd] = "up"]
                          /\ missed' = [missed EXCEPT ![fd] = 0]
                          /\ bs_thread' = [at |-> "got", fd |-> fd]
    BY <1>5 DEF Connected, Thread
  <2>2. /\ UNCHANGED <<bs_mode, bs_listening, clients, bs_client_fd, bs_main, losses>>
        /\ bs_main # "done" /\ bs_thread.at # "got"
        /\ bs_thread.at = "connect" \/ bs_thread.at = "select"
    BY <1>5 DEF Connected, Alive, UNCHANGED_CONF
  <2>3. BsType' BY <2>1, <2>2 DEF BsType
  <2>4. ~Listed(fd) BY <2>1 DEF PlaceInv
  <2>5. PlaceInv' BY <2>1, <2>2, <2>4 DEF PlaceInv, Listed, InHand, BsType
  <2>6. ModeInv' /\ DoneInv' BY <2>1, <2>2 DEF ModeInv, DoneInv
  <2>7. GoneFds' = GoneFds BY <2>1 DEF GoneFds, BsType
  <2>8. \A i \in 1..Len(clients) : missed'[clients[i]] = missed[clients[i]]
    BY <2>1, <2>4 DEF Listed, BsType
  <2>9. MissInv' BY <2>1, <2>2, <2>7, <2>8 DEF MissInv, BsType
  <2> QED BY <2>3, <2>5, <2>6, <2>9
<1>6. CASE AddConnection
  <2>1. /\ bs_thread.at = "got" /\ bs_thread' = [at |-> "check", fd |-> NoFd]
        /\ bs_main # "done" /\ bs_thread.fd \in Fds
        /\ UNCHANGED <<bs_mode, bs_listening, bs_main, missed, losses>>
    BY <1>6 DEF AddConnection, Thread, Alive, UNCHANGED_CONF, PlaceInv
  <2>2. ~Listed(bs_thread.fd) /\ fds[bs_thread.fd] # "free"
    BY <2>1 DEF PlaceInv, InHand
  <2>3. CASE /\ bs_mode = "server"
             /\ clients' = Append(clients, bs_thread.fd)
             /\ UNCHANGED <<fds, bs_client_fd>>
    <3>1. /\ clients' \in Seq(Fds) /\ Len(clients') = Len(clients) + 1
          /\ \A i \in 1..Len(clients) : clients'[i] = clients[i]
          /\ clients'[Len(clients) + 1] = bs_thread.fd /\ Len(clients) \in Nat
      BY <2>1, <2>3 DEF BsType
    <3>2. BsType' BY <2>1, <2>3, <3>1 DEF BsType
    <3>3. \A f \in Fds : Listed(f)' <=> Listed(f) \/ f = bs_thread.fd
      BY <3>1 DEF Listed
    <3>4. \A i, j \in 1..Len(clients') : clients'[i] = clients'[j] => i = j
      BY <2>2, <3>1 DEF PlaceInv, Listed
    <3>5. PlaceInv' BY <2>1, <2>3, <3>3, <3>4 DEF PlaceInv, InHand
    <3>6. ModeInv' /\ DoneInv' BY <2>1, <2>3 DEF ModeInv, DoneInv
    <3>7. GoneFds' = GoneFds BY <2>3 DEF GoneFds
    <3>8. \A i \in 1..Len(clients') : missed[clients'[i]] + Cardinality(GoneFds) <= losses
      <4>1. ASSUME NEW i \in 1..Len(clients), i <= Len(clients)
            PROVE  missed[clients'[i]] + Cardinality(GoneFds) <= losses
        BY <3>1 DEF MissInv
      <4>2. missed[clients'[Len(clients) + 1]] + Cardinality(GoneFds) <= losses
        BY <2>1, <3>1, FS_CardinalityType DEF MissInv
      <4> QED BY <3>1, <4>1, <4>2
    <3>9. MissInv' BY <2>1, <3>7, <3>8 DEF MissInv
    <3> QED BY <3>2, <3>5, <3>6, <3>9
  <2>4. CASE /\ bs_mode = "server" /\ fds' = [fds EXCEPT ![bs_thread.fd] = "free"]
             /\ UNCHANGED <<clients, bs_client_fd>>
    <3>1. BsType' BY <2>1, <2>4 DEF BsType
    <3>2. PlaceInv' BY <2>1, <2>2, <2>4 DEF PlaceInv, Listed, InHand, BsType
    <3>3. ModeInv' /\ DoneInv' BY <2>1, <2>4 DEF ModeInv, DoneInv
    <3>4. GoneFds' \subseteq GoneFds BY <2>1, <2>4 DEF GoneFds, BsType
    <3>5. MissInv' 
      <4>1. IsFiniteSet(GoneFds) BY DEF MissInv
      <4>2. /\ IsFiniteSet(GoneFds') /\ Cardinality(GoneFds') <= Cardinality(GoneFds)
            /\ Cardinality(GoneFds) \in Nat /\ Cardinality(GoneFds') \in Nat
        BY <3>4, <4>1, GoneShrinks
      <4>3. \A i \in 1..Len(clients) : missed[clients[i]] \in Nat BY DEF BsType
      <4> QED BY <2>1, <2>4, <4>2, <4>3 DEF MissInv, BsType
    <3> QED BY <3>1, <3>2, <3>3, <3>5
  <2>5. CASE /\ bs_mode = "push" /\ bs_client_fd' = bs_thread.fd
             /\ clients' = <<bs_thread.fd>> /\ UNCHANGED fds
    <3>1. clients = <<>> BY <2>1, <2>5 DEF ModeInv
    <3>2. Len(clients') = 1 /\ clients'[1] = bs_thread.fd BY <2>5
    <3>3. BsType' BY <2>1, <2>5 DEF BsType
    <3>4. PlaceInv' BY <2>1, <2>2, <2>5, <3>1, <3>2 DEF PlaceInv, Listed, InHand
    <3>5. ModeInv' /\ DoneInv' BY <2>1, <2>5, BsAssumption DEF ModeInv, DoneInv
    <3>6. GoneFds' = GoneFds BY <2>5 DEF GoneFds
    <3>7. MissInv' BY <2>1, <3>2, <3>6, FS_CardinalityType DEF MissInv, BsType
    <3> QED BY <3>3, <3>4, <3>5, <3>7
  <2> QED BY <1>6, <2>3, <2>4, <2>5 DEF AddConnection
<1>7. CASE SendPosition
  <2>1. /\ bs_main = "loop"
        /\ UNCHANGED <<bs_mode, bs_listening, bs_thread, losses>>
    BY <1>7 DEF SendPosition, UNCHANGED_CONF
  <2>2. PICK i \in DOMAIN clients :
         /\ fds[clients[i]] # "up"
         /\ IF ~bs_web
            THEN /\ bs_main' = "killed"
                 /\ UNCHANGED <<clients, bs_client_fd, fds, missed>>
            ELSE /\ fds' = [fds EXCEPT ![clients[i]] = "free"]
                 /\ missed' = [f \in Fds |->
                       IF \E j \in (i + 1)..Len(clients) : clients[j] = f
                       THEN missed[f] + 1 ELSE missed[f]]
                 /\ clients' = IF bs_mode = "push" THEN <<>> ELSE WithoutClient(i)
                 /\ bs_client_fd' = LinkAfterLoss
                 /\ UNCHANGED bs_main
    BY <1>7 DEF SendPosition
  <2>3. CASE ~bs_web
    <3>1. /\ bs_main' = "killed" /\ UNCHANGED <<clients, bs_client_fd, fds, missed>>
      BY <2>2, <2>3
    <3>2. GoneFds' = GoneFds BY <3>1 DEF GoneFds
    <3> QED BY <2>1, <3>1, <3>2
          DEF BsType, PlaceInv, ModeInv, DoneInv, MissInv, Listed, InHand
  <2>4. CASE bs_web
    <3> DEFINE n == Len(clients)
    <3>1. /\ fds' = [fds EXCEPT ![clients[i]] = "free"]
          /\ missed' = [f \in Fds |->
                IF \E j \in (i + 1)..Len(clients) : clients[j] = f
                THEN missed[f] + 1 ELSE missed[f]]
          /\ clients' = IF bs_mode = "push" THEN <<>> ELSE WithoutClient(i)
          /\ bs_client_fd' = LinkAfterLoss
          /\ bs_main' = bs_main
      BY <2>2, <2>4
    <3>2. /\ i \in 1..n /\ n \in Nat /\ n >= 1 /\ clients[i] \in Fds
          /\ \A k \in 1..n : clients[k] \in Fds
      BY DEF BsType
    <3>3. fds[clients[i]] = "gone"
      BY <2>2, <3>2 DEF PlaceInv, Listed, BsType
    <3>4. /\ clients' \in Seq(Fds)
          /\ \A f \in Fds : Listed(f)' <=> Listed(f) /\ f # clients[i]
          /\ \A k, l \in 1..Len(clients') : clients'[k] = clients'[l] => k = l
      <4>1. CASE bs_mode = "push"
        <5>1. clients' = <<>> BY <3>1, <4>1
        <5>2. n = 1
          <6>1. clients = IF bs_client_fd = NoFd THEN <<>> ELSE <<bs_client_fd>>
            BY <4>1 DEF ModeInv
          <6> QED BY <3>2, <6>1
        <5> QED BY <3>2, <5>1, <5>2 DEF Listed
      <4>2. CASE bs_mode # "push"
        <5>1. /\ clients' \in Seq(Fds) /\ Len(clients') = n - 1
              /\ \A k \in 1..(n - 1) :
                   clients'[k] = IF k = i THEN clients[n] ELSE clients[k]
          BY <3>1, <3>2, <4>2, ClientRemoved
        <5>2. \A k, l \in 1..n : clients[k] = clients[l] => k = l BY DEF PlaceInv
        <5>3. \A k, l \in 1..Len(clients') : clients'[k] = clients'[l] => k = l
          BY <3>2, <5>1, <5>2
        <5>4. ASSUME NEW f \in Fds, Listed(f)' PROVE Listed(f) /\ f # clients[i]
          BY <3>2, <5>1, <5>2, <5>4 DEF Listed
        <5>5. ASSUME NEW f \in Fds, Listed(f), f # clients[i] PROVE Listed(f)'
          <6>1. PICK k \in 1..n : clients[k] = f BY <5>5 DEF Listed
          <6>2. CASE k < n
            <7>1. k \in 1..Len(clients') /\ clients'[k] = f
              BY <3>2, <5>1, <5>5, <6>1, <6>2
            <7> QED BY <7>1 DEF Listed
          <6>3. CASE k = n
            <7>1. i \in 1..Len(clients') /\ clients'[i] = f
              BY <3>2, <5>1, <5>5, <6>1, <6>3
            <7> QED BY <7>1 DEF Listed
          <6> QED BY <3>2, <6>1, <6>2, <6>3
        <5> QED BY <5>1, <5>3, <5>4, <5>5
      <4> QED BY <4>1, <4>2
    <3>5. BsType'
      <4>1. missed' \in [Fds -> Nat] BY <3>1 DEF BsType
      <4> QED BY <2>1, <3>1, <3>2, <3>4, <4>1 DEF BsType, LinkAfterLoss
    <3>6. PlaceInv'
      <4>1. Listed(clients[i]) BY <3>2 DEF Listed
      <4>2. ~InHand(clients[i]) BY <3>2, <4>1 DEF PlaceInv
      <4> QED BY <2>1, <3>1, <3>2, <3>4, <4>2 DEF PlaceInv, InHand, BsType
    <3>7. ModeInv' /\ DoneInv'
      BY <2>1, <3>1 DEF ModeInv, DoneInv, LinkAfterLoss
    <3>8. GoneFds' = GoneFds \ {clients[i]} /\ clients[i] \in GoneFds
      BY <3>1, <3>2, <3>3 DEF GoneFds, BsType
    <3>9. /\ IsFiniteSet(GoneFds') /\ Cardinality(GoneFds') = Cardinality(GoneFds) - 1
          /\ Cardinality(GoneFds) \in Nat
      BY <3>8, FS_RemoveElement, FS_CardinalityType DEF MissInv
    <3>10. ASSUME NEW f \in Fds
           PROVE  missed'[f] <= missed[f] + 1 /\ (~Listed(f) => missed'[f] = missed[f])
      BY <3>1, <3>2 DEF Listed, BsType
    <3>11. \A k \in 1..Len(clients') : missed'[clients'[k]] + Cardinality(GoneFds') <= losses
      <4> SUFFICES ASSUME NEW k \in 1..Len(clients')
                   PROVE  missed'[clients'[k]] + Cardinality(GoneFds') <= losses
        OBVIOUS
      <4>1. PICK f \in Fds : f = clients'[k] BY <3>4
      <4>2. Listed(f)' BY <4>1 DEF Listed
      <4>3. Listed(f) BY <3>4, <4>1, <4>2
      <4>4. missed[f] + Cardinality(GoneFds) <= losses BY <4>3 DEF MissInv, Listed
      <4>5. missed[f] \in Nat /\ missed'[f] \in Nat /\ losses \in Nat
        BY <3>5, <4>1 DEF BsType
      <4>6. missed'[f] <= missed[f] + 1 BY <3>10, <4>1
      <4>7. missed'[f] + Cardinality(GoneFds') <= losses
        BY <3>9, <4>4, <4>5, <4>6
      <4> QED BY <4>1, <4>7
    <3>12. bs_thread'.at = "got" => missed'[bs_thread'.fd] = 0
      BY <2>1, <3>10 DEF MissInv, PlaceInv, InHand
    <3>13. MissInv' BY <2>1, <3>9, <3>11, <3>12 DEF MissInv, BsType
    <3> QED BY <3>5, <3>6, <3>7, <3>13
  <2> QED BY <2>3, <2>4
<1>8. ASSUME NEW fd \in Fds, PeerLeaves(fd) PROVE BsInv'
  <2>1. /\ fds[fd] = "up" /\ fds' = [fds EXCEPT ![fd] = "gone"] /\ losses' = losses + 1
        /\ UNCHANGED <<bs_mode, bs_listening, clients, bs_client_fd, bs_thread, bs_main,
                       missed>>
    BY <1>8 DEF PeerLeaves, UNCHANGED_CONF
  <2>2. BsType' BY <2>1 DEF BsType
  <2>3. PlaceInv' BY <2>1 DEF PlaceInv, Listed, InHand, BsType
  <2>4. ModeInv' /\ DoneInv' BY <2>1 DEF ModeInv, DoneInv
  <2>5. GoneFds' = GoneFds \cup {fd} /\ fd \notin GoneFds BY <2>1 DEF GoneFds, BsType
  <2>6. /\ IsFiniteSet(GoneFds') /\ Cardinality(GoneFds') = Cardinality(GoneFds) + 1
        /\ Cardinality(GoneFds) \in Nat
    BY <2>5, FS_AddElement, FS_CardinalityType DEF MissInv
  <2>7. \A i \in 1..Len(clients) : missed[clients[i]] \in Nat BY DEF BsType
  <2>8. MissInv' BY <2>1, <2>6, <2>7 DEF MissInv, BsType
  <2> QED BY <2>2, <2>3, <2>4, <2>8
<1>9. CASE StopRunning \/ DestroyBegins
  <2>1. /\ UNCHANGED <<bs_mode, clients, bs_client_fd, fds, bs_thread, missed, losses>>
        /\ bs_main # "done" /\ bs_main' \in {bs_main, "join"}
        /\ bs_listening' = bs_listening \/ bs_listening' = FALSE
    BY <1>9 DEF StopRunning, DestroyBegins, Alive, UNCHANGED_CONF
  <2>2. GoneFds' = GoneFds BY <2>1 DEF GoneFds
  <2> QED BY <2>1, <2>2 DEF BsType, PlaceInv, ModeInv, DoneInv, MissInv, Listed, InHand
<1>10. CASE DestroyCloses
  <2>1. /\ bs_thread.at = "exited" /\ bs_main' = "done"
        /\ fds' = [f \in Fds |-> IF f \in {clients[i] : i \in DOMAIN clients} \cup {bs_client_fd}
                                 THEN "free" ELSE fds[f]]
        /\ clients' = <<>> /\ bs_client_fd' = NoFd
        /\ UNCHANGED <<bs_mode, bs_listening, bs_thread, missed, losses>>
    BY <1>10 DEF DestroyCloses, ToSet, UNCHANGED_CONF
  <2>2. BsType' BY <2>1 DEF BsType
  <2>3. \A f \in Fds : fds'[f] = "free"
    BY <2>1 DEF PlaceInv, Listed, InHand, BsType
  <2>4. PlaceInv' BY <2>1, <2>3 DEF PlaceInv, Listed, InHand
  <2>5. ModeInv' /\ DoneInv' BY <2>1 DEF ModeInv, DoneInv
  <2>6. GoneFds' = {} BY <2>3 DEF GoneFds
  <2>7. MissInv' BY <2>1, <2>6, FS_EmptySet DEF MissInv, BsType
  <2> QED BY <2>2, <2>4, <2>5, <2>7
<1>11. CASE UNCHANGED bsvars
  <2>1. GoneFds' = GoneFds BY <1>11 DEF GoneFds, bsvars
  <2> QED BY <1>11, <2>1 DEF bsvars, BsType, PlaceInv, ModeInv, DoneInv, MissInv, Listed, InHand
<1> QED BY <1>2, <1>3, <1>4, <1>5, <1>6, <1>7, <1>8, <1>9, <1>10, <1>11 DEF BsNext, BsThread

(* bs_accept_thread, a failing write in basestation_send_position and the  *)
(* teardown lose sight of no connection: every open descriptor is on the   *)
(* list, once, or just accepted, the list has no other, and at the end     *)
(* none is left open.                                                      *)
THEOREM ConnectionsKept == BsSpec => []ConnectionsAccountedFor
<1>1. BsInv => ConnectionsAccountedFor
  <2> SUFFICES ASSUME BsInv PROVE ConnectionsAccountedFor
    OBVIOUS
  <2>1. DOMAIN clients = 1..Len(clients) BY DEF BsInv, BsType
  <2>2. \A f \in Fds : fds[f] # "free" <=>
          \/ \E i \in DOMAIN clients : clients[i] = f
          \/ bs_thread.at = "got" /\ bs_thread.fd = f
    BY <2>1 DEF BsInv, PlaceInv, Listed, InHand
  <2>3. bs_main = "done" => \A f \in Fds : fds[f] = "free"
    BY DEF BsInv, DoneInv, PlaceInv, Listed, InHand, BsType
  <2> QED BY <2>1, <2>2, <2>3 DEF BsInv, PlaceInv, ConnectionsAccountedFor
<1> QED BY <1>1, BsInitInv, BsStep, PTL DEF BsSpec

(* No client misses more positions than peers were lost, although a write  *)
(* that fails ends the loop for all clients behind it.                     *)
THEOREM MissesBounded == BsSpec => []MissesBoundedByLosses
<1>1. BsInv => MissesBoundedByLosses
  <2> SUFFICES ASSUME BsInv, NEW i \in DOMAIN clients PROVE missed[clients[i]] <= losses
    BY DEF MissesBoundedByLosses
  <2>1. i \in 1..Len(clients) /\ missed[clients[i]] \in Nat /\ losses \in Nat
    BY DEF BsInv, BsType
  <2>2. Cardinality(GoneFds) \in Nat BY FS_CardinalityType DEF BsInv, MissInv
  <2> QED BY <2>1, <2>2 DEF BsInv, MissInv
<1> QED BY <1>1, BsInitInv, BsStep, PTL DEF BsSpec

-----------------------------------------------------------------------------
(* Derived tracks.  As long as no two workers have been in bs_derive_track *)
(* at once, an aircraft has at most one entry in the cache, and it holds   *)
(* the last position sent for it, but for the entry that a worker has      *)
(* chosen and not written yet.                                             *)

Writing == {"update", "add", "evict"}

WorkType ==
    \E M, P, I :
      work \in [Workers -> [at : {"idle", "find", "learn", "show"} \cup Writing, msg : M,
                           pos : P, alt : P, t : Nat, idx : I]]

Entry(i) == [pos |-> bs_track[i].pos, t |-> bs_track[i].t]
Carried(w) == [pos |-> work[w].pos, t |-> work[w].t]
HexAt(w) == HexOf(work[w].msg)
NoEntry(hex) == \A i \in 1..Len(bs_track) : bs_track[i].hex # hex

CacheInv ==
    /\ \E P : bs_track \in Seq([hex : Hexes, pos : P, t : Nat])
    /\ \A i, j \in 1..Len(bs_track) : bs_track[i].hex = bs_track[j].hex => i = j
    /\ \A i \in 1..Len(bs_track) :
         \/ Entry(i) = lastfix[bs_track[i].hex]
         \/ \E w \in Workers : work[w].at = "update" /\ work[w].idx = i

WriterInv(w) ==
    work[w].at \in Writing =>
      /\ \A v \in Workers \ {w} : work[v].at \notin Writing
      /\ lastfix[HexAt(w)] = Carried(w)
      /\ work[w].at = "update" =>
           work[w].idx \in 1..Len(bs_track) /\ bs_track[work[w].idx].hex = HexAt(w)
      /\ work[w].at = "add" => work[w].idx = Len(bs_track) + 1 /\ NoEntry(HexAt(w))
      /\ work[w].at = "evict" => work[w].idx \in 1..Len(bs_track) /\ NoEntry(HexAt(w))

TrackInv ==
    /\ WorkType /\ now \in Nat /\ raced \in BOOLEAN
    /\ DOMAIN lastfix = Hexes
    /\ \A w \in Workers : work[w].at \in {"find"} \cup Writing => work[w].msg \in AcarsMessages
    /\ ~raced => CacheInv /\ \A w \in Workers : WriterInv(w)
    /\ TrackFromOwnFixes

LEMMA TrackInit == AcInit => TrackInv
<1> SUFFICES ASSUME AcInit PROVE TrackInv
  OBVIOUS
<1>1. /\ now = 1 /\ bs_track = <<>> /\ raced = FALSE /\ derived = NothingDerived
      /\ work = [w \in Workers |-> [at |-> "idle", msg |-> NoMessage, pos |-> None,
                                   alt |-> None, t |-> 0, idx |-> 0]]
      /\ lastfix = [h \in Hexes |-> NoFix]
  BY DEF AcInit, Idle
<1>2. WorkType
  <2>1. work \in [Workers -> [at : {"idle", "find", "learn", "show"} \cup Writing,
                             msg : {NoMessage}, pos : {None}, alt : {None}, t : Nat, idx : {0}]]
    BY <1>1
  <2> QED BY <2>1 DEF WorkType
<1>3. CacheInv
  <2>1. bs_track \in Seq([hex : Hexes, pos : {None}, t : Nat]) /\ Len(bs_track) = 0
    BY <1>1
  <2> QED BY <2>1 DEF CacheInv
<1>4. \A w \in Workers : work[w].at \notin {"find"} \cup Writing BY <1>1 DEF Writing
<1>5. TrackFromOwnFixes BY <1>1 DEF TrackFromOwnFixes
<1> QED BY <1>1, <1>2, <1>3, <1>4, <1>5 DEF TrackInv, WriterInv

(* A set of naturals that is not empty has a least element.                *)
LEMMA LeastExists ==
  ASSUME NEW T, T \subseteq Nat, T # {}
  PROVE  \E x \in T : \A y \in T : x <= y
<1>1. PICK x \in T : \A y \in T : ~(<<y, x>> \in OpToRel(<, Nat))
  BY WFMin, NatLessThanWellFounded
<1>2. ASSUME NEW y \in T PROVE x <= y
  <2>1. <<y, x>> \notin OpToRel(<, Nat) BY <1>1
  <2>2. ~(y < x) BY <2>1 DEF OpToRel
  <2> QED BY <2>2
<1> QED BY <1>2

LEMMA LargerOfTwo ==
  ASSUME NEW a \in Nat, NEW b \in Nat, a >= b
  PROVE  Max({a, b}) = a
BY DEF Max

(* The entry that gives way exists in a cache that is not empty.           *)
LEMMA OldestTrackIn ==
  ASSUME NEW P, bs_track \in Seq([hex : Hexes, pos : P, t : Nat]), Len(bs_track) > 0
  PROVE  OldestTrack \in 1..Len(bs_track)
<1> DEFINE D == 1..Len(bs_track)
           T == {bs_track[i].t : i \in D}
<1>1. DOMAIN bs_track = D /\ Len(bs_track) \in Nat /\ \A i \in D : bs_track[i].t \in Nat
  <2>1. DOMAIN bs_track = D /\ Len(bs_track) \in Nat OBVIOUS
  <2>2. ASSUME NEW i \in D PROVE bs_track[i].t \in Nat
    <3>1. bs_track[i] \in [hex : Hexes, pos : P, t : Nat] BY ElementOfSeq
    <3> QED BY <3>1
  <2> QED BY <2>1, <2>2
<1>2. T \subseteq Nat /\ T # {}
  <2>1. 1 \in D BY <1>1
  <2> QED BY <1>1, <2>1
<1>3. PICK t \in T : \A u \in T : t <= u BY <1>2, LeastExists
<1> DEFINE O == {i \in D : bs_track[i].t = t}
<1>4. O \subseteq Nat /\ O # {} BY <1>1, <1>3
<1>5. PICK i \in O : \A j \in O : i <= j BY <1>4, LeastExists
<1>6. ASSUME NEW j \in D
      PROVE  bs_track[i].t < bs_track[j].t \/ (bs_track[i].t = bs_track[j].t /\ i <= j)
  <2>1. t <= bs_track[j].t /\ bs_track[i].t = t /\ t \in Nat /\ bs_track[j].t \in Nat
    BY <1>1, <1>3, <1>5, <1>6
  <2>2. CASE bs_track[j].t = t
    <3>1. j \in O BY <1>6, <2>2
    <3> QED BY <1>5, <2>1, <2>2, <3>1
  <2>3. CASE bs_track[j].t # t BY <2>1, <2>3
  <2> QED BY <2>2, <2>3
<1>7. i \in DOMAIN bs_track BY <1>1, <1>5
<1>8. \E k \in DOMAIN bs_track : \A j \in DOMAIN bs_track :
         bs_track[k].t < bs_track[j].t \/ (bs_track[k].t = bs_track[j].t /\ k <= j)
  BY <1>1, <1>6, <1>7
<1>9. OldestTrack \in DOMAIN bs_track BY <1>8 DEF OldestTrack
<1> QED BY <1>1, <1>9

LEMMA FunctionIsSeq ==
  ASSUME NEW S, NEW m \in Nat, NEW f \in [1..m -> S]
  PROVE  f \in Seq(S) /\ Len(f) = m
<1>1. f \in Seq(S) BY SeqDef
<1>2. Len(f) \in Nat /\ 1..Len(f) = 1..m BY <1>1, LenProperties
<1> QED BY <1>1, <1>2

LEMMA TrackStep == TrackInv /\ [AcNext]_acvars => TrackInv'
<1> SUFFICES ASSUME TrackInv, [AcNext]_acvars PROVE TrackInv'
  OBVIOUS
<1>1. PICK M, P, I :
        work \in [Workers -> [at : {"idle", "find", "learn", "show"} \cup Writing, msg : M,
                             pos : P, alt : P, t : Nat, idx : I]]
  BY DEF TrackInv, WorkType
(* Steps of a worker that is not in bs_derive_track. *)
<1>2. ASSUME NEW w \in Workers, work[w].at \notin Writing,
             NEW r, work' = [work EXCEPT ![w] = r], r.at \notin Writing,
             r.at = "find" => r.msg \in AcarsMessages, WorkType',
             now' \in Nat, UNCHANGED <<bs_track, raced, derived, lastfix>>
      PROVE  TrackInv'
  <2>1. work'[w] = r /\ \A v \in Workers \ {w} : work'[v] = work[v] BY <1>1, <1>2
  <2>2. \A v \in Workers : work'[v].at \in {"find"} \cup Writing => work'[v].msg \in AcarsMessages
    BY <1>2, <2>1 DEF TrackInv, Writing
  <2>3. ASSUME ~raced PROVE CacheInv'
    <3>1. CacheInv BY <2>3 DEF TrackInv
    <3>2. ASSUME NEW i, NEW v \in Workers, work[v].at = "update", work[v].idx = i
          PROVE  \E u \in Workers : work'[u].at = "update" /\ work'[u].idx = i
      <4>1. v # w BY <1>2, <3>2 DEF Writing
      <4> QED BY <2>1, <3>2, <4>1
    <3> QED BY <1>2, <3>1, <3>2 DEF CacheInv, Entry
  <2>4. ASSUME ~raced, NEW v \in Workers PROVE WriterInv(v)'
    <3>1. WriterInv(v) BY <2>4 DEF TrackInv
    <3>2. CASE v = w BY <1>2, <2>1, <3>2 DEF WriterInv
    <3>3. CASE v # w
      BY <1>2, <2>1, <3>1, <3>3 DEF WriterInv, Carried, HexAt, NoEntry
    <3> QED BY <3>2, <3>3
  <2> QED BY <1>2, <2>2, <2>3, <2>4 DEF TrackInv, TrackFromOwnFixes
<1>3. ASSUME NEW w \in Workers, NEW m \in AcarsMessages, Receive(w, m) PROVE TrackInv'
  <2> DEFINE r == IF ~m.complete THEN Idle
                  ELSE [at |-> IF Position(m) # None /\ HexOf(m) # NoHex
                               THEN "find" ELSE "learn",
                        msg |-> m, pos |-> Position(m), alt |-> Altitude(m),
                        t |-> now, idx |-> 0]
  <2>1. /\ work[w].at = "idle" /\ work' = [work EXCEPT ![w] = r]
        /\ UNCHANGED <<now, bs_track, raced, derived, lastfix>>
    BY <1>3 DEF Receive
  <2>2. now \in Nat BY DEF TrackInv
  <2>3. r.at \in {"idle", "find", "learn"} /\ (r.at = "find" => r.msg \in AcarsMessages)
    BY DEF Idle
  <2>4. r \in [at : {"idle", "find", "learn"}, msg : {m, NoMessage},
               pos : {Position(m), None}, alt : {Altitude(m), None}, t : Nat, idx : {0}]
    BY <2>2 DEF Idle
  <2> HIDE DEF r
  <2>5. work' \in [Workers -> [at : {"idle", "find", "learn", "show"} \cup Writing,
                              msg : M \cup {m, NoMessage},
                              pos : P \cup {Position(m), Altitude(m), None},
                              alt : P \cup {Position(m), Altitude(m), None},
                              t : Nat, idx : I \cup {0}]]
    BY <1>1, <2>1, <2>4
  <2>6. WorkType' BY <2>5 DEF WorkType
  <2> QED BY <1>2, <2>1, <2>2, <2>3, <2>6 DEF Writing
<1>4. ASSUME NEW w \in Workers, Learn(w) PROVE TrackInv'
  <2>1. work[w].at = "learn" /\ UNCHANGED <<now, bs_track, raced, derived, lastfix>>
    BY <1>4 DEF Learn
  <2>2. PICK a \in {"learn", "show"},
             m \in {work[w].msg, [work[w].msg EXCEPT !.plan = Tail(@)]} :
          work' = [work EXCEPT ![w] = [work[w] EXCEPT !.at = a, !.msg = m]]
    <3>1. CASE work' = [work EXCEPT ![w].at = "show"]
      <4>1. work' = [work EXCEPT ![w] = [work[w] EXCEPT !.at = "show", !.msg = work[w].msg]]
        BY <1>1, <3>1
      <4> QED BY <4>1
    <3>2. CASE \E a \in {"learn", "show"} :
                 work' = [work EXCEPT ![w].msg.plan = Tail(@), ![w].at = a]
      <4>1. PICK a \in {"learn", "show"} :
                 work' = [work EXCEPT ![w].msg.plan = Tail(@), ![w].at = a]
        BY <3>2
      <4>2. work' = [work EXCEPT ![w] = [work[w] EXCEPT !.at = a,
                                            !.msg = [work[w].msg EXCEPT !.plan = Tail(@)]]]
        BY <1>1, <4>1
      <4> QED BY <4>2
    <3> QED BY <1>4, <3>1, <3>2 DEF Learn
  <2>3. /\ [work[w] EXCEPT !.at = a, !.msg = m] \in
             [at : {"learn", "show"}, msg : {m}, pos : P, alt : P, t : Nat, idx : I]
        /\ [work[w] EXCEPT !.at = a, !.msg = m].at \in {"learn", "show"}
    BY <1>1
  <2>4. work' \in [Workers -> [at : {"idle", "find", "learn", "show"} \cup Writing,
                              msg : M \cup {m}, pos : P, alt : P, t : Nat, idx : I]]
    BY <1>1, <2>2, <2>3
  <2>5. WorkType' BY <2>4 DEF WorkType
  <2>6. now' \in Nat BY <2>1 DEF TrackInv
  <2> QED BY <1>2, <2>1, <2>2, <2>3, <2>5, <2>6 DEF Writing
<1>5. ASSUME NEW w \in Workers, Show(w) PROVE TrackInv'
  <2>1. /\ work[w].at = "show" /\ work' = [work EXCEPT ![w] = Idle] /\ now' = now + 1
        /\ UNCHANGED <<bs_track, raced, derived, lastfix>>
    BY <1>5 DEF Show
  <2>2. now' \in Nat BY <2>1 DEF TrackInv
  <2>3. Idle.at = "idle" BY DEF Idle
  <2>4. work' \in [Workers -> [at : {"idle", "find", "learn", "show"} \cup Writing,
                              msg : M \cup {NoMessage}, pos : P \cup {None},
                              alt : P \cup {None}, t : Nat, idx : I \cup {0}]]
    BY <1>1, <2>1 DEF Idle
  <2>5. WorkType' BY <2>4 DEF WorkType
  <2> QED BY <1>2, <2>1, <2>2, <2>3, <2>5 DEF Writing
<1>6. ASSUME NEW w \in Workers, FindTrack(w) PROVE TrackInv'
  <2> DEFINE hex == HexAt(w)
             own == TrackOf(hex)
             S == {i \in DOMAIN bs_track : bs_track[i].hex = hex}
             a == IF own # 0 THEN "update"
                  ELSE IF Len(bs_track) < BS_TRACK_MAX THEN "add" ELSE "evict"
             x == IF own # 0 THEN own
                  ELSE IF Len(bs_track) < BS_TRACK_MAX THEN Len(bs_track) + 1
                  ELSE OldestTrack
  <2>1. /\ work[w].at = "find"
        /\ work' = [work EXCEPT ![w].at = a, ![w].idx = x]
        /\ \/ derived' = NothingDerived
           \/ own # 0 /\ derived' = [from |-> Entry(own), since |-> lastfix[hex],
                                     to |-> Carried(w)]
        /\ lastfix' = [lastfix EXCEPT ![hex] = Carried(w)]
        /\ raced' = (raced \/ \E v \in Workers \ {w} : work[v].at \in Writing)
        /\ UNCHANGED <<now, bs_track>>
    BY <1>6 DEF FindTrack, Writing, Entry, Carried, HexAt
  <2>2. hex \in Hexes /\ work[w].msg \in AcarsMessages
    BY <2>1 DEF TrackInv, HexAt, Hexes
  <2>3. a \in Writing BY DEF Writing
  <2>4. S # {} => own = Min(S) BY DEF TrackOf
  <2>5. S = {} => own = 0 BY DEF TrackOf
  <2> HIDE DEF a, x, own
  <2>6. work' \in [Workers -> [at : {"idle", "find", "learn", "show"} \cup Writing, msg : M,
                              pos : P, alt : P, t : Nat, idx : I \cup {x}]]
    BY <1>1, <2>1, <2>3
  <2>7. WorkType' BY <2>6 DEF WorkType
  <2>8. /\ work'[w].at = a /\ work'[w].idx = x /\ work'[w].msg = work[w].msg
        /\ work'[w].pos = work[w].pos /\ work'[w].t = work[w].t
        /\ \A v \in Workers \ {w} : work'[v] = work[v]
    BY <1>1, <2>1
  <2>9. \A v \in Workers : work'[v].at \in {"find"} \cup Writing => work'[v].msg \in AcarsMessages
    BY <2>2, <2>8 DEF TrackInv
  <2>10. /\ now' \in Nat /\ raced' \in BOOLEAN /\ DOMAIN lastfix' = Hexes
    BY <2>1 DEF TrackInv
  <2>11. CASE raced'
    BY <2>7, <2>9, <2>10, <2>11 DEF TrackInv, TrackFromOwnFixes
  <2>12. CASE ~raced'
    <3>1. ~raced /\ \A v \in Workers : work[v].at \notin Writing
      BY <2>1, <2>12 DEF Writing
    <3>2. CacheInv BY <3>1 DEF TrackInv
    <3>3. PICK Q : bs_track \in Seq([hex : Hexes, pos : Q, t : Nat]) BY <3>2 DEF CacheInv
    <3>4. /\ Len(bs_track) \in Nat /\ DOMAIN bs_track = 1..Len(bs_track)
          /\ \A i \in 1..Len(bs_track) : bs_track[i].hex \in Hexes
      <4>1. \A i \in 1..Len(bs_track) : bs_track[i] \in [hex : Hexes, pos : Q, t : Nat]
        BY <3>3, ElementOfSeq
      <4> QED BY <3>3, <4>1
    <3>5. \A i \in 1..Len(bs_track) : Entry(i) = lastfix[bs_track[i].hex]
      BY <3>1, <3>2 DEF CacheInv, Writing
    <3>6. \/ own = 0 /\ NoEntry(hex)
          \/ own \in 1..Len(bs_track) /\ own # 0 /\ bs_track[own].hex = hex
      <4>1. CASE S = {} BY <2>5, <3>4, <4>1 DEF NoEntry
      <4>2. CASE S # {}
        <5>1. PICK k \in S : TRUE BY <4>2
        <5>2. k \in 1..Len(bs_track) /\ bs_track[k].hex = hex BY <3>4, <5>1
        <5>3. S = {k} BY <3>2, <3>4, <5>2 DEF CacheInv
        <5>4. Min({k}) = k BY <5>2 DEF Min
        <5> HIDE DEF S, hex
        <5>5. own = k BY <2>4, <4>2, <5>3, <5>4
        <5> QED BY <5>2, <5>5
      <4> QED BY <4>1, <4>2
    <3>7. \A h \in Hexes : lastfix'[h] = IF h = hex THEN Carried(w) ELSE lastfix[h]
      BY <2>1, <2>2 DEF TrackInv
    <3>8. CacheInv'
      <4>1. ASSUME NEW i \in 1..Len(bs_track)
            PROVE  \/ Entry(i) = lastfix'[bs_track[i].hex]
                   \/ \E v \in Workers : work'[v].at = "update" /\ work'[v].idx = i
        <5>1. CASE bs_track[i].hex = hex
          <6>1. own = i /\ own # 0
            BY <3>2, <3>4, <3>6, <5>1 DEF CacheInv, NoEntry
          <6>2. a = "update" /\ x = i BY <6>1 DEF a, x
          <6> QED BY <2>8, <6>2
        <5>2. CASE bs_track[i].hex # hex BY <3>4, <3>5, <3>7, <5>2
        <5> QED BY <5>1, <5>2
      <4> QED BY <2>1, <3>2, <4>1 DEF CacheInv, Entry
    <3>9. WriterInv(w)'
      <4>1. \A v \in Workers \ {w} : work'[v].at \notin Writing BY <2>8, <3>1
      <4>2. lastfix'[hex] = Carried(w) BY <2>2, <3>7
      <4>3. a = "update" => x \in 1..Len(bs_track) /\ bs_track[x].hex = hex
        BY <3>6 DEF a, x
      <4>4. a = "add" => x = Len(bs_track) + 1 /\ NoEntry(hex) BY <3>6 DEF a, x
      <4>5. a = "evict" => x \in 1..Len(bs_track) /\ NoEntry(hex)
        <5> SUFFICES ASSUME a = "evict" PROVE x \in 1..Len(bs_track) /\ NoEntry(hex)
          OBVIOUS
        <5>1. own = 0 /\ ~(Len(bs_track) < BS_TRACK_MAX) /\ x = OldestTrack BY DEF a, x
        <5>2. Len(bs_track) > 0 BY <3>4, <5>1, AcarsAssumption
        <5> QED BY <3>3, <3>6, <5>1, <5>2, OldestTrackIn
      <4>6. Carried(w)' = Carried(w) /\ HexAt(w)' = hex BY <2>8 DEF Carried, HexAt
      <4>7. NoEntry(hex) => NoEntry(HexAt(w))' BY <2>1, <4>6 DEF NoEntry
      <4> QED BY <2>1, <2>8, <4>1, <4>2, <4>3, <4>4, <4>5, <4>6, <4>7 DEF WriterInv
    <3>10. ASSUME NEW v \in Workers, v # w PROVE WriterInv(v)'
      BY <2>8, <3>1, <3>10 DEF WriterInv
    <3>11. TrackFromOwnFixes'
      <4>1. own # 0 => Entry(own) = lastfix[hex] BY <3>5, <3>6
      <4> QED BY <2>1, <4>1 DEF TrackFromOwnFixes
    <3> QED BY <2>7, <2>9, <2>10, <3>8, <3>9, <3>10, <3>11 DEF TrackInv
  <2> QED BY <2>11, <2>12
<1>7. ASSUME NEW w \in Workers, WriteTrack(w) PROVE TrackInv'
  <2> DEFINE e == [hex |-> HexAt(w), pos |-> work[w].pos, t |-> work[w].t]
             n == Len(bs_track)
             Put(i) == [k \in 1..Max({i, n}) |->
                          IF k = i THEN e ELSE IF k <= n THEN bs_track[k] ELSE Blank]
  <2>1. /\ work' = [work EXCEPT ![w].at = "learn"]
        /\ UNCHANGED <<now, raced, derived, lastfix>>
    BY <1>7 DEF WriteTrack
  <2>2. \/ /\ work[w].at = "update"
           /\ bs_track' = [bs_track EXCEPT ![work[w].idx].pos = work[w].pos,
                                           ![work[w].idx].t = work[w].t]
        \/ /\ work[w].at = "add"
           /\ \E i \in {work[w].idx, n + 1} : bs_track' = Put(i)
        \/ /\ work[w].at = "evict"
           /\ bs_track' = Put(work[w].idx)
    BY <1>7 DEF WriteTrack, HexAt
  <2>3. work' \in [Workers -> [at : {"idle", "find", "learn", "show"} \cup Writing, msg : M,
                              pos : P, alt : P, t : Nat, idx : I]]
    BY <1>1, <2>1
  <2>4. WorkType' BY <2>3 DEF WorkType
  <2>5. work'[w].at = "learn" /\ \A v \in Workers \ {w} : work'[v] = work[v]
    BY <1>1, <2>1
  <2>6. \A v \in Workers : work'[v].at \in {"find"} \cup Writing => work'[v].msg \in AcarsMessages
    BY <2>5 DEF TrackInv, Writing
  <2>7. /\ now' \in Nat /\ raced' \in BOOLEAN /\ DOMAIN lastfix' = Hexes
        /\ TrackFromOwnFixes'
    BY <2>1 DEF TrackInv, TrackFromOwnFixes
  <2>8. CASE raced BY <2>1, <2>4, <2>6, <2>7, <2>8 DEF TrackInv
  <2>9. CASE ~raced
    <3>1. work[w].at \in Writing BY <2>2 DEF Writing
    <3>2. CacheInv /\ WriterInv(w) BY <2>9 DEF TrackInv
    <3>3. \A v \in Workers \ {w} : work[v].at \notin Writing BY <3>1, <3>2 DEF WriterInv
    <3>4. \A v \in Workers : work'[v].at \notin Writing BY <2>5, <3>3 DEF Writing
    <3>5. PICK Q : bs_track \in Seq([hex : Hexes, pos : Q, t : Nat]) BY <3>2 DEF CacheInv
    <3> DEFINE E == [hex : Hexes, pos : Q \cup {work[w].pos}, t : Nat]
    <3>6. /\ n \in Nat /\ DOMAIN bs_track = 1..n
          /\ \A i \in 1..n : bs_track[i] \in E
          /\ bs_track \in [1..n -> E]
      <4>1. \A i \in 1..n : bs_track[i] \in [hex : Hexes, pos : Q, t : Nat]
        BY <3>5, ElementOfSeq
      <4>2. n \in Nat /\ bs_track \in [1..n -> [hex : Hexes, pos : Q, t : Nat]]
        BY <3>5, LenProperties
      <4> QED BY <4>1, <4>2
    <3>7. e \in E
      <4>1. HexAt(w) \in Hexes BY <3>1 DEF TrackInv, HexAt, Hexes
      <4> QED BY <1>1, <4>1
    <3>8. lastfix[e.hex] = [pos |-> e.pos, t |-> e.t]
      BY <3>1, <3>2 DEF WriterInv, Carried
    <3>9. ASSUME NEW d \in E, d.hex = e.hex, d.pos = e.pos, d.t = e.t,
                 NEW i, NEW m \in {n, n + 1}, i \in 1..m, m = n + 1 => i = n + 1,
                 bs_track' = [k \in 1..m |-> IF k = i THEN d ELSE bs_track[k]],
                 \A k \in 1..n : k # i => bs_track[k].hex # e.hex,
                 work[w].at = "update" => work[w].idx = i
          PROVE  CacheInv'
      <4>1. bs_track' \in [1..m -> E] /\ m \in Nat BY <3>6, <3>9
      <4> HIDE DEF E, e, n
      <4>2. bs_track' \in Seq(E) /\ Len(bs_track') = m BY <4>1, FunctionIsSeq
      <4>3. /\ bs_track'[i] = d
            /\ \A k \in 1..m : k # i => k \in 1..n /\ bs_track'[k] = bs_track[k]
        BY <3>6, <3>9
      <4>4. \A k, l \in 1..m : bs_track'[k].hex = bs_track'[l].hex => k = l
        BY <3>2, <3>9, <4>3 DEF CacheInv, n
      <4>5. ASSUME NEW k \in 1..m
            PROVE  [pos |-> bs_track'[k].pos, t |-> bs_track'[k].t] = lastfix'[bs_track'[k].hex]
        <5>1. CASE k = i BY <2>1, <3>8, <4>3, <5>1, <3>9
        <5>2. CASE k # i
          <6>1. k \in 1..n /\ bs_track'[k] = bs_track[k] BY <4>3, <5>2
          <6>2. ~\E v \in Workers : work[v].at = "update" /\ work[v].idx = k
            BY <3>3, <3>9, <5>2 DEF Writing
          <6>3. Entry(k) = lastfix[bs_track[k].hex] BY <3>2, <6>1, <6>2 DEF CacheInv, n
          <6> QED BY <2>1, <6>1, <6>3 DEF Entry
        <5> QED BY <5>1, <5>2
      <4>6. \E R : bs_track' \in Seq([hex : Hexes, pos : R, t : Nat]) BY <4>2 DEF E
      <4> QED BY <4>2, <4>4, <4>5, <4>6 DEF CacheInv, Entry
    <3>10. CacheInv'
      <4> DEFINE i == work[w].idx
      <4>1. CASE work[w].at = "update"
        <5>1. i \in 1..n /\ bs_track[i].hex = e.hex BY <3>1, <3>2, <4>1 DEF WriterInv
        <5>2. \A k \in 1..n : k # i => bs_track[k].hex # e.hex
          BY <3>2, <5>1 DEF CacheInv
        <5> DEFINE d == [bs_track[i] EXCEPT !.pos = work[w].pos, !.t = work[w].t]
        <5>3. bs_track' = [bs_track EXCEPT ![i] = d]
          BY <2>2, <3>6, <4>1, <5>1
        <5>4. d \in E /\ d.hex = e.hex /\ d.pos = e.pos /\ d.t = e.t
          <6>1. bs_track[i] \in E BY <3>6, <5>1
          <6>2. work[w].t \in Nat BY <1>1
          <6> QED BY <5>1, <6>1, <6>2
        <5> HIDE DEF d
        <5>5. bs_track' = [k \in 1..n |-> IF k = i THEN d ELSE bs_track[k]]
          BY <3>6, <5>3
        <5>6. work[w].idx = i OBVIOUS
        <5> HIDE DEF e, i, n, E
        <5>7. n \in {n, n + 1} /\ n # n + 1 BY <3>6
        <5> QED BY <3>9, <5>1, <5>2, <5>4, <5>5, <5>6, <5>7
      <4>2. CASE work[w].at = "add"
        <5>1. i = n + 1 /\ NoEntry(e.hex) BY <3>1, <3>2, <4>2 DEF WriterInv
        <5>2. bs_track' = Put(n + 1) BY <2>2, <4>2, <5>1
        <5>3. Max({n + 1, n}) = n + 1 BY <3>6, LargerOfTwo
        <5>4. \A k \in 1..n : bs_track[k].hex # e.hex BY <5>1 DEF NoEntry
        <5> HIDE DEF e, n
        <5>5. bs_track' = [k \in 1..(n + 1) |-> IF k = n + 1 THEN e ELSE bs_track[k]]
          <6>1. bs_track' = [k \in 1..(n + 1) |->
                               IF k = n + 1 THEN e ELSE IF k <= n THEN bs_track[k] ELSE Blank]
            BY <5>2, <5>3
          <6>2. \A k \in 1..(n + 1) : k # n + 1 => k <= n BY <3>6
          <6> QED BY <6>1, <6>2
        <5> HIDE DEF Put, E
        <5> QED BY <3>6, <3>7, <3>9, <4>2, <5>4, <5>5
      <4>3. CASE work[w].at = "evict"
        <5>1. i \in 1..n /\ NoEntry(e.hex) BY <3>1, <3>2, <4>3 DEF WriterInv
        <5>2. bs_track' = Put(i) BY <2>2, <4>3
        <5>3. Max({i, n}) = n
          <6>1. {i, n} = {n, i} OBVIOUS
          <6>2. Max({n, i}) = n BY <3>6, <5>1, LargerOfTwo
          <6> QED BY <6>1, <6>2
        <5>4. \A k \in 1..n : bs_track[k].hex # e.hex BY <5>1 DEF NoEntry
        <5> HIDE DEF e, i, n
        <5>5. bs_track' = [k \in 1..n |-> IF k = i THEN e ELSE bs_track[k]]
          <6>1. bs_track' = [k \in 1..n |->
                               IF k = i THEN e ELSE IF k <= n THEN bs_track[k] ELSE Blank]
            BY <5>2, <5>3
          <6>2. \A k \in 1..n : k <= n BY <3>6
          <6> QED BY <6>1, <6>2
        <5> HIDE DEF Put, E
        <5>6. n \in {n, n + 1} /\ n # n + 1 BY <3>6
        <5> QED BY <3>7, <3>9, <4>3, <5>1, <5>4, <5>5, <5>6
      <4> QED BY <2>2, <4>1, <4>2, <4>3
    <3>11. \A v \in Workers : WriterInv(v)' BY <3>4 DEF WriterInv
    <3> QED BY <2>4, <2>6, <2>7, <3>10, <3>11 DEF TrackInv
  <2> QED BY <2>8, <2>9
<1>8. CASE UNCHANGED acvars
  <2>1. /\ now' = now /\ work' = work /\ bs_track' = bs_track /\ raced' = raced
        /\ derived' = derived /\ lastfix' = lastfix
    BY <1>8 DEF acvars
  <2>2. WorkType' <=> WorkType BY <2>1 DEF WorkType
  <2>3. CacheInv' <=> CacheInv BY <2>1 DEF CacheInv, Entry
  <2>4. ASSUME NEW w \in Workers PROVE WriterInv(w)' <=> WriterInv(w)
    BY <2>1 DEF WriterInv, Carried, HexAt, NoEntry
  <2>5. TrackFromOwnFixes' <=> TrackFromOwnFixes BY <2>1 DEF TrackFromOwnFixes
  <2> QED BY <2>1, <2>2, <2>3, <2>4, <2>5 DEF TrackInv
<1> QED BY <1>3, <1>4, <1>5, <1>6, <1>7, <1>8 DEF AcNext

(* A speed and course that bs_derive_track reports comes from the last two *)
(* positions of the aircraft itself, whatever entries were evicted and     *)
(* reused, as long as no two workers have been in it at once.              *)
THEOREM TrackIsOwn == AcSpec => []TrackFromOwnFixes
<1>1. TrackInv => TrackFromOwnFixes BY DEF TrackInv
<1> QED BY <1>1, TrackInit, TrackStep, PTL DEF AcSpec


-----------------------------------------------------------------------------
(* The dashboard.  An entry's last_seen tells the last message shown for   *)
(* its aircraft, and an aircraft without an entry was heard before every   *)
(* aircraft that has one.                                                  *)

SeenAt(i) == aircraft[i].last_seen - 1

DashShape ==
    \E R, F : /\ shown \in Seq([reg : R, fix : F])
              /\ aircraft \in Seq([reg : R, last_seen : Nat, fixes : Seq(F)])

OneEntryEach ==
    \A i, j \in 1..Len(aircraft) : aircraft[i].reg = aircraft[j].reg => i = j

SeenLast ==
    \A i \in 1..Len(aircraft) :
       /\ SeenAt(i) \in 1..Len(shown)
       /\ shown[SeenAt(i)].reg = aircraft[i].reg
       /\ \A k \in 1..Len(shown) : k > SeenAt(i) => shown[k].reg # aircraft[i].reg

GoneEarlier ==
    \A k \in 1..Len(shown) :
       (\A i \in 1..Len(aircraft) : aircraft[i].reg # shown[k].reg)
       => /\ Len(aircraft) = MAX_AIRCRAFT
          /\ \A i \in 1..Len(aircraft) : SeenAt(i) > k

(* NewestFixes, of any sequence of messages.                               *)
OwnFix(sh, r, k) == sh[k].reg = r /\ sh[k].fix.pos # None
Later(sh, r, j) == {k \in 1..Len(sh) : k > j /\ OwnFix(sh, r, k)}
Newest(sh, r, fixes) ==
    \A k \in 1..Len(fixes) :
       \E j \in Later(sh, r, 0) :
          fixes[k] = sh[j].fix /\ Cardinality(Later(sh, r, j)) = Len(fixes) - k

FixesKept ==
    \A i \in 1..Len(aircraft) : Newest(shown, aircraft[i].reg, aircraft[i].fixes)

DashInv ==
    /\ DashShape /\ now = Len(shown) + 1 /\ Len(aircraft) <= MAX_AIRCRAFT
    /\ OneEntryEach /\ SeenLast /\ GoneEarlier /\ FixesKept

(* Nothing was shown, and there is no entry.                               *)
LEMMA DashInit == AcInit => DashInv
<1> SUFFICES ASSUME AcInit PROVE DashInv
  OBVIOUS
<1>1. now = 1 /\ shown = <<>> /\ aircraft = <<>> BY DEF AcInit
<1>2. Len(shown) = 0 /\ Len(aircraft) = 0 BY <1>1
<1>3. DashShape
  <2>1. shown \in Seq([reg : {}, fix : {}])
        /\ aircraft \in Seq([reg : {}, last_seen : Nat, fixes : Seq({})])
    BY <1>1
  <2> QED BY <2>1 DEF DashShape
<1>4. MAX_AIRCRAFT \in Nat BY AcarsAssumption
<1> QED BY <1>1, <1>2, <1>3, <1>4
        DEF DashInv, OneEntryEach, SeenLast, GoneEarlier, FixesKept

(* A sequence over a set is one over each larger set.                      *)
LEMMA LargerSeq ==
  ASSUME NEW S, NEW T, S \subseteq T, NEW s \in Seq(S)
  PROVE  s \in Seq(T)
<1>1. Len(s) \in Nat /\ s \in [1..Len(s) -> S] BY LenProperties
<1>2. s \in [1..Len(s) -> T] BY <1>1
<1> QED BY <1>1, <1>2, SeqDef

(* The last message of an aircraft that was shown.                         *)
LEMMA GreatestExists ==
  ASSUME NEW n \in Nat, NEW T, T \subseteq 1..n, T # {}
  PROVE  Max(T) \in T /\ \A y \in T : y <= Max(T)
<1> DEFINE U == {u \in Nat : \A y \in T : y <= u}
<1>1. n \in U OBVIOUS
<1>2. PICK u \in U : \A v \in U : u <= v
  <2>1. U \subseteq Nat /\ U # {} BY <1>1
  <2> QED BY <2>1, LeastExists
<1>3. u \in T
  <2> SUFFICES ASSUME u \notin T PROVE FALSE
    OBVIOUS
  <2>1. PICK y \in T : TRUE OBVIOUS
  <2>2. y <= u /\ y # u /\ y >= 1 BY <1>2, <2>1
  <2>3. u - 1 \in Nat BY <1>2, <2>2
  <2>4. \A z \in T : z <= u - 1
    <3> TAKE z \in T
    <3>1. z <= u /\ z # u /\ z \in Nat /\ u \in Nat BY <1>2
    <3> QED BY <3>1
  <2>5. u - 1 \in U BY <2>3, <2>4
  <2>6. u <= u - 1 BY <1>2, <2>5
  <2> QED BY <1>2, <2>6
<1>4. \A y \in T : u >= y BY <1>2
<1>5. \E x \in T : \A y \in T : x >= y BY <1>3, <1>4
<1> DEFINE Top(x) == \A y \in T : x >= y
<1>6. Max(T) \in T /\ \A y \in T : Max(T) >= y
  <2>1. \E x \in T : Top(x) BY <1>5
  <2>2. Max(T) = CHOOSE x \in T : Top(x) BY DEF Max
  <2> HIDE DEF Top
  <2>3. Max(T) \in T /\ Top(Max(T)) BY <2>1, <2>2
  <2> QED BY <2>3 DEF Top
<1> HIDE DEF Top
<1>7. \A y \in T : y \in Nat OBVIOUS
<1>8. Max(T) \in Nat BY <1>6, <1>7
<1> QED BY <1>6, <1>7, <1>8

(* The entry that gives way was seen first.                                *)
LEMMA EvictedIn ==
  ASSUME NEW R, NEW F, aircraft \in Seq([reg : R, last_seen : Nat, fixes : F]),
         Len(aircraft) > 0
  PROVE  /\ Evicted \in 1..Len(aircraft)
         /\ \A j \in 1..Len(aircraft) : aircraft[Evicted].last_seen <= aircraft[j].last_seen
<1> DEFINE D == 1..Len(aircraft)
           T == {aircraft[i].last_seen : i \in D}
<1>1. DOMAIN aircraft = D /\ Len(aircraft) \in Nat /\ \A i \in D : aircraft[i].last_seen \in Nat
  <2>1. DOMAIN aircraft = D /\ Len(aircraft) \in Nat OBVIOUS
  <2>2. ASSUME NEW i \in D PROVE aircraft[i].last_seen \in Nat
    <3>1. aircraft[i] \in [reg : R, last_seen : Nat, fixes : F] BY ElementOfSeq
    <3> QED BY <3>1
  <2> QED BY <2>1, <2>2
<1>2. T \subseteq Nat /\ T # {}
  <2>1. 1 \in D BY <1>1
  <2> QED BY <1>1, <2>1
<1>3. PICK t \in T : \A u \in T : t <= u BY <1>2, LeastExists
<1> DEFINE O == {i \in D : aircraft[i].last_seen = t}
<1>4. O \subseteq Nat /\ O # {} BY <1>1, <1>3
<1>5. PICK i \in O : \A j \in O : i <= j BY <1>4, LeastExists
<1>6. ASSUME NEW j \in D
      PROVE  \/ aircraft[i].last_seen < aircraft[j].last_seen
             \/ aircraft[i].last_seen = aircraft[j].last_seen /\ i <= j
  <2>1. /\ t <= aircraft[j].last_seen /\ aircraft[i].last_seen = t
        /\ t \in Nat /\ aircraft[j].last_seen \in Nat
    BY <1>1, <1>3, <1>5, <1>6
  <2>2. CASE aircraft[j].last_seen = t
    <3>1. j \in O BY <1>6, <2>2
    <3> QED BY <1>5, <2>1, <2>2, <3>1
  <2>3. CASE aircraft[j].last_seen # t BY <2>1, <2>3
  <2> QED BY <2>2, <2>3
<1>7. i \in D BY <1>5
<1>8. \E k \in DOMAIN aircraft : \A j \in DOMAIN aircraft :
         \/ aircraft[k].last_seen < aircraft[j].last_seen
         \/ aircraft[k].last_seen = aircraft[j].last_seen /\ k <= j
  BY <1>1, <1>6, <1>7
<1> DEFINE First(k) == \A j \in DOMAIN aircraft :
                          \/ aircraft[k].last_seen < aircraft[j].last_seen
                          \/ aircraft[k].last_seen = aircraft[j].last_seen /\ k <= j
<1>9. Evicted = CHOOSE k \in DOMAIN aircraft : First(k) BY DEF Evicted
<1>10. Evicted \in DOMAIN aircraft /\ First(Evicted)
  <2>1. \E k \in DOMAIN aircraft : First(k) BY <1>8
  <2> HIDE DEF First
  <2> QED BY <1>9, <2>1
<1> QED BY <1>1, <1>10

(* What a call leaves of the fixes of an aircraft: the oldest d of them    *)
(* go, and the new one comes last.                                         *)
Shifted(fixes, fix, d, g) ==
    /\ d <= Len(fixes) /\ Len(g) = Len(fixes) - d + 1
    /\ \A k \in 1..(Len(fixes) - d) : g[k] = fixes[k + d]
    /\ g[Len(fixes) - d + 1] = fix

LEMMA AddFixShape ==
  ASSUME NEW F, NEW fixes \in Seq(F), NEW fix \in F
  PROVE  /\ AddFix(fixes, fix) \in Seq(F)
         /\ fix.pos = None => AddFix(fixes, fix) = fixes
         /\ fix.pos # None => \E d \in {0, 1} : Shifted(fixes, fix, d, AddFix(fixes, fix))
<1>0. MAX_FIXES \in Nat /\ MAX_FIXES >= 1 /\ Len(fixes) \in Nat BY AcarsAssumption
<1>1. CASE fix.pos = None BY <1>1 DEF AddFix
<1>2. CASE fix.pos # None /\ Len(fixes) < MAX_FIXES
  <2>1. AddFix(fixes, fix) = Append(fixes, fix) BY <1>0, <1>2 DEF AddFix
  <2>2. /\ Append(fixes, fix) \in Seq(F) /\ Len(Append(fixes, fix)) = Len(fixes) + 1
        /\ \A k \in 1..Len(fixes) : Append(fixes, fix)[k] = fixes[k]
        /\ Append(fixes, fix)[Len(fixes) + 1] = fix
    OBVIOUS
  <2>3. \A k \in 1..(Len(fixes) - 0) : Append(fixes, fix)[k] = fixes[k + 0]
    BY <2>2
  <2>4. Len(fixes) - 0 + 1 = Len(fixes) + 1 /\ 0 <= Len(fixes) BY <1>0
  <2>5. Shifted(fixes, fix, 0, AddFix(fixes, fix)) BY <2>1, <2>2, <2>3, <2>4 DEF Shifted
  <2> QED BY <1>2, <2>1, <2>2, <2>5
<1>3. CASE fix.pos # None /\ Len(fixes) >= MAX_FIXES
  <2>1. AddFix(fixes, fix) = Append(Tail(fixes), fix) BY <1>0, <1>3 DEF AddFix
  <2>2. fixes # <<>> BY <1>0, <1>3
  <2>3. /\ Tail(fixes) \in Seq(F) /\ Len(Tail(fixes)) = Len(fixes) - 1
        /\ \A k \in 1..Len(Tail(fixes)) : Tail(fixes)[k] = fixes[k + 1]
    BY <2>2, HeadTailProperties
  <2> DEFINE t == Tail(fixes)
  <2> HIDE DEF t
  <2>4. t \in Seq(F) /\ Len(t) = Len(fixes) - 1 /\ \A k \in 1..Len(t) : t[k] = fixes[k + 1]
    BY <2>3 DEF t
  <2>5. /\ Append(t, fix) \in Seq(F) /\ Len(Append(t, fix)) = Len(t) + 1
        /\ \A k \in 1..Len(t) : Append(t, fix)[k] = t[k]
        /\ Append(t, fix)[Len(t) + 1] = fix
    BY <2>4
  <2>6. /\ 1 <= Len(fixes) /\ Len(Append(t, fix)) = Len(fixes) - 1 + 1
        /\ \A k \in 1..(Len(fixes) - 1) : Append(t, fix)[k] = fixes[k + 1]
        /\ Append(t, fix)[Len(fixes) - 1 + 1] = fix
    BY <1>0, <1>3, <2>4, <2>5
  <2>7. AddFix(fixes, fix) = Append(t, fix) BY <2>1 DEF t
  <2>8. Shifted(fixes, fix, 1, AddFix(fixes, fix)) BY <2>6, <2>7 DEF Shifted
  <2> QED BY <1>3, <2>5, <2>7, <2>8
<1> QED BY <1>0, <1>1, <1>2, <1>3

(* One call of web_add_aero: n messages were shown before, and the entry   *)
(* `slot` is written for the new one.                                      *)
ShowEffect(reg, fix, slot) ==
    LET n == Len(shown)
    IN /\ now' = now + 1 /\ Len(shown') = n + 1
       /\ \A k \in 1..n : shown'[k] = shown[k]
       /\ shown'[n + 1] = [reg |-> reg, fix |-> fix]
       /\ \/ /\ slot \in 1..Len(aircraft) /\ aircraft[slot].reg = reg
             /\ Len(aircraft') = Len(aircraft)
             /\ aircraft'[slot].fixes = AddFix(aircraft[slot].fixes, fix)
          \/ /\ \A i \in 1..Len(aircraft) : aircraft[i].reg # reg
             /\ aircraft'[slot].fixes = AddFix(<<>>, fix)
             /\ \/ /\ slot = Len(aircraft) + 1 /\ Len(aircraft) < MAX_AIRCRAFT
                   /\ Len(aircraft') = slot
                \/ /\ slot \in 1..Len(aircraft) /\ Len(aircraft) = MAX_AIRCRAFT
                   /\ Len(aircraft') = Len(aircraft)
                   /\ \A i \in 1..Len(aircraft) :
                         aircraft[slot].last_seen <= aircraft[i].last_seen
       /\ aircraft'[slot].reg = reg /\ aircraft'[slot].last_seen = now + 1
       /\ \A i \in 1..Len(aircraft) : i # slot => aircraft'[i] = aircraft[i]

(* Show writes one entry: that of the aircraft, a new one, or the one that *)
(* was seen first of a full table.                                         *)
LEMMA ShowHasEffect ==
  ASSUME DashInv, NEW w \in Workers, Show(w)
  PROVE  /\ DashShape'
         /\ \E slot : ShowEffect(work[w].msg.reg, Fix(w), slot)
<1>1. PICK R, F : /\ shown \in Seq([reg : R, fix : F])
                  /\ aircraft \in Seq([reg : R, last_seen : Nat, fixes : Seq(F)])
  BY DEF DashInv, DashShape
<1> DEFINE reg == work[w].msg.reg
           fix == Fix(w)
           R1 == R \cup {reg}
           F1 == F \cup {fix}
           own == {i \in DOMAIN aircraft : aircraft[i].reg = reg}
           A == Len(aircraft)
           slot == IF own # {} THEN Min(own)
                 ELSE IF Len(aircraft) < MAX_AIRCRAFT THEN Len(aircraft) + 1
                 ELSE Evicted
           before == IF own # {} THEN aircraft[slot].fixes ELSE <<>>
           e == [reg |-> reg, last_seen |-> now + 1, fixes |-> AddFix(before, fix)]
           S1 == [reg : R1, fix : F1]
           A1 == [reg : R1, last_seen : Nat, fixes : Seq(F1)]
           s == [reg |-> reg, fix |-> fix]
<1>2. /\ aircraft' = IF slot > Len(aircraft) THEN Append(aircraft, e)
                     ELSE [aircraft EXCEPT ![slot] = e]
      /\ now' = now + 1 /\ shown' = Append(shown, s)
  BY DEF Show
<1>3. /\ A \in Nat /\ DOMAIN aircraft = 1..A /\ MAX_AIRCRAFT \in Nat /\ MAX_AIRCRAFT >= 1
      /\ A <= MAX_AIRCRAFT /\ Len(shown) \in Nat /\ now \in Nat
  <2>1. A \in Nat /\ DOMAIN aircraft = 1..A /\ Len(shown) \in Nat BY <1>1
  <2>2. MAX_AIRCRAFT \in Nat /\ MAX_AIRCRAFT >= 1 BY AcarsAssumption
  <2>3. now = Len(shown) + 1 /\ A <= MAX_AIRCRAFT BY DEF DashInv
  <2> QED BY <2>1, <2>2, <2>3
<1>4. own # {} => slot \in own
  <2> SUFFICES ASSUME own # {} PROVE Min(own) \in own
    OBVIOUS
  <2> DEFINE Low(x) == \A y \in own : x =< y
  <2>1. own \subseteq Nat BY <1>3
  <2>2. \E x \in own : Low(x) BY <2>1, LeastExists
  <2>3. Min(own) = CHOOSE x \in own : Low(x) BY DEF Min
  <2> HIDE DEF Low, own
  <2> QED BY <2>2, <2>3
<1>5. own = {} => \A i \in 1..A : aircraft[i].reg # reg BY <1>3
<1>6. own = {} /\ A < MAX_AIRCRAFT => slot = A + 1 OBVIOUS
<1>7. own = {} /\ ~(A < MAX_AIRCRAFT) =>
         /\ slot \in 1..A /\ A = MAX_AIRCRAFT
         /\ \A j \in 1..A : aircraft[slot].last_seen <= aircraft[j].last_seen
  <2> SUFFICES ASSUME own = {}, ~(A < MAX_AIRCRAFT)
               PROVE  /\ Evicted \in 1..A /\ A = MAX_AIRCRAFT
                      /\ \A j \in 1..A : aircraft[Evicted].last_seen <= aircraft[j].last_seen
    OBVIOUS
  <2>1. A = MAX_AIRCRAFT /\ A > 0
    <3>1. ~(A < MAX_AIRCRAFT) OBVIOUS
    <3> HIDE DEF A
    <3> QED BY <1>3, <3>1
  <2> QED BY <1>1, <2>1, EvictedIn
<1>8. own # {} => slot \in 1..A /\ aircraft[slot].reg = reg BY <1>3, <1>4
<1>9. own # {} => before = aircraft[slot].fixes OBVIOUS
<1>10. own = {} => before = <<>> OBVIOUS
<1> HIDE DEF own, slot, before
<1>11. fix \in F1 /\ before \in Seq(F1)
  <2>1. Seq(F) \subseteq Seq(F1)
    <3>1. ASSUME NEW q \in Seq(F) PROVE q \in Seq(F1) BY LargerSeq
    <3> QED BY <3>1
  <2>2. ASSUME own # {} PROVE before \in Seq(F)
    <3>1. aircraft[slot] \in [reg : R, last_seen : Nat, fixes : Seq(F)]
      BY <1>1, <1>8, <2>2, ElementOfSeq
    <3> QED BY <1>9, <2>2, <3>1
  <2>3. CASE own = {} BY <1>10, <2>3
  <2> QED BY <2>1, <2>2, <2>3
<1>12. AddFix(before, fix) \in Seq(F1) BY <1>11, AddFixShape
<1> HIDE DEF fix, reg
<1>13. e \in A1 /\ s \in S1
  <2>1. reg \in R1 /\ now + 1 \in Nat BY <1>3
  <2> QED BY <1>11, <1>12, <2>1
<1>14. shown \in Seq(S1) /\ aircraft \in Seq(A1)
  <2>1. Seq(F) \subseteq Seq(F1)
    <3>1. ASSUME NEW q \in Seq(F) PROVE q \in Seq(F1) BY LargerSeq
    <3> QED BY <3>1
  <2>2. [reg : R, fix : F] \subseteq S1 OBVIOUS
  <2>3. [reg : R, last_seen : Nat, fixes : Seq(F)] \subseteq A1 BY <2>1
  <2> HIDE DEF S1, A1
  <2> QED BY <1>1, <2>2, <2>3, LargerSeq
<1>15. e.reg = reg /\ e.last_seen = now + 1 /\ e.fixes = AddFix(before, fix)
  OBVIOUS
<1> HIDE DEF e, S1, A1, s
<1>16. /\ shown' \in Seq(S1) /\ Len(shown') = Len(shown) + 1
       /\ \A k \in 1..Len(shown) : shown'[k] = shown[k]
       /\ shown'[Len(shown) + 1] = s
  BY <1>2, <1>13, <1>14
<1>17. CASE slot = A + 1
  <2>1. aircraft' = Append(aircraft, e)
    <3>1. slot > Len(aircraft)
      <4>1. slot > A
        <5> HIDE DEF A
        <5> QED BY <1>3, <1>17
      <4> QED BY <4>1
    <3> QED BY <1>2, <3>1
  <2> QED
    <3>1. /\ aircraft' \in Seq(A1) /\ Len(aircraft') = A + 1
          /\ \A i \in 1..A : aircraft'[i] = aircraft[i]
          /\ aircraft'[A + 1] = e
      BY <2>1, <1>13, <1>14
    <3>2. own = {} BY <1>3, <1>8, <1>17
    <3>3. A < MAX_AIRCRAFT
      <4> HIDE DEF A
      <4>1. slot \notin 1..A BY <1>3, <1>17
      <4> QED BY <1>7, <3>2, <4>1
    <3>4. \A i \in 1..A : i # slot BY <1>3, <1>17
    <3>5. ShowEffect(reg, fix, slot)
      BY <1>2, <1>5, <1>10, <1>15, <1>16, <1>17, <3>1, <3>2, <3>3, <3>4 DEF ShowEffect, s
    <3>6. DashShape' BY <1>16, <3>1 DEF DashShape, S1, A1
    <3> QED BY <3>5, <3>6 DEF reg, fix
<1>18. CASE slot \in 1..A
  <2>1. aircraft' = [aircraft EXCEPT ![slot] = e]
    <3>1. ~(slot > Len(aircraft))
      <4>1. ~(slot > A)
        <5> HIDE DEF A
        <5> QED BY <1>3, <1>18
      <4> QED BY <4>1
    <3> QED BY <1>2, <3>1
  <2>2. /\ aircraft' \in Seq(A1) /\ Len(aircraft') = A
        /\ \A i \in 1..A : i # slot => aircraft'[i] = aircraft[i]
        /\ aircraft'[slot] = e
    BY <2>1, <1>3, <1>13, <1>14, <1>18
  <2>3. \/ aircraft[slot].reg = reg /\ before = aircraft[slot].fixes
        \/ /\ \A i \in 1..A : aircraft[i].reg # reg
           /\ before = <<>> /\ A = MAX_AIRCRAFT
           /\ \A i \in 1..A : aircraft[slot].last_seen <= aircraft[i].last_seen
    <3>1. CASE own # {} BY <1>8, <1>9, <3>1
    <3>2. CASE own = {}
      <4>1. ~(A < MAX_AIRCRAFT) BY <1>3, <1>6, <1>18, <3>2
      <4> QED BY <1>5, <1>7, <1>10, <3>2, <4>1
    <3> QED BY <3>1, <3>2
  <2>4. ShowEffect(reg, fix, slot)
    BY <1>2, <1>15, <1>16, <1>18, <2>2, <2>3 DEF ShowEffect, s
  <2>5. DashShape' BY <1>16, <2>2 DEF DashShape, S1, A1
  <2> QED BY <2>4, <2>5 DEF reg, fix
<1>19. slot = A + 1 \/ slot \in 1..A BY <1>6, <1>7, <1>8
<1> QED BY <1>17, <1>18, <1>19

(* The order of the entries survives a call.                               *)
LEMMA OrderKept ==
  ASSUME DashInv, NEW reg, NEW fix, NEW slot, ShowEffect(reg, fix, slot)
  PROVE  /\ now' = Len(shown') + 1 /\ Len(aircraft') <= MAX_AIRCRAFT
         /\ OneEntryEach' /\ SeenLast' /\ GoneEarlier'
<1> DEFINE n == Len(shown)
           A == Len(aircraft)
<1>1. /\ A \in Nat /\ n \in Nat /\ MAX_AIRCRAFT \in Nat
      /\ \A i \in 1..A : aircraft[i].last_seen \in Nat
  <2>1. PICK R, F : /\ shown \in Seq([reg : R, fix : F])
                    /\ aircraft \in Seq([reg : R, last_seen : Nat, fixes : Seq(F)])
    BY DEF DashInv, DashShape
  <2>2. ASSUME NEW i \in 1..A PROVE aircraft[i].last_seen \in Nat
    <3>1. aircraft[i] \in [reg : R, last_seen : Nat, fixes : Seq(F)] BY <2>1, ElementOfSeq
    <3> QED BY <3>1
  <2>3. MAX_AIRCRAFT \in Nat BY AcarsAssumption
  <2> QED BY <2>1, <2>2, <2>3
<1>2. /\ now = n + 1 /\ A <= MAX_AIRCRAFT /\ OneEntryEach /\ SeenLast /\ GoneEarlier
  BY DEF DashInv
<1>3. /\ now' = now + 1 /\ Len(shown') = n + 1
      /\ \A k \in 1..n : shown'[k].reg = shown[k].reg
      /\ shown'[n + 1].reg = reg
  BY DEF ShowEffect
<1>4. /\ aircraft'[slot].reg = reg /\ aircraft'[slot].last_seen = n + 2
      /\ \A i \in 1..A : i # slot => aircraft'[i] = aircraft[i]
  BY <1>1, <1>2 DEF ShowEffect
<1>5. \/ slot \in 1..A /\ aircraft[slot].reg = reg /\ Len(aircraft') = A
      \/ /\ \A i \in 1..A : aircraft[i].reg # reg
         /\ \/ slot = A + 1 /\ A < MAX_AIRCRAFT /\ Len(aircraft') = slot
            \/ /\ slot \in 1..A /\ A = MAX_AIRCRAFT /\ Len(aircraft') = A
               /\ \A i \in 1..A : aircraft[slot].last_seen <= aircraft[i].last_seen
  BY DEF ShowEffect
<1>6. /\ Len(aircraft') \in Nat /\ Len(aircraft') <= MAX_AIRCRAFT /\ slot \in 1..Len(aircraft')
      /\ A <= Len(aircraft')
      /\ \A i \in 1..Len(aircraft') : i # slot => i \in 1..A
  BY <1>1, <1>2, <1>5
<1>7. \A i \in 1..A : i # slot => aircraft[i].reg # reg
  BY <1>2, <1>5 DEF OneEntryEach
<1>8. \A i \in 1..Len(aircraft') :
         i # slot => i \in 1..A /\ aircraft'[i] = aircraft[i] /\ aircraft[i].reg # reg
  BY <1>4, <1>6, <1>7
<1>9. OneEntryEach' BY <1>2, <1>4, <1>8 DEF OneEntryEach
<1>10. SeenAt(slot)' = n + 1 /\ \A i \in 1..A : i # slot => SeenAt(i)' = SeenAt(i)
  BY <1>1, <1>4 DEF SeenAt
<1>11. SeenLast'
  <2> SUFFICES ASSUME NEW i \in 1..Len(aircraft')
               PROVE  /\ SeenAt(i)' \in 1..(n + 1)
                      /\ shown'[SeenAt(i)'].reg = aircraft'[i].reg
                      /\ \A k \in 1..(n + 1) : k > SeenAt(i)' => shown'[k].reg # aircraft'[i].reg
    BY <1>3 DEF SeenLast, SeenAt
  <2>1. CASE i = slot BY <1>1, <1>3, <1>4, <1>10, <2>1
  <2>2. CASE i # slot
    <3>1. i \in 1..A /\ aircraft'[i] = aircraft[i] /\ aircraft[i].reg # reg /\ SeenAt(i)' = SeenAt(i)
      BY <1>8, <1>10, <2>2
    <3>2. /\ SeenAt(i) \in 1..n /\ shown[SeenAt(i)].reg = aircraft[i].reg
          /\ \A k \in 1..n : k > SeenAt(i) => shown[k].reg # aircraft[i].reg
      BY <1>2, <3>1 DEF SeenLast
    <3>3. SeenAt(i) \in 1..(n + 1) BY <1>1, <3>2
    <3>4. ASSUME NEW k \in 1..(n + 1), k > SeenAt(i) PROVE shown'[k].reg # aircraft[i].reg
      <4>1. CASE k = n + 1 BY <1>3, <3>1, <4>1
      <4>2. CASE k # n + 1
        <5>1. k \in 1..n BY <1>1, <4>2
        <5> QED BY <1>3, <3>2, <3>4, <5>1
      <4> QED BY <4>1, <4>2
    <3> QED BY <1>3, <3>1, <3>2, <3>3, <3>4
  <2> QED BY <2>1, <2>2
<1>12. GoneEarlier'
  <2> SUFFICES ASSUME NEW k \in 1..(n + 1),
                      \A i \in 1..Len(aircraft') : aircraft'[i].reg # shown'[k].reg
               PROVE  /\ Len(aircraft') = MAX_AIRCRAFT
                      /\ \A i \in 1..Len(aircraft') : SeenAt(i)' > k
    BY <1>3 DEF GoneEarlier, SeenAt
  <2>1. k # n + 1 BY <1>3, <1>4, <1>6
  <2>2. k \in 1..n /\ shown'[k].reg = shown[k].reg BY <1>1, <1>3, <2>1
  <2>3. shown[k].reg # reg BY <1>4, <1>6, <2>2
  <2>4. CASE \A i \in 1..A : aircraft[i].reg # shown[k].reg
    <3>1. A = MAX_AIRCRAFT /\ \A i \in 1..A : SeenAt(i) > k BY <1>2, <2>2, <2>4 DEF GoneEarlier
    <3>2. Len(aircraft') = MAX_AIRCRAFT BY <1>1, <1>6, <3>1
    <3>3. \A i \in 1..Len(aircraft') : SeenAt(i)' > k
      <4> TAKE i \in 1..Len(aircraft')
      <4>1. CASE i = slot BY <1>1, <1>10, <2>2, <4>1
      <4>2. CASE i # slot BY <1>8, <1>10, <3>1, <4>2
      <4> QED BY <4>1, <4>2
    <3> QED BY <3>2, <3>3
  <2>5. CASE \E i \in 1..A : aircraft[i].reg = shown[k].reg
    <3>1. PICK i \in 1..A : aircraft[i].reg = shown[k].reg BY <2>5
    <3>2. i = slot
      <4> SUFFICES ASSUME i # slot PROVE FALSE
        OBVIOUS
      <4>1. aircraft'[i] = aircraft[i] /\ i \in 1..Len(aircraft') BY <1>1, <1>4, <1>6
      <4> QED BY <2>2, <3>1, <4>1
    <3>3. /\ A = MAX_AIRCRAFT /\ Len(aircraft') = A
          /\ \A j \in 1..A : aircraft[slot].last_seen <= aircraft[j].last_seen
      BY <1>1, <1>5, <2>3, <3>1, <3>2
    <3>4. k <= SeenAt(slot)
      <4>1. SeenAt(slot) \in 1..n /\ (k > SeenAt(slot) => shown[k].reg # aircraft[slot].reg)
        BY <1>2, <2>2, <3>1, <3>2 DEF SeenLast
      <4> QED BY <1>1, <2>2, <3>1, <3>2, <4>1
    <3>5. ASSUME NEW j \in 1..A, j # slot PROVE SeenAt(j)' > k
      <4>1. SeenAt(j)' = SeenAt(j) BY <1>10, <3>5
      <4>2. aircraft[slot].last_seen <= aircraft[j].last_seen
            /\ aircraft[slot].last_seen \in Nat /\ aircraft[j].last_seen \in Nat
        BY <1>1, <3>1, <3>2, <3>3
      <4>3. SeenAt(slot) <= SeenAt(j) /\ SeenAt(slot) \in Int /\ SeenAt(j) \in Int
        BY <4>2 DEF SeenAt
      <4>4. SeenAt(slot) # SeenAt(j)
        <5>1. shown[SeenAt(slot)].reg = aircraft[slot].reg /\ shown[SeenAt(j)].reg = aircraft[j].reg
          BY <1>2, <3>1, <3>2 DEF SeenLast
        <5>2. aircraft[slot].reg # aircraft[j].reg BY <1>2, <3>1, <3>2, <3>5 DEF OneEntryEach
        <5> QED BY <5>1, <5>2
      <4> QED BY <2>2, <3>4, <4>1, <4>3, <4>4
    <3>6. SeenAt(slot)' > k BY <1>1, <1>10, <2>2
    <3> QED BY <3>3, <3>5, <3>6
  <2> QED BY <2>4, <2>5
<1>13. now' = Len(shown') + 1 BY <1>1, <1>2, <1>3
<1> QED BY <1>6, <1>9, <1>11, <1>12, <1>13

(* The fixes of an aircraft after one more message.                        *)
LEMMA LaterByOne ==
  ASSUME NEW n \in Nat, NEW sh, NEW sh2, Len(sh) = n, Len(sh2) = n + 1,
         \A k \in 1..n : sh2[k] = sh[k],
         NEW r, NEW j \in 0..n
  PROVE  /\ ~OwnFix(sh2, r, n + 1) => Later(sh2, r, j) = Later(sh, r, j)
         /\ OwnFix(sh2, r, n + 1) => Later(sh2, r, j) = Later(sh, r, j) \cup {n + 1}
         /\ IsFiniteSet(Later(sh, r, j)) /\ Cardinality(Later(sh, r, j)) \in Nat
         /\ n + 1 \notin Later(sh, r, j)
<1>1. \A k \in 1..n : OwnFix(sh2, r, k) <=> OwnFix(sh, r, k) BY DEF OwnFix
<1>2. /\ Later(sh, r, j) = {k \in 1..n : k > j /\ OwnFix(sh, r, k)}
      /\ Later(sh2, r, j) = {k \in 1..(n + 1) : k > j /\ OwnFix(sh2, r, k)}
  BY DEF Later
<1>3. j \in Nat /\ n + 1 > j OBVIOUS
<1>4. \A k : k \in 1..(n + 1) <=> k \in 1..n \/ k = n + 1 OBVIOUS
<1>5. n + 1 \notin 1..n OBVIOUS
<1>6. ASSUME ~OwnFix(sh2, r, n + 1) PROVE Later(sh2, r, j) = Later(sh, r, j)
  BY <1>1, <1>2, <1>4, <1>6
<1>7. ASSUME OwnFix(sh2, r, n + 1) PROVE Later(sh2, r, j) = Later(sh, r, j) \cup {n + 1}
  BY <1>1, <1>2, <1>3, <1>4, <1>7
<1>8. n + 1 \notin Later(sh, r, j) BY <1>2, <1>5
<1>9. IsFiniteSet(Later(sh, r, j)) /\ Cardinality(Later(sh, r, j)) \in Nat
  <2>1. IsFiniteSet(1..n)
    <3>1. 1 \in Int /\ n \in Int OBVIOUS
    <3> QED BY <3>1, FS_Interval
  <2>2. Later(sh, r, j) \subseteq 1..n BY <1>2
  <2>3. IsFiniteSet(Later(sh, r, j)) BY <2>1, <2>2, FS_Subset
  <2> QED BY <2>3, FS_CardinalityType
<1> QED BY <1>6, <1>7, <1>8, <1>9

(* Adding a fix keeps the newest fixes newest, with or without a position. *)
LEMMA NewestByOne ==
  ASSUME NEW n \in Nat, NEW sh, NEW sh2, Len(sh) = n, Len(sh2) = n + 1,
         \A k \in 1..n : sh2[k] = sh[k],
         NEW r, NEW F, NEW fixes \in Seq(F), Newest(sh, r, fixes),
         NEW fix \in F, sh2[n + 1].fix = fix
  PROVE  /\ sh2[n + 1].reg # r => Newest(sh2, r, fixes)
         /\ sh2[n + 1].reg = r => Newest(sh2, r, AddFix(fixes, fix))
<1> DEFINE L == Len(fixes)
<1>1. L \in Nat OBVIOUS
<1>2. ASSUME NEW k \in 1..L
      PROVE  \E j \in Later(sh, r, 0) :
                /\ j \in 1..n /\ fixes[k] = sh2[j].fix
                /\ Cardinality(Later(sh, r, j)) = L - k
  <2>1. PICK j \in Later(sh, r, 0) :
           fixes[k] = sh[j].fix /\ Cardinality(Later(sh, r, j)) = L - k
    BY DEF Newest
  <2>2. j \in 1..n BY <2>1 DEF Later
  <2> QED BY <2>1, <2>2
<1>3. 0 \in 0..n /\ \A j \in 1..n : j \in 0..n OBVIOUS
<1>4. ASSUME ~OwnFix(sh2, r, n + 1) PROVE Newest(sh2, r, fixes)
  <2> SUFFICES ASSUME NEW k \in 1..L
               PROVE  \E j \in Later(sh2, r, 0) :
                         /\ fixes[k] = sh2[j].fix
                         /\ Cardinality(Later(sh2, r, j)) = L - k
    BY DEF Newest
  <2>1. PICK j \in Later(sh, r, 0) : /\ j \in 1..n /\ fixes[k] = sh2[j].fix
                                     /\ Cardinality(Later(sh, r, j)) = L - k
    BY <1>2
  <2>2. Later(sh2, r, 0) = Later(sh, r, 0) BY <1>3, <1>4, LaterByOne
  <2>3. j \in 0..n BY <1>3, <2>1
  <2>4. Later(sh2, r, j) = Later(sh, r, j) BY <1>4, <2>3, LaterByOne
  <2> QED BY <2>1, <2>2, <2>4
<1>5. ASSUME OwnFix(sh2, r, n + 1) PROVE Newest(sh2, r, AddFix(fixes, fix))
  <2> DEFINE g == AddFix(fixes, fix)
  <2>1. fix.pos # None BY <1>5 DEF OwnFix
  <2>2. \E d \in {0, 1} : Shifted(fixes, fix, d, g) BY <2>1, AddFixShape
  <2> SUFFICES Newest(sh2, r, g)
    OBVIOUS
  <2> HIDE DEF g
  <2>3. PICK d \in {0, 1} :
           /\ d <= L /\ Len(g) = L - d + 1
           /\ \A k \in 1..(L - d) : g[k] = fixes[k + d]
           /\ g[L - d + 1] = fix
    BY <2>2 DEF Shifted
  <2> HIDE DEF L
  <2> SUFFICES ASSUME NEW k \in 1..Len(g)
               PROVE  \E j \in Later(sh2, r, 0) :
                         /\ g[k] = sh2[j].fix
                         /\ Cardinality(Later(sh2, r, j)) = Len(g) - k
    BY DEF Newest
  <2>4. k \in 1..(L - d + 1) /\ Len(g) - k = L - d + 1 - k BY <1>1, <2>3
  <2>5. Later(sh2, r, 0) = Later(sh, r, 0) \cup {n + 1} BY <1>3, <1>5, LaterByOne
  <2>6. CASE k = L - d + 1
    <3>1. n + 1 \in Later(sh2, r, 0) BY <2>5
    <3>2. g[k] = sh2[n + 1].fix BY <2>3, <2>6
    <3>3. Later(sh2, r, n + 1) = {}
      <4>1. \A i \in 1..(n + 1) : ~(i > n + 1) OBVIOUS
      <4> QED BY <4>1 DEF Later
    <3>4. Cardinality(Later(sh2, r, n + 1)) = 0 BY <3>3, FS_EmptySet
    <3>5. Len(g) - k = 0 BY <1>1, <2>3, <2>6, <2>4
    <3> QED BY <3>1, <3>2, <3>4, <3>5
  <2>7. CASE k # L - d + 1
    <3>1. k \in 1..(L - d) /\ k + d \in 1..L BY <1>1, <2>3, <2>7, <2>4
    <3>2. PICK j \in Later(sh, r, 0) : /\ j \in 1..n /\ fixes[k + d] = sh2[j].fix
                                       /\ Cardinality(Later(sh, r, j)) = L - (k + d)
      BY <1>2, <3>1
    <3>3. j \in 0..n BY <1>3, <3>2
    <3>4. /\ Later(sh2, r, j) = Later(sh, r, j) \cup {n + 1}
          /\ IsFiniteSet(Later(sh, r, j)) /\ n + 1 \notin Later(sh, r, j)
      BY <1>5, <3>3, LaterByOne
    <3>5. Cardinality(Later(sh2, r, j)) = Cardinality(Later(sh, r, j)) + 1
      BY <3>4, FS_AddElement
    <3>6. L - (k + d) + 1 = Len(g) - k BY <1>1, <2>3, <2>4, <3>1
    <3>7. j \in Later(sh2, r, 0) BY <2>5, <3>2
    <3>8. g[k] = sh2[j].fix BY <2>3, <3>1, <3>2
    <3> QED BY <3>2, <3>5, <3>6, <3>7, <3>8
  <2> QED BY <2>6, <2>7
<1>6. ASSUME sh2[n + 1].reg # r PROVE Newest(sh2, r, fixes) BY <1>4, <1>6 DEF OwnFix
<1>7. ASSUME sh2[n + 1].reg = r PROVE Newest(sh2, r, AddFix(fixes, fix))
  <2>1. CASE fix.pos = None
    <3>1. AddFix(fixes, fix) = fixes BY <2>1, AddFixShape
    <3>2. ~OwnFix(sh2, r, n + 1) BY <2>1 DEF OwnFix
    <3> QED BY <1>4, <3>1, <3>2
  <2>2. CASE fix.pos # None
    <3>1. OwnFix(sh2, r, n + 1) BY <1>7, <2>2 DEF OwnFix
    <3> QED BY <1>5, <3>1
  <2> QED BY <2>1, <2>2
<1> QED BY <1>6, <1>7

(* Every entry keeps the newest fixes of its own aircraft.                 *)
LEMMA FixesStayKept ==
  ASSUME DashInv, NEW reg, NEW fix, NEW slot, ShowEffect(reg, fix, slot)
  PROVE  FixesKept'
<1> DEFINE A == Len(aircraft)
<1>1. PICK R, F : /\ shown \in Seq([reg : R, fix : F])
                  /\ aircraft \in Seq([reg : R, last_seen : Nat, fixes : Seq(F)])
  BY DEF DashInv, DashShape
<1>2. A \in Nat /\ FixesKept /\ OneEntryEach BY <1>1 DEF DashInv
<1> DEFINE n == Len(shown)
<1>3. /\ n \in Nat /\ Len(shown) = n /\ Len(shown') = n + 1 /\ \A k \in 1..n : shown'[k] = shown[k]
      /\ shown'[n + 1].reg = reg /\ shown'[n + 1].fix = fix
  BY <1>1 DEF ShowEffect
<1> HIDE DEF n
<1> DEFINE F1 == F \cup {fix}
<1>4. ASSUME NEW i \in 1..A PROVE aircraft[i].fixes \in Seq(F1)
  <2>1. aircraft[i] \in [reg : R, last_seen : Nat, fixes : Seq(F)] BY <1>1, ElementOfSeq
  <2>2. aircraft[i].fixes \in Seq(F) BY <2>1
  <2> QED BY <2>2, LargerSeq
<1>5. fix \in F1 OBVIOUS
<1> HIDE DEF F1
<1>6. /\ aircraft'[slot].reg = reg
      /\ \A i \in 1..A : i # slot => aircraft'[i] = aircraft[i]
  BY DEF ShowEffect
<1>7. \/ /\ slot \in 1..A /\ aircraft[slot].reg = reg /\ Len(aircraft') = A
         /\ aircraft'[slot].fixes = AddFix(aircraft[slot].fixes, fix)
      \/ /\ \A i \in 1..A : aircraft[i].reg # reg
         /\ aircraft'[slot].fixes = AddFix(<<>>, fix)
         /\ Len(aircraft') = A \/ (slot = A + 1 /\ Len(aircraft') = slot)
  BY DEF ShowEffect
<1> SUFFICES ASSUME NEW i \in 1..Len(aircraft')
             PROVE  Newest(shown', aircraft'[i].reg, aircraft'[i].fixes)
  BY DEF FixesKept
<1>8. ASSUME NEW fs \in Seq(F1), Newest(shown, reg, fs)
       PROVE  Newest(shown', reg, AddFix(fs, fix))
  BY <1>5, <1>3, <1>8, NewestByOne
<1>9. CASE i = slot
  <2>1. CASE slot \in 1..A /\ aircraft[slot].reg = reg
             /\ aircraft'[slot].fixes = AddFix(aircraft[slot].fixes, fix)
    <3>1. Newest(shown, reg, aircraft[slot].fixes) BY <1>2, <2>1 DEF FixesKept
    <3> DEFINE fs == aircraft[slot].fixes
    <3>2. fs \in Seq(F1) BY <1>4, <2>1
    <3> HIDE DEF fs
    <3>3. Newest(shown, reg, fs) BY <3>1 DEF fs
    <3>4. Newest(shown', reg, AddFix(fs, fix))
      BY <1>8, <3>2, <3>3
    <3>5. aircraft'[i].reg = reg /\ aircraft'[i].fixes = AddFix(aircraft[slot].fixes, fix)
      BY <1>6, <1>9, <2>1
    <3> QED BY <3>4, <3>5 DEF fs
  <2>2. CASE aircraft'[slot].fixes = AddFix(<<>>, fix)
    <3> DEFINE none == <<>>
    <3>1. none \in Seq(F1) /\ Len(none) = 0 OBVIOUS
    <3>2. aircraft'[slot].fixes = AddFix(none, fix) BY <2>2
    <3> HIDE DEF none
    <3>3. Newest(shown, reg, none) BY <3>1 DEF Newest
    <3>4. Newest(shown', reg, AddFix(none, fix))
      BY <1>8, <3>1, <3>3
    <3> QED BY <1>6, <1>9, <3>2, <3>4
  <2> QED BY <1>7, <2>1, <2>2
<1>10. CASE i # slot
  <2>1. i \in 1..A BY <1>2, <1>7, <1>10
  <2>2. aircraft'[i] = aircraft[i] BY <1>6, <1>10, <2>1
  <2>3. aircraft[i].reg # reg BY <1>2, <1>7, <1>10, <2>1 DEF OneEntryEach
  <2> DEFINE fs == aircraft[i].fixes
             r == aircraft[i].reg
  <2>4. fs \in Seq(F1) /\ Newest(shown, r, fs) BY <1>2, <1>4, <2>1 DEF FixesKept
  <2>5. aircraft'[i].reg = r /\ aircraft'[i].fixes = fs /\ r # reg BY <2>2, <2>3
  <2> HIDE DEF fs, r
  <2>6. Newest(shown', r, fs) BY <1>5, <1>3, <2>4, <2>5, NewestByOne
  <2> QED BY <2>5, <2>6
<1> QED BY <1>9, <1>10

(* Only web_add_aero writes what the dashboard invariant is about.         *)
LEMMA DashStep == DashInv /\ [AcNext]_acvars => DashInv'
<1> SUFFICES ASSUME DashInv, [AcNext]_acvars PROVE DashInv'
  OBVIOUS
<1>1. ASSUME UNCHANGED <<now, shown, aircraft>> PROVE DashInv'
  BY <1>1 DEF DashInv, DashShape, OneEntryEach, SeenLast, GoneEarlier, FixesKept, SeenAt
<1>2. ASSUME NEW w \in Workers, NEW m \in AcarsMessages, Receive(w, m) PROVE DashInv'
  BY <1>1, <1>2 DEF Receive
<1>3. ASSUME NEW w \in Workers, FindTrack(w) PROVE DashInv'
  BY <1>1, <1>3 DEF FindTrack
<1>4. ASSUME NEW w \in Workers, WriteTrack(w) PROVE DashInv'
  BY <1>1, <1>4 DEF WriteTrack
<1>5. ASSUME NEW w \in Workers, Learn(w) PROVE DashInv'
  BY <1>1, <1>5 DEF Learn
<1>6. ASSUME NEW w \in Workers, Show(w) PROVE DashInv'
  <2> DEFINE reg == work[w].msg.reg
             fix == Fix(w)
  <2>1. DashShape' /\ \E slot : ShowEffect(reg, fix, slot) BY <1>6, ShowHasEffect
  <2> HIDE DEF reg, fix
  <2>2. PICK slot : ShowEffect(reg, fix, slot) BY <2>1
  <2>3. /\ now' = Len(shown') + 1 /\ Len(aircraft') <= MAX_AIRCRAFT
        /\ OneEntryEach' /\ SeenLast' /\ GoneEarlier'
    BY <2>2, OrderKept
  <2>4. FixesKept' BY <2>2, FixesStayKept
  <2> QED BY <2>1, <2>3, <2>4 DEF DashInv
<1>7. CASE UNCHANGED acvars BY <1>1, <1>7 DEF acvars
<1> QED BY <1>2, <1>3, <1>4, <1>5, <1>6, <1>7 DEF AcNext

(* An aircraft has an entry if and only if no more than MAX_AIRCRAFT       *)
(* aircraft, itself included, were heard since.                            *)
LEMMA DashImplies == DashInv => DashboardKeepsRecent
<1> SUFFICES ASSUME DashInv PROVE DashboardKeepsRecent
  OBVIOUS
<1> DEFINE n == Len(shown)
           A == Len(aircraft)
<1>1. /\ n \in Nat /\ A \in Nat /\ DOMAIN shown = 1..n /\ DOMAIN aircraft = 1..A
      /\ MAX_AIRCRAFT \in Nat
  <2>1. PICK R, F : /\ shown \in Seq([reg : R, fix : F])
                    /\ aircraft \in Seq([reg : R, last_seen : Nat, fixes : Seq(F)])
    BY DEF DashInv, DashShape
  <2>2. MAX_AIRCRAFT \in Nat BY AcarsAssumption
  <2> QED BY <2>1, <2>2
<1>2. A <= MAX_AIRCRAFT /\ OneEntryEach /\ SeenLast /\ GoneEarlier /\ FixesKept BY DEF DashInv
<1> DEFINE Entries == {aircraft[i].reg : i \in 1..A}
<1>3. IsFiniteSet(Entries) /\ Cardinality(Entries) = A
  <2> DEFINE f == [i \in 1..A |-> aircraft[i].reg]
  <2>1. f \in Bijection(1..A, Entries)
    <3>1. f \in [1..A -> Entries] OBVIOUS
    <3>2. \A i, j \in 1..A : f[i] = f[j] => i = j BY <1>2 DEF OneEntryEach
    <3>3. \A e \in Entries : \E i \in 1..A : f[i] = e OBVIOUS
    <3> HIDE DEF f, Entries
    <3>4. f \in Injection(1..A, Entries) BY <3>1, <3>2 DEF Injection, IsInjective
    <3>5. f \in Surjection(1..A, Entries) BY <3>1, <3>3 DEF Surjection
    <3> QED BY <3>4, <3>5 DEF Bijection
  <2>2. IsFiniteSet(1..A) /\ Cardinality(1..A) = A
    <3>1. 1 \in Int /\ A \in Int BY <1>1
    <3>2. IsFiniteSet(1..A) BY <3>1, FS_Interval
    <3>3. Cardinality(1..A) = IF 1 > A THEN 0 ELSE A - 1 + 1 BY <3>1, FS_Interval
    <3> QED BY <1>1, <3>2, <3>3
  <2> HIDE DEF f, Entries
  <2>3. ExistsBijection(1..A, Entries) BY <2>1 DEF ExistsBijection
  <2> QED BY <2>2, <2>3, FS_Bijection
<1>4. ASSUME NEW s \in 1..n
      PROVE  (\E i \in 1..A : aircraft[i].reg = shown[s].reg)
             <=> Cardinality({shown[k].reg : k \in LastShown(shown[s].reg)..n}) <= MAX_AIRCRAFT
  <2> DEFINE r == shown[s].reg
             Own == {i \in 1..n : shown[i].reg = r}
             l == LastShown(r)
             Since == {shown[k].reg : k \in l..n}
  <2>1. l \in 1..n /\ shown[l].reg = r /\ \A k \in 1..n : shown[k].reg = r => k <= l
    <3>1. Own \subseteq 1..n /\ Own # {} OBVIOUS
    <3>2. l = Max(Own) BY <1>1 DEF LastShown
    <3> HIDE DEF Own, l
    <3>3. l \in Own /\ \A y \in Own : y <= l BY <1>1, <3>1, <3>2, GreatestExists
    <3> QED BY <3>3 DEF Own
  <2> HIDE DEF l
  <2>2. IsFiniteSet(Since)
    <3>1. l \in Int /\ n \in Int BY <1>1, <2>1
    <3>2. IsFiniteSet(l..n) BY <3>1, FS_Interval
    <3> DEFINE f == [k \in l..n |-> shown[k].reg]
    <3>3. f \in Surjection(l..n, Since)
      <4>1. f \in [l..n -> Since] OBVIOUS
      <4>2. \A e \in Since : \E k \in l..n : f[k] = e OBVIOUS
      <4> HIDE DEF f, Since
      <4> QED BY <4>1, <4>2 DEF Surjection
    <3> HIDE DEF f, Since
    <3> QED BY <3>2, <3>3, FS_Surjection DEF ExistsSurjection
  <2>3. l..n \subseteq 1..n BY <1>1, <2>1
  <2>4. ASSUME NEW i \in 1..A, aircraft[i].reg = r PROVE Cardinality(Since) <= MAX_AIRCRAFT
    <3>1. SeenAt(i) = l
      <4>1. /\ SeenAt(i) \in 1..n /\ shown[SeenAt(i)].reg = r
            /\ \A k \in 1..n : k > SeenAt(i) => shown[k].reg # r
        BY <1>2, <2>4 DEF SeenLast
      <4>2. SeenAt(i) <= l /\ ~(l > SeenAt(i)) BY <2>1, <4>1
      <4> QED BY <1>1, <2>1, <4>1, <4>2
    <3>2. ASSUME NEW k \in l..n PROVE shown[k].reg \in Entries
      <4> SUFFICES ASSUME \A j \in 1..A : aircraft[j].reg # shown[k].reg PROVE FALSE
        OBVIOUS
      <4>1. k \in 1..n /\ k >= l BY <1>1, <2>1, <2>3
      <4>2. SeenAt(i) > k BY <1>2, <4>1 DEF GoneEarlier
      <4> QED BY <1>1, <2>1, <3>1, <4>1, <4>2
    <3>3. Since \subseteq Entries BY <3>2
    <3> HIDE DEF Since, Entries
    <3>4. Cardinality(Since) <= Cardinality(Entries) /\ Cardinality(Since) \in Nat
      BY <1>3, <2>2, <3>3, FS_Subset, FS_CardinalityType
    <3> QED BY <1>1, <1>2, <1>3, <3>4
  <2>5. ASSUME \A i \in 1..A : aircraft[i].reg # r PROVE ~(Cardinality(Since) <= MAX_AIRCRAFT)
    <3>1. A = MAX_AIRCRAFT /\ \A i \in 1..A : SeenAt(i) > l
      BY <1>2, <2>1, <2>5 DEF GoneEarlier
    <3>2. ASSUME NEW i \in 1..A PROVE aircraft[i].reg \in Since
      <4>1. SeenAt(i) \in 1..n /\ shown[SeenAt(i)].reg = aircraft[i].reg /\ SeenAt(i) > l
        BY <1>2, <3>1 DEF SeenLast
      <4>2. SeenAt(i) \in l..n BY <1>1, <2>1, <4>1
      <4> QED BY <4>1, <4>2
    <3>3. r \in Since
      <4>1. l \in l..n BY <1>1, <2>1
      <4> QED BY <2>1, <4>1
    <3>4. r \notin Entries BY <2>5
    <3>5. Entries \cup {r} \subseteq Since BY <3>2, <3>3
    <3> HIDE DEF Since, Entries, r
    <3>6. IsFiniteSet(Entries \cup {r}) /\ Cardinality(Entries \cup {r}) = Cardinality(Entries) + 1
      BY <1>3, <3>4, FS_AddElement
    <3>7. Cardinality(Entries \cup {r}) <= Cardinality(Since) /\ Cardinality(Since) \in Nat
      BY <2>2, <3>5, FS_Subset, FS_CardinalityType
    <3> QED BY <1>1, <1>3, <3>1, <3>6, <3>7
  <2> QED BY <2>4, <2>5 DEF l
<1>5. ASSUME NEW i \in 1..A PROVE NewestFixes(aircraft[i].reg, aircraft[i].fixes)
  <2> DEFINE fs == aircraft[i].fixes
             r == aircraft[i].reg
  <2>1. Newest(shown, r, fs) BY <1>2 DEF FixesKept
  <2>2. DOMAIN fs = 1..Len(fs)
    <3>1. PICK R, F : aircraft \in Seq([reg : R, last_seen : Nat, fixes : Seq(F)])
      BY DEF DashInv, DashShape
    <3>2. aircraft[i] \in [reg : R, last_seen : Nat, fixes : Seq(F)] BY <3>1, ElementOfSeq
    <3>3. fs \in Seq(F) BY <3>2
    <3> QED BY <3>3
  <2>3. \A j : FixesAfter(r, j) = Later(shown, r, j)
    BY <1>1 DEF FixesAfter, Later, OwnFix
  <2> HIDE DEF fs, r
  <2>4. NewestFixes(r, fs) BY <2>1, <2>2, <2>3 DEF NewestFixes, Newest
  <2> QED BY <2>4 DEF fs, r
<1> QED BY <1>1, <1>4, <1>5 DEF DashboardKeepsRecent

(* The dashboard keeps the MAX_AIRCRAFT aircraft heard last, each with the *)
(* newest of its own fixes in order, for any number of workers, messages,  *)
(* aircraft and any size of the tables of web.c.                           *)
THEOREM DashboardIsRecent == AcSpec => []DashboardKeepsRecent
BY DashInit, DashStep, DashImplies, PTL DEF AcSpec

-----------------------------------------------------------------------------
(* The channel table.  Through set-up, announcements and calibration two   *)
(* relations never break: a band's mixer is its distance from the centre   *)
(* the channelizer works with, and a channel's two mixers add up to the    *)
(* frequency it was asked for.  Both loops, over the plan and over the     *)
(* slots of a block, are recursive functions: what they compute follows by *)
(* induction on the slot, by the lemma UpTo.                               *)

(* Induction up to n: a set of numbers with 0 and with the successor of    *)
(* each of its members is all of 0..n.                                     *)
LEMMA UpTo ==
  ASSUME NEW n \in Nat, NEW P \in SUBSET (0..n), 0 \in P,
         \A k \in 0..n : k \in P /\ k < n => k + 1 \in P
  PROVE  P = 0..n
<1> SUFFICES ASSUME P # 0..n PROVE FALSE OBVIOUS
<1> DEFINE T == (0..n) \ P
<1>1. T \subseteq Nat /\ T # {}
  <2>1. P \subseteq 0..n OBVIOUS
  <2>2. \E x \in 0..n : x \notin P BY <2>1, Zenon
  <2> QED BY <2>2
<1>2. PICK x \in T : \A y \in T : x <= y
  <2> HIDE DEF T
  <2> QED BY <1>1, LeastExists
<1>3. x \in 0..n /\ x # 0 OBVIOUS
<1>4. x - 1 \in 0..n /\ x - 1 \notin T BY <1>2, <1>3
<1> QED BY <1>3, <1>4

(* The shape of a channelizer; S holds what the frequencies do not depend  *)
(* on: factors, types, families.                                           *)
BandSet(S) == [center : Int, nco : Int, s1 : Int, inter : Int, family : S, members : Seq(Nat)]
ChannelSet(S) == [id : Int, type : S, band : Nat, nco : Int, step : Int, s2 : S]
ChzSet(S) == [center : Int, rate : Int, mode : S, bands : Seq(BandSet(S)),
              channels : Seq(ChannelSet(S))]

(* Each band is mixed down by its distance from the centre, and has a      *)
(* channel; each channel has a band, and a mixer whose step is that of its *)
(* distance from the band's centre at the rate planned for the band.       *)
BandOK(c, b) ==
    /\ c.bands[b].nco = c.bands[b].center - c.center
    /\ Len(c.bands[b].members) > 0
    /\ \A m \in 1..Len(c.bands[b].members) : c.bands[b].members[m] \in 1..Len(c.channels)
StepOK(c, s) ==
    c.channels[s].step = c.channels[s].nco * c.bands[c.channels[s].band].s1
ChzOK(c) ==
    /\ \E S : c \in ChzSet(S)
    /\ \A b \in 1..Len(c.bands) : BandOK(c, b)
    /\ \A s \in 1..Len(c.channels) :
          c.channels[s].band \in 1..Len(c.bands) /\ StepOK(c, s)

(* Slot s of c is slot s of d, on the same frequency.                      *)
SameSlot(c, d, s) ==
    /\ d.channels[s].id = c.channels[s].id /\ d.channels[s].type = c.channels[s].type
    /\ ChannelFreq(d, s) = ChannelFreq(c, s)

(* The signal of slot s lies inside its band; every slot's does, with a    *)
(* device fast enough for the intermediate rate of the wide channels.      *)
FitSlot(c, s) ==
    2 * Abs(c.channels[s].nco) + signal_bandwidth(c.channels[s].type)
        <= c.bands[c.channels[s].band].inter
FastRate == target_intermediate_rate("10500")
Fit(c) == c.rate >= FastRate /\ \A s \in 1..Len(c.channels) : FitSlot(c, s)

(* A larger set of types and factors allows more channelizers.             *)
LEMMA ChzSetGrows ==
  ASSUME NEW S, NEW T, S \subseteq T
  PROVE  /\ BandSet(S) \subseteq BandSet(T) /\ ChannelSet(S) \subseteq ChannelSet(T)
         /\ ChzSet(S) \subseteq ChzSet(T)
<1>1. BandSet(S) \subseteq BandSet(T) BY DEF BandSet
<1>2. ChannelSet(S) \subseteq ChannelSet(T) BY DEF ChannelSet
<1>3. Seq(BandSet(S)) \subseteq Seq(BandSet(T))
  <2>1. ASSUME NEW q \in Seq(BandSet(S)) PROVE q \in Seq(BandSet(T)) BY <1>1, LargerSeq
  <2> QED BY <2>1
<1>4. Seq(ChannelSet(S)) \subseteq Seq(ChannelSet(T))
  <2>1. ASSUME NEW q \in Seq(ChannelSet(S)) PROVE q \in Seq(ChannelSet(T)) BY <1>2, LargerSeq
  <2> QED BY <2>1
<1>5. ChzSet(S) \subseteq ChzSet(T) BY <1>3, <1>4 DEF ChzSet
<1> QED BY <1>1, <1>2, <1>5

(* The fields of a channelizer.                                            *)
LEMMA ChzFields ==
  ASSUME NEW S, NEW c \in ChzSet(S)
  PROVE  /\ c.center \in Int /\ c.rate \in Int /\ c.mode \in S
         /\ c.bands \in Seq(BandSet(S)) /\ c.channels \in Seq(ChannelSet(S))
         /\ Len(c.bands) \in Nat /\ DOMAIN c.bands = 1..Len(c.bands)
         /\ Len(c.channels) \in Nat /\ DOMAIN c.channels = 1..Len(c.channels)
         /\ \A b \in 1..Len(c.bands) :
               /\ c.bands[b] \in BandSet(S) /\ c.bands[b].center \in Int
               /\ c.bands[b].nco \in Int /\ c.bands[b].members \in Seq(Nat)
               /\ c.bands[b].inter \in Int /\ c.bands[b].s1 \in Int
         /\ \A s \in 1..Len(c.channels) :
               /\ c.channels[s] \in ChannelSet(S) /\ c.channels[s].id \in Int
               /\ c.channels[s].nco \in Int /\ c.channels[s].band \in Nat
<1>1. /\ c.center \in Int /\ c.rate \in Int /\ c.mode \in S
      /\ c.bands \in Seq(BandSet(S)) /\ c.channels \in Seq(ChannelSet(S))
  BY DEF ChzSet
<1>2. /\ Len(c.bands) \in Nat /\ DOMAIN c.bands = 1..Len(c.bands)
      /\ Len(c.channels) \in Nat /\ DOMAIN c.channels = 1..Len(c.channels)
  BY <1>1
<1>3. ASSUME NEW b \in 1..Len(c.bands)
      PROVE  /\ c.bands[b] \in BandSet(S) /\ c.bands[b].center \in Int
             /\ c.bands[b].nco \in Int /\ c.bands[b].members \in Seq(Nat)
             /\ c.bands[b].inter \in Int /\ c.bands[b].s1 \in Int
  <2>1. c.bands[b] \in BandSet(S) BY <1>1, ElementOfSeq
  <2> QED BY <2>1 DEF BandSet
<1>4. ASSUME NEW s \in 1..Len(c.channels)
      PROVE  /\ c.channels[s] \in ChannelSet(S) /\ c.channels[s].id \in Int
             /\ c.channels[s].nco \in Int /\ c.channels[s].band \in Nat
  <2>1. c.channels[s] \in ChannelSet(S) BY <1>1, ElementOfSeq
  <2> QED BY <2>1 DEF ChannelSet
<1> QED BY <1>1, <1>2, <1>3, <1>4

(* A band whose mixer changes.                                             *)
LEMMA BandRetuned ==
  ASSUME NEW S, NEW x \in BandSet(S), NEW n \in Int
  PROVE  /\ [x EXCEPT !.nco = n] \in BandSet(S)
         /\ [x EXCEPT !.nco = n].nco = n
         /\ [x EXCEPT !.nco = n].center = x.center
         /\ [x EXCEPT !.nco = n].members = x.members
         /\ [x EXCEPT !.nco = n].inter = x.inter /\ [x EXCEPT !.nco = n].s1 = x.s1
BY DEF BandSet

(* A correction of the tuner moves every band and no channel.              *)
LEMMA AdjustKeeps ==
  ASSUME NEW c, ChzOK(c), NEW offset \in Int
  PROVE  LET d == channelizer_adjust_center(c, offset)
         IN /\ ChzOK(d) /\ d.center = c.center - offset /\ d.rate = c.rate
            /\ (Fit(c) => Fit(d))
            /\ Len(d.channels) = Len(c.channels)
            /\ \A s \in 1..Len(c.channels) : SameSlot(c, d, s)
<1>1. PICK S : c \in ChzSet(S) BY DEF ChzOK
<1> DEFINE d == channelizer_adjust_center(c, offset)
           B == [b \in DOMAIN c.bands |-> [c.bands[b] EXCEPT !.nco = @ + offset]]
           nb == Len(c.bands)
           nc == Len(c.channels)
<1>2. /\ c.center \in Int /\ c.channels \in Seq(ChannelSet(S)) /\ nb \in Nat /\ nc \in Nat
      /\ DOMAIN c.bands = 1..nb
      /\ \A b \in 1..nb : c.bands[b] \in BandSet(S)
  BY <1>1, ChzFields
<1>3. ASSUME NEW b \in 1..nb
      PROVE  LET e == [c.bands[b] EXCEPT !.nco = @ + offset]
             IN /\ e \in BandSet(S) /\ e.nco = c.bands[b].nco + offset
                /\ e.center = c.bands[b].center /\ e.members = c.bands[b].members
                /\ e.inter = c.bands[b].inter /\ e.s1 = c.bands[b].s1
  <2> DEFINE x == c.bands[b]
             n == c.bands[b].nco + offset
  <2>1. x \in BandSet(S) /\ n \in Int BY <1>1, ChzFields
  <2>2. [x EXCEPT !.nco = @ + offset] = [x EXCEPT !.nco = n] OBVIOUS
  <2> HIDE DEF x, n
  <2>3. /\ [x EXCEPT !.nco = n] \in BandSet(S) /\ [x EXCEPT !.nco = n].nco = n
        /\ [x EXCEPT !.nco = n].center = x.center /\ [x EXCEPT !.nco = n].members = x.members
        /\ [x EXCEPT !.nco = n].inter = x.inter /\ [x EXCEPT !.nco = n].s1 = x.s1
    BY <2>1, BandRetuned
  <2> QED BY <2>2, <2>3 DEF x, n
<1>4. B \in [1..nb -> BandSet(S)] BY <1>2, <1>3
<1>5. B \in Seq(BandSet(S)) /\ Len(B) = nb BY <1>2, <1>4, FunctionIsSeq
<1>6. \A b \in 1..nb : /\ B[b].nco = c.bands[b].nco + offset
                       /\ B[b].center = c.bands[b].center /\ B[b].members = c.bands[b].members
                       /\ B[b].inter = c.bands[b].inter /\ B[b].s1 = c.bands[b].s1
  BY <1>2, <1>3
<1>7. d = [c EXCEPT !.center = c.center - offset, !.bands = B]
  BY DEF channelizer_adjust_center
<1> HIDE DEF B, d
<1>8. c.center - offset \in Int BY <1>2
<1>9. /\ d \in ChzSet(S) /\ d.center = c.center - offset /\ d.bands = B
      /\ d.channels = c.channels /\ d.rate = c.rate
  BY <1>1, <1>5, <1>7, <1>8 DEF ChzSet
<1>10. ASSUME NEW b \in 1..nb PROVE BandOK(d, b)
  <2>1. BandOK(c, b) BY DEF ChzOK
  <2>2. c.bands[b].nco \in Int /\ c.bands[b].center \in Int BY <1>1, ChzFields
  <2>3. d.bands[b].nco = d.bands[b].center - d.center
    BY <1>2, <1>6, <1>9, <2>1, <2>2 DEF BandOK
  <2> QED BY <1>6, <1>9, <2>1, <2>3 DEF BandOK
<1>11. \A s \in 1..nc : c.channels[s].band \in 1..nb /\ StepOK(c, s) BY DEF ChzOK
<1>12. ChzOK(d)
  <2>1. \A s \in 1..nc : StepOK(d, s) BY <1>6, <1>9, <1>11 DEF StepOK
  <2> QED BY <1>5, <1>9, <1>10, <1>11, <2>1 DEF ChzOK
<1>13. \A s \in 1..nc : SameSlot(c, d, s) BY <1>6, <1>9, <1>11 DEF SameSlot, ChannelFreq
<1>14. Fit(c) => Fit(d) BY <1>6, <1>9, <1>11 DEF Fit, FitSlot
<1> QED BY <1>9, <1>12, <1>13, <1>14 DEF d

(* The sum of Centroid, unfolded: each partial sum is the one before and   *)
(* one mixer more.                                                         *)
LEMMA CentroidSteps ==
  ASSUME NEW c, NEW m, Len(m) \in Nat
  PROVE  \E g : /\ g[0] = 0
                /\ \A i \in 1..Len(m) : g[i] = g[i - 1] + c.channels[m[i]].nco
                /\ Centroid(c, m) = IF Abs(g[Len(m)] \div Len(m)) < 1 THEN 0
                                    ELSE g[Len(m)] \div Len(m)
<1> DEFINE Body(g, i) == IF i = 0 THEN 0 ELSE g[i - 1] + c.channels[m[i]].nco
           Loop(n, g) == g = [i \in 0..n |-> Body(g, i)]
           P == {n \in 0..Len(m) : \E g : Loop(n, g)}
<1>1. 0 \in P
  <2>1. Loop(0, [i \in 0..0 |-> 0]) OBVIOUS
  <2> HIDE DEF Loop
  <2> QED BY <2>1
<1>2. ASSUME NEW n \in 0..Len(m), n \in P, n < Len(m) PROVE n + 1 \in P
  <2>1. PICK g : Loop(n, g) BY <1>2
  <2> DEFINE h == [i \in 0..(n + 1) |-> IF i = n + 1 THEN g[n] + c.channels[m[n + 1]].nco
                                        ELSE g[i]]
  <2>2. \A i \in 0..(n + 1) : h[i] = Body(h, i)
    <3> SUFFICES ASSUME NEW i \in 0..(n + 1) PROVE h[i] = Body(h, i) OBVIOUS
    <3>1. CASE i = n + 1 BY <3>1
    <3>2. CASE i # n + 1
      <4>1. i \in 0..n BY <3>2
      <4>2. g[i] = Body(g, i)
        <5> HIDE DEF Body, h
        <5> QED BY <2>1, <4>1
      <4>3. i # 0 => h[i - 1] = g[i - 1] BY <4>1
      <4> QED BY <4>1, <4>2, <4>3
    <3> QED BY <3>1, <3>2
  <2>3. Loop(n + 1, h)
    <3>1. h = [i \in 0..(n + 1) |-> h[i]] OBVIOUS
    <3> HIDE DEF h, Body
    <3> QED BY <2>2, <3>1
  <2> HIDE DEF Loop
  <2> QED BY <2>3, <1>2
<1>3. Len(m) \in P
  <2> HIDE DEF P
  <2>1. P \in SUBSET (0..Len(m)) BY DEF P
  <2>2. P = 0..Len(m) BY <1>1, <1>2, <2>1, UpTo
  <2> QED BY <2>2
<1>4. PICK g0 : Loop(Len(m), g0) BY <1>3
<1> DEFINE g == CHOOSE f : Loop(Len(m), f)
<1>5. Loop(Len(m), g)
  <2> HIDE DEF Loop
  <2> QED BY <1>4
<1>6. Centroid(c, m) = IF Abs(g[Len(m)] \div Len(m)) < 1 THEN 0 ELSE g[Len(m)] \div Len(m)
  BY DEF Centroid
<1>7. g[0] = 0 /\ \A i \in 1..Len(m) : g[i] = g[i - 1] + c.channels[m[i]].nco
  <2> HIDE DEF g
  <2> QED BY <1>5
<1> HIDE DEF g
<1> QED BY <1>6, <1>7

(* A centroid of mixers that are whole numbers is one.                     *)
LEMMA CentroidWhole ==
  ASSUME NEW c, NEW m \in Seq(Nat), Len(m) > 0,
         \A i \in 1..Len(m) : c.channels[m[i]].nco \in Int
  PROVE  Centroid(c, m) \in Int
<1>1. Len(m) \in Nat OBVIOUS
<1>2. PICK g : /\ g[0] = 0
               /\ \A i \in 1..Len(m) : g[i] = g[i - 1] + c.channels[m[i]].nco
               /\ Centroid(c, m) = IF Abs(g[Len(m)] \div Len(m)) < 1 THEN 0
                                   ELSE g[Len(m)] \div Len(m)
  BY <1>1, CentroidSteps
<1> DEFINE P == {k \in 0..Len(m) : g[k] \in Int}
<1>3. 0 \in P BY <1>1, <1>2
<1>4. ASSUME NEW k \in 0..Len(m), k \in P, k < Len(m) PROVE k + 1 \in P
  <2>1. k + 1 \in 1..Len(m) /\ (k + 1) - 1 = k BY <1>1, <1>4
  <2>2. g[k + 1] = g[k] + c.channels[m[k + 1]].nco
    BY <1>2, <2>1
  <2>3. g[k] \in Int /\ c.channels[m[k + 1]].nco \in Int BY <1>4, <2>1
  <2> QED BY <2>1, <2>2, <2>3
<1>5. Len(m) \in P
  <2> HIDE DEF P
  <2>1. P \in SUBSET (0..Len(m)) BY DEF P
  <2>2. P = 0..Len(m) BY <1>1, <1>3, <1>4, <2>1, UpTo
  <2> QED BY <1>1, <2>2
<1>6. g[Len(m)] \in Int BY <1>5
<1>7. g[Len(m)] \div Len(m) \in Int
  <2> DEFINE x == g[Len(m)]
             y == Len(m)
  <2>1. x \in Int /\ y \in Nat /\ y > 0 BY <1>1, <1>6
  <2> HIDE DEF x, y
  <2>2. x \div y \in Int BY <2>1
  <2> QED BY <2>2 DEF x, y
<1> QED BY <1>2, <1>7

(* Recentring a band moves its channels back: none leaves its frequency.   *)
LEMMA FinalizeKeeps ==
  ASSUME NEW c, ChzOK(c)
  PROVE  LET d == channelizer_finalize(c)
         IN /\ ChzOK(d) /\ d.center = c.center /\ d.rate = c.rate
            /\ Len(d.channels) = Len(c.channels)
            /\ \A s \in 1..Len(c.channels) : SameSlot(c, d, s)
<1>1. PICK S : c \in ChzSet(S) BY DEF ChzOK
<1> DEFINE d == channelizer_finalize(c)
           Shift(b) == Centroid(c, c.bands[b].members)
           nb == Len(c.bands)
           nc == Len(c.channels)
           Band(b) == [c.bands[b] EXCEPT !.nco = @ + Shift(b), !.center = @ + Shift(b)]
           Nco(ch) == ch.nco - Shift(ch.band)
           Chan(s) == [c.channels[s] EXCEPT
                         !.nco = Nco(c.channels[s]),
                         !.step = Nco(c.channels[s]) * c.bands[c.channels[s].band].s1]
           B == [b \in DOMAIN c.bands |-> Band(b)]
           H == [s \in DOMAIN c.channels |-> Chan(s)]
<1>2. /\ c.center \in Int /\ nb \in Nat /\ nc \in Nat
      /\ DOMAIN c.bands = 1..nb /\ DOMAIN c.channels = 1..nc
      /\ \A b \in 1..nb : /\ c.bands[b] \in BandSet(S) /\ c.bands[b].center \in Int
                          /\ c.bands[b].nco \in Int /\ c.bands[b].members \in Seq(Nat)
                          /\ c.bands[b].s1 \in Int
      /\ \A s \in 1..nc : c.channels[s] \in ChannelSet(S) /\ c.channels[s].nco \in Int
  BY <1>1, ChzFields
<1>3. /\ \A b \in 1..nb : BandOK(c, b)
      /\ \A s \in 1..nc : c.channels[s].band \in 1..nb
  BY DEF ChzOK
<1>4. d = [c EXCEPT !.bands = B, !.channels = H] BY DEF channelizer_finalize
<1>5. ASSUME NEW b \in 1..nb PROVE Shift(b) \in Int
  <2> DEFINE m == c.bands[b].members
  <2>1. m \in Seq(Nat) BY <1>2
  <2>2. Len(m) > 0 /\ \A i \in 1..Len(m) : m[i] \in 1..nc BY <1>3 DEF BandOK
  <2>3. \A i \in 1..Len(m) : c.channels[m[i]].nco \in Int BY <1>2, <2>2
  <2> HIDE DEF m
  <2>4. Centroid(c, m) \in Int BY <2>1, <2>2, <2>3, CentroidWhole
  <2> QED BY <2>4 DEF m
<1> HIDE DEF Shift
<1>6. ASSUME NEW b \in 1..nb
      PROVE  /\ Band(b) \in BandSet(S) /\ Band(b).nco = c.bands[b].nco + Shift(b)
             /\ Band(b).center = c.bands[b].center + Shift(b)
             /\ Band(b).members = c.bands[b].members /\ Band(b).s1 = c.bands[b].s1
  <2> DEFINE x == c.bands[b]
             n == x.nco + Shift(b)
             k == x.center + Shift(b)
  <2>1. x \in BandSet(S) /\ n \in Int /\ k \in Int BY <1>2, <1>5
  <2>2. Band(b) = [x EXCEPT !.nco = n, !.center = k] OBVIOUS
  <2> HIDE DEF x, n, k, Band
  <2>3. /\ [x EXCEPT !.nco = n, !.center = k] \in BandSet(S)
        /\ [x EXCEPT !.nco = n, !.center = k].nco = n
        /\ [x EXCEPT !.nco = n, !.center = k].center = k
        /\ [x EXCEPT !.nco = n, !.center = k].members = x.members
        /\ [x EXCEPT !.nco = n, !.center = k].s1 = x.s1
    BY <2>1 DEF BandSet
  <2> QED BY <2>2, <2>3 DEF x, n, k
<1>7. ASSUME NEW s \in 1..nc
      PROVE  /\ Chan(s) \in ChannelSet(S)
             /\ Chan(s).nco = c.channels[s].nco - Shift(c.channels[s].band)
             /\ Chan(s).id = c.channels[s].id /\ Chan(s).type = c.channels[s].type
             /\ Chan(s).band = c.channels[s].band
             /\ Chan(s).step = Chan(s).nco * c.bands[c.channels[s].band].s1
  <2> DEFINE x == c.channels[s]
             n == x.nco - Shift(x.band)
             f == c.bands[x.band].s1
             t == n * f
  <2>1. x \in ChannelSet(S) /\ n \in Int /\ t \in Int
    <3>1. x.band \in 1..nb BY <1>3
    <3>2. Shift(x.band) \in Int /\ x.nco \in Int /\ f \in Int BY <1>2, <1>5, <3>1
    <3>3. n \in Int BY <3>2
    <3> HIDE DEF n, f
    <3>4. t \in Int BY <3>2, <3>3
    <3> QED BY <1>2, <3>3, <3>4
  <2>2. Chan(s) = [x EXCEPT !.nco = n, !.step = t] OBVIOUS
  <2> HIDE DEF x, n, t, Chan
  <2>3. /\ [x EXCEPT !.nco = n, !.step = t] \in ChannelSet(S)
        /\ [x EXCEPT !.nco = n, !.step = t].nco = n
        /\ [x EXCEPT !.nco = n, !.step = t].step = t
        /\ [x EXCEPT !.nco = n, !.step = t].id = x.id
        /\ [x EXCEPT !.nco = n, !.step = t].type = x.type
        /\ [x EXCEPT !.nco = n, !.step = t].band = x.band
    BY <2>1 DEF ChannelSet
  <2>4. t = n * c.bands[x.band].s1 BY DEF t
  <2> QED BY <2>2, <2>3, <2>4 DEF x, n
<1> HIDE DEF Band, Chan
<1>8. /\ B \in [1..nb -> BandSet(S)] /\ H \in [1..nc -> ChannelSet(S)]
      /\ \A b \in 1..nb : B[b] = Band(b)
      /\ \A s \in 1..nc : H[s] = Chan(s)
  BY <1>2, <1>6, <1>7
<1> HIDE DEF B, H, d
<1>9. /\ B \in Seq(BandSet(S)) /\ Len(B) = nb
      /\ H \in Seq(ChannelSet(S)) /\ Len(H) = nc
  BY <1>2, <1>8, FunctionIsSeq
<1>10. /\ d \in ChzSet(S) /\ d.center = c.center /\ d.rate = c.rate /\ d.bands = B /\ d.channels = H
  BY <1>1, <1>4, <1>9 DEF ChzSet
<1>11. ASSUME NEW b \in 1..nb PROVE BandOK(d, b)
  <2>1. BandOK(c, b) BY <1>3
  <2>2. d.bands[b].nco = d.bands[b].center - d.center
    BY <1>2, <1>5, <1>6, <1>8, <1>10, <2>1 DEF BandOK
  <2> QED BY <1>6, <1>8, <1>9, <1>10, <2>1, <2>2 DEF BandOK
<1>12. \A s \in 1..nc : d.channels[s].band \in 1..nb BY <1>3, <1>7, <1>8, <1>10
<1>13. ChzOK(d)
  <2>1. ASSUME NEW s \in 1..nc PROVE StepOK(d, s)
    <3> DEFINE b == c.channels[s].band
    <3>1. b \in 1..nb BY <1>3
    <3>2. /\ d.channels[s].band = b
          /\ d.channels[s].step = d.channels[s].nco * c.bands[b].s1
      BY <1>7, <1>8, <1>10
    <3>3. d.bands[b].s1 = c.bands[b].s1 BY <1>6, <1>8, <1>10, <3>1
    <3> HIDE DEF b
    <3> QED BY <3>2, <3>3 DEF StepOK
  <2> QED BY <1>9, <1>10, <1>11, <1>12, <2>1 DEF ChzOK
<1>14. ASSUME NEW s \in 1..nc PROVE SameSlot(c, d, s)
  <2>1. d.channels[s] = Chan(s) BY <1>8, <1>10
  <2>2. ChannelFreq(d, s) = ChannelFreq(c, s)
    <3> DEFINE b == c.channels[s].band
    <3>1. b \in 1..nb BY <1>3
    <3>2. d.channels[s].band = b /\ d.channels[s].nco = c.channels[s].nco - Shift(b)
      BY <1>7, <2>1
    <3>3. d.bands[b].center = c.bands[b].center + Shift(b) BY <1>6, <1>8, <1>10, <3>1
    <3>4. c.bands[b].center \in Int /\ Shift(b) \in Int /\ c.channels[s].nco \in Int
      BY <1>2, <1>5, <3>1
    <3>5. ChannelFreq(c, s) = c.bands[b].center + c.channels[s].nco BY DEF ChannelFreq
    <3>6. ChannelFreq(d, s) = d.bands[b].center + d.channels[s].nco BY <3>2 DEF ChannelFreq
    <3> HIDE DEF b
    <3> QED BY <3>2, <3>3, <3>4, <3>5, <3>6
  <2> QED BY <1>7, <2>1, <2>2 DEF SameSlot
<1> QED BY <1>9, <1>10, <1>13, <1>14 DEF d

(* Stage 1 leaves at least 200 kHz, when the device gives as much.         *)
LEMMA SplitWhole ==
  ASSUME NEW rate \in Int, NEW type
  PROVE  LET s1 == Split(type, rate).s1
         IN /\ s1 \in Nat \ {0} /\ rate \div s1 \in Int
            /\ rate >= 200000 => rate \div s1 >= 200000
<1> DEFINE T == target_intermediate_rate(type)
           L == AtLeast1(rate \div T)
           total == AtLeast1(rate \div target_output_rate(type))
           D == {1} \cup {x \in 2..L : total % x = 0}
           s1 == Split(type, rate).s1
           High(x) == \A y \in D : x >= y
<1>1. T \in Int /\ T >= 200000 /\ (T = 200000 \/ T = 400000) BY DEF target_intermediate_rate
<1>2. s1 = Max(D) BY DEF Split, largest_factor_leq
<1> HIDE DEF T
<1>3. L \in Int /\ L >= 1 /\ (L = 1 \/ L = rate \div T)
  <2>1. rate \div T \in Int BY <1>1
  <2> QED BY <2>1 DEF AtLeast1
<1> HIDE DEF L, total
<1>4. D \subseteq 1..L /\ 1 \in D BY <1>3
<1>5. Max(D) = CHOOSE x \in D : High(x) BY DEF Max
<1> HIDE DEF D
<1>6. \E x \in D : High(x)
  <2> DEFINE N == {L - y : y \in D}
  <2>1. N \subseteq Nat /\ N # {} BY <1>3, <1>4
  <2>2. PICK m \in N : \A y \in N : m <= y
    <3> HIDE DEF N
    <3> QED BY <2>1, LeastExists
  <2>3. PICK x \in D : m = L - x OBVIOUS
  <2>4. ASSUME NEW y \in D PROVE x >= y
    <3>1. L - x <= L - y BY <2>2, <2>3
    <3> QED BY <1>3, <1>4, <3>1
  <2> QED BY <2>4
<1> HIDE DEF High, s1
<1>7. s1 \in D BY <1>2, <1>5, <1>6
<1>8. s1 \in 1..L BY <1>4, <1>7
<1>9. s1 \in Nat \ {0} /\ rate \div s1 \in Int BY <1>3, <1>8
<1>10. ASSUME rate >= 200000 PROVE rate \div s1 >= 200000
  <2>1. CASE L = 1
    <3>1. s1 = 1 BY <1>8, <2>1
    <3> QED BY <1>10, <3>1
  <2>2. CASE L = rate \div T
    <3> DEFINE q == rate \div s1
    <3>1. s1 <= rate \div T BY <1>3, <1>8, <2>2
    <3>2. T * s1 <= rate
      <4>1. CASE T = 200000 BY <1>9, <3>1, <4>1
      <4>2. CASE T = 400000 BY <1>9, <3>1, <4>2
      <4> QED BY <1>1, <4>1, <4>2
    <3>3. 200000 * s1 <= rate
      <4>1. CASE T = 200000 BY <3>2, <4>1
      <4>2. CASE T = 400000 BY <1>9, <3>2, <4>2
      <4> QED BY <1>1, <4>1, <4>2
    <3>4. rate < s1 * (q + 1) /\ q \in Int
      <4>1. rate = s1 * (rate \div s1) + (rate % s1) /\ rate % s1 < s1 /\ rate % s1 \in Int
        BY <1>9
      <4>2. s1 * (q + 1) = s1 * q + s1 BY <1>9
      <4> QED BY <1>9, <4>1, <4>2
    <3> HIDE DEF q
    <3>5. ASSUME q < 200000 PROVE FALSE
      <4>1. q + 1 <= 200000 BY <3>4, <3>5
      <4>2. s1 * (q + 1) <= s1 * 200000
        <5> DEFINE z == 200000 - (q + 1)
        <5>1. z \in Nat BY <3>4, <4>1
        <5>2. s1 * 200000 = s1 * (q + 1) + s1 * z BY <1>9, <3>4
        <5> HIDE DEF z
        <5>3. s1 * z >= 0 /\ s1 * z \in Int BY <1>9, <5>1
        <5>4. s1 * (q + 1) \in Int BY <1>9, <3>4
        <5> QED BY <5>2, <5>3, <5>4
      <4> QED BY <1>9, <3>3, <3>4, <4>2
    <3> QED BY <3>4, <3>5 DEF q
  <2> QED BY <1>3, <2>1, <2>2
<1> QED BY <1>9, <1>10 DEF s1

(* A signal is narrower than any band, and fits one that it is compatible  *)
(* with.                                                                   *)
LEMMA SignalWidth ==
  ASSUME NEW type \in AeroTypes
  PROVE  signal_bandwidth(type) \in Int /\ signal_bandwidth(type) <= 21000
BY DEF signal_bandwidth, AeroTypes

(* A compatible band is at most 1 % off and 40 % away: room for 21 kHz.    *)
LEMMA RoomInBand ==
  ASSUME NEW R \in Int, R >= 200000, NEW inter \in Int, NEW n \in Int,
         NEW type \in AeroTypes,
         Abs(inter - R) <= R \div 100, Abs(n) <= (R * 2) \div 5
  PROVE  2 * Abs(n) + signal_bandwidth(type) <= inter
<1> DEFINE w == signal_bandwidth(type)
<1>1. w \in Int /\ w <= 21000 BY SignalWidth
<1> HIDE DEF w
<1>2. inter >= R - R \div 100 BY DEF Abs
<1>3. Abs(n) \in Int BY DEF Abs
<1>4. 100 * (R \div 100) <= R /\ R \div 100 \in Int OBVIOUS
<1>5. 5 * ((R * 2) \div 5) <= R * 2 /\ (R * 2) \div 5 \in Int OBVIOUS
<1>6. 2 * Abs(n) + w <= inter BY <1>1, <1>2, <1>3, <1>4, <1>5
<1> QED BY <1>6 DEF w

(* The band of a new channel: one of those there are, or a new one on its  *)
(* frequency.                                                              *)
LEMMA FoundBand ==
  ASSUME NEW S, NEW c \in ChzSet(S), NEW frequency, NEW type, NEW s1
  PROVE  LET found == find_or_create_band(c, frequency, type, s1)
         IN \/ found.b = 0
            \/ /\ found.b \in 1..Len(c.bands) /\ found.bands = c.bands
               /\ CompatibleBand(c, found.b, frequency, type, s1)
            \/ /\ found.b = Len(c.bands) + 1
               /\ found.bands = Append(c.bands, init_band(c, frequency, type, s1))
<1> DEFINE fits == {b \in DOMAIN c.bands : CompatibleBand(c, b, frequency, type, s1)}
           found == find_or_create_band(c, frequency, type, s1)
<1>1. DOMAIN c.bands = 1..Len(c.bands) /\ Len(c.bands) \in Nat BY ChzFields
<1>2. found = IF fits # {} THEN [bands |-> c.bands, b |-> Min(fits)]
              ELSE IF Len(c.bands) >= MAX_BANDS THEN [bands |-> c.bands, b |-> 0]
              ELSE [bands |-> Append(c.bands, init_band(c, frequency, type, s1)),
                    b |-> Len(c.bands) + 1]
  BY DEF find_or_create_band
<1>3. ASSUME fits # {} PROVE Min(fits) \in fits /\ Min(fits) \in 1..Len(c.bands)
  <2> DEFINE Low(x) == \A y \in fits : x =< y
  <2>1. fits \subseteq 1..Len(c.bands) BY <1>1
  <2> HIDE DEF fits
  <2>2. fits \subseteq Nat BY <1>1, <2>1
  <2>3. \E x \in fits : Low(x) BY <1>3, <2>2, LeastExists
  <2>4. Min(fits) = CHOOSE x \in fits : Low(x) BY DEF Min
  <2> HIDE DEF Low
  <2>5. Min(fits) \in fits BY <2>3, <2>4
  <2> QED BY <2>1, <2>5
<1>4. ASSUME fits # {} PROVE CompatibleBand(c, Min(fits), frequency, type, s1) BY <1>3, <1>4
<1> HIDE DEF fits
<1>5. CASE fits # {}
  <2>1. found = [bands |-> c.bands, b |-> Min(fits)] BY <1>2, <1>5
  <2>2. /\ found.b \in 1..Len(c.bands) /\ found.bands = c.bands
        /\ CompatibleBand(c, found.b, frequency, type, s1)
    BY <1>3, <1>4, <1>5, <2>1
  <2> QED BY <2>2
<1>6. CASE fits = {} BY <1>2, <1>6
<1> QED BY <1>5, <1>6

(* d is c with one more channel, or as it was: no other one moved.         *)
Added(c, d, frequency, type, id) ==
    LET nc == Len(c.channels)
    IN /\ ChzOK(d) /\ d.center = c.center /\ d.rate = c.rate
       /\ type \in AeroTypes /\ Fit(c) => Fit(d)
       /\ \A s \in 1..nc : SameSlot(c, d, s)
       /\ \/ d = c
          \/ /\ Len(d.channels) = nc + 1
             /\ d.channels[nc + 1].id = id /\ d.channels[nc + 1].type = type
             /\ ChannelFreq(d, nc + 1) = frequency

(* The new channel is put on its own frequency, and no other one moves.    *)
LEMMA AddKeeps ==
  ASSUME NEW c, ChzOK(c), NEW frequency \in Int, NEW type, NEW id \in Int
  PROVE  Added(c, channelizer_add_channel(c, frequency, type, id), frequency, type, id)
<1>1. PICK S0 : c \in ChzSet(S0) BY DEF ChzOK
<1> DEFINE split == Split(type, c.rate)
           found == find_or_create_band(c, frequency, type, split.s1)
           slot == Len(c.channels) + 1
           nb == Len(c.bands)
           nc == Len(c.channels)
           d == channelizer_add_channel(c, frequency, type, id)
           band == found.bands[found.b]
           new == [id |-> id, type |-> type, band |-> found.b,
                   nco |-> frequency - band.center,
                   step |-> (frequency - band.center) * band.s1, s2 |-> split.s2]
           B == [found.bands EXCEPT ![found.b].members = Append(@, slot)]
           H == Append(c.channels, new)
           S == S0 \cup {type, modulation_family(type), split.s2}
<1>2. c \in ChzSet(S)
  <2>1. S0 \subseteq S OBVIOUS
  <2> HIDE DEF S
  <2> QED BY <1>1, <2>1, ChzSetGrows
<1>3. IF slot > MAX_CHANNELS \/ found.b = 0 THEN d = c
      ELSE d = [c EXCEPT !.bands = B, !.channels = H]
  BY DEF channelizer_add_channel
<1>4. \/ found.b = 0
      \/ /\ found.b \in 1..nb /\ found.bands = c.bands
         /\ CompatibleBand(c, found.b, frequency, type, split.s1)
      \/ /\ found.b = nb + 1
         /\ found.bands = Append(c.bands, init_band(c, frequency, type, split.s1))
  BY <1>2, FoundBand
<1> DEFINE b0 == init_band(c, frequency, type, split.s1)
<1>5. /\ b0 \in BandSet(S) /\ b0.center = frequency /\ b0.nco = frequency - c.center
      /\ b0.members = <<>> /\ b0.inter = c.rate \div split.s1 /\ b0.inter \in Int
  <2>1. c.center \in Int /\ c.rate \in Int BY <1>2, ChzFields
  <2>2. b0 = [center |-> frequency, nco |-> frequency - c.center, s1 |-> split.s1,
              inter |-> c.rate \div split.s1, family |-> modulation_family(type),
              members |-> <<>>]
    BY DEF init_band
  <2>3. /\ split.s1 \in Int /\ c.rate \div split.s1 \in Int /\ modulation_family(type) \in S
        /\ frequency - c.center \in Int /\ <<>> \in Seq(Nat)
    BY <2>1, SplitWhole
  <2> HIDE DEF b0, split, S
  <2> QED BY <2>2, <2>3 DEF BandSet
<1>6. type \in S /\ split.s2 \in S OBVIOUS
<1> HIDE DEF split, found, S, b0, d
<1>7. CASE d = c
  <2>1. \A s \in 1..nc : SameSlot(c, d, s) BY <1>7 DEF SameSlot
  <2>2. Added(c, d, frequency, type, id) BY <1>7, <2>1 DEF Added
  <2> QED BY <2>2 DEF d
<1>8. CASE d # c
  <2>1. found.b # 0 /\ d = [c EXCEPT !.bands = B, !.channels = H] BY <1>3, <1>8
  <2>2. /\ c.center \in Int /\ nb \in Nat /\ nc \in Nat
        /\ c.bands \in Seq(BandSet(S)) /\ c.channels \in Seq(ChannelSet(S))
        /\ \A b \in 1..nb : /\ c.bands[b] \in BandSet(S) /\ c.bands[b].center \in Int
                            /\ c.bands[b].members \in Seq(Nat) /\ c.bands[b].inter \in Int
    BY <1>2, ChzFields
  <2>3. /\ \A b \in 1..nb : BandOK(c, b)
        /\ \A s \in 1..nc : c.channels[s].band \in 1..nb /\ StepOK(c, s)
    BY DEF ChzOK
  (* The bands, before the new channel becomes a member. *)
  <2> DEFINE F == found.bands
             fb == found.b
  <2>4. /\ F \in Seq(BandSet(S)) /\ fb \in 1..Len(F) /\ Len(F) \in Nat /\ Len(F) >= nb
        /\ \A b \in 1..nb : F[b] = c.bands[b]
        /\ \A b \in 1..Len(F) :
              /\ F[b] \in BandSet(S) /\ F[b].center \in Int /\ F[b].members \in Seq(Nat)
              /\ F[b].nco = F[b].center - c.center
              /\ b # fb => Len(F[b].members) > 0
              /\ \A m \in 1..Len(F[b].members) : F[b].members[m] \in 1..nc
    <3>1. CASE fb \in 1..nb /\ F = c.bands
      <4>1. F \in Seq(BandSet(S)) /\ Len(F) = nb BY <2>2, <3>1
      <4>2. ASSUME NEW b \in 1..nb
            PROVE  /\ F[b] \in BandSet(S) /\ F[b].center \in Int /\ F[b].members \in Seq(Nat)
                   /\ F[b].nco = F[b].center - c.center
                   /\ Len(F[b].members) > 0
                   /\ \A m \in 1..Len(F[b].members) : F[b].members[m] \in 1..nc
        BY <2>2, <2>3, <3>1 DEF BandOK
      <4> HIDE DEF F, fb
      <4> QED BY <2>2, <3>1, <4>1, <4>2
    <3>2. CASE fb = nb + 1 /\ F = Append(c.bands, b0)
      <4>1. /\ F \in Seq(BandSet(S)) /\ Len(F) = nb + 1 /\ F[nb + 1] = b0
            /\ \A b \in 1..nb : F[b] = c.bands[b]
        BY <1>5, <2>2, <3>2
      <4>2. ASSUME NEW b \in 1..nb
            PROVE  /\ F[b] \in BandSet(S) /\ F[b].center \in Int /\ F[b].members \in Seq(Nat)
                   /\ F[b].nco = F[b].center - c.center
                   /\ Len(F[b].members) > 0
                   /\ \A m \in 1..Len(F[b].members) : F[b].members[m] \in 1..nc
        BY <2>2, <2>3, <4>1 DEF BandOK
      <4>3. /\ b0.center \in Int /\ b0.members \in Seq(Nat) /\ Len(b0.members) = 0
            /\ b0.nco = b0.center - c.center
        BY <1>5
      <4>4. \A b \in 1..(nb + 1) : b \in 1..nb \/ b = nb + 1 BY <2>2
      <4>5. nb + 1 \in 1..(nb + 1) /\ nb + 1 >= nb /\ nb + 1 \in Nat BY <2>2
      <4> HIDE DEF F, fb
      <4>6. ASSUME NEW b \in 1..(nb + 1)
            PROVE  /\ F[b] \in BandSet(S) /\ F[b].center \in Int /\ F[b].members \in Seq(Nat)
                   /\ F[b].nco = F[b].center - c.center
                   /\ b # fb => Len(F[b].members) > 0
                   /\ \A m \in 1..Len(F[b].members) : F[b].members[m] \in 1..nc
        <5>1. CASE b \in 1..nb BY <4>2, <5>1
        <5>2. CASE b = nb + 1
          <6>1. F[b] = b0 BY <4>1, <5>2
          <6>2. \A m \in 1..Len(b0.members) : b0.members[m] \in 1..nc BY <4>3
          <6> QED BY <1>5, <3>2, <4>3, <5>2, <6>1, <6>2
        <5> QED BY <4>4, <5>1, <5>2
      <4> QED BY <3>2, <4>1, <4>5, <4>6
    <3> QED BY <1>4, <2>1, <3>1, <3>2 DEF b0
  <2> DEFINE x == [F[fb] EXCEPT !.members = Append(@, slot)]
             M == F[fb].members
  <2>5. /\ M \in Seq(Nat) /\ slot \in Nat /\ slot = nc + 1
        /\ Append(M, slot) \in Seq(Nat) /\ Len(Append(M, slot)) = Len(M) + 1
        /\ Len(M) \in Nat
        /\ \A m \in 1..Len(M) : Append(M, slot)[m] = M[m]
        /\ Append(M, slot)[Len(M) + 1] = slot
    <3>1. M \in Seq(Nat) /\ slot \in Nat BY <2>2, <2>4
    <3> HIDE DEF M, slot
    <3>2. /\ Append(M, slot) \in Seq(Nat) /\ Len(Append(M, slot)) = Len(M) + 1
          /\ Len(M) \in Nat
          /\ \A m \in 1..Len(M) : Append(M, slot)[m] = M[m]
          /\ Append(M, slot)[Len(M) + 1] = slot
      BY <3>1
    <3> QED BY <3>1, <3>2 DEF slot
  <2>6. /\ x \in BandSet(S) /\ x.members = Append(M, slot)
        /\ x.nco = F[fb].nco /\ x.center = F[fb].center /\ x.inter = F[fb].inter
        /\ x.s1 = F[fb].s1
    <3> DEFINE y == F[fb]
               Q == Append(M, slot)
    <3>1. y \in BandSet(S) /\ Q \in Seq(Nat) BY <2>4, <2>5
    <3>2. x = [y EXCEPT !.members = Q] OBVIOUS
    <3> HIDE DEF y, Q, x
    <3>3. /\ [y EXCEPT !.members = Q] \in BandSet(S) /\ [y EXCEPT !.members = Q].members = Q
          /\ [y EXCEPT !.members = Q].nco = y.nco /\ [y EXCEPT !.members = Q].center = y.center
          /\ [y EXCEPT !.members = Q].inter = y.inter
          /\ [y EXCEPT !.members = Q].s1 = y.s1
      BY <3>1 DEF BandSet
    <3> QED BY <3>2, <3>3 DEF y, Q
  <2>7. B = [F EXCEPT ![fb] = x] OBVIOUS
  <2>8. new \in ChannelSet(S) /\ new.id = id /\ new.type = type /\ new.band = fb
        /\ new.nco = frequency - F[fb].center /\ new.step = new.nco * F[fb].s1
    <3> DEFINE n == frequency - F[fb].center
               t == n * F[fb].s1
    <3>1. n \in Int /\ fb \in Nat /\ F[fb].s1 \in Int
      <4> DEFINE y == F[fb]
      <4>1. y \in BandSet(S) /\ y.center \in Int /\ fb \in Nat BY <2>4
      <4>2. n = frequency - y.center OBVIOUS
      <4> HIDE DEF y, n
      <4>3. y.s1 \in Int BY <4>1 DEF BandSet
      <4> QED BY <4>1, <4>2, <4>3 DEF y
    <3>2. t \in Int
      <4> HIDE DEF n
      <4> QED BY <3>1
    <3>3. new = [id |-> id, type |-> type, band |-> fb, nco |-> n, step |-> t,
                 s2 |-> split.s2]
      OBVIOUS
    <3> HIDE DEF n, t, new, fb
    <3>4. new \in ChannelSet(S) BY <1>6, <3>1, <3>2, <3>3 DEF ChannelSet
    <3>5. new.id = id /\ new.type = type /\ new.band = fb /\ new.nco = n /\ new.step = t
      BY <3>3
    <3> QED BY <3>4, <3>5 DEF n, t
  <2> HIDE DEF F, fb, x, M, slot, B, new
  <2>9. /\ B \in Seq(BandSet(S)) /\ Len(B) = Len(F) /\ B[fb] = x
        /\ \A b \in 1..Len(F) : b # fb => B[b] = F[b]
    BY <2>4, <2>6, <2>7
  <2>10. /\ H \in Seq(ChannelSet(S)) /\ Len(H) = nc + 1 /\ H[nc + 1] = new
         /\ \A s \in 1..nc : H[s] = c.channels[s]
    BY <2>2, <2>8
  <2> HIDE DEF H
  <2>11. d \in ChzSet(S) /\ d.center = c.center /\ d.rate = c.rate /\ d.bands = B /\ d.channels = H
    BY <1>2, <2>1, <2>9, <2>10 DEF ChzSet
  <2>12. \A b \in 1..Len(F) : /\ B[b].center = F[b].center /\ B[b].nco = F[b].nco
                                /\ B[b].inter = F[b].inter /\ B[b].s1 = F[b].s1
    BY <2>6, <2>9
  <2>13. ASSUME NEW b \in 1..Len(F) PROVE BandOK(d, b)
    <3>1. d.bands[b].nco = d.bands[b].center - d.center BY <2>4, <2>11, <2>12
    <3>2. CASE b = fb
      <4>1. d.bands[b].members = Append(M, slot) BY <2>6, <2>9, <2>11, <3>2
      <4>2. ASSUME NEW m \in 1..(Len(M) + 1) PROVE Append(M, slot)[m] \in 1..(nc + 1)
        <5>1. CASE m = Len(M) + 1 BY <2>2, <2>5, <5>1
        <5>2. CASE m # Len(M) + 1
          <6>1. m \in 1..Len(M) BY <2>5, <5>2
          <6>2. M[m] \in 1..nc BY <2>4, <6>1 DEF M
          <6> QED BY <2>2, <2>5, <6>1, <6>2
        <5> QED BY <5>1, <5>2
      <4>3. Len(Append(M, slot)) > 0 /\ Len(Append(M, slot)) = Len(M) + 1 BY <2>5
      <4> QED BY <2>10, <2>11, <3>1, <4>1, <4>2, <4>3 DEF BandOK
    <3>3. CASE b # fb
      <4>1. d.bands[b].members = F[b].members BY <2>9, <2>11, <3>3
      <4>2. Len(F[b].members) > 0 /\ \A m \in 1..Len(F[b].members) : F[b].members[m] \in 1..nc
        BY <2>4, <3>3
      <4>3. \A m \in 1..Len(F[b].members) : F[b].members[m] \in 1..(nc + 1)
        BY <2>2, <4>2
      <4> QED BY <2>10, <2>11, <3>1, <4>1, <4>2, <4>3 DEF BandOK
    <3> QED BY <3>2, <3>3
  <2>14. ASSUME NEW s \in 1..(nc + 1) PROVE H[s].band \in 1..Len(F)
    <3>1. CASE s = nc + 1 BY <2>4, <2>8, <2>10, <3>1
    <3>2. CASE s # nc + 1
      <4>1. s \in 1..nc BY <2>2, <3>2
      <4> QED BY <2>2, <2>3, <2>4, <2>10, <4>1
    <3> QED BY <3>1, <3>2
  <2>15. ChzOK(d)
    <3>1. ASSUME NEW s \in 1..(nc + 1) PROVE StepOK(d, s)
      <4>1. CASE s = nc + 1
        <5>1. d.channels[s] = new /\ d.bands[fb].s1 = F[fb].s1
          BY <2>4, <2>10, <2>11, <2>12, <4>1
        <5> QED BY <2>8, <5>1 DEF StepOK
      <4>2. CASE s # nc + 1
        <5> DEFINE b == c.channels[s].band
        <5>1. s \in 1..nc BY <2>2, <4>2
        <5>2. StepOK(c, s) /\ b \in 1..nb /\ d.channels[s] = c.channels[s]
          BY <2>3, <2>10, <2>11, <5>1
        <5>3. b \in 1..Len(F) BY <2>2, <2>4, <5>2
        <5> HIDE DEF nb
        <5>4. d.bands[b].s1 = c.bands[b].s1 BY <2>4, <2>11, <2>12, <5>2, <5>3
        <5> QED BY <5>2, <5>4 DEF StepOK
      <4> QED BY <4>1, <4>2
    <3> QED BY <2>9, <2>10, <2>11, <2>13, <2>14, <3>1 DEF ChzOK
  <2>16. ASSUME NEW s \in 1..nc PROVE SameSlot(c, d, s)
    <3>1. d.channels[s] = c.channels[s] BY <2>10, <2>11
    <3>2. c.channels[s].band \in 1..nb BY <2>3
    <3>3. d.bands[c.channels[s].band].center = c.bands[c.channels[s].band].center
      <4> DEFINE b == c.channels[s].band
      <4>1. b \in 1..nb /\ b \in 1..Len(F) BY <2>2, <2>4, <3>2
      <4> HIDE DEF b, nb
      <4>2. F[b] = c.bands[b] BY <2>4, <4>1
      <4>3. d.bands[b].center = F[b].center BY <2>11, <2>12, <4>1
      <4> QED BY <4>2, <4>3 DEF b
    <3> QED BY <3>1, <3>3 DEF SameSlot, ChannelFreq
  <2>17. ChannelFreq(d, nc + 1) = frequency
    <3>1. d.channels[nc + 1] = new BY <2>10, <2>11
    <3>2. d.bands[fb].center = F[fb].center /\ F[fb].center \in Int BY <2>4, <2>11, <2>12
    <3>3. ChannelFreq(d, nc + 1) = d.bands[new.band].center + new.nco
      BY <3>1 DEF ChannelFreq
    <3>4. new.band = fb /\ new.nco = frequency - F[fb].center BY <2>8
    <3>5. ChannelFreq(d, nc + 1) = d.bands[fb].center + (frequency - F[fb].center)
      BY <3>3, <3>4
    <3> QED BY <3>2, <3>5
  <2>18. /\ Len(d.channels) = nc + 1
         /\ d.channels[nc + 1].id = id /\ d.channels[nc + 1].type = type
    BY <2>8, <2>10, <2>11
  <2>19. ASSUME type \in AeroTypes, Fit(c) PROVE Fit(d)
    <3>1. ASSUME NEW s \in 1..nc PROVE FitSlot(d, s)
      <4> DEFINE b == c.channels[s].band
      <4>1. b \in 1..nb /\ b \in 1..Len(F) BY <2>2, <2>3, <2>4
      <4>2. d.channels[s] = c.channels[s] BY <2>10, <2>11
      <4>3. FitSlot(c, s) BY <2>19 DEF Fit
      <4> HIDE DEF nb
      <4>4. d.bands[b].inter = c.bands[b].inter BY <2>4, <2>11, <2>12, <4>1
      <4> QED BY <4>2, <4>3, <4>4 DEF FitSlot
    <3>2. FitSlot(d, nc + 1)
      <4> DEFINE R == c.rate \div split.s1
      <4>1. c.rate \in Int BY <1>2, ChzFields
      <4>2. R \in Int /\ R >= 200000
        <5>1. c.rate >= 200000 BY <2>19 DEF Fit, FastRate, target_intermediate_rate
        <5> QED BY <4>1, <5>1, SplitWhole DEF split
      <4>3. /\ d.channels[nc + 1].nco = frequency - F[fb].center
            /\ d.channels[nc + 1].type = type /\ d.channels[nc + 1].band = fb
            /\ d.bands[fb].inter = F[fb].inter
        BY <2>4, <2>8, <2>10, <2>11, <2>12
      <4> HIDE DEF R
      <4>4. CASE fb \in 1..nb /\ F = c.bands /\ CompatibleBand(c, fb, frequency, type, split.s1)
        <5>1. /\ Abs(c.bands[fb].inter - R) <= R \div 100
              /\ Abs(c.bands[fb].center - frequency) <= (R * 2) \div 5
          BY <4>4 DEF CompatibleBand, R
        <5>2. c.bands[fb].inter \in Int /\ c.bands[fb].center \in Int BY <2>2, <4>4
        <5>3. Abs(frequency - c.bands[fb].center) = Abs(c.bands[fb].center - frequency)
          BY <5>2 DEF Abs
        <5> DEFINE n == frequency - c.bands[fb].center
                   j == c.bands[fb].inter
        <5>4. /\ n \in Int /\ j \in Int /\ Abs(j - R) <= R \div 100
              /\ Abs(n) <= (R * 2) \div 5
          BY <5>1, <5>2, <5>3
        <5> HIDE DEF n, j
        <5>5. 2 * Abs(n) + signal_bandwidth(type) <= j BY <2>19, <4>2, <5>4, RoomInBand
        <5> QED BY <4>3, <4>4, <5>5 DEF FitSlot, n, j
      <4>5. CASE fb = nb + 1 /\ F = Append(c.bands, b0)
        <5>1. F[fb] = b0 BY <1>5, <2>2, <4>5
        <5>2. F[fb].inter = R /\ frequency - F[fb].center = 0 BY <1>5, <5>1 DEF R
        <5> DEFINE n == frequency - F[fb].center
                   j == F[fb].inter
        <5>3. n \in Int /\ j \in Int /\ j = R /\ n = 0 BY <4>2, <5>2
        <5> HIDE DEF n, j
        <5>4. Abs(n) = 0 BY <5>3 DEF Abs
        <5>5. signal_bandwidth(type) \in Int /\ signal_bandwidth(type) <= 21000
          BY <2>19, SignalWidth
        <5>6. 2 * Abs(n) + signal_bandwidth(type) <= j BY <4>2, <5>3, <5>4, <5>5
        <5> QED BY <4>3, <5>6 DEF FitSlot, n, j
      <4> QED BY <1>4, <2>1, <4>4, <4>5 DEF F, fb, b0
    <3>3. ASSUME NEW s \in 1..(nc + 1) PROVE FitSlot(d, s)
      <4>1. CASE s = nc + 1 BY <3>2, <4>1
      <4>2. CASE s # nc + 1
        <5>1. s \in 1..nc BY <2>2, <4>2
        <5> QED BY <3>1, <5>1
      <4> QED BY <4>1, <4>2
    <3> QED BY <2>10, <2>11, <2>19, <3>3 DEF Fit
  <2>20. Added(c, d, frequency, type, id)
    BY <2>11, <2>15, <2>16, <2>17, <2>18, <2>19 DEF Added
  <2> QED BY <2>20 DEF d
<1> QED BY <1>7, <1>8

(* The channel in slot s is the one asked for as a.                        *)
IsOf(c, s, a) ==
    c.channels[s].id = a.id /\ c.channels[s].type = a.type /\ ChannelFreq(c, s) = a.frequency

Matched(c, A) ==
    /\ \A s \in 1..Len(c.channels) : \E a \in A : IsOf(c, s, a)
    /\ \A a \in A : \E s \in 1..Len(c.channels) : IsOf(c, s, a)

(* What was asked for, with `next` the next id.                            *)
AskedOK(A, next) ==
    /\ next \in Int /\ next >= FirstDynamicId
    /\ \A a \in A : a.id \in Int /\ a.id < next /\ a.frequency \in Int
    /\ \A a, b \in A :
          /\ a.id = b.id => a = b
          /\ a # b /\ a.id >= FirstDynamicId => Abs(a.frequency - b.frequency) >= 5000

DemodsOK(jaero, A) ==
    /\ \E T : jaero \in Seq([id : Int, baud : T])
    /\ \A i, j \in 1..Len(jaero) : jaero[i].id = jaero[j].id => i = j
    /\ \A i \in 1..Len(jaero) : \E a \in A : a.id = jaero[i].id /\ a.type = jaero[i].baud

(* The state that process_block works on; k is the planned centre.         *)
BlockSt(c, jaero, cl, next, A, corr) ==
    [c |-> c, jaero |-> jaero, cal |-> cl, next |-> next, asked |-> A, corr |-> corr]

StOK(st, k) ==
    /\ st = BlockSt(st.c, st.jaero, st.cal, st.next, st.asked, st.corr)
    /\ ChzOK(st.c) /\ st.corr \in Int /\ st.c.center = k - st.corr
    /\ Matched(st.c, st.asked) /\ AskedOK(st.asked, st.next) /\ DemodsOK(st.jaero, st.asked)

(* What the loop never undoes: channels and what was asked for only get    *)
(* more, the rate stays, and signals that fit their bands stay inside.     *)
Kept(st, st2) ==
    /\ Len(st2.c.channels) >= Len(st.c.channels) /\ st.asked \subseteq st2.asked
    /\ st2.c.rate = st.c.rate /\ (Fit(st.c) => Fit(st2.c))

(* A slot that stays on its frequency stays what was asked for.            *)
LEMMA SameIsOf ==
  ASSUME NEW c, NEW d, NEW s, NEW a, SameSlot(c, d, s)
  PROVE  IsOf(d, s, a) <=> IsOf(c, s, a)
BY DEF SameSlot, IsOf

(* An announcement that becomes a channel is 5 kHz from all others.        *)
LEMMA TryAddKeeps ==
  ASSUME NEW k \in Int, NEW st, StOK(st, k), NEW frequency \in Int
  PROVE  LET st2 == try_add_dynamic_channel(st, frequency)
         IN StOK(st2, k) /\ Kept(st, st2)
<1> DEFINE st2 == try_add_dynamic_channel(st, frequency)
           type == GuessType(frequency)
           d == channelizer_add_channel(st.c, frequency, type, st.next)
           a0 == [id |-> st.next, frequency |-> frequency, type |-> type]
           nc == Len(st.c.channels)
<1>1. /\ ChzOK(st.c) /\ st.corr \in Int /\ st.c.center = k - st.corr
      /\ Matched(st.c, st.asked) /\ AskedOK(st.asked, st.next) /\ DemodsOK(st.jaero, st.asked)
      /\ st = BlockSt(st.c, st.jaero, st.cal, st.next, st.asked, st.corr)
  BY DEF StOK
<1>2. st.next \in Int /\ st.next >= FirstDynamicId BY <1>1 DEF AskedOK
<1>3. nc \in Nat /\ DOMAIN st.c.channels = 1..nc
  <2>1. PICK S : st.c \in ChzSet(S) BY <1>1 DEF ChzOK
  <2> QED BY <2>1, ChzFields
<1>4. CASE st2 = st
  <2>1. Kept(st, st) BY <1>3 DEF Kept
  <2> QED BY <1>4, <2>1 DEF st2
<1>5. CASE st2 # st
  <2>1. /\ ~channelizer_has_freq(st.c, frequency, 5000)
        /\ st2 = [st EXCEPT !.c = d, !.next = @ + 1,
                            !.asked = IF d = st.c THEN @ ELSE @ \cup {a0}]
    BY <1>5 DEF try_add_dynamic_channel
  <2>2. /\ ChzOK(d) /\ d.center = st.c.center /\ d.rate = st.c.rate /\ (Fit(st.c) => Fit(d))
        /\ \A s \in 1..nc : SameSlot(st.c, d, s)
        /\ \/ d = st.c
           \/ /\ Len(d.channels) = nc + 1
              /\ d.channels[nc + 1].id = st.next /\ d.channels[nc + 1].type = type
              /\ ChannelFreq(d, nc + 1) = frequency
    <3>1. type \in AeroTypes BY DEF GuessType, AeroTypes
    <3> HIDE DEF type
    <3>2. Added(st.c, d, frequency, type, st.next) BY <1>1, <1>2, AddKeeps
    <3> HIDE DEF d
    <3> QED BY <3>1, <3>2 DEF Added
  <2> DEFINE A2 == IF d = st.c THEN st.asked ELSE st.asked \cup {a0}
  <2>3. st2 = BlockSt(d, st.jaero, st.cal, st.next + 1, A2, st.corr)
    <3>1. st2 = [st EXCEPT !.c = d, !.next = st.next + 1, !.asked = A2] BY <2>1
    <3> HIDE DEF st2, d, A2
    <3> QED BY <1>1, <3>1 DEF BlockSt
  <2>4. /\ st2.c = d /\ st2.jaero = st.jaero /\ st2.cal = st.cal /\ st2.next = st.next + 1
        /\ st2.asked = A2 /\ st2.corr = st.corr
    BY <2>3 DEF BlockSt
  <2>5. CASE d = st.c
    <3>1. A2 = st.asked BY <2>5
    <3>2. AskedOK(st.asked, st.next + 1) BY <1>1, <1>2 DEF AskedOK, FirstDynamicId
    <3> HIDE DEF st2, A2, d
    <3>3. StOK(st2, k) BY <1>1, <2>3, <2>4, <2>5, <3>1, <3>2 DEF StOK
    <3>4. Kept(st, st2) BY <1>3, <2>4, <2>5, <3>1 DEF Kept
    <3> QED BY <3>3, <3>4 DEF st2
  <2>6. CASE d # st.c
    <3>1. A2 = st.asked \cup {a0} BY <2>6
    <3>2. a0.id = st.next /\ a0.frequency = frequency /\ a0.type = type OBVIOUS
    <3>3. /\ Len(d.channels) = nc + 1
          /\ IsOf(d, nc + 1, a0)
      BY <2>2, <2>6, <3>2 DEF IsOf
    <3> HIDE DEF a0, d, st2, A2
    <3>4. ASSUME NEW a \in st.asked
          PROVE  /\ a.id # a0.id /\ a.frequency \in Int /\ a.id \in Int /\ a.id < st.next
                 /\ ~(Abs(a.frequency - frequency) < 5000)
      <4>1. a.id < st.next /\ a.id \in Int /\ a.frequency \in Int BY <1>1 DEF AskedOK
      <4>2. PICK s \in 1..nc : IsOf(st.c, s, a) BY <1>1 DEF Matched
      <4>3. ~(Abs(ChannelFreq(st.c, s) - frequency) < 5000)
        BY <1>3, <2>1 DEF channelizer_has_freq
      <4> QED BY <1>2, <3>2, <4>1, <4>2, <4>3 DEF IsOf
    <3>5. Matched(d, A2)
      <4>1. ASSUME NEW s \in 1..(nc + 1) PROVE \E a \in A2 : IsOf(d, s, a)
        <5>1. CASE s = nc + 1 BY <3>1, <3>3, <5>1
        <5>2. CASE s # nc + 1
          <6>1. s \in 1..nc BY <1>3, <5>2
          <6>2. PICK a \in st.asked : IsOf(st.c, s, a) BY <1>1, <6>1 DEF Matched
          <6> QED BY <2>2, <3>1, <6>1, <6>2, SameIsOf
        <5> QED BY <5>1, <5>2
      <4>2. ASSUME NEW a \in A2 PROVE \E s \in 1..(nc + 1) : IsOf(d, s, a)
        <5>1. CASE a = a0
          <6>1. nc + 1 \in 1..(nc + 1) BY <1>3
          <6> QED BY <3>3, <5>1, <6>1
        <5>2. CASE a \in st.asked
          <6>1. PICK s \in 1..nc : IsOf(st.c, s, a) BY <1>1, <5>2 DEF Matched
          <6>2. s \in 1..(nc + 1) BY <1>3
          <6>3. IsOf(d, s, a) BY <2>2, <6>1, SameIsOf
          <6> QED BY <6>2, <6>3
        <5> QED BY <3>1, <5>1, <5>2
      <4> QED BY <3>3, <4>1, <4>2 DEF Matched
    <3>6. AskedOK(A2, st.next + 1)
      <4>1. st.next + 1 \in Int /\ st.next + 1 >= FirstDynamicId
        BY <1>2 DEF FirstDynamicId
      <4>2. ASSUME NEW a \in A2
            PROVE  a.id \in Int /\ a.id < st.next + 1 /\ a.frequency \in Int
        <5>1. CASE a = a0 BY <1>2, <3>2, <5>1
        <5>2. CASE a \in st.asked BY <1>2, <3>4, <5>2
        <5> QED BY <3>1, <5>1, <5>2
      <4>3. ASSUME NEW a \in A2, NEW b \in A2
            PROVE  /\ a.id = b.id => a = b
                   /\ a # b /\ a.id >= FirstDynamicId =>
                        Abs(a.frequency - b.frequency) >= 5000
        <5>1. CASE a \in st.asked /\ b \in st.asked BY <1>1, <5>1 DEF AskedOK
        <5>2. CASE a = a0 /\ b \in st.asked
          <6>1. b.frequency \in Int /\ ~(Abs(b.frequency - frequency) < 5000) /\ b.id # a0.id
            BY <3>4, <5>2
          <6>2. Abs(frequency - b.frequency) >= 5000 BY <6>1 DEF Abs
          <6> QED BY <3>2, <5>2, <6>1, <6>2
        <5>3. CASE b = a0 /\ a \in st.asked
          <6>1. a.frequency \in Int /\ ~(Abs(a.frequency - frequency) < 5000) /\ a.id # a0.id
            BY <3>4, <5>3
          <6>2. Abs(a.frequency - frequency) >= 5000 BY <6>1 DEF Abs
          <6> QED BY <3>2, <5>3, <6>1, <6>2
        <5>4. CASE a = a0 /\ b = a0 BY <5>4
        <5> QED BY <3>1, <5>1, <5>2, <5>3, <5>4
      <4> QED BY <4>1, <4>2, <4>3 DEF AskedOK
    <3>7. DemodsOK(st.jaero, A2) BY <1>1, <3>1 DEF DemodsOK
    <3>8. StOK(st2, k) BY <1>1, <2>2, <2>3, <2>4, <3>5, <3>6, <3>7 DEF StOK
    <3>9. Kept(st, st2) BY <1>3, <2>2, <2>4, <3>1, <3>3 DEF Kept
    <3> QED BY <3>8, <3>9 DEF st2
  <2> QED BY <2>5, <2>6
<1> QED BY <1>4, <1>5

(* The calibration corrects the channelizer and what is known of it alike. *)
LEMMA CalibrateKeeps ==
  ASSUME NEW k \in Int, NEW st, StOK(st, k), NEW ch, NEW offset \in Int
  PROVE  LET st2 == Calibrate(st, ch, offset)
         IN /\ StOK(st2, k) /\ Len(st2.c.channels) = Len(st.c.channels)
            /\ st2.asked = st.asked /\ st2.c.rate = st.c.rate /\ (Fit(st.c) => Fit(st2.c))
<1> DEFINE st2 == Calibrate(st, ch, offset)
           chosen == IF st.cal = NotYet /\ ch.type \in {"600", "1200"} THEN ch.id
                     ELSE st.cal
           d == channelizer_adjust_center(st.c, offset)
<1>1. /\ ChzOK(st.c) /\ st.corr \in Int /\ st.c.center = k - st.corr
      /\ Matched(st.c, st.asked) /\ AskedOK(st.asked, st.next) /\ DemodsOK(st.jaero, st.asked)
      /\ st = BlockSt(st.c, st.jaero, st.cal, st.next, st.asked, st.corr)
  BY DEF StOK
<1>2. \/ st2 = st
      \/ st2 = [st EXCEPT !.cal = chosen]
      \/ st2 = [st EXCEPT !.cal = Done,
                  !.c = IF Abs(offset) > 50 THEN channelizer_adjust_center(@, offset) ELSE @,
                  !.corr = IF Abs(offset) > 50 THEN @ + offset ELSE @]
  BY DEF Calibrate
<1>3. \/ \E cl : st2 = BlockSt(st.c, st.jaero, cl, st.next, st.asked, st.corr)
      \/ st2 = BlockSt(d, st.jaero, Done, st.next, st.asked, st.corr + offset)
  <2>1. CASE st2 = st BY <1>1, <2>1
  <2>2. CASE st2 = [st EXCEPT !.cal = chosen]
    <3>1. st2 = BlockSt(st.c, st.jaero, chosen, st.next, st.asked, st.corr)
      BY <1>1, <2>2 DEF BlockSt
    <3> QED BY <3>1
  <2>3. CASE st2 = [st EXCEPT !.cal = Done,
                  !.c = IF Abs(offset) > 50 THEN channelizer_adjust_center(@, offset) ELSE @,
                  !.corr = IF Abs(offset) > 50 THEN @ + offset ELSE @]
    <3>1. CASE Abs(offset) > 50
      <4>1. st2 = BlockSt(d, st.jaero, Done, st.next, st.asked, st.corr + offset)
        BY <1>1, <2>3, <3>1 DEF BlockSt
      <4> QED BY <4>1
    <3>2. CASE ~(Abs(offset) > 50)
      <4>1. st2 = BlockSt(st.c, st.jaero, Done, st.next, st.asked, st.corr)
        BY <1>1, <2>3, <3>2 DEF BlockSt
      <4> QED BY <4>1
    <3> QED BY <3>1, <3>2
  <2> QED BY <1>2, <2>1, <2>2, <2>3
<1>4. ASSUME NEW cl, st2 = BlockSt(st.c, st.jaero, cl, st.next, st.asked, st.corr)
      PROVE  /\ StOK(st2, k) /\ Len(st2.c.channels) = Len(st.c.channels)
             /\ st2.asked = st.asked /\ st2.c.rate = st.c.rate /\ (Fit(st.c) => Fit(st2.c))
  <2> HIDE DEF st2
  <2>1. /\ st2.c = st.c /\ st2.jaero = st.jaero /\ st2.cal = cl /\ st2.next = st.next
        /\ st2.asked = st.asked /\ st2.corr = st.corr
    BY <1>4 DEF BlockSt
  <2> QED BY <1>1, <1>4, <2>1 DEF StOK
<1>5. ASSUME st2 = BlockSt(d, st.jaero, Done, st.next, st.asked, st.corr + offset)
      PROVE  /\ StOK(st2, k) /\ Len(st2.c.channels) = Len(st.c.channels)
             /\ st2.asked = st.asked /\ st2.c.rate = st.c.rate /\ (Fit(st.c) => Fit(st2.c))
  <2>1. /\ ChzOK(d) /\ d.center = st.c.center - offset /\ d.rate = st.c.rate
        /\ (Fit(st.c) => Fit(d))
        /\ Len(d.channels) = Len(st.c.channels)
        /\ \A s \in 1..Len(st.c.channels) : SameSlot(st.c, d, s)
    BY <1>1, AdjustKeeps
  <2> HIDE DEF st2, d
  <2>2. /\ st2.c = d /\ st2.jaero = st.jaero /\ st2.cal = Done /\ st2.next = st.next
        /\ st2.asked = st.asked /\ st2.corr = st.corr + offset
    BY <1>5 DEF BlockSt
  <2>3. Matched(d, st.asked)
    <3>1. \A s \in 1..Len(st.c.channels), a \in st.asked : IsOf(d, s, a) <=> IsOf(st.c, s, a)
      BY <2>1, SameIsOf
    <3> QED BY <1>1, <2>1, <3>1 DEF Matched
  <2>4. d.center = k - (st.corr + offset) /\ st.corr + offset \in Int BY <1>1, <2>1
  <2> QED BY <1>1, <1>5, <2>1, <2>2, <2>3, <2>4 DEF StOK
<1> QED BY <1>3, <1>4, <1>5

(* A demodulator is made for a channel that was asked for and has none.    *)
LEMMA DemodKeeps ==
  ASSUME NEW k \in Int, NEW st, StOK(st, k), NEW ch, ch.id \in Int,
         \E a \in st.asked : a.id = ch.id /\ a.type = ch.type
  PROVE  LET st2 == DemodFor(st, ch)
         IN StOK(st2, k) /\ st2.c = st.c /\ st2.asked = st.asked
<1> DEFINE st2 == DemodFor(st, ch)
           e == [id |-> ch.id, baud |-> ch.type]
           n == Len(st.jaero)
           J == Append(st.jaero, e)
<1>1. /\ ChzOK(st.c) /\ st.corr \in Int /\ st.c.center = k - st.corr
      /\ Matched(st.c, st.asked) /\ AskedOK(st.asked, st.next) /\ DemodsOK(st.jaero, st.asked)
      /\ st = BlockSt(st.c, st.jaero, st.cal, st.next, st.asked, st.corr)
  BY DEF StOK
<1>2. CASE st2 = st BY <1>2 DEF st2
<1>3. CASE st2 # st
  <2>1. PICK T0 : st.jaero \in Seq([id : Int, baud : T0]) BY <1>1 DEF DemodsOK
  <2>2. n \in Nat /\ DOMAIN st.jaero = 1..n BY <2>1
  <2>3. /\ \A i \in 1..n : st.jaero[i].id # ch.id
        /\ st2 = [st EXCEPT !.jaero = J]
    BY <1>3, <2>2 DEF DemodFor
  <2>4. st2 = BlockSt(st.c, J, st.cal, st.next, st.asked, st.corr)
    BY <1>1, <2>3 DEF BlockSt
  <2>5. /\ st2.c = st.c /\ st2.jaero = J /\ st2.cal = st.cal /\ st2.next = st.next
        /\ st2.asked = st.asked /\ st2.corr = st.corr
    BY <2>4 DEF BlockSt
  <2> DEFINE T == T0 \cup {ch.type}
             R == [id : Int, baud : T]
  <2>6. e \in R /\ e.id = ch.id /\ e.baud = ch.type OBVIOUS
  <2>7. st.jaero \in Seq(R)
    <3>1. [id : Int, baud : T0] \subseteq R OBVIOUS
    <3> HIDE DEF R
    <3> QED BY <2>1, <3>1, LargerSeq
  <2> HIDE DEF e, R
  <2>8. /\ J \in Seq(R) /\ Len(J) = n + 1 /\ J[n + 1] = e
        /\ \A i \in 1..n : J[i] = st.jaero[i]
    BY <2>6, <2>7
  <2> HIDE DEF J, n, st2
  <2>9. DemodsOK(J, st.asked)
    <3>1. \A i \in 1..(n + 1) : i \in 1..n \/ i = n + 1 BY <2>2
    <3>2. Len(st.jaero) = n BY DEF n
    <3>3. ASSUME NEW i \in 1..(n + 1), NEW j \in 1..(n + 1), J[i].id = J[j].id PROVE i = j
      <4>1. CASE i \in 1..n /\ j \in 1..n BY <1>1, <2>8, <3>2, <3>3, <4>1 DEF DemodsOK
      <4>2. CASE i = n + 1 /\ j \in 1..n BY <2>3, <2>6, <2>8, <3>3, <4>2
      <4>3. CASE i \in 1..n /\ j = n + 1 BY <2>3, <2>6, <2>8, <3>3, <4>3
      <4>4. CASE i = n + 1 /\ j = n + 1 BY <4>4
      <4> QED BY <3>1, <4>1, <4>2, <4>3, <4>4
    <3>4. ASSUME NEW i \in 1..(n + 1)
          PROVE  \E a \in st.asked : a.id = J[i].id /\ a.type = J[i].baud
      <4>1. CASE i \in 1..n BY <1>1, <2>8, <3>2, <4>1 DEF DemodsOK
      <4>2. CASE i = n + 1 BY <2>6, <2>8, <4>2
      <4> QED BY <3>1, <4>1, <4>2
    <3>5. \E T1 : J \in Seq([id : Int, baud : T1]) BY <2>8 DEF R
    <3> QED BY <2>8, <3>3, <3>4, <3>5 DEF DemodsOK
  <2>10. StOK(st2, k) BY <1>1, <2>4, <2>5, <2>9 DEF StOK
  <2> QED BY <2>5, <2>10 DEF st2
<1> QED BY <1>2, <1>3

(* One output of one channel, with all that follows from it.               *)
LEMMA OutputKeeps ==
  ASSUME NEW k \in Int, NEW st, StOK(st, k), NEW slot \in 1..Len(st.c.channels),
         NEW announced \in Int, NEW offset \in Int
  PROVE  LET st2 == channel_output_cb(st, slot, announced, offset)
         IN StOK(st2, k) /\ Kept(st, st2)
<1> DEFINE st2 == channel_output_cb(st, slot, announced, offset)
           ch == st.c.channels[slot]
<1>1. PICK S : st.c \in ChzSet(S) BY DEF StOK, ChzOK
<1>2. Len(st.c.channels) \in Nat /\ ch.id \in Int BY <1>1, ChzFields
<1>3. CASE st2 = st
  <2>1. Kept(st, st) BY <1>2 DEF Kept
  <2> QED BY <1>3, <2>1
<1>4. CASE st2 = try_add_dynamic_channel(st, announced)
  <2>1. LET x == try_add_dynamic_channel(st, announced)
        IN StOK(x, k) /\ Kept(st, x)
    BY TryAddKeeps
  <2> QED BY <1>4, <2>1
<1>5. CASE st2 = DemodFor(Calibrate(st, ch, offset), ch)
  <2> DEFINE st1 == Calibrate(st, ch, offset)
  <2>1. /\ StOK(st1, k) /\ Len(st1.c.channels) = Len(st.c.channels)
        /\ st1.asked = st.asked /\ st1.c.rate = st.c.rate /\ (Fit(st.c) => Fit(st1.c))
    BY CalibrateKeeps
  <2>2. \E a \in st.asked : a.id = ch.id /\ a.type = ch.type
    BY DEF StOK, Matched, IsOf
  <2>3. st2 = DemodFor(st1, ch) BY <1>5
  <2> HIDE DEF st1, st2, ch
  <2>4. LET x == DemodFor(st1, ch)
        IN StOK(x, k) /\ x.c = st1.c /\ x.asked = st1.asked
    BY <1>2, <2>1, <2>2, DemodKeeps
  <2>5. Kept(st, st2) BY <1>2, <2>1, <2>3, <2>4 DEF Kept
  <2> QED BY <2>3, <2>4, <2>5 DEF st2
<1>6. \/ st2 = st \/ st2 = try_add_dynamic_channel(st, announced)
      \/ st2 = DemodFor(Calibrate(st, ch, offset), ch)
  BY DEF channel_output_cb
<1> QED BY <1>3, <1>4, <1>5, <1>6

(* One turn of the flush loop.                                             *)
Turn(st, flushed, announced, offset, n) ==
    IF n \in flushed THEN channel_output_cb(st, n, announced, offset) ELSE st

(* g is the recursive function of process_block.                           *)
Turns(g, st, flushed, announced, offset) ==
    /\ g[0] = st
    /\ \A i \in 1..Len(st.c.channels) : g[i] = Turn(g[i - 1], flushed, announced, offset, i)
    /\ process_block(st, flushed, announced, offset) = g[Len(st.c.channels)]

(* The recursive function of process_block exists and computes the turns.  *)
LEMMA BlockSteps ==
  ASSUME NEW st, NEW flushed, NEW announced, NEW offset, Len(st.c.channels) \in Nat
  PROVE  \E g : Turns(g, st, flushed, announced, offset)
<1> DEFINE N == Len(st.c.channels)
           Body(g, i) == IF i = 0 THEN st ELSE Turn(g[i - 1], flushed, announced, offset, i)
           Loop(n, g) == g = [i \in 0..n |-> Body(g, i)]
           P == {n \in 0..N : \E g : Loop(n, g)}
<1>0. N \in Nat OBVIOUS
<1>1. 0 \in P
  <2>1. Loop(0, [i \in 0..0 |-> st]) OBVIOUS
  <2> HIDE DEF Loop, N
  <2> QED BY <1>0, <2>1
<1>2. ASSUME NEW n \in 0..N, n \in P, n < N PROVE n + 1 \in P
  <2> HIDE DEF N
  <2>1. PICK g : Loop(n, g) BY <1>2
  <2> DEFINE h == [i \in 0..(n + 1) |->
                     IF i = n + 1 THEN Turn(g[n], flushed, announced, offset, n + 1)
                     ELSE g[i]]
  <2>2. \A i \in 0..(n + 1) : h[i] = Body(h, i)
    <3> SUFFICES ASSUME NEW i \in 0..(n + 1) PROVE h[i] = Body(h, i) OBVIOUS
    <3>1. CASE i = n + 1 BY <1>0, <3>1
    <3>2. CASE i # n + 1
      <4>1. i \in 0..n BY <3>2
      <4>2. g[i] = Body(g, i)
        <5> HIDE DEF Body, h
        <5> QED BY <2>1, <4>1
      <4>3. i # 0 => h[i - 1] = g[i - 1] BY <4>1
      <4> QED BY <4>1, <4>2, <4>3
    <3> QED BY <3>1, <3>2
  <2>3. Loop(n + 1, h)
    <3>1. h = [i \in 0..(n + 1) |-> h[i]] OBVIOUS
    <3> HIDE DEF h, Body
    <3> QED BY <2>2, <3>1
  <2> HIDE DEF Loop
  <2> QED BY <1>0, <2>3, <1>2
<1>3. N \in P
  <2> HIDE DEF P, N
  <2>1. P \in SUBSET (0..N) BY DEF P
  <2>2. P = 0..N BY <1>0, <1>1, <1>2, <2>1, UpTo
  <2> QED BY <1>0, <2>2
<1>4. PICK g0 : Loop(N, g0) BY <1>3
<1> DEFINE g == CHOOSE f : Loop(N, f)
<1>5. Loop(N, g)
  <2> HIDE DEF Loop
  <2> QED BY <1>4
<1>6. process_block(st, flushed, announced, offset) = g[N]
  BY DEF process_block, Turn
<1>7. g[0] = st /\ \A i \in 1..N : g[i] = Turn(g[i - 1], flushed, announced, offset, i)
  <2> HIDE DEF g
  <2> QED BY <1>0, <1>5
<1> HIDE DEF g
<1>8. Turns(g, st, flushed, announced, offset) BY <1>6, <1>7 DEF Turns
<1> QED BY <1>8

(* The flush loop goes over the slots of the start; more may be added on   *)
(* the way.                                                                *)
LEMMA BlockKeeps ==
  ASSUME NEW k \in Int, NEW st, StOK(st, k), NEW flushed, NEW announced \in Int,
         NEW offset \in Int
  PROVE  LET st2 == process_block(st, flushed, announced, offset)
         IN StOK(st2, k) /\ Kept(st, st2)
<1> DEFINE N == Len(st.c.channels)
<1>1. N \in Nat
  <2>1. PICK S : st.c \in ChzSet(S) BY DEF StOK, ChzOK
  <2> QED BY <2>1, ChzFields
<1>2. PICK g : /\ g[0] = st
               /\ \A i \in 1..N : g[i] = Turn(g[i - 1], flushed, announced, offset, i)
               /\ process_block(st, flushed, announced, offset) = g[N]
  <2>1. PICK g : Turns(g, st, flushed, announced, offset) BY <1>1, BlockSteps
  <2> QED BY <2>1 DEF Turns
<1> DEFINE Q(x) == StOK(x, k) /\ Len(x.c.channels) \in Nat /\ Kept(st, x)
           P == {n \in 0..N : Q(g[n])}
<1>3. 0 \in P
  <2>1. Kept(st, st) BY <1>1 DEF Kept
  <2> QED BY <1>1, <1>2, <2>1
<1>4. ASSUME NEW n \in 0..N, n \in P, n < N PROVE n + 1 \in P
  <2> DEFINE x == g[n]
  <2>1. n + 1 \in 1..N /\ (n + 1) - 1 = n BY <1>1, <1>4
  <2>2. g[n + 1] = Turn(x, flushed, announced, offset, n + 1) BY <1>2, <2>1
  <2>3. StOK(x, k) /\ Len(x.c.channels) \in Nat /\ Kept(st, x) BY <1>4
  <2>4. n + 1 \in 1..Len(x.c.channels)
    <3>1. Len(x.c.channels) >= N BY <2>3 DEF Kept
    <3> HIDE DEF x, N
    <3> QED BY <1>1, <2>1, <2>3, <3>1
  <2> HIDE DEF x, N
  <2>5. CASE n + 1 \in flushed
    <3> DEFINE y == channel_output_cb(x, n + 1, announced, offset)
    <3>1. StOK(y, k) /\ Kept(x, y)
      BY <2>3, <2>4, OutputKeeps
    <3>2. g[n + 1] = y BY <2>2, <2>5 DEF Turn
    <3> HIDE DEF y
    <3>3. Len(y.c.channels) \in Nat
      <4>1. PICK S : y.c \in ChzSet(S) BY <3>1 DEF StOK, ChzOK
      <4> QED BY <4>1, ChzFields
    <3>4. Kept(st, y)
      <4>1. /\ Len(x.c.channels) >= N /\ Len(y.c.channels) >= Len(x.c.channels)
            /\ st.asked \subseteq x.asked /\ x.asked \subseteq y.asked
            /\ y.c.rate = st.c.rate /\ (Fit(st.c) => Fit(y.c))
        BY <2>3, <3>1, Zenon DEF Kept, N
      <4>2. Len(y.c.channels) >= N BY <1>1, <2>3, <3>3, <4>1
      <4> QED BY <4>1, <4>2, Zenon DEF Kept, N
    <3> QED BY <1>1, <2>1, <3>1, <3>2, <3>3, <3>4
  <2>6. CASE n + 1 \notin flushed
    <3>1. g[n + 1] = x BY <2>2, <2>6 DEF Turn
    <3> QED BY <1>1, <2>1, <2>3, <3>1
  <2> QED BY <2>5, <2>6
<1>5. N \in P
  <2> HIDE DEF P, N
  <2>1. P \in SUBSET (0..N) BY DEF P
  <2>2. P = 0..N BY <1>1, <1>3, <1>4, <2>1, UpTo
  <2> QED BY <1>1, <2>2
<1>6. StOK(g[N], k) /\ Kept(st, g[N]) BY <1>5
<1> QED BY <1>2, <1>6

-----------------------------------------------------------------------------
(* Set-up *)

(* The recursive function of AddAllPlanned exists and adds channel by      *)
(* channel.                                                                *)
LEMMA PlannedSteps ==
  ASSUME NEW p, Len(p.channels) \in Nat
  PROVE  \E g : /\ g[0] = channelizer_create(p)
                /\ \A i \in 1..Len(p.channels) : g[i] = AddPlanned(g[i - 1], p.channels[i])
                /\ AddAllPlanned(p) = g[Len(p.channels)]
<1> DEFINE N == Len(p.channels)
           Body(g, i) == IF i = 0 THEN channelizer_create(p)
                         ELSE AddPlanned(g[i - 1], p.channels[i])
           Loop(n, g) == g = [i \in 0..n |-> Body(g, i)]
           P == {n \in 0..N : \E g : Loop(n, g)}
<1>0. N \in Nat OBVIOUS
<1>1. 0 \in P
  <2>1. Loop(0, [i \in 0..0 |-> channelizer_create(p)]) OBVIOUS
  <2> HIDE DEF Loop, N
  <2> QED BY <1>0, <2>1
<1>2. ASSUME NEW n \in 0..N, n \in P, n < N PROVE n + 1 \in P
  <2> HIDE DEF N
  <2>1. PICK g : Loop(n, g) BY <1>2
  <2> DEFINE h == [i \in 0..(n + 1) |->
                     IF i = n + 1 THEN AddPlanned(g[n], p.channels[n + 1]) ELSE g[i]]
  <2>2. \A i \in 0..(n + 1) : h[i] = Body(h, i)
    <3> SUFFICES ASSUME NEW i \in 0..(n + 1) PROVE h[i] = Body(h, i) OBVIOUS
    <3>1. CASE i = n + 1 BY <1>0, <3>1
    <3>2. CASE i # n + 1
      <4>1. i \in 0..n BY <3>2
      <4>2. g[i] = Body(g, i)
        <5> HIDE DEF Body, h
        <5> QED BY <2>1, <4>1
      <4>3. i # 0 => h[i - 1] = g[i - 1] BY <4>1
      <4> QED BY <4>1, <4>2, <4>3
    <3> QED BY <3>1, <3>2
  <2>3. Loop(n + 1, h)
    <3>1. h = [i \in 0..(n + 1) |-> h[i]] OBVIOUS
    <3> HIDE DEF h, Body
    <3> QED BY <2>2, <3>1
  <2> HIDE DEF Loop
  <2> QED BY <1>0, <2>3, <1>2
<1>3. N \in P
  <2> HIDE DEF P, N
  <2>1. P \in SUBSET (0..N) BY DEF P
  <2>2. P = 0..N BY <1>0, <1>1, <1>2, <2>1, UpTo
  <2> QED BY <1>0, <2>2
<1>4. PICK g0 : Loop(N, g0) BY <1>3
<1> DEFINE g == CHOOSE f : Loop(N, f)
<1>5. Loop(N, g)
  <2> HIDE DEF Loop
  <2> QED BY <1>4
<1>6. AddAllPlanned(p) = g[N] BY DEF AddAllPlanned
<1>7. g[0] = channelizer_create(p) /\ \A i \in 1..N : g[i] = AddPlanned(g[i - 1], p.channels[i])
  <2> HIDE DEF g
  <2> QED BY <1>0, <1>5
<1> HIDE DEF g
<1> QED BY <1>6, <1>7

(* The channels of c are channels of the plan.                             *)
FromPlan(c, p) ==
    \A s \in 1..Len(c.channels) : \E i \in 1..Len(p.channels) : IsOf(c, s, p.channels[i])

(* Whatever a limit leaves out, what was added is the plan's.              *)
LEMMA PlannedOK ==
  ASSUME NEW p, Len(p.channels) \in Nat, p.center \in Int, p.rate \in Int,
         \A i \in 1..Len(p.channels) : p.channels[i].frequency \in Int /\ p.channels[i].id \in Int
  PROVE  LET c == AddAllPlanned(p)
         IN ChzOK(c) /\ c.center = p.center /\ c.rate = p.rate /\ FromPlan(c, p)
<1> DEFINE N == Len(p.channels)
<1>1. PICK g : /\ g[0] = channelizer_create(p)
               /\ \A i \in 1..N : g[i] = AddPlanned(g[i - 1], p.channels[i])
               /\ AddAllPlanned(p) = g[N]
  BY PlannedSteps
<1> DEFINE Q(c) == ChzOK(c) /\ c.center = p.center /\ c.rate = p.rate /\ FromPlan(c, p)
           P == {n \in 0..N : Q(g[n])}
<1>2. N \in Nat OBVIOUS
<1>3. Q(g[0])
  <2> DEFINE c == g[0]
             S == {p.mode}
  <2>1. c = [center |-> p.center, rate |-> p.rate, mode |-> p.mode,
             bands |-> <<>>, channels |-> <<>>]
    BY <1>1 DEF channelizer_create
  <2>2. <<>> \in Seq(BandSet(S)) /\ <<>> \in Seq(ChannelSet(S)) OBVIOUS
  <2>3. p.mode \in S OBVIOUS
  <2> HIDE DEF S, c
  <2>4. c \in ChzSet(S) BY <2>1, <2>2, <2>3 DEF ChzSet
  <2>5. Len(c.bands) = 0 /\ Len(c.channels) = 0 /\ c.center = p.center /\ c.rate = p.rate BY <2>1
  <2>6. ChzOK(c) BY <2>4, <2>5 DEF ChzOK
  <2>7. FromPlan(c, p) BY <2>5 DEF FromPlan
  <2> QED BY <2>5, <2>6, <2>7 DEF c
<1>4. 0 \in P
  <2> HIDE DEF Q
  <2> QED BY <1>2, <1>3
<1>5. ASSUME NEW n \in 0..N, n \in P, n < N PROVE n + 1 \in P
  <2> DEFINE c == g[n]
             q == p.channels[n + 1]
             d == channelizer_add_channel(c, q.frequency, q.type, q.id)
             nc == Len(c.channels)
  <2>1. n + 1 \in 1..N /\ (n + 1) - 1 = n BY <1>2, <1>5
  <2>2. g[n + 1] = d BY <1>1, <2>1 DEF AddPlanned
  <2>3. ChzOK(c) /\ c.center = p.center /\ c.rate = p.rate /\ FromPlan(c, p) BY <1>5
  <2>4. q.frequency \in Int /\ q.id \in Int BY <2>1
  <2> HIDE DEF c, q, N
  <2>5. /\ ChzOK(d) /\ d.center = c.center /\ d.rate = c.rate
        /\ \A s \in 1..nc : SameSlot(c, d, s)
        /\ \/ d = c
           \/ /\ Len(d.channels) = nc + 1
              /\ d.channels[nc + 1].id = q.id /\ d.channels[nc + 1].type = q.type
              /\ ChannelFreq(d, nc + 1) = q.frequency
    <3>1. Added(c, d, q.frequency, q.type, q.id) BY <2>3, <2>4, AddKeeps
    <3> HIDE DEF d
    <3> QED BY <3>1 DEF Added
  <2> HIDE DEF d
  <2>6. FromPlan(d, p)
    <3>1. CASE d = c BY <2>3, <3>1
    <3>2. CASE d # c
      <4>1. Len(d.channels) = nc + 1 /\ IsOf(d, nc + 1, q) BY <2>5, <3>2 DEF IsOf
      <4>2. nc \in Nat
        <5>1. PICK S : c \in ChzSet(S) BY <2>3 DEF ChzOK
        <5> QED BY <5>1, ChzFields
      <4>3. ASSUME NEW s \in 1..(nc + 1)
            PROVE  \E i \in 1..Len(p.channels) : IsOf(d, s, p.channels[i])
        <5>1. CASE s = nc + 1 BY <2>1, <4>1, <5>1 DEF q, N
        <5>2. CASE s # nc + 1
          <6>1. s \in 1..nc BY <4>2, <5>2
          <6>2. PICK i \in 1..Len(p.channels) : IsOf(c, s, p.channels[i])
            BY <2>3, <6>1 DEF FromPlan
          <6>3. IsOf(d, s, p.channels[i]) BY <2>5, <6>1, <6>2, SameIsOf
          <6> QED BY <6>3
        <5> QED BY <5>1, <5>2
      <4> QED BY <4>1, <4>3 DEF FromPlan
    <3> QED BY <3>1, <3>2
  <2>7. Q(g[n + 1]) BY <2>2, <2>3, <2>5, <2>6
  <2> HIDE DEF Q
  <2> QED BY <1>2, <2>1, <2>7
<1>6. N \in P
  <2> HIDE DEF P, N
  <2>1. P \in SUBSET (0..N) BY DEF P
  <2>2. P = 0..N BY <1>2, <1>4, <1>5, <2>1, UpTo
  <2> QED BY <1>2, <2>2
<1>7. Q(g[N]) BY <1>6
<1> QED BY <1>1, <1>7

(* Channels that stay on their frequencies stay the plan's.                *)
LEMMA FromPlanKept ==
  ASSUME NEW p, NEW c, NEW d, FromPlan(c, p), Len(d.channels) = Len(c.channels),
         \A s \in 1..Len(c.channels) : SameSlot(c, d, s)
  PROVE  FromPlan(d, p)
<1> SUFFICES ASSUME NEW s \in 1..Len(c.channels)
             PROVE  \E i \in 1..Len(p.channels) : IsOf(d, s, p.channels[i])
  BY DEF FromPlan
<1>1. PICK i \in 1..Len(p.channels) : IsOf(c, s, p.channels[i]) BY DEF FromPlan
<1>2. IsOf(d, s, p.channels[i]) BY <1>1, SameIsOf
<1> QED BY <1>2

-----------------------------------------------------------------------------
(* The invariant of the channel table *)

ChInv ==
    /\ conf \in Configs
    /\ StOK(BlockSt(chz, jaero_chans, cal, next_dynamic_channel_id, asked, correction),
            Plan(conf).center)

(* StOK, field by field.                                                   *)
LEMMA BlockStFields ==
  ASSUME NEW c, NEW jaero, NEW cl, NEW next, NEW A, NEW corr, NEW k
  PROVE  LET st == BlockSt(c, jaero, cl, next, A, corr)
         IN StOK(st, k) <=>
              /\ ChzOK(c) /\ corr \in Int /\ c.center = k - corr
              /\ Matched(c, A) /\ AskedOK(A, next) /\ DemodsOK(jaero, A)
<1> DEFINE st == BlockSt(c, jaero, cl, next, A, corr)
<1>1. /\ st.c = c /\ st.jaero = jaero /\ st.cal = cl /\ st.next = next
      /\ st.asked = A /\ st.corr = corr
  BY DEF BlockSt
<1> HIDE DEF st
<1>2. st = BlockSt(st.c, st.jaero, st.cal, st.next, st.asked, st.corr) BY <1>1 DEF st
<1>3. StOK(st, k) <=>
              /\ ChzOK(c) /\ corr \in Int /\ c.center = k - corr
              /\ Matched(c, A) /\ AskedOK(A, next) /\ DemodsOK(jaero, A)
  BY <1>1, <1>2 DEF StOK
<1> QED BY <1>3 DEF st

(* A channel of a plan has an id below those of announcements.             *)
LEMMA PlannedFields ==
  ASSUME NEW d \in PlannedChannel
  PROVE  d.frequency \in Int /\ d.id \in Int /\ d.id < FirstDynamicId
<1>1. d.frequency \in Int /\ d.id \in 0..(FirstDynamicId - 1) BY DEF PlannedChannel
<1>2. FirstDynamicId = 100 BY DEF FirstDynamicId
<1> QED BY <1>1, <1>2

(* A plan whose ids are its own: what the channelizer has of it.           *)
LEMMA AcceptedOK ==
  ASSUME NEW p, NEW c, p.channels \in Seq(PlannedChannel),
         \A i, j \in DOMAIN p.channels : p.channels[i].id = p.channels[j].id => i = j,
         FromPlan(c, p), Len(c.channels) \in Nat, DOMAIN c.channels = 1..Len(c.channels)
  PROVE  /\ Matched(c, Accepted(c, p)) /\ AskedOK(Accepted(c, p), FirstDynamicId)
<1> DEFINE N == Len(p.channels)
           A == Accepted(c, p)
           E(i) == [id |-> p.channels[i].id, frequency |-> p.channels[i].frequency,
                    type |-> p.channels[i].type]
<1>1. N \in Nat /\ DOMAIN p.channels = 1..N OBVIOUS
<1>2. ASSUME NEW i \in 1..N
      PROVE  /\ p.channels[i].frequency \in Int /\ p.channels[i].id \in Int
             /\ p.channels[i].id < FirstDynamicId
             /\ E(i).id = p.channels[i].id /\ E(i).type = p.channels[i].type
             /\ E(i).frequency = p.channels[i].frequency
  <2>1. p.channels[i] \in PlannedChannel BY <1>1, ElementOfSeq
  <2> HIDE DEF N
  <2>2. /\ E(i).id = p.channels[i].id /\ E(i).type = p.channels[i].type
        /\ E(i).frequency = p.channels[i].frequency
    OBVIOUS
  <2> HIDE DEF E
  <2> QED BY <2>1, <2>2, PlannedFields
<1>3. A = {E(i) : i \in {j \in 1..N : \E s \in 1..Len(c.channels) :
                                          c.channels[s].id = p.channels[j].id}}
  <2>1. ToSet(p.channels) = {p.channels[i] : i \in 1..N} BY <1>1 DEF ToSet
  <2> QED BY <2>1 DEF Accepted
<1> HIDE DEF A, N, E
<1>4. ASSUME NEW a \in A PROVE \E i \in 1..N : a = E(i) BY <1>3
<1>5. ASSUME NEW s \in 1..Len(c.channels) PROVE \E a \in A : IsOf(c, s, a)
  <2>1. PICK i \in 1..N : IsOf(c, s, p.channels[i]) BY DEF FromPlan, N
  <2>2. c.channels[s].id = p.channels[i].id BY <2>1 DEF IsOf
  <2>3. E(i) \in A BY <1>3, <2>2
  <2>4. IsOf(c, s, E(i)) BY <1>2, <2>1 DEF IsOf
  <2> QED BY <2>3, <2>4
<1>6. ASSUME NEW a \in A PROVE \E s \in 1..Len(c.channels) : IsOf(c, s, a)
  <2>1. PICK i \in 1..N, s \in 1..Len(c.channels) :
           a = E(i) /\ c.channels[s].id = p.channels[i].id
    BY <1>3
  <2>2. PICK j \in 1..N : IsOf(c, s, p.channels[j]) BY DEF FromPlan, N
  <2>3. p.channels[i].id = p.channels[j].id BY <2>1, <2>2 DEF IsOf
  <2>4. i = j BY <1>1, <2>3
  <2>5. IsOf(c, s, E(i)) BY <1>2, <2>2, <2>4 DEF IsOf
  <2> QED BY <2>1, <2>5
<1>7. ASSUME NEW a \in A
      PROVE  a.id \in Int /\ a.id < FirstDynamicId /\ a.frequency \in Int
  <2>1. PICK i \in 1..N : a = E(i) BY <1>4
  <2> QED BY <1>2, <2>1
<1>8. ASSUME NEW a \in A, NEW b \in A, a.id = b.id PROVE a = b
  <2>1. PICK i \in 1..N, j \in 1..N : a = E(i) /\ b = E(j) BY <1>4
  <2>2. p.channels[i].id = p.channels[j].id BY <1>2, <1>8, <2>1
  <2> QED BY <1>1, <2>1, <2>2
<1>9. Matched(c, A) BY <1>5, <1>6 DEF Matched
<1>10. AskedOK(A, FirstDynamicId)
  <2>1. FirstDynamicId \in Int /\ FirstDynamicId >= FirstDynamicId BY DEF FirstDynamicId
  <2>2. ASSUME NEW a \in A PROVE ~(a.id >= FirstDynamicId) BY <1>7, <2>1
  <2> QED BY <1>7, <1>8, <2>1, <2>2 DEF AskedOK
<1> QED BY <1>9, <1>10 DEF A

(* Set-up: add, recentre, shift by --ppm.                                  *)
LEMMA InitChInv == ChInit => ChInv /\ chz.rate >= FastRate
<1> SUFFICES ASSUME ChInit PROVE ChInv /\ chz.rate >= FastRate OBVIOUS
<1> DEFINE p == Plan(conf)
           shift == PpmShift(conf, p.center)
           c1 == AddAllPlanned(p)
           c2 == channelizer_finalize(c1)
           c == channelizer_adjust_center(c2, shift)
<1>1. /\ conf \in Configs /\ jaero_chans = <<>> /\ next_dynamic_channel_id = FirstDynamicId
      /\ chz = c /\ asked = Accepted(c, p) /\ correction = shift
  BY DEF ChInit, SetUpFrom
<1>2. /\ conf.ppm \in Int /\ p.center \in Int /\ p.rate \in Int /\ p.channels \in Seq(PlannedChannel)
      /\ \A i, j \in DOMAIN p.channels : p.channels[i].id = p.channels[j].id => i = j
      /\ p.rate >= FastRate
  BY <1>1, PlansAssumption DEF FastRate
<1>3. shift \in Int
  <2> DEFINE k == p.center
  <2> HIDE DEF p, k
  <2>1. k \div 1000000 \in Int BY <1>2 DEF k
  <2>2. conf.ppm * (k \div 1000000) \in Int BY <1>2, <2>1
  <2> QED BY <2>2 DEF PpmShift, k
<1> HIDE DEF p, shift
<1>4. /\ Len(p.channels) \in Nat
      /\ \A i \in 1..Len(p.channels) : p.channels[i].frequency \in Int /\ p.channels[i].id \in Int
  <2>1. Len(p.channels) \in Nat BY <1>2
  <2>2. ASSUME NEW i \in 1..Len(p.channels) PROVE p.channels[i] \in PlannedChannel
    BY <1>2, ElementOfSeq
  <2>3. ASSUME NEW i \in 1..Len(p.channels)
        PROVE  p.channels[i].frequency \in Int /\ p.channels[i].id \in Int
    BY <2>2, PlannedFields
  <2> QED BY <2>1, <2>3
<1>5. ChzOK(c1) /\ c1.center = p.center /\ c1.rate = p.rate /\ FromPlan(c1, p) BY <1>2, <1>4, PlannedOK
<1> HIDE DEF c1
<1>6. /\ ChzOK(c2) /\ c2.center = c1.center /\ c2.rate = c1.rate
      /\ Len(c2.channels) = Len(c1.channels)
      /\ \A s \in 1..Len(c1.channels) : SameSlot(c1, c2, s)
  BY <1>5, FinalizeKeeps
<1> HIDE DEF c2
<1>7. FromPlan(c2, p) BY <1>5, <1>6, FromPlanKept
<1>8. /\ ChzOK(c) /\ c.center = c2.center - shift /\ c.rate = c2.rate
      /\ Len(c.channels) = Len(c2.channels)
      /\ \A s \in 1..Len(c2.channels) : SameSlot(c2, c, s)
  BY <1>3, <1>6, AdjustKeeps
<1> HIDE DEF c
<1>9. FromPlan(c, p) BY <1>7, <1>8, FromPlanKept
<1>10. Len(c.channels) \in Nat /\ DOMAIN c.channels = 1..Len(c.channels)
  <2>1. PICK S : c \in ChzSet(S) BY <1>8 DEF ChzOK
  <2> QED BY <2>1, ChzFields
<1>11. Matched(c, asked) /\ AskedOK(asked, FirstDynamicId)
  BY <1>1, <1>2, <1>9, <1>10, AcceptedOK
<1>12. DemodsOK(<<>>, asked)
  <2>1. <<>> \in Seq([id : Int, baud : {}]) /\ Len(<<>>) = 0 OBVIOUS
  <2> QED BY <2>1 DEF DemodsOK
<1>13. c.center = p.center - shift BY <1>5, <1>6, <1>8
<1>14. ChInv BY <1>1, <1>3, <1>8, <1>11, <1>12, <1>13, BlockStFields DEF ChInv, p
<1>15. chz.rate >= FastRate BY <1>1, <1>2, <1>5, <1>6, <1>8
<1> QED BY <1>14, <1>15

(* What no block undoes.                                                   *)
KeptStep ==
    asked \subseteq asked' /\ chz'.rate = chz.rate /\ (Fit(chz) => Fit(chz'))

(* A block keeps the invariant.                                            *)
LEMMA ChInvStep == ChInv /\ [ChNext]_chvars => ChInv' /\ KeptStep
<1> SUFFICES ASSUME ChInv, [ChNext]_chvars PROVE ChInv' /\ KeptStep OBVIOUS
<1> DEFINE k == Plan(conf).center
           st == BlockSt(chz, jaero_chans, cal, next_dynamic_channel_id, asked, correction)
<1>1. CASE UNCHANGED chvars BY <1>1 DEF ChInv, chvars, KeptStep
<1>2. CASE Block
  <2>1. conf \in Configs /\ StOK(st, k) /\ k \in Int BY PlansAssumption DEF ChInv
  <2>2. PICK flushed \in SUBSET DOMAIN chz.channels, announced \in {Silent} \cup Announced,
             offset \in Offsets \cup {Pending} :
          \E q \in {process_block(st, flushed, announced, offset)} :
             /\ chz' = q.c /\ jaero_chans' = q.jaero /\ cal' = q.cal
             /\ next_dynamic_channel_id' = q.next
             /\ asked' = q.asked /\ correction' = q.corr
             /\ UNCHANGED conf
    <3>1. st = [c |-> chz, jaero |-> jaero_chans, cal |-> cal,
                next |-> next_dynamic_channel_id, asked |-> asked, corr |-> correction]
      BY DEF BlockSt
    <3> HIDE DEF st
    <3> QED BY <1>2, <3>1 DEF Block
  <2> DEFINE q == process_block(st, flushed, announced, offset)
  <2>3. announced \in Int /\ offset \in Int BY ChannelLimits DEF Silent, Pending
  <2>4. st.c = chz /\ st.asked = asked BY DEF BlockSt
  <2> HIDE DEF k, st
  <2>5. StOK(q, k) /\ Kept(st, q) BY <2>1, <2>3, BlockKeeps
  <2>6. q = BlockSt(chz', jaero_chans', cal', next_dynamic_channel_id', asked', correction')
    <3> HIDE DEF q
    <3>1. q = BlockSt(q.c, q.jaero, q.cal, q.next, q.asked, q.corr) BY <2>5 DEF StOK
    <3> QED BY <2>2, <3>1 DEF q
  <2>7. conf' = conf BY <2>2
  <2>8. q.c = chz' /\ q.asked = asked' BY <2>2
  <2> HIDE DEF q
  <2>9. ChInv' BY <2>1, <2>5, <2>6, <2>7 DEF ChInv, k
  <2>10. KeptStep BY <2>4, <2>5, <2>8, Zenon DEF KeptStep, Kept
  <2> QED BY <2>9, <2>10
<1> QED BY <1>1, <1>2 DEF ChNext

(* The state of the channelizer and of the channel table is in order after *)
(* every block, see StOK.                                                  *)
THEOREM ChInvariant == ChSpec => []ChInv
BY InitChInv, ChInvStep, PTL DEF ChSpec

(* For any plan, announcements, offsets and limits: no channel has two     *)
(* demodulators, a demodulator has the rate of its channel, ids never      *)
(* repeat, and announced channels are 5 kHz from all others.               *)
THEOREM OneDemodEach == ChSpec => []OneDemodPerChannel
<1>1. ChInv => OneDemodPerChannel
  <2> SUFFICES ASSUME ChInv PROVE OneDemodPerChannel OBVIOUS
  <2>1. AskedOK(asked, next_dynamic_channel_id) /\ DemodsOK(jaero_chans, asked)
    BY BlockStFields DEF ChInv
  <2>2. DOMAIN jaero_chans = 1..Len(jaero_chans) BY <2>1 DEF DemodsOK
  <2> QED BY <2>1, <2>2 DEF OneDemodPerChannel, AskedOK, DemodsOK
<1> QED BY <1>1, ChInvariant, PTL

(* What the band's mixer leaves of a slot's frequency is the slot's nco,   *)
(* and the step is the nco times s1, which is what exact stages divide by. *)
LEMMA InvMixes == ChInv => MixedToZero
<1> DEFINE k == Plan(conf).center
<1> SUFFICES ASSUME ChInv, NEW a \in asked
             PROVE  \E slot \in DOMAIN chz.channels :
                       /\ chz.channels[slot].id = a.id /\ chz.channels[slot].type = a.type
                       /\ BandExact(chz.channels[slot].band) =>
                            chz.channels[slot].step
                              = (a.frequency - k + correction
                                   - chz.bands[chz.channels[slot].band].nco)
                                * BandDecimation(chz.channels[slot].band)
  BY DEF MixedToZero
<1>1. /\ ChzOK(chz) /\ correction \in Int /\ chz.center = k - correction
      /\ Matched(chz, asked) /\ k \in Int
  BY BlockStFields, PlansAssumption DEF ChInv
<1> HIDE DEF k
<1>2. PICK slot \in 1..Len(chz.channels) : IsOf(chz, slot, a) BY <1>1 DEF Matched
<1>3. PICK S : chz \in ChzSet(S) BY <1>1 DEF ChzOK
<1> DEFINE b == chz.channels[slot].band
<1>4. b \in 1..Len(chz.bands) /\ chz.channels[slot].step = chz.channels[slot].nco * chz.bands[b].s1
  BY <1>1 DEF ChzOK, StepOK
<1>5. chz.bands[b].nco = chz.bands[b].center - chz.center BY <1>1, <1>4 DEF ChzOK, BandOK
<1>6. /\ chz.bands[b].center \in Int /\ chz.channels[slot].nco \in Int
      /\ slot \in DOMAIN chz.channels
  BY <1>3, <1>4, ChzFields
<1>7. a.frequency = chz.bands[b].center + chz.channels[slot].nco
  BY <1>2 DEF IsOf, ChannelFreq
<1>8. chz.channels[slot].nco = a.frequency - k + correction - chz.bands[b].nco
  BY <1>1, <1>5, <1>6, <1>7
<1>9. chz.channels[slot].id = a.id /\ chz.channels[slot].type = a.type BY <1>2 DEF IsOf
<1>10. BandExact(b) => BandDecimation(b) = chz.bands[b].s1 BY DEF BandExact
<1> HIDE DEF b
<1>11. BandExact(b) => chz.channels[slot].step
                         = (a.frequency - k + correction - chz.bands[b].nco) * BandDecimation(b)
  BY <1>4, <1>8, <1>10, Zenon
<1> QED BY <1>6, <1>9, <1>11, Zenon DEF b

(* For any plan, announcements, offsets and limits: the two mixers of a    *)
(* channel, each at the rate it really runs at, move its own frequency,    *)
(* corrected once, to zero, in whatever order channels are added and       *)
(* corrections are applied, in every band whose stages multiply to the     *)
(* decimation planned for it (not all do, see DecimationExact).            *)
THEOREM ChannelsMixed == ChSpec => []MixedToZero
BY InvMixes, ChInvariant, PTL

(* The channelizer of a state of ChInv.                                    *)
LEMMA InvChzOK == ChInv => ChzOK(chz)
BY BlockStFields DEF ChInv

(* A signal inside its band, in the words of SignalsInBand and of Fit.     *)
LEMMA FitIsInBand ==
  ASSUME ChzOK(chz), chz.rate >= FastRate
  PROVE  SignalsInBand <=> Fit(chz)
<1>1. DOMAIN chz.channels = 1..Len(chz.channels)
  <2>1. PICK S : chz \in ChzSet(S) BY DEF ChzOK
  <2> QED BY <2>1, ChzFields
<1>2. ASSUME SignalsInBand, NEW s \in 1..Len(chz.channels) PROVE FitSlot(chz, s)
  <2>1. chz.channels[s] \in ToSet(chz.channels) BY <1>1, Zenon DEF ToSet
  <2> QED BY <1>2, <2>1, Zenon DEF SignalsInBand, FitSlot
<1>3. ASSUME Fit(chz), NEW ch \in ToSet(chz.channels)
      PROVE  2 * Abs(ch.nco) + signal_bandwidth(ch.type) <= chz.bands[ch.band].inter
  <2>1. PICK s \in 1..Len(chz.channels) : ch = chz.channels[s] BY <1>1, Zenon DEF ToSet
  <2>2. FitSlot(chz, s) BY <1>3, Zenon DEF Fit
  <2> QED BY <2>1, <2>2, Zenon DEF FitSlot
<1> QED BY <1>2, <1>3, Zenon DEF Fit, SignalsInBand

(* No block undoes what set-up reached, whatever it announces and          *)
(* measures, for any plan and limits: a channel that was accepted is never *)
(* lost, and if all signals lie inside their bands, they do afterwards,    *)
(* the signal of a channel that the block adds included.                   *)
THEOREM ChannelsStay ==
  ChSpec => [][asked \subseteq asked' /\ (SignalsInBand => SignalsInBand')]_chvars
<1> DEFINE J == ChInv /\ chz.rate >= FastRate
           Stay == asked \subseteq asked' /\ (SignalsInBand => SignalsInBand')
<1>1. ChInit => J BY InitChInv
<1>2. J /\ [ChNext]_chvars => J' /\ Stay
  <2> SUFFICES ASSUME J, [ChNext]_chvars PROVE J' /\ Stay OBVIOUS
  <2>1. ChInv' /\ KeptStep BY ChInvStep
  <2>2. J' BY <2>1 DEF KeptStep
  <2>3. ChzOK(chz) /\ ChzOK(chz)'
    <3>1. (ChInv => ChzOK(chz))' BY InvChzOK, PTL
    <3> QED BY <2>1, <3>1, InvChzOK
  <2>4. SignalsInBand <=> Fit(chz) BY <2>3, FitIsInBand
  <2>5. (SignalsInBand <=> Fit(chz))'
    <3>1. (ChzOK(chz) /\ chz.rate >= FastRate => (SignalsInBand <=> Fit(chz)))'
      BY FitIsInBand, PTL
    <3> QED BY <2>2, <2>3, <3>1
  <2>6. Stay BY <2>1, <2>4, <2>5 DEF KeptStep
  <2> QED BY <2>2, <2>6
<1> HIDE DEF J, Stay
<1>3. ChSpec => [][Stay]_chvars BY <1>1, <1>2, PTL DEF ChSpec
<1> QED BY <1>3 DEF Stay
=============================================================================
