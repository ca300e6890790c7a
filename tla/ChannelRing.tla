----------------------------- MODULE ChannelRing ----------------------------
(***************************************************************************)
(* The per-channel ring of main.c: the channelizer callback (the main      *)
(* thread) pushes IQ samples with chan_push, the channel's worker thread   *)
(* pops batches in chan_worker_fn and feeds its demodulator.  There is no  *)
(* lock: head and tail are atomic 32-bit counters that wrap, and the       *)
(* samples are copied, one at a time here, between the loads and the store *)
(* of a counter.                                                           *)
(*                                                                         *)
(* A sample is named by its position in the accepted stream: the n-th      *)
(* sample that chan_push accepted is n.  `sent` and `got` count samples    *)
(* without wrapping; they, `offered` and `fed` are history variables and   *)
(* no guard reads them, except to bound the model.                         *)
(***************************************************************************)
EXTENDS Integers

CONSTANTS
  RingSize,    \* CHAN_RING_SIZE
  Laps,        \* 2^32 \div CHAN_RING_SIZE: the counters wrap at a lap's end
  Batch,       \* BATCH: the most a worker takes at once
  MaxPush,     \* bound: the most samples the channelizer hands over at once
  MaxOffered,  \* bound: samples offered to the ring in a behaviour
  NoSample     \* what malloc leaves in a slot

ASSUME RingAssumption ==
  /\ RingSize \in Nat \ {0}
  /\ Laps \in Nat \ {0, 1}
  /\ Batch \in Nat \ {0}
  /\ MaxPush \in Nat
  /\ MaxOffered \in Nat
  /\ NoSample \notin Nat

VARIABLES
  ring,                \* jc->ring
  head, tail,          \* jc->ring_head, jc->ring_tail
  drops,               \* jc->drops
  thread_run,          \* jc->thread_run
  ppc, pn, pi,         \* producer: place in chan_push, n, samples copied
  cpc, ctake, ci,      \* worker: place in its loop, take, samples copied
  batch,               \* worker: its local batch[]
  freed,               \* main has freed the ring
  sent, got,           \* history: samples published, samples consumed
  offered,             \* history: samples offered to chan_push
  fed                  \* history: samples fed to the demodulator

prodVars == <<ppc, pn, pi>>
consVars == <<cpc, ctake, ci, batch>>
vars == <<ring, head, tail, drops, thread_run, prodVars, consVars, freed,
          sent, got, offered, fed>>

-----------------------------------------------------------------------------
(* unsigned arithmetic *)
CounterMod == Laps * RingSize

USub(a, b) == IF a >= b THEN a - b ELSE a - b + CounterMod

UAdd(a, n) == IF a + n < CounterMod THEN a + n ELSE a + n - CounterMod

(* a & (CHAN_RING_SIZE - 1) *)
Slot(a) == a % RingSize

Min2(a, b) == IF a <= b THEN a ELSE b

Slots == 0..(RingSize - 1)

(* chan_init_thread, when the ring could be allocated. *)
Init ==
  /\ ring = [s \in Slots |-> NoSample]
  /\ head = 0 /\ tail = 0
  /\ drops = 0
  /\ thread_run = TRUE
  /\ ppc = "idle" /\ pn = 0 /\ pi = 0
  /\ cpc = "top" /\ ctake = 0 /\ ci = 0
  /\ batch = [i \in 0..(Batch - 1) |-> NoSample]
  /\ freed = FALSE
  /\ sent = 0 /\ got = 0 /\ offered = 0 /\ fed = 0

-----------------------------------------------------------------------------
(* Faults: one slot too many is taken for free; a drop is only counted     *)
(* when nothing fits.                                                      *)
PushLoad_OffByOne(n) ==
  LET free == RingSize + 1 - USub(head, tail) IN
  /\ ppc = "idle" /\ thread_run
  /\ offered + n <= MaxOffered
  /\ offered' = offered + n
  /\ drops' = IF n > free THEN drops + 1 ELSE drops
  /\ ppc' = "copy" /\ pn' = Min2(n, free) /\ pi' = 0
  /\ UNCHANGED <<ring, head, tail, thread_run, consVars, freed, sent, got, fed>>

PushLoad_QuietDrop(n) ==
  LET free == RingSize - USub(head, tail) IN
  /\ ppc = "idle" /\ thread_run
  /\ offered + n <= MaxOffered
  /\ offered' = offered + n
  /\ IF n > free /\ free = 0
     THEN drops' = drops + 1 /\ UNCHANGED prodVars
     ELSE ppc' = "copy" /\ pn' = Min2(n, free) /\ pi' = 0 /\ UNCHANGED drops
  /\ UNCHANGED <<ring, head, tail, thread_run, consVars, freed, sent, got, fed>>

(* chan_push(jc, samples, n) loads both counters and decides how many of   *)
(* the n samples fit; more than fit is one drop, and nothing fitting ends  *)
(* the call.                                                               *)
PushLoad(n) ==
  LET free == RingSize - USub(head, tail) IN
  /\ ppc = "idle" /\ thread_run
  /\ offered + n <= MaxOffered
  /\ offered' = offered + n
  /\ drops' = IF n > free THEN drops + 1 ELSE drops
  /\ IF n > free /\ free = 0
     THEN UNCHANGED prodVars
     ELSE ppc' = "copy" /\ pn' = Min2(n, free) /\ pi' = 0
  /\ UNCHANGED <<ring, head, tail, thread_run, consVars, freed, sent, got, fed>>

(* The two memcpy calls, which between them wrap at the end of the ring. *)
PushCopy ==
  /\ ppc = "copy" /\ pi < pn
  /\ ring' = [ring EXCEPT ![Slot(head + pi)] = sent + pi]
  /\ pi' = pi + 1
  /\ UNCHANGED <<head, tail, drops, thread_run, ppc, pn, consVars, freed,
                 sent, got, offered, fed>>

(* Fault: the head is stored before the samples are all there. *)
PushPublish_Early ==
  /\ ppc = "copy"
  /\ head' = UAdd(head, pn)
  /\ sent' = sent + pn
  /\ ppc' = "idle" /\ pn' = 0 /\ pi' = 0
  /\ UNCHANGED <<ring, tail, drops, thread_run, consVars, freed, got, offered, fed>>

PushPublish ==
  /\ ppc = "copy" /\ pi = pn
  /\ head' = UAdd(head, pn)
  /\ sent' = sent + pn
  /\ ppc' = "idle" /\ pn' = 0 /\ pi' = 0
  /\ UNCHANGED <<ring, tail, drops, thread_run, consVars, freed, got, offered, fed>>

-----------------------------------------------------------------------------
(* chan_worker_fn *)

(* Fault: the worker waits for a full batch. *)
PopLoad_FullBatch ==
  /\ cpc = "top" /\ thread_run
  /\ USub(head, tail) >= Batch
  /\ cpc' = "copy"
  /\ ctake' = Batch
  /\ ci' = 0
  /\ UNCHANGED <<ring, head, tail, drops, thread_run, prodVars, batch, freed,
                 sent, got, offered, fed>>

(* The top of the loop: thread_run, then the counters.  With nothing       *)
(* available the worker sleeps and comes back, which changes nothing.      *)
PopLoad ==
  /\ cpc = "top" /\ thread_run
  /\ USub(head, tail) > 0
  /\ cpc' = "copy"
  /\ ctake' = Min2(USub(head, tail), Batch)
  /\ ci' = 0
  /\ UNCHANGED <<ring, head, tail, drops, thread_run, prodVars, batch, freed,
                 sent, got, offered, fed>>

PopCopy ==
  /\ cpc = "copy" /\ ci < ctake
  /\ batch' = [batch EXCEPT ![ci] = ring[Slot(tail + ci)]]
  /\ ci' = ci + 1
  /\ UNCHANGED <<ring, head, tail, drops, thread_run, prodVars, cpc, ctake,
                 freed, sent, got, offered, fed>>

PopStore ==
  /\ cpc = "copy" /\ ci = ctake
  /\ tail' = UAdd(tail, ctake)
  /\ got' = got + ctake
  /\ cpc' = "feed"
  /\ UNCHANGED <<ring, head, drops, thread_run, prodVars, ctake, ci, batch,
                 freed, sent, offered, fed>>

(* jaero_*_feed: the demodulator is given the local batch. *)
Feed ==
  /\ cpc = "feed"
  /\ fed' = fed + ctake
  /\ cpc' = "top" /\ ctake' = 0 /\ ci' = 0
  /\ batch' = [i \in 0..(Batch - 1) |-> NoSample]
  /\ UNCHANGED <<ring, head, tail, drops, thread_run, prodVars, freed, sent, got, offered>>

WorkerExit ==
  /\ cpc = "top" /\ ~thread_run
  /\ cpc' = "exit"
  /\ UNCHANGED <<ring, head, tail, drops, thread_run, prodVars, ctake, ci, batch,
                 freed, sent, got, offered, fed>>

-----------------------------------------------------------------------------
(* Shutdown, in the thread that pushed: the flag is cleared, the worker is *)
(* joined, then the ring is freed.                                         *)
StopWorker ==
  /\ ppc = "idle" /\ thread_run
  /\ thread_run' = FALSE
  /\ ppc' = "join"
  /\ UNCHANGED <<ring, head, tail, drops, pn, pi, consVars, freed, sent, got, offered, fed>>

JoinAndFree ==
  /\ ppc = "join" /\ cpc = "exit"
  /\ freed' = TRUE
  /\ ppc' = "done"
  /\ UNCHANGED <<ring, head, tail, drops, thread_run, pn, pi, consVars, sent, got, offered, fed>>

(* The program goes on to exit. *)
Finished ==
  /\ ppc = "done"
  /\ UNCHANGED vars

Producer == (\E n \in 1..MaxPush : PushLoad(n)) \/ PushCopy \/ PushPublish
Worker == PopLoad \/ PopCopy \/ PopStore \/ Feed \/ WorkerExit
Shutdown == StopWorker \/ JoinAndFree

Next == Producer \/ Worker \/ Shutdown \/ Finished

Spec == Init /\ [][Next]_vars

(* Both threads keep running; the program is not bound to shut down. *)
Fairness ==
  /\ WF_vars(Worker)
  /\ WF_vars(PushCopy \/ PushPublish)
  /\ WF_vars(JoinAndFree)

FairSpec == Spec /\ Fairness

-----------------------------------------------------------------------------
TypeOK ==
  /\ ring \in [Slots -> Nat \cup {NoSample}]
  /\ head \in 0..(CounterMod - 1)
  /\ tail \in 0..(CounterMod - 1)
  /\ drops \in Nat
  /\ thread_run \in BOOLEAN
  /\ ppc \in {"idle", "copy", "join", "done"}
  /\ pn \in Nat /\ pi \in Nat
  /\ cpc \in {"top", "copy", "feed", "exit"}
  /\ ctake \in 0..Batch /\ ci \in 0..Batch
  /\ batch \in [0..(Batch - 1) -> Nat \cup {NoSample}]
  /\ freed \in BOOLEAN
  /\ sent \in Nat /\ got \in Nat /\ offered \in Nat /\ fed \in Nat

(* The slots chan_push has been allowed to write, and the slots the worker *)
(* is copying, while each is between its load and its store.               *)
Writing == IF ppc = "copy" THEN {Slot(head + i) : i \in 0..(pn - 1)} ELSE {}
Reading == IF cpc = "copy" THEN {Slot(tail + i) : i \in 0..(ctake - 1)} ELSE {}

(* The two memcpy regions are disjoint at all times: no sample is read     *)
(* while it is overwritten, through every wrap of ring and counters.       *)
NoSlotRace == Writing \cap Reading = {}

(* What the worker has copied, and then feeds to the demodulator, is the   *)
(* accepted stream, in order, without gap, repetition or stale sample.     *)
BatchInOrder ==
  /\ cpc = "copy" => \A i \in 0..(ci - 1) : batch[i] = got + i
  /\ cpc = "feed" => \A i \in 0..(ctake - 1) : batch[i] = (got - ctake) + i

(* The wrapped counters never lose track: their unsigned difference is the *)
(* number of samples in the ring, which fits in it, and a full ring is     *)
(* never mistaken for an empty one.                                        *)
FillExact ==
  /\ USub(head, tail) = sent - got
  /\ 0 <= sent - got /\ sent - got <= RingSize

(* jc->drops counts the pushes that lost samples: samples are missing from *)
(* the accepted stream exactly when it is not zero.                        *)
DropsTellLoss ==
  (offered > sent + pn) <=> (drops > 0)

(* Everything pushed reaches the demodulator, unless the program stops,    *)
(* and then the worker is joined and the ring freed after its last access. *)
AllFedOrStopped ==
  /\ \A k \in 1..MaxOffered : (sent >= k) ~> (fed >= k \/ ~thread_run)
  /\ ~thread_run ~> (freed /\ cpc = "exit")

=============================================================================
