# inmarsat-sniffer in TLA+

A model of inmarsat-sniffer, a program that receives Inmarsat L-band signals with
an SDR, splits them into channels, demodulates and decodes STD-C and Aero
messages, and hands the results to a terminal, JSON feeds, MQTT, BaseStation
clients and a web dashboard. The code is C (`src/*.c`) with a vendored C++
demodulator library (`src/jaero_dsp`).

The values of the signal processing are numerical and not what this project is
about. What can go wrong here and is hard to test is around it: eight or more
threads, a hand-written fair lock and blocking queue, a lock-free ring per
channel, drop-on-full outputs, signals, a shutdown sequence with many owners,
decoders that lose and regain synchronisation, reassembly of messages from
packets that get lost, channels added and corrected while running, and requests
of the dashboard that race the demodulators.

## The system

```
 input thread            main thread                workers (one per channel)
 (file, SDR library,     poll samples_queue         pop batch from ring
  VITA-49)               channelizer_process ----->  demodulate, AeroL
   | push_samples          | chan_push (ring)         |
   v                       |                          v
 samples_queue             +--> STD-C demod/decoder   ACARS callback
 (blocking_queue.h)             (in main's thread)    |
                                     |                |
        +----------------------------+----------------+
        v               v              v              v
   feed.c queue     mqtt.c queue   basestation.c    web.c (state.lock,
   + writer thread  + writer       (clients_lock)    detached client threads)
```

| Component | State | Operations | What makes it correct | Model |
|---|---|---|---|---|
| fair lock (`fair_lock.h`) | held flag, waiting count, list and pool of waiter entries, weak-lock block | lock, lock weakly, unlock, block/allow weak locks | exclusion, FIFO, no lost wake-up | `FairLockOps`, `FairLock`, `FairLockOpsProofs`, `FairLockProofs` |
| blocking queue (`blocking_queue.h`) | circular buffer, two fair locks, condition variable, active callers, closed | add, put, poll, take, close, destroy | linearizable bounded FIFO; nobody blocked for ever; safe close and destroy | `QueueContract`, `BlockingQueue`, `BlockingQueueProofs` |
| channel ring (`main.c`) | ring, head, tail, drops, thread_run | chan_push, chan_worker_fn, stop and join | no race on a slot, stream in order through wraps | `ChannelRing`, `ChannelRingProofs` |
| JSON outputs (`feed.c`, `mqtt.c`) | queue, writer thread, connected flag, drop counter | send_json / publish, writer loop, shutdown | decoders never wait; one owner per copy; order; exact drop count | `JsonWriter`, `JsonWriterProofs` |
| process (`main.c`, stream threads of the backends) | samples_queue, `running`, threads, resources | stream threads and callbacks, main loop, signal handler, shutdown | stops when told, loses nothing silently, destroys nothing in use | `Pipeline`, `PipelineProofs` |
| device set-up (`rtlsdr.c` ... `soapysdr.c`) | what the library holds, SDRplay's flags and exit handler | set-up, list, start, stream end, teardown | released once, in order, on every path | `DeviceSetup`, `StationProofs` |
| VITA-49 (`vita49.c`) | last count, gap count, context seen | bind, receive, parse, push | gaps told, payload inside the datagram | `Vita49`, `StationProofs` |
| options, satellites (`options.c`, `satellites.c`, planning in `main.c`) | parsed options, tables | parse_options, choice of rate, centre and mode | one input, the planned channels fit the band | `Options`, `TunePlan` |
| channelizer and channel table (`channelizer.c`, `main.c`) | bands, channels, centre, demodulators | add_channel, finalize, process, adjust_center, announced channels | every channel on its frequency, one demodulator each | `TunePlan`, `Channels`, `StationProofs` |
| STD-C decoder (`stdc_decode.c`, `viterbi.c`) | shift register, sync state, multiframe buffer, EGC slots | feed, process_frame, parse_packets, decode_egc | lock found and left, bits used once, packets whole, messages not mixed | `StdcDecoder`, `EgcReassembly`, `StdcBits`, `DecoderProofs` |
| Aero P channel (`aerol.*`, `jconvolutionalcodec.cpp`, `jaero_demod.cpp`) | frame counter, delay line, ISU items, ACARS fragments | Decode, update, parse, defragment, LostSignal | what is sent comes out; sync regained | `AeroDecoder`, `AeroReassembly`, `AeroBits`, `DecoderProofs` |
| Aero demodulators (`mskdemodulator.cpp`, `oqpskdemodulator.cpp`, `coarsefreqestimate.cpp`) | mixers, AFC, countdowns, signal status | estimates, AFC move, manual tune | carrier followed, a tune sticks, status told | `DemodControl`, `StationProofs` |
| ACARS handling (`main.c`, `acars_position.c`, `waypoint_db.c`, `learned_waypoints.c`, `aircraft_db.c`) | learned waypoints, track cache, databases | the ACARS callback, lookups | sources in order, limits, no mixing of aircraft | `Acars`, `AircraftDb`, `StationProofs` |
| BaseStation (`basestation.c`) | client table, push link, listening socket | accept, reconnect, send_position, destroy | each connection closed once, link comes back | `BaseStation`, `StationProofs` |
| web dashboard (`web.c`) | message ring, aircraft table, fixes | web_add_stdc, web_add_aero, tune requests | newest kept | `Acars`, `DemodControl`, `StationProofs` |
| SIMD kernels (`simd_*.c`) | chosen kernels | eleven kernels in four versions | all agree with the scalar one | `SimdKernels` |

How they interact: the queue and the ring carry samples; callbacks carry decoded
messages into the outputs in the thread that decoded them (workers for Aero,
main for STD-C); STD-C messages add channels from inside the channelizer's block
loop; `running` is the one global stop flag, written by the signal handler and
by input threads; the web threads read and tune demodulators through accessors
of `main.c`.

## Modules

Faults that a bug in the code would amount to (`Name_Fault`) stand before the
definition they replace. They are used only to show that a property notices them.

**FairLockOps / FairLock.** A critical section of `fair_lock.h` runs under
`lock->mutex` and is one operator on a lock value; `pthread_cond_wait` ends one
section and starts the next. The linked list is a set with an order: `ahead[t]`
holds the threads queued before `t`. This says the same as a list and needs no
induction over sequences in the proofs. `signalled` and `abandoned` hold the
threads whose entry has been unlinked and which have not run yet, the window in
which everything interesting happens. `BlockingQueue` uses the same operators.

**BlockingQueue.** A section under `bq->mutex` is one step, cut at
`pthread_cond_wait` and wherever a second operation on a fair lock follows,
because fair locks are also taken without that mutex. `use`, chosen by `Init`, is
a bounded or a growing queue with the calls made on it. `late` marks a call that
began after the close; `blocking_queue_destroy` makes no promise to such calls
when the queue had been closed before, and `FreeWaitsForCallers` leaves them
out. `MaxCapacity` is where malloc fails for a queue that grows.

**QueueContract.** What callers may rely on: each call takes effect at one moment
on one FIFO. `BlockingQueue!ImplementsContract` is the refinement: the circular
buffer read from `front` is `items`, and a thread whose weak lock was abandoned
has its answer from that moment on. BQ_FULL and BQ_EMPTY are answers of an open
queue, as the header promises, with one exception kept apart: `RefuseLate`, a
non-blocking call refused at the fair lock after the close, which is what the run
`queue_closed` shows against `blocking_queue.h:217`. `JsonWriter` and `Pipeline`
are built on the contract, `RefuseLate` included, and not on the implementation,
which is what makes them small.

**ChannelRing.** One step per load/store of an atomic counter and per copied
sample. A sample is named by its position in the accepted stream. The counters
are unsigned with modulus `Laps * RingSize` (2^32 in the code, two laps in the
run so that they wrap).

**JsonWriter.** Producers, writer and main around one queue, with the ownership
of every allocated copy. `hasLink`, chosen by `Init`, makes it `mqtt.c`, where
the sink may be disconnected. `Init` is the state after a successful feed_init or
mqtt_init.

**Pipeline.** The process: an input of one of nine kinds, the main loop, signals
from outside and from the process itself, and the shutdown in the order of
`main`. For a callback library "input" is the library's thread in the callback,
then the stream thread. The kinds differ in when they test `running`, how they
end, and whether they signal the process. A worker either decodes or not.

**DeviceSetup.** A backend's set-up, listing and start are sequences of steps
that check, acquire or release; each may fail, and a failure leads to errx and
the exit handlers. `service` is what the library holds, `ctx` the flags of
SDRplay's teardown. A second SIGINT is `_exit`, which runs no handler.

**Vita49.** Datagrams are lost, duplicated and overtaken between a source and the
thread. The header arithmetic is kept in bytes and words; `HeadersExact` goes
over all shapes of a range.

**Options.** `parse_options` as a fold over options; the refusals behind the loop
and the detection of the format follow it. `OptionsExact` says, over all command
lines of up to three of the given options, that an accepted one names an input
and enough to tune, and that the order of options does not matter except between
two of the same.

**TunePlan / Channels.** The satellite tables with their frequencies and the
rate, centre and mode that `main` derives. `Channels` is the channelizer's bands
and channels and main's table of demodulators. Announcements and calibration
happen inside the flush loop of a block, so a block is one action whose effects
follow one another over the channels in slot order. Both loops, over the plan
and over the slots, are recursive functions, so that they can be proved about. A
channel keeps the step of its oscillator as the code computes it, from the rate
that stage 1 should leave (`channelizer.c:463`, `:736`); what it mixes to zero
depends on the rate that the planned stages really leave.

**StdcDecoder / EgcReassembly / StdcBits.** The shift register is its position
and what the sender and the register have in common; the score of the sync word
is all a clean signal has at a boundary and anything in noise. Packets are
descriptors with lengths that the walk over a frame meets. A packet in pieces is
parsed by a call of `parse_packets` inside the one that met its last piece, on the
buffer of the collection, which is still open; `stack` holds these calls. A
continuation in that buffer appends it to itself and parses it again, a start
wipes it and collects zeros. Each piece carries the number of the packet it
belongs to. `EgcReassembly` is the slots, the clock and the messages
handed out by the last packet. `StdcBits` holds the pure parts with their sizes:
depermutation, deinterleaving, descrambling, the CRC and the Viterbi decoder,
against the nearest code word.

**AeroDecoder / AeroReassembly / AeroBits.** Time is cut into slots of one SU;
`cntr` is the decoder's place in the frame and lost bits shift it against the
transmitter. A ground station, external, sends a plan of messages. `AeroBits` is
the bit path with the sizes of each rate: interleaver, the overlapping blocks of
the continuous Viterbi decoder, delay line, depuncturing and unique word.

**DemodControl.** Coarse estimates, AFC and tuning. Filters and loops are
abstracted to the points at which they lock: the carrier and a false lock
beside it. An AFC move in the worker takes two steps, and a tuning request in a
client thread three, because both write the same members without a lock. `tuned`
is the frequency that should now stay: the one asked for, or, when a move or
another request ran into it, the one the mixer is left at once all of them are
done and AFC is off.

**Acars / AircraftDb.** The callback that every worker runs. A position is a
number on a line; a text is what each format finds in it. The track cache has no
lock, so finding and writing an entry are two steps; the count that two workers
may increment at once is a data race and has every outcome (`raced`).

**BaseStation.** Descriptors are reused by the system once closed; a peer leaves
unnoticed until a write finds out, and that write raises SIGPIPE unless web_init
has had it ignored.

**SimdKernels.** Every kernel over integers in its four versions, with lanes,
shuffles and scalar tails.

**MC modules.** `MCStation` puts Channels, BaseStation, Acars, DemodControl,
Vita49 and DeviceSetup in one run. They share no variable, so the reachable
states of the whole are the product of the parts', and a property of one part
holds in the product if it holds in that part. `part` therefore says which part
moves; the others stay in an initial state in which nothing is owed.
`MCStdcDecoder` does the same for frames and EGC messages, and `MCSync` for the
fair lock and the ring of a channel.

## Runs

Passing runs:

| Run | Bounds | What it shows |
|---|---|---|
| sync, lock | 3 threads | exclusion, FIFO among pending requests; nobody starves |
| sync, ring | ring 4, batch 3, pushes up to 5, 11 samples, counters mod 8 | races, order, drops; everything is fed, a stopped worker is joined |
| queue | 3 threads; capacity 1 with add/put/take, and growth to 4 with add/poll; 1 closer | close and destroy, refinement of QueueContract, with a failing malloc |
| queue_liveness | 2 threads, add/put/take, 1 closer | blocked callers go on, non-blocking ones return, close returns |
| json | 2 producers, 3 messages, capacity 1, with and without a connection | ownership, order, drops, decoders never blocked, accepted messages come out, shutdown returns |
| pipeline | 9 inputs, 3 buffers, 2 signals | owners of buffers, counts, order of destruction; a stopped program and an ended input lead to the exit |
| stdc | frames of 3 soft bits and 17 bytes, packets of 1, 7 and 17 bytes, 2 packets in pieces, 3 calls of parse_packets inside each other, a bit counter that overflows at 4; for EGC 2 slots of 2 parts, 3 ids, packet numbers up to 2, timeout 1 | every bit in one frame, lock regained, packets whole, EGC not mixed, oldest evicted |
| aero | 3 plans of 4 or 5 messages, 3 SUs a frame, 3 reference numbers, 4 faults | lossless reception is exact, mixing needs losses, sync regained |
| station, channels | 3 announcements, 28 channels, 8 bands; every satellite, mode and kind of device, with and without --ppm | channels on frequency, one demodulator each |
| station, basestation | 2 clients, 3 descriptors, 3 losses, both modes | no connection lost sight of, misses bounded, link comes back |
| station, acars | 2 workers, 3 of 7 messages, caches of 1 and 2 | own tracks, newest kept |
| station, demod | 4 demodulators, 2 requests of 3 kinds, 2 disturbances | status told, tune sticks, carrier followed |
| station, vita49 | 7 packets counted mod 4, 1 fault, delays of 2 | gaps told |
| station, device | 7 backends, 2 SIGINTs | released once and in order |

`MCStation`, `MCStdcDecoder` and `MCAeroDecoder` also evaluate, once and as
assumptions, what the pure parts compute against a reference definition:
decimation cascades and buffer sizes, tables and searches, headers, device
choices, options, kernels, the CRC and Viterbi decoder, the Aero bit path.

Why the bounds are enough. The lock and the queue tell a holder, a signalled and
a queued thread apart, so three threads meet every pairwise race with a third one
arriving; capacity 1 makes full and empty adjacent. The ring wraps more than
once in 11 samples and its counters wrap once; the proofs remove these bounds.
Three ids on two slots force eviction; two ticks pass the timeout of one. Three
messages of three aircraft on tables of two, and a track cache of one, force
eviction and reuse with two workers inside. Four messages with three reference
numbers bring a number back; four faults are two losses of the signal, or a loss
before and after a recovery. Seven packets modulo four wrap the counter. Caches
and tables are scanned by the same loops whatever their size. Symmetry is used
for threads in the runs `queue` and `queue_closed`, whose properties are all safety
properties; the queue's refinement is one too.

Runs that show a disagreement between the code and what the repository says of
it, each with an entry under "findings" in `PROJECT.json` that quotes the line:

- `queue_closed`: after the close, while a caller that was blocked has not run
  yet, an `_add` begun after the close is answered BQ_FULL (`blocking_queue.h:419`;
  BQ_EMPTY for `_poll`, `:490`), where the header (`:217`) promises BQ_CLOSED. The
  program does not depend on it: every answer but success ends the call.
- `pipeline_bladerf`: a bladeRF stream does not end when told to.
- `decimation`: for 4F3 in full mode the stage-1 decimation is 19 and the stages
  planned for it multiply to 18, so the channel's rate is not what the code
  computed it to be, and its oscillator turns too far for each sample: a channel
  78846 Hz from the centre of its band is mixed about 4380 Hz off. The violation
  is there right after set-up.
- `basestation`: SIGPIPE ends the program in push mode when the dashboard is
  off. In the run `station`, with the dashboard, the link comes back.

Observed while modelling and not shown by a run:

- `fair_lock.h:239`, `blocking_queue.h:450` and `:515` wait once and not in a
  loop, so a spurious wake-up, which POSIX allows, lets a thread into a held
  lock, an adder into a full queue and a getter into an empty one (the assertion
  at `fair_lock.h:248` is commented out). All results here are about a
  `pthread_cond_wait` that returns only when signalled.
- `blocking_queue_close` returns at once on a closed queue (`blocking_queue.h:325`), so a destroy
  after a close does not wait for calls made in between (comment at `:229`).
- The drain loops at `feed.c:455` and `mqtt.c:144` poll a closed queue, which
  answers BQ_CLOSED at once, so they free nothing.
- Detached web client threads may use demodulators that `main` has destroyed
  (`main.c:1769`), because the pointers in `jaero_chans` are not reset.
- `_exit(130)` at the second signal (`main.c:529`) runs no atexit handler, so an
  SDRplay device stays selected; `errx` in main after the input thread has
  started runs it while that thread may be in its own teardown.
- An EGC message whose earlier parts were lost is complete with its last packet
  and emitted with the holes closed up (`stdc_decode.c:869`, comment at `:905`);
  a slot past its timeout whose id matches is continued (`:357`).
- A continuation (0xBE) inside a packet put together from pieces makes
  `parse_packets` call itself on the same bytes (`stdc_decode.c:968`). Nothing
  bounds the depth of these calls; the model stops at `MaxDepth`.
- An OQPSK decoder looks for the unique word only at its place while `datacd` is
  set (`aerol.cpp:1031`), and in continuous mode only `LostSignal` clears it: after
  lost bits it stays out of step until the demodulator reports a loss.
- Of an ACARS text in several blocks the adapters hand on the user data of the
  first block's ISU (`jaero_demod.cpp:108`), which is what `defragment` leaves in
  the joined item (`aerol.cpp:310`), and not the joined text.
- SSUs carry no AES, so two aircraft with the same reference and Q number whose
  0x71 SUs are both pending are told apart by order only. A 0x71 SU that needs
  more than eight octets is repeated. The two-SU T bursts of `updateMSK` are
  never reached.
- `sigstat_last` starts true: a signal that is good from the first estimate is
  never told and is shown unlocked until it has been lost once.
- MSK's AFC needs `dcd`, which nothing sets, so it never moves the centre.
- An AFC move that has begun overwrites a tune made in between, and two requests
  at once can leave `afc` and the copy the dashboard shows different.
- In push mode `basestation_destroy` closes the link twice, once as a client and
  once as `bs_client_fd`.
- Two workers in `bs_derive_track` at once may derive a speed from another
  aircraft's position, and `bs_track_count` may pass its limit
  (`basestation.c:351`); `TrackFromOwnFixes` is about workers that take turns.
- Several `-i` options are accepted, with a fixed priority among them;
  `--airspy-gain` is declared under HAVE_UHD and handled under HAVE_AIRSPY;
  `--format fc32` is refused although the extension `.fc32` is known.
- An RTL-SDR gain of up to 40 dB is raised to 49.6 whatever was asked for
  (`rtlsdr.c:101`). Nothing calls `soapy_close` and `airspy_backend_close`.

## Fairness

Weak fairness of threads inside a call (POSIX threads keep running and mutexes
are eventually granted), never of starting a call. `FairLock`: a signalled thread
runs and a holder unlocks, which every user of the lock does. `JsonWriter`: no
fairness of the write, since stdout may block for ever; `AcceptedComesOut`
assumes it in the property itself (`SinkTakes`), and `DecoderNeverBlocks` does
not. `Pipeline`: a read of the input returns, with samples or without (the
libraries' calls have timeouts; a file read from a pipe that stays silent may
block, and then shutdown waits for it), nothing about the user or the device.
`StdcDecoder` and `AeroDecoder`: bits keep coming, which is what a receiver that
runs delivers; the properties themselves ask for a signal that stays.
`BaseStation`: the threads run, positions keep coming (a lost link is found only
by a write), and, strongly, the remote host answers a connection that is tried
again and again. `DemodControl`: estimates keep coming and a request that began
is served.

## Proofs

Checked by tlapm for every value of the constants that satisfies the named
ASSUMEs of the modules; TLC evaluates these in every run. Each theorem rests on
an inductive invariant that is a conjunction of named parts, one lemma per action
that preserves it, and a last temporal step. Fairness is not used.

*FairLockOpsProofs* has the lemmas about the critical sections of `fair_lock.h`
that both users need. `LockOK(l, Q, W, H)` relates a lock to the threads that
wait in an entry, those that wait weakly and those that hold it: waiters,
signalled and abandoned threads are disjoint and together all that wait;
`acquired` iff somebody holds; one holder; at most one thread is signalled, and
none while the lock is held; abandoned entries are weak; the waiting count. There
is one lemma per section: which `LockOK` it needs and which it leaves.

*FairLockProofs*, any finite set of threads. `LockInv` is the same for one lock,
and adds that `ahead` linearly orders the list and agrees with the arrival order
`before`. Without that part a front entry need not exist, and FIFO order cannot be
concluded; without the part on signalled threads a woken one could find the lock
held. From it follow `MutualExclusion`, `WaitingCountExact`, `NoStrandedWaiter`,
and the action properties `AcquireOnlyWhenFree` and `NoOvertaking`.

*BlockingQueueProofs*, any capacity, growth, callers, closers and elements.
`QueueInv` is `CallInv` (types, and which call a thread is in), `RingInv` (front,
rear and size agree through wraps and growth, so that the slots from front on are
the FIFO that the refinement mapping reads off the buffer),
`LocksInv` (`LockOK` of both fair locks) and `StuckInv` (weak locks of a side are
blocked only while the queue is full, or empty, and does not grow). These are the
reasons why the code may do three things that look unsafe. A thread woken on
`bq->cond` does not look at the queue again: its fair lock keeps out everybody of
its side, so nobody can have taken what it was woken for. One `cond_signal` is
enough: the only other waiter would be of the other side, and both sides cannot be
stuck. A weak caller that was abandoned in the list answers `BQ_FULL` or
`BQ_EMPTY` without looking: that was so at the moment of the abandonment, which
is where the refinement mapping lets the contract act. `ImplementsQueueContract`
is the whole refinement: `Init` maps to `Init` and every action to an action of
`QueueContract` or a stutter. `CloseInv` says that `active_callers_count` is the
number of callers in a call and that whoever finds the queue closed with
`close_mutex` free comes after a closer that saw the count at zero; from it
follows `FreeWaitsForCallers`. Wake-ups without a signal are excluded, as in the
model; the hazard at `fair_lock.h:239` says what they would do.

*JsonWriterProofs* and *PipelineProofs* argue from `QueueContract`, so that they
hold for any queue that implements it, which the previous module shows
`blocking_queue.h` does. `JwInv` says which call each thread is in and which
answers it can get (`RoleInv`), that no message is accepted twice
(`AcceptedInv`), that the accepted messages are the output, then what the writer
has, then the queue (`OrderInv`), who owns the heap (`HeapInv`), and that drops,
accepted messages and calls in progress add up (`CountInv`). `OneOwner` and
`WrittenInOrder` follow. In `PipelineProofs`, `LifeInv` says that nothing is
destroyed before the input thread and the workers have been joined, which gives
`UsesOnlyWhatIsAlive` and `ForceQuitOnlyByUser`; `BufInv` adds who owns each
buffer, that the counts are exact while `running`, or to the end for a file that
nobody interrupts, and that such a file's input thread leaves only an empty queue
behind. This gives `NoSilentLoss` and `FileProcessedToEnd`.

*ChannelRingProofs*, any ring, batch and push size and any number of laps of at
least two. The invariant relates the wrapped counters to the true counts
(`head = sent mod 2^32`, likewise `tail`), bounds the fill and the copies in
progress by the room and the fill at the time of the load, and says what each
slot between tail and head + copied holds. Laps must be at least two: with one, a
full ring and an empty one have the same counters. The rest follows.

*DecoderProofs*, STD-C: any frame size, slots, identifiers and parts. `SyncInv`: the bits
since the last frame are at least those the code counts with `shift_pos`, or a
whole frame, and bits inverted in place are older than these; from it
`EachBitDecodedOnce`. `NestedInv`: while an inner call
of `parse_packets` reads a buffer that was not wiped, its bytes belong to the
packet they were collected for, and every inner call was given a length of which
all but the CRC is collected; inner continuations append, and a start wipes, after
which nothing more is found. With the types this is `WholeInv`; from it
`PacketsAreWhole`, for any depth of calls. `NoForeignParts` is inductive with the type of
the slots, and `EvictsOnlyOldest` is an action property of `find_egc_slot`, for
which the slot it chooses is shown to exist and to be the least recently heard.

*DecoderProofs*, Aero P channel: any plan of messages, frame size, number of
reference numbers, life of items and fragments, and any number of faults. Two
invariants follow an SU from the transmitter through the delay line, the items
and the fragments to the callback.

- `AeroInv` holds with faults. Its core is an order: the SUs in the delay line
  come after those that were decoded and before those not sent yet (`LineOK`),
  because lost, damaged and misplaced slots only leave SUs out. So the SUs of an
  item came in order, and an item outlives at most `KeepIsu` messages heard. From
  it `MixingNeedsLosses`. The attempt to prove an earlier form of that property
  failed for a reason: a 0x71 SU whose last SSU would be too long is not matched
  with the item of its key, so two items of one key stand side by side and later
  SSUs can go to the wrong one without a loss. The property now names this case.
- `AeroExact` holds while nothing is lost. `LineExact` says that the delay line
  holds the last frames, `ExactDec` what the decoder has after each SU: the item
  of the message in progress with exactly its SUs so far, for each aircraft the
  blocks of its unfinished text (`FragsExact`), and at the callback exactly the
  texts that ended (`OutExact`). From it `LosslessIsExact`, for plans that are
  `Orderly`: what the defragmenter drops by design, a text with a block turned
  away or one interrupted by more than `KeepFrag` blocks, is left out. Every plan
  of the run is orderly.

Frames, lists of items and the channel table are walked by recursive functions.
The library's induction theorems cannot be used here, so each such walk has an
argument by least counterexample: `LeastExists` (a set of numbers that is not
empty has a least member, from `WellFoundedInduction`) and, from it, `UpTo` (a set
with 0 and the successor of each member is all of `0..n`).

*StationProofs*, one invariant per component:

- `DemodControl`: `StatusInv` (what was told last is what was found last) gives
  `SignalStatusTold`. `TuneInv` says what a request that nothing ran into has
  stored at each of its steps, and that AFC is off, and nobody about to write,
  once the centre rests; from it `TuneSticks`.
- `Vita49`: `AirInv` bounds how far a datagram on its way can be behind,
  `HeardInv` relates the counter to the last packet heard, `LossInv` bounds the
  packets lost behind it by the faults and the packets skipped; so a jump can
  never be a whole turn of the counter, and `GapsTellLoss` follows. The proof
  corrected the property: packets that overtook a late one before the port was
  bound count twice, so the bound is on `faults + skipped + 2 * (MaxDelay - 1)`.
  TLC shows the smaller bound false with delays of 3 and a counter mod 4.
- `DeviceSetup`: at every step of a set-up, a stream or a teardown the backend
  holds what its steps so far acquired and did not release (`HeldInv`); for
  SDRplay, what the context says, which the exit handler reads (`PlayInv`). From it
  `ServiceReleased`.
- `BaseStation`: every open descriptor is in exactly one place, the list or the
  hand of the accept or reconnect thread, and a client's misses plus the peers
  that left and are still listed are at most the losses (`MissInv`). From it
  `ConnectionsAccountedFor` and `MissesBoundedByLosses`.
- `Acars`: while no two workers were in `bs_derive_track` together, the cache has
  one entry per aircraft, with its last position unless a worker is about to write
  it (`CacheInv`, `WriterInv`). From it `TrackFromOwnFixes`.
- `Acars`, dashboard: `DashInv` compares the table of web.c with the whole
  history of messages. `last_seen` of an entry is the place of its last message
  (`SeenLast`), so the entries are ranked as they were heard; an aircraft that has
  no entry was heard before all that have one, once the table is full
  (`GoneEarlier`); and the fixes of an entry are the newest of its aircraft, in
  order, with none left out between them (`FixesKept`). From it
  `DashboardKeepsRecent`.
- `Channels`: `ChInv` (`StOK` of the state a block works on). Each band's mixer is
  its distance from the centre that the channelizer works with, that centre is the
  planned one less the corrections applied, and the bands' members are channels
  (`ChzOK`); the step of a channel's oscillator is its distance from its band at
  the rate that stage 1 should leave (`StepOK`), which is the rate it has in a band
  with exact stages; slots and channels asked for correspond, on their frequencies
  (`Matched`); ids are distinct, below the next one, and announced channels 5 kHz
  from the others (`AskedOK`); a demodulator has an id of its own that was asked
  for (`DemodsOK`). There is a lemma for each of add, finalize, adjust_center,
  announcement, calibration and first output, and `BlockKeeps` carries them over
  the flush loop, where slots may be added on the way. From it
  `OneDemodPerChannel` and the part `MixedToZero` of `ChannelsOnFrequency`, for
  any plan, limits, announcements and offsets (`ChannelsMixed`; it is about bands
  with exact stages, since in the others the code does not mix to zero).
  `ChannelsStay` is about the rest: what a block keeps (`KeptStep`) is everything
  that was asked for and signals that fit their bands. An announced channel fits because a compatible band is at
  most 1 % off in rate and at most 40 % of it away, and has at least 200 kHz
  (`SplitWhole`, `RoomInBand`). That a plan fits at set-up, after recentring,
  depends on the frequencies of the table and on the limits, and is left to TLC,
  which finds it true of every satellite, mode and kind of device; the theorem is
  about the steps after it. `PlansAssumption` asks of the plans only that a table's ids are distinct
  and below 100 and that the device gives 200 kHz; TLC evaluates it for the same
  plans.

Only model-checked:

- liveness, which is out of the prover's reach;
- that the built-in plans fit at set-up: no channel lost to a limit, every signal
  inside its band after recentring (the initial states of `ChannelsOnFrequency`);
- what the folds and recursive functions of the pure parts compute (`StdcBits`,
  `AeroBits`, `SimdKernels`, `TunePlan`, `Options`, `AircraftDb`): they are checked
  against their reference definitions over bounded inputs.

## Not modelled

- The values of the signal processing: filters, FFTs, timing and phase loops,
  the BPSK demodulator, rounding in the SIMD kernels.
- The burst demodulators and the R and T channel paths of AeroL: no caller
  enables them.
- libcorrect, libacars, libmosquitto, libzmq and the SDR libraries, beyond how
  this code uses them; the ZMQ outputs, which only format and send.
- The text of messages, JSON and HTTP, the dashboard's page, and malloc failures
  other than those named above.
- The capture tools.

## Status

Every safety property that a passing run checks is also a theorem, for every value
of the constants, with one exception: of `ChannelsOnFrequency` the part
`MixedToZero` and the steps of the rest are proved, and that the built-in plans fit
at set-up is model-checked.
Liveness stays with TLC. The parts listed as not modelled are numerical, unused or
other projects' code; a change in the code listed in the table above should start
with the module of its row.
