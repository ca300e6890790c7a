------------------------------ MODULE Pipeline ------------------------------
(***************************************************************************)
(* The life of the process: one input thread (a file, an SDR library or    *)
(* VITA-49 packets) that fills samples_queue, the main loop that polls it  *)
(* and runs the channelizer, signals, and the shutdown sequence of main.   *)
(*                                                                         *)
(* The queue is QueueContract.  The channel workers are one worker that    *)
(* decodes or not (its ring is ChannelRing), the output threads are alive  *)
(* or not (JsonWriter).  A buffer is named by its place in the input.      *)
(***************************************************************************)
EXTENDS Naturals, Sequences, FiniteSets

CONSTANTS
  Backends,     \* the kinds of input to consider
  Bound,        \* SAMPLES_QUEUE_SIZE
  MaxBuffers,   \* bound: buffers the input delivers
  MaxSignals,   \* bound: SIGINTs and SIGTERMs the user sends
  NoElement

AllBackends == {"file", "rtlsdr", "hackrf", "airspy", "sdrplay", "bladerf",
                "usrp", "soapy", "vita49"}

ASSUME PipelineAssumption ==
  /\ Backends \subseteq AllBackends
  /\ Bound \in Nat \ {0} /\ MaxBuffers \in Nat /\ MaxSignals \in Nat
  /\ NoElement \notin Nat

VARIABLES
  items, isClosed, request, status, answer,  \* samples_queue
  input,        \* the backend in use
  pc,           \* where the input thread, main and the worker are
  running,      \* the global flag
  cancelled,    \* rtlsdr_cancel_async was called
  held,         \* held[t]: the buffers the input thread and main have in hand
  heap,         \* the buffers allocated
  drops,        \* stat_drops
  thread_run,   \* the workers' thread_run
  alive,        \* what shutdown has not destroyed
  userSignals,  \* signals the user has sent
  exited,       \* "no", "return" from main, or "_exit"
  delivered,    \* history: buffers allocated by the input
  processed     \* history: buffers the channelizer has seen

queueVars == <<items, isClosed, request, status, answer>>
flags     == <<running, cancelled, userSignals, exited>>
bufVars   == <<held, heap, drops, delivered, processed>>
downVars  == <<thread_run, alive>>
vars == <<queueVars, input, pc, flags, bufVars, downVars>>

Queue == INSTANCE QueueContract WITH
  Threads <- {"input", "main"}, Elements <- 1..MaxBuffers, bound <- Bound

Resources == {"samples_queue", "demods", "stdc", "basestation", "aircraft_db",
              "mqtt", "reasm", "web", "feed"}

Init ==
  /\ Queue!Init
  /\ input \in Backends
  /\ pc = [t \in {"input", "main", "worker"} |->
             CASE t = "input" -> "top" [] t = "main" -> "poll"
               [] OTHER -> "idle"]
  /\ running = TRUE /\ cancelled = FALSE
  /\ held = [t \in {"input", "main"} |-> {}]
  /\ heap = {} /\ drops = 0
  /\ thread_run = TRUE
  /\ alive = Resources
  /\ userSignals = 0 /\ exited = "no"
  /\ delivered = 0 /\ processed = <<>>

Goes(t, to) == pc' = [pc EXCEPT ![t] = to]

Holds(t, S) == held' = [held EXCEPT ![t] = S]

(* samples_queue answers.  One thread adds and one polls, so neither waits *)
(* for a fair lock and neither is told BQ_ERROR.                           *)
QueueAnswers(t) ==
  /\ \/ Queue!Accept(t) \/ Queue!Deliver(t) \/ Queue!RefuseClosed(t)
     \/ Queue!RefuseFull({t}) \/ Queue!RefuseEmpty({t}) \/ Queue!RefuseLate(t)
  /\ UNCHANGED <<input, pc, flags, bufVars, downVars>>

-----------------------------------------------------------------------------
(* Signals.  A signal that the process sent itself only clears `running`;  *)
(* one from outside ends the process if it is already stopping.            *)

(* Fault: the sender is not looked at. *)
sig_handler_AnySender(self) ==
  /\ IF running THEN running' = FALSE /\ UNCHANGED exited
     ELSE exited' = "_exit" /\ UNCHANGED running

sig_handler(self) ==
  IF self THEN running' = FALSE /\ UNCHANGED exited
  ELSE IF ~running THEN exited' = "_exit" /\ UNCHANGED running
  ELSE running' = FALSE /\ UNCHANGED exited

UserSignal ==
  /\ userSignals < MaxSignals
  /\ userSignals' = userSignals + 1
  /\ sig_handler(FALSE)
  /\ UNCHANGED <<queueVars, input, pc, cancelled, bufVars, downVars>>

-----------------------------------------------------------------------------
(* The input thread (or, for a callback library, the library's thread      *)
(* while it is in the callback).                                           *)

(* These test `running` again once they have the samples. *)
Rechecks == {"bladerf", "usrp", "soapy"}

(* The loop or the callback tests `running`, then waits for samples or     *)
(* converts the ones it was given.  bladerf.c does not test it here.       *)
InputChecks ==
  /\ pc["input"] = "top"
  /\ running \/ input = "bladerf"
  /\ Goes("input", "reading")
  /\ UNCHANGED <<queueVars, input, flags, bufVars, downVars>>

(* There are samples, and a buffer for them; `running` may have changed.   *)
InputDelivers ==
  /\ pc["input"] = "reading"
  /\ delivered < MaxBuffers
  /\ delivered' = delivered + 1
  /\ heap' = heap \cup {delivered'}
  /\ Holds("input", {delivered'})
  /\ Goes("input", "have")
  /\ UNCHANGED <<queueVars, input, flags, drops, processed, downVars>>

(* A timeout, an overflow, a packet without samples, no memory: the loop   *)
(* goes round, the callback returns.                                       *)
InputDeliversNothing ==
  /\ pc["input"] = "reading" /\ input # "file"
  /\ Goes("input", "top")
  /\ UNCHANGED <<queueVars, input, flags, bufVars, downVars>>

(* push_samples, or for a file blocking_queue_put. *)
InputPushes ==
  /\ pc["input"] = "have"
  /\ input \in Rechecks => running
  /\ \E b \in held["input"] :
       Queue!Invoke("input", IF input = "file" THEN "put" ELSE "add", b)
  /\ Goes("input", "call")
  /\ UNCHANGED <<input, flags, bufVars, downVars>>

InputDiscards ==
  /\ pc["input"] = "have"
  /\ input \in Rechecks /\ ~running
  /\ heap' = heap \ held["input"]
  /\ Holds("input", {})
  /\ Goes("input", "top")
  /\ UNCHANGED <<queueVars, input, flags, drops, delivered, processed, downVars>>

(* Fault: whatever is not accepted is lost silently. *)
InputReturns_Uncounted ==
  /\ pc["input"] = "call" /\ status["input"] = "answered"
  /\ heap' = IF answer["input"].code = "OK" THEN heap ELSE heap \ held["input"]
  /\ Goes("input", IF input = "file" /\ answer["input"].code # "OK" THEN "drain" ELSE "top")
  /\ Queue!Return("input")
  /\ Holds("input", {})
  /\ UNCHANGED <<input, flags, drops, delivered, processed, downVars>>

(* push_samples frees and counts on BQ_FULL; on BQ_CLOSED it does neither. *)
(* The file thread frees on any failure and leaves its loop.               *)
InputReturns ==
  /\ pc["input"] = "call" /\ status["input"] = "answered"
  /\ IF answer["input"].code = "BQ_FULL" \/ (input = "file" /\ answer["input"].code # "OK")
     THEN heap' = heap \ held["input"]
     ELSE UNCHANGED heap
  /\ drops' = IF answer["input"].code = "BQ_FULL" THEN drops + 1 ELSE drops
  /\ Goes("input", IF input = "file" /\ answer["input"].code # "OK" THEN "drain" ELSE "top")
  /\ Queue!Return("input")
  /\ Holds("input", {})
  /\ UNCHANGED <<input, flags, delivered, processed, downVars>>

(* The loop `while (running)` ends: seen at its top, at the latest when    *)
(* the blocking call in it times out.  bladerf_stream does not return for  *)
(* it: the callback always hands a buffer back, so the stream goes on.     *)
InputStops ==
  /\ pc["input"] = "top"
  /\ IF input = "rtlsdr" THEN cancelled ELSE ~running /\ input # "bladerf"
  /\ Goes("input", IF input = "file" THEN "drain" ELSE "ending")
  /\ UNCHANGED <<queueVars, input, flags, bufVars, downVars>>

(* End of file, out of memory, or a device that fails or goes away: where  *)
(* the backend's loop has a way out.                                       *)
InputFails ==
  /\ pc["input"] = "reading"
  /\ input \notin {"hackrf", "sdrplay"}
  /\ Goes("input", IF input = "file" THEN "drain" ELSE "ending")
  /\ UNCHANGED <<queueVars, input, flags, bufVars, downVars>>

(* sdrplay.c: event_callback is told that the device was removed. *)
DeviceRemoved ==
  /\ input = "sdrplay" /\ pc["input"] \in {"top", "reading", "have", "call"}
  /\ running' = FALSE
  /\ UNCHANGED <<queueVars, input, pc, cancelled, userSignals, exited, bufVars, downVars>>

(* Fault: the file thread does not wait for the queue to drain. *)
SpewerDrained_AtOnce ==
  /\ pc["input"] = "drain"
  /\ Goes("input", "ending")
  /\ UNCHANGED <<queueVars, input, flags, bufVars, downVars>>

(* "Wait for queue to drain": samples_queue.queue_size, read unlocked. *)
SpewerDrained ==
  /\ pc["input"] = "drain"
  /\ ~running \/ items = <<>>
  /\ Goes("input", "ending")
  /\ UNCHANGED <<queueVars, input, flags, bufVars, downVars>>

(* `running = 0` at the end of the thread, where the backend has it. *)
InputEnds ==
  /\ pc["input"] = "ending"
  /\ running' = IF input \in {"hackrf", "usrp", "bladerf"} THEN running ELSE FALSE
  /\ Goes("input", IF input \in {"file", "soapy", "sdrplay", "vita49", "bladerf"}
                   THEN "kill" ELSE "exit")
  /\ UNCHANGED <<queueVars, input, cancelled, userSignals, exited, bufVars, downVars>>

(* kill(self_pid, SIGINT) *)
InputKills ==
  /\ pc["input"] = "kill"
  /\ sig_handler(TRUE)
  /\ Goes("input", "exit")
  /\ UNCHANGED <<queueVars, input, cancelled, userSignals, bufVars, downVars>>

-----------------------------------------------------------------------------
(* The main loop *)
MainPolls ==
  /\ pc["main"] = "poll"
  /\ running
  /\ Queue!Invoke("main", "poll", NoElement)
  /\ Goes("main", "polled")
  /\ UNCHANGED <<input, flags, bufVars, downVars>>

MainPolled ==
  /\ pc["main"] = "polled" /\ status["main"] = "answered"
  /\ IF answer["main"].code = "OK"
     THEN Goes("main", "process") /\ Holds("main", {answer["main"].elem})
     ELSE /\ Goes("main", IF answer["main"].code = "BQ_CLOSED" THEN "stop" ELSE "poll")
          /\ UNCHANGED held
  /\ Queue!Return("main")
  /\ UNCHANGED <<input, flags, heap, drops, delivered, processed, downVars>>

(* zmq_iq_send, channelizer_process, free(buf) *)
MainProcesses ==
  /\ pc["main"] = "process"
  /\ \E b \in held["main"] : processed' = Append(processed, b)
  /\ heap' = heap \ held["main"]
  /\ Holds("main", {})
  /\ Goes("main", "poll")
  /\ UNCHANGED <<queueVars, input, flags, drops, delivered, downVars>>

MainLeavesLoop ==
  /\ pc["main"] = "poll"
  /\ ~running
  /\ Goes("main", "stop")
  /\ UNCHANGED <<queueVars, input, flags, bufVars, downVars>>

-----------------------------------------------------------------------------
(* Shutdown, in the order of main. *)

(* rtlsdr_backend_close: cancels, and rtlsdr_close waits for the end of    *)
(* the asynchronous read.                                                  *)
CancelAsync ==
  /\ pc["main"] = "stop"
  /\ cancelled' = (input = "rtlsdr")
  /\ Goes("main", "cancelled")
  /\ UNCHANGED <<queueVars, input, running, userSignals, exited, bufVars, downVars>>

(* Fault: the queue is not closed before the join. *)
CloseQueue_None ==
  /\ pc["main"] = "cancelled"
  /\ input = "rtlsdr" => pc["input"] \in {"ending", "exit"}
  /\ Goes("main", "join")
  /\ UNCHANGED <<queueVars, input, flags, bufVars, downVars>>

CloseQueue ==
  /\ pc["main"] = "cancelled"
  /\ input = "rtlsdr" => pc["input"] \in {"ending", "exit"}
  /\ Queue!Close
  /\ Goes("main", "closing")
  /\ UNCHANGED <<input, flags, bufVars, downVars>>

CloseQueueReturns ==
  /\ pc["main"] = "closing"
  /\ \A t \in {"input", "main"} : status[t] = "idle"
  /\ Goes("main", "join")
  /\ UNCHANGED <<queueVars, input, flags, bufVars, downVars>>

JoinInput ==
  /\ pc["main"] = "join"
  /\ pc["input"] = "exit"
  /\ Goes("main", "flush")
  /\ UNCHANGED <<queueVars, input, flags, bufVars, downVars>>

(* bpsk_demod_destroy flushes the last bits through the STD-C decoder and  *)
(* the outputs; then the workers are told to stop.                         *)
FlushStdcAndStop ==
  /\ pc["main"] = "flush"
  /\ thread_run' = FALSE
  /\ Goes("main", "joinworkers")
  /\ UNCHANGED <<queueVars, input, flags, bufVars, alive>>

(* Fault: the workers are not joined. *)
JoinWorkers_None ==
  /\ pc["main"] = "joinworkers"
  /\ Goes("main", "destroy")
  /\ UNCHANGED <<queueVars, input, flags, bufVars, downVars>>

JoinWorkers ==
  /\ pc["main"] = "joinworkers"
  /\ pc["worker"] = "exit"
  /\ Goes("main", "destroy")
  /\ UNCHANGED <<queueVars, input, flags, bufVars, downVars>>

(* What is destroyed, one after the other. *)
DestroyOrder ==
  <<"demods", "stdc", "basestation", "aircraft_db", "mqtt", "samples_queue",
    "reasm", "web", "feed">>

Destroy ==
  LET i == Len(DestroyOrder) + 1 - Cardinality(alive) IN
  /\ pc["main"] = "destroy"
  /\ i <= Len(DestroyOrder)
  /\ alive' = alive \ {DestroyOrder[i]}
  /\ UNCHANGED <<queueVars, input, pc, flags, bufVars, thread_run>>

MainReturns ==
  /\ pc["main"] = "destroy"
  /\ alive = {}
  /\ exited' = "return"
  /\ Goes("main", "done")
  /\ UNCHANGED <<queueVars, input, running, cancelled, userSignals, bufVars, downVars>>

-----------------------------------------------------------------------------
(* A channel worker: while it runs it decodes what is in its ring, and a   *)
(* decoded message goes to every output.                                   *)
WorkerDecodes ==
  /\ pc["worker"] = "idle" /\ thread_run
  /\ Goes("worker", "decode")
  /\ UNCHANGED <<queueVars, input, flags, bufVars, downVars>>

WorkerDone ==
  /\ pc["worker"] = "decode"
  /\ Goes("worker", "idle")
  /\ UNCHANGED <<queueVars, input, flags, bufVars, downVars>>

WorkerExits ==
  /\ pc["worker"] = "idle" /\ ~thread_run
  /\ Goes("worker", "exit")
  /\ UNCHANGED <<queueVars, input, flags, bufVars, downVars>>

-----------------------------------------------------------------------------
InputReads == InputDelivers \/ InputDeliversNothing

InputStep == InputChecks \/ InputPushes \/ InputDiscards \/ InputReturns
             \/ InputStops \/ SpewerDrained \/ InputEnds \/ InputKills

MainStep == MainPolls \/ MainPolled \/ MainProcesses \/ MainLeavesLoop
            \/ CancelAsync \/ CloseQueue \/ CloseQueueReturns \/ JoinInput
            \/ FlushStdcAndStop \/ JoinWorkers \/ Destroy \/ MainReturns

WorkerStep == WorkerDone \/ WorkerExits

Next ==
  \/ /\ exited = "no"
     /\ \/ UserSignal \/ InputFails \/ DeviceRemoved
        \/ InputReads \/ InputStep \/ MainStep
        \/ \E t \in {"input", "main"} : QueueAnswers(t)
        \/ WorkerDecodes \/ WorkerStep
  \/ exited # "no" /\ UNCHANGED vars

Spec == Init /\ [][Next]_vars

(* The threads keep running and the queue answers; a read returns, with    *)
(* samples, without, or at the end of the file.  Nothing else is promised  *)
(* of the user or the device.                                              *)
Fairness ==
  /\ WF_vars(exited = "no" /\ (InputReads \/ (input = "file" /\ InputFails)))
  /\ WF_vars(exited = "no" /\ InputStep)
  /\ WF_vars(exited = "no" /\ MainStep)
  /\ WF_vars(exited = "no" /\ WorkerStep)
  /\ \A t \in {"input", "main"} : WF_vars(exited = "no" /\ QueueAnswers(t))

FairSpec == Spec /\ Fairness

-----------------------------------------------------------------------------
Queued == {items[i] : i \in 1..Len(items)}

InputOwns == IF pc["input"] = "call" /\ status["input"] = "answered"
                /\ answer["input"].code = "OK"
             THEN {} ELSE held["input"]

MainOwns == held["main"] \cup (IF status["main"] = "answered" /\ answer["main"].code = "OK"
                               THEN {answer["main"].elem} ELSE {})

(* A sample buffer has one owner at a time, and it is allocated; until     *)
(* samples_queue is closed an allocated buffer has an owner, so none       *)
(* leaks while the program runs, whoever is ahead of whom.  And stat_drops *)
(* is exact while it runs: a block from the device is in the pipeline, was *)
(* processed, or was counted as dropped.                                   *)
NoSilentLoss ==
  /\ InputOwns \cup Queued \cup MainOwns \subseteq heap
  /\ InputOwns \cap Queued = {} /\ Queued \cap MainOwns = {}
  /\ InputOwns \cap MainOwns = {}
  /\ ~isClosed => heap = InputOwns \cup Queued \cup MainOwns
  /\ running =>
       delivered = Len(processed) + drops
                   + Cardinality(InputOwns \cup Queued \cup MainOwns)

(* "Wait for queue to drain": a file is processed to its end before the    *)
(* main loop is left, unless the user interrupts.                          *)
FileProcessedToEnd ==
  input = "file" /\ userSignals = 0
    /\ pc["main"] \notin {"poll", "polled", "process"}
    => Len(processed) = delivered

(* "only external signals count toward force-quit": a process that the     *)
(* user has not signalled is never cut off by its own kill(self_pid).      *)
ForceQuitOnlyByUser == exited = "_exit" => userSignals > 0

(* Nothing is destroyed under a thread that may still use it: the input    *)
(* thread its queue, a worker its demodulator and every output, the final  *)
(* flush of the STD-C demodulator the decoder and the outputs.             *)
UsesOnlyWhatIsAlive ==
  /\ pc["input"] # "exit" => "samples_queue" \in alive
  /\ pc["worker"] = "decode" =>
       {"demods", "basestation", "aircraft_db", "mqtt", "reasm", "web", "feed"} \subseteq alive
  /\ pc["main"] \in {"process", "flush"} =>
       {"stdc", "demods", "mqtt", "web", "feed"} \subseteq alive

(* A program told to stop, by the user or by its input, exits: whatever    *)
(* the input thread is blocked in, it is let go and joined.  An input that *)
(* ends also ends the program.  (bladerf.c does not stop, and usrp.c       *)
(* leaves its loop without clearing `running` when malloc fails.)          *)
StopLeadsToExit ==
  /\ (~running /\ input # "bladerf") ~> exited # "no"
  /\ (pc["input"] = "exit" /\ input # "usrp") ~> exited # "no"

(* "Stopping (Ctrl-C again to force quit)": one signal stops the program,  *)
(* with every input.                                                       *)
SignalStops == userSignals > 0 ~> exited # "no"

=============================================================================
