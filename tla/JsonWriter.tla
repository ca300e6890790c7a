----------------------------- MODULE JsonWriter -----------------------------
(***************************************************************************)
(* The writer thread that feed.c (stdout) and mqtt.c (the broker) put      *)
(* behind a bounded queue: decoders hand over copies with                  *)
(* blocking_queue_add and never wait, the writer takes them, main closes   *)
(* the queue, joins the writer, drains and destroys at shutdown.           *)
(*                                                                         *)
(* The queue is QueueContract, which BlockingQueue is shown to implement:  *)
(* what is checked here holds for every queue that meets the contract.     *)
(***************************************************************************)
EXTENDS Naturals, Sequences, FiniteSets

CONSTANTS
  Producers,   \* the threads that decode: channel workers, and main's own
  Writer,      \* feed_writer_fn, mqtt_writer_fn
  Main,        \* the thread that runs feed_shutdown, mqtt_cleanup
  Messages,    \* the JSON messages; each is sent at most once
  Bound,       \* FEED_QUEUE_CAPACITY, MQTT_QUEUE_CAPACITY
  NoElement

ASSUME JsonWriterAssumption ==
  /\ Bound \in Nat \ {0}
  /\ NoElement \notin Messages
  /\ Writer \notin Producers /\ Main \notin Producers /\ Writer # Main

VARIABLES
  items, isClosed, request, status, answer,  \* the queue
  pc,          \* where each thread is
  held,        \* {}, or the message the writer has taken
  heap,        \* the messages whose copy is allocated
  running,     \* feed_writer_running, mqtt_writer_running
  hasLink,     \* whether this is mqtt.c, whose sink may be disconnected
  connected,   \* mqtt.c: connected
  drops,       \* stat_feed_drops, stat_mqtt_drops
  destroyed,   \* blocking_queue_destroy has returned
  offered,     \* history: the messages send_json was called with
  accepted,    \* history: what the queue took, in order
  out          \* history: what the writer finished with: <<message, written>>

queueVars == <<items, isClosed, request, status, answer>>
link == <<hasLink, connected>>

vars == <<queueVars, pc, held, heap, running, link, drops, destroyed,
          offered, accepted, out>>

Threads == Producers \cup {Writer, Main}

Queue == INSTANCE QueueContract WITH Elements <- Messages, bound <- Bound

(* feed_init, mqtt_init with the queue and the writer in place. *)
Init ==
  /\ Queue!Init
  /\ pc = [t \in Threads |-> IF t = Writer THEN "top"
                             ELSE IF t = Main THEN "run" ELSE "idle"]
  /\ held = {}
  /\ heap = {}
  /\ running = TRUE
  /\ hasLink \in BOOLEAN
  /\ connected = ~hasLink
  /\ drops = 0
  /\ destroyed = FALSE
  /\ offered = {}
  /\ accepted = <<>>
  /\ out = <<>>

Goes(t, to) == pc' = [pc EXCEPT ![t] = to]

Returned(t, code) == status[t] = "answered" /\ answer[t].code = code

-----------------------------------------------------------------------------
(* The queue answers the calls it has been given. *)
QueueAnswers(t) ==
  /\ \/ /\ Queue!Accept(t)
        /\ accepted' = Append(accepted, request[t].elem)
     \/ /\ \/ Queue!Deliver(t)
           \/ Queue!RefuseClosed(t)
           \/ Queue!RefuseFull({t})
           \/ Queue!RefuseEmpty({t})
           \/ Queue!RefuseLate(t)
        /\ UNCHANGED accepted
  /\ UNCHANGED <<pc, held, heap, running, link, drops, destroyed, offered, out>>

(* Only adders wait for its add_lock and so only they can be told BQ_ERROR *)
(* when there is no memory for the entry of a waiter: the writer is the    *)
(* one getter until it is joined, and main the one after that.             *)
QueueFails(p) ==
  /\ Queue!Fail(p)
  /\ UNCHANGED <<pc, held, heap, running, link, drops, destroyed, offered, accepted, out>>

-----------------------------------------------------------------------------
(* Fault: the decoder waits for room in the queue. *)
SendJson_Waits(p, m) ==
  /\ pc[p] = "idle" /\ pc[Main] = "run"
  /\ m \notin offered
  /\ running
  /\ offered' = offered \cup {m}
  /\ heap' = heap \cup {m}
  /\ Queue!Invoke(p, "put", m)
  /\ Goes(p, "add")
  /\ UNCHANGED <<held, running, link, drops, destroyed, accepted, out>>

(* send_json, mqtt_publish_json: copy and enqueue.  Both mallocs succeed   *)
(* or the message is a drop.                                               *)
SendJson(p, m) ==
  /\ pc[p] = "idle" /\ pc[Main] = "run"
  /\ m \notin offered
  /\ running
  /\ offered' = offered \cup {m}
  /\ heap' = heap \cup {m}
  /\ Queue!Invoke(p, "add", m)
  /\ Goes(p, "add")
  /\ UNCHANGED <<held, running, link, drops, destroyed, accepted, out>>

SendJsonNoMemory(p, m) ==
  /\ pc[p] = "idle" /\ pc[Main] = "run"
  /\ m \notin offered
  /\ running
  /\ offered' = offered \cup {m}
  /\ drops' = drops + 1
  /\ UNCHANGED <<queueVars, pc, held, heap, running, link, destroyed, accepted, out>>

(* Fault: a closed or full queue leaves the copies allocated. *)
AddReturns_Leaks(p) ==
  /\ pc[p] = "add" /\ status[p] = "answered"
  /\ drops' = IF answer[p].code # "OK" THEN drops + 1 ELSE drops
  /\ Queue!Return(p)
  /\ Goes(p, "idle")
  /\ UNCHANGED <<held, heap, running, link, destroyed, offered, accepted, out>>

(* blocking_queue_add returns: whatever it returns but 0 is a drop, and    *)
(* the copies are the caller's again.                                      *)
AddReturns(p) ==
  /\ pc[p] = "add" /\ status[p] = "answered"
  /\ IF answer[p].code = "OK"
     THEN UNCHANGED <<heap, drops>>
     ELSE heap' = heap \ {request[p].elem} /\ drops' = drops + 1
  /\ Queue!Return(p)
  /\ Goes(p, "idle")
  /\ UNCHANGED <<held, running, link, destroyed, offered, accepted, out>>

-----------------------------------------------------------------------------
(* feed_writer_fn, mqtt_writer_fn *)
Take ==
  /\ pc[Writer] = "top"
  /\ Queue!Invoke(Writer, "take", NoElement)
  /\ Goes(Writer, "take")
  /\ UNCHANGED <<held, heap, running, link, drops, destroyed, offered, accepted, out>>

(* Fault: the writer goes on after BQ_CLOSED as after any other error. *)
Taken_IgnoresClosed ==
  /\ pc[Writer] = "take" /\ status[Writer] = "answered"
  /\ Goes(Writer, IF answer[Writer].code = "OK" THEN "write" ELSE "top")
  /\ held' = IF answer[Writer].code = "OK" THEN {answer[Writer].elem} ELSE {}
  /\ Queue!Return(Writer)
  /\ UNCHANGED <<heap, running, link, drops, destroyed, offered, accepted, out>>

Taken ==
  /\ pc[Writer] = "take" /\ status[Writer] = "answered"
  /\ IF answer[Writer].code = "BQ_CLOSED"
     THEN Goes(Writer, "exit") /\ UNCHANGED held
     ELSE Goes(Writer, "write") /\ held' = {answer[Writer].elem}
  /\ Queue!Return(Writer)
  /\ UNCHANGED <<heap, running, link, drops, destroyed, offered, accepted, out>>

(* Fault: the message is dropped on the floor when others are waiting. *)
Write_SkipsBehind ==
  /\ pc[Writer] = "write"
  /\ IF items = <<>>
     THEN out' = out \o <<[msg |-> CHOOSE m \in held : TRUE, written |-> connected]>>
     ELSE UNCHANGED out
  /\ heap' = heap \ held
  /\ held' = {}
  /\ Goes(Writer, "top")
  /\ UNCHANGED <<queueVars, running, link, drops, destroyed, offered, accepted>>

(* fwrite and fflush, or mosquitto_publish if connected; then the copies   *)
(* are freed.                                                              *)
Write ==
  /\ pc[Writer] = "write"
  /\ \E m \in held : out' = Append(out, [msg |-> m, written |-> connected])
  /\ heap' = heap \ held
  /\ held' = {}
  /\ Goes(Writer, "top")
  /\ UNCHANGED <<queueVars, running, link, drops, destroyed, offered, accepted>>

(* on_connect, on_disconnect, in libmosquitto's thread. *)
LinkChanges ==
  /\ hasLink /\ pc[Main] # "done"
  /\ connected' = ~connected
  /\ UNCHANGED <<hasLink, queueVars, pc, held, heap, running, drops, destroyed, offered, accepted, out>>

-----------------------------------------------------------------------------
mainVars == <<held, link, drops, offered, accepted, out>>

(* main has joined the channel workers before it gets to the shutdown      *)
(* functions, and its own decoding is over.                                *)
StopProducers ==
  /\ pc[Main] = "run"
  /\ \A p \in Producers : pc[p] = "idle"
  /\ Goes(Main, "close")
  /\ UNCHANGED <<queueVars, heap, running, destroyed, mainVars>>

(* blocking_queue_close: `closed` is set, ... *)
Close ==
  /\ pc[Main] = "close"
  /\ Queue!Close
  /\ Goes(Main, "closing")
  /\ UNCHANGED <<heap, running, destroyed, mainVars>>

(* ... and it returns at a moment when active_callers_count is zero. *)
CloseReturns ==
  /\ pc[Main] = "closing"
  /\ \A t \in Threads : status[t] = "idle"
  /\ Goes(Main, "join")
  /\ UNCHANGED <<queueVars, heap, running, destroyed, mainVars>>

JoinWriter ==
  /\ pc[Main] = "join"
  /\ pc[Writer] = "exit"
  /\ Goes(Main, "drain")
  /\ UNCHANGED <<queueVars, heap, running, destroyed, mainVars>>

(* "Drain any leftover entries": poll until it does not return 0. *)
DrainPoll ==
  /\ pc[Main] = "drain"
  /\ Queue!Invoke(Main, "poll", NoElement)
  /\ Goes(Main, "poll")
  /\ UNCHANGED <<heap, running, destroyed, mainVars>>

DrainPolled ==
  /\ pc[Main] = "poll" /\ status[Main] = "answered"
  /\ IF answer[Main].code = "OK"
     THEN Goes(Main, "drain") /\ heap' = heap \ {answer[Main].elem}
     ELSE Goes(Main, "destroy") /\ UNCHANGED heap
  /\ Queue!Return(Main)
  /\ UNCHANGED <<running, destroyed, mainVars>>

Destroy ==
  /\ pc[Main] = "destroy"
  /\ destroyed' = TRUE
  /\ running' = FALSE
  /\ Goes(Main, "done")
  /\ UNCHANGED <<queueVars, heap, mainVars>>

Finished == pc[Main] = "done" /\ UNCHANGED vars

MainStep ==
  \/ StopProducers \/ Close \/ CloseReturns \/ JoinWriter
  \/ DrainPoll \/ DrainPolled \/ Destroy

Next ==
  \/ \E p \in Producers, m \in Messages : SendJson(p, m) \/ SendJsonNoMemory(p, m)
  \/ \E p \in Producers : AddReturns(p) \/ QueueFails(p)
  \/ \E t \in Threads : QueueAnswers(t)
  \/ Take \/ Taken \/ Write \/ LinkChanges
  \/ MainStep
  \/ Finished

Spec == Init /\ [][Next]_vars

(* Every thread keeps running and the queue answers whoever it can answer  *)
(* (BlockingQueue: CallsReturn, CloseReturns).                             *)
(* Nobody promises that main is told to stop, or that stdout or the broker *)
(* takes what is written.                                                  *)
FairSpec ==
  /\ Spec
  /\ \A p \in Producers : WF_vars(AddReturns(p))
  /\ \A t \in Threads : WF_vars(QueueAnswers(t))
  /\ WF_vars(Take \/ Taken)
  /\ WF_vars(MainStep /\ pc[Main] # "run")

SinkTakes == WF_vars(Write)

-----------------------------------------------------------------------------
Elems(s) == {s[i] : i \in 1..Len(s)}

(* The copies in the hands of a caller of send_json: the queue has not     *)
(* answered, or has refused them.                                          *)
CallersOwn ==
  {request[p].elem : p \in {q \in Producers : pc[q] = "add" /\ ~Returned(q, "OK")}}

(* Every allocated copy has exactly one owner and every owner's copy is    *)
(* allocated, although the writer may free a message before the            *)
(* blocking_queue_add that handed it over has returned: no leak, no double *)
(* free and no use after free while the program runs.                      *)
WriterOwns ==
  held \cup (IF Returned(Writer, "OK") THEN {answer[Writer].elem} ELSE {})

OneOwner ==
  /\ heap = CallersOwn \cup Elems(items) \cup WriterOwns
             \cup (IF Returned(Main, "OK") THEN {answer[Main].elem} ELSE {})
  /\ CallersOwn \cap Elems(items) = {}
  /\ CallersOwn \cap WriterOwns = {}
  /\ Elems(items) \cap WriterOwns = {}

(* The output is the accepted messages in the order the queue took them,   *)
(* each once, none skipped; and stat_feed_drops is exactly the number of   *)
(* those it never got, once the calls in progress have returned.           *)
WrittenInOrder ==
  LET done  == [i \in 1..Len(out) |-> out[i].msg]
      taken == CHOOSE s \in {<<>>} \cup {<<m>> : m \in WriterOwns} :
                 WriterOwns # {} => s # <<>>
  IN  /\ done \o taken \o items = accepted
      /\ (\A p \in Producers : pc[p] = "idle") =>
           drops + Len(accepted) = Cardinality(offered)

(* "Writer thread keeps stdout backpressure off the decode path": send_json *)
(* returns even if the writer is stuck in fwrite for ever.                 *)
DecoderNeverBlocks ==
  \A p \in Producers : pc[p] = "add" ~> pc[p] = "idle"

(* With a sink that takes what it is given, an accepted message comes out, *)
(* unless the program is told to stop; and then the shutdown function      *)
(* returns, and the queue is only destroyed when the writer has ended.     *)
AcceptedComesOut ==
  SinkTakes =>
    /\ \A m \in Messages :
         m \in Elems(accepted) ~>
           \/ m \in {out[i].msg : i \in 1..Len(out)}
           \/ pc[Main] # "run"
    /\ pc[Main] # "run" ~> (pc[Main] = "done" /\ pc[Writer] = "exit")

=============================================================================
