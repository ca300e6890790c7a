--------------------------- MODULE PipelineProofs ---------------------------
(***************************************************************************)
(* Proofs about Pipeline, for every set of backends, every capacity of     *)
(* samples_queue and any number of buffers and signals.                    *)
(***************************************************************************)
EXTENDS Pipeline, FiniteSetTheorems, TLAPS

Actors == {"input", "main", "worker"}
InputPlaces == {"top", "reading", "have", "call", "drain", "ending", "kill", "exit"}
MainPlaces == {"poll", "polled", "process", "stop", "cancelled", "closing", "join", "flush",
               "joinworkers", "destroy", "done"}
WorkerPlaces == {"idle", "decode", "exit"}
Looping == {"poll", "polled", "process"}

PlaceInv ==
  /\ pc \in [Actors -> InputPlaces \cup MainPlaces \cup WorkerPlaces]
  /\ pc["input"] \in InputPlaces /\ pc["main"] \in MainPlaces /\ pc["worker"] \in WorkerPlaces

USE PipelineAssumption

-----------------------------------------------------------------------------
(* Steps by whom they move.                                                *)

InputMoves == \/ InputFails \/ InputReads \/ InputStep
MainMoves == MainStep
WorkerMoves == WorkerDecodes \/ WorkerStep
NobodyMoves == UserSignal \/ DeviceRemoved \/ \E t \in {"input", "main"} : QueueAnswers(t)

LEMMA StepIsOneOf ==
  ASSUME [Next]_vars
  PROVE  InputMoves \/ MainMoves \/ WorkerMoves \/ NobodyMoves \/ UNCHANGED vars
BY DEF Next, InputMoves, MainMoves, WorkerMoves, NobodyMoves

LEMMA OnlyInputMoves ==
  ASSUME PlaceInv, InputMoves
  PROVE  /\ PlaceInv' /\ pc'["main"] = pc["main"] /\ pc'["worker"] = pc["worker"]
         /\ pc["input"] # "exit"
         /\ UNCHANGED <<input, userSignals, exited, thread_run, alive>>
<1>1. PICK to \in InputPlaces : pc' = [pc EXCEPT !["input"] = to] /\ pc["input"] # "exit"
                                /\ UNCHANGED <<input, userSignals, exited, thread_run, alive>>
  <2>1. CASE InputFails
    BY <2>1 DEF InputFails, Goes, flags, downVars, InputPlaces
  <2>2. CASE InputReads
    BY <2>2 DEF InputReads, InputDelivers, InputDeliversNothing, Goes, flags, downVars, InputPlaces
  <2>3. CASE InputChecks \/ InputPushes \/ InputDiscards
    BY <2>3 DEF InputChecks, InputPushes, InputDiscards, Goes, flags, downVars, InputPlaces
  <2>4. CASE InputReturns
    BY <2>4 DEF InputReturns, Goes, flags, downVars, InputPlaces
  <2>5. CASE InputStops \/ SpewerDrained
    BY <2>5 DEF InputStops, SpewerDrained, Goes, flags, downVars, InputPlaces
  <2>6. CASE InputEnds \/ InputKills
    BY <2>6 DEF InputEnds, InputKills, sig_handler, Goes, downVars, InputPlaces
  <2> QED BY <2>1, <2>2, <2>3, <2>4, <2>5, <2>6 DEF InputMoves, InputStep
<1> QED BY <1>1 DEF PlaceInv, Actors

LEMMA OnlyMainMoves ==
  ASSUME PlaceInv, MainMoves
  PROVE  /\ PlaceInv' /\ pc'["input"] = pc["input"] /\ pc'["worker"] = pc["worker"]
         /\ UNCHANGED <<input, running, userSignals>>
         /\ exited' \in {exited, "return"}
         /\ pc'["main"] \in {"destroy", "done"} \/ UNCHANGED alive
         /\ alive' \subseteq alive
<1>1. PICK to \in MainPlaces :
           /\ pc' = [pc EXCEPT !["main"] = to] \/ (UNCHANGED pc /\ to = pc["main"])
           /\ UNCHANGED <<input, running, userSignals>> /\ exited' \in {exited, "return"}
           /\ to \in {"destroy", "done"} \/ UNCHANGED alive
           /\ alive' \subseteq alive
  <2>1. CASE MainPolls \/ MainProcesses \/ MainLeavesLoop \/ CancelAsync
    BY <2>1 DEF MainPolls, MainProcesses, MainLeavesLoop, CancelAsync, Goes, flags, downVars,
                MainPlaces
  <2>2. CASE MainPolled
    BY <2>2 DEF MainPolled, Goes, flags, downVars, MainPlaces
  <2>3. CASE CloseQueue \/ CloseQueueReturns \/ JoinInput \/ FlushStdcAndStop \/ JoinWorkers
    BY <2>3 DEF CloseQueue, CloseQueueReturns, JoinInput, FlushStdcAndStop, JoinWorkers, Goes,
                flags, downVars, MainPlaces
  <2>4. CASE Destroy
    <3>1. /\ pc["main"] = "destroy" /\ UNCHANGED <<pc, input, flags>> /\ alive' \subseteq alive
      BY <2>4 DEF Destroy
    <3> QED BY <3>1 DEF flags, MainPlaces
  <2>5. CASE MainReturns
    BY <2>5 DEF MainReturns, Goes, downVars, MainPlaces
  <2> QED BY <2>1, <2>2, <2>3, <2>4, <2>5 DEF MainMoves, MainStep
<1> QED BY <1>1 DEF PlaceInv, Actors

LEMMA OnlyWorkerMoves ==
  ASSUME PlaceInv, WorkerMoves
  PROVE  /\ PlaceInv' /\ pc'["input"] = pc["input"] /\ pc'["main"] = pc["main"]
         /\ pc["worker"] # "exit"
         /\ UNCHANGED <<queueVars, input, flags, bufVars, downVars>>
<1>1. PICK to \in WorkerPlaces : pc' = [pc EXCEPT !["worker"] = to]
  BY DEF WorkerMoves, WorkerStep, WorkerDecodes, WorkerDone, WorkerExits, Goes, WorkerPlaces
<1>2. UNCHANGED <<queueVars, input, flags, bufVars, downVars>> /\ pc["worker"] # "exit"
  BY DEF WorkerMoves, WorkerStep, WorkerDecodes, WorkerDone, WorkerExits
<1> QED BY <1>1, <1>2 DEF PlaceInv, Actors

LEMMA NobodysMove ==
  ASSUME NobodyMoves
  PROVE  /\ UNCHANGED <<input, pc, alive, thread_run>>
         /\ \/ UNCHANGED <<userSignals, exited>>
            \/ userSignals' = userSignals + 1
<1>1. CASE UserSignal BY <1>1 DEF UserSignal, downVars
<1>2. CASE DeviceRemoved BY <1>2 DEF DeviceRemoved, downVars
<1>3. ASSUME NEW t \in {"input", "main"}, QueueAnswers(t)
      PROVE  UNCHANGED <<input, pc, alive, thread_run, userSignals, exited>>
  BY <1>3 DEF QueueAnswers, flags, downVars
<1> QED BY <1>1, <1>2, <1>3 DEF NobodyMoves

-----------------------------------------------------------------------------
(* Nothing is destroyed before the input thread and the workers have been  *)
(* joined.                                                                 *)
LifeInv ==
  /\ PlaceInv
  /\ userSignals \in Nat /\ ForceQuitOnlyByUser
  /\ pc["main"] \notin {"destroy", "done"} => alive = Resources
  /\ pc["main"] \in {"flush", "joinworkers", "destroy", "done"} => pc["input"] = "exit"
  /\ pc["main"] \in {"destroy", "done"} => pc["worker"] = "exit"

LEMMA PlaceInit == Init => PlaceInv
BY DEF Init, PlaceInv, Actors, InputPlaces, MainPlaces, WorkerPlaces

LEMMA LifeInit == Init => LifeInv
<1> SUFFICES ASSUME Init PROVE LifeInv OBVIOUS
<1>1. PlaceInv BY PlaceInit
<1>2. pc["main"] = "poll" /\ alive = Resources /\ userSignals = 0 /\ exited = "no"
  BY DEF Init
<1> QED BY <1>1, <1>2 DEF LifeInv, ForceQuitOnlyByUser

LEMMA LifeInductive == LifeInv /\ [Next]_vars => LifeInv'
<1> SUFFICES ASSUME LifeInv, [Next]_vars PROVE LifeInv' OBVIOUS
<1> USE DEF LifeInv, ForceQuitOnlyByUser
<1>1. CASE InputMoves BY <1>1, OnlyInputMoves
<1>2. CASE MainMoves
  <2>1. /\ PlaceInv' /\ pc'["input"] = pc["input"] /\ pc'["worker"] = pc["worker"]
        /\ UNCHANGED userSignals /\ exited' \in {exited, "return"}
        /\ pc'["main"] \in {"destroy", "done"} \/ UNCHANGED alive
    BY <1>2, OnlyMainMoves
  <2>2. pc'["main"] \notin {"destroy", "done"} => pc["main"] \notin {"destroy", "done"}
    <3>1. CASE pc["main"] = "destroy"
      BY <1>2, <3>1 DEF MainMoves, MainStep, MainPolls, MainPolled, MainProcesses, MainLeavesLoop,
         CancelAsync, CloseQueue, CloseQueueReturns, JoinInput, FlushStdcAndStop, JoinWorkers,
         Destroy, MainReturns, Goes, PlaceInv, Actors
    <3>2. CASE pc["main"] = "done"
      BY <1>2, <3>2 DEF MainMoves, MainStep, MainPolls, MainPolled, MainProcesses, MainLeavesLoop,
         CancelAsync, CloseQueue, CloseQueueReturns, JoinInput, FlushStdcAndStop, JoinWorkers,
         Destroy, MainReturns
    <3> QED BY <3>1, <3>2
  <2>3. pc'["main"] \in {"flush", "joinworkers", "destroy", "done"} =>
          pc["main"] \in {"flush", "joinworkers", "destroy", "done"} \/ pc["input"] = "exit"
    BY <1>2 DEF MainMoves, MainStep, MainPolls, MainPolled, MainProcesses, MainLeavesLoop,
         CancelAsync, CloseQueue, CloseQueueReturns, JoinInput, FlushStdcAndStop, JoinWorkers,
         Destroy, MainReturns, Goes, PlaceInv, Actors
  <2>4. pc'["main"] \in {"destroy", "done"} =>
          pc["main"] \in {"destroy", "done"} \/ pc["worker"] = "exit"
    BY <1>2 DEF MainMoves, MainStep, MainPolls, MainPolled, MainProcesses, MainLeavesLoop,
         CancelAsync, CloseQueue, CloseQueueReturns, JoinInput, FlushStdcAndStop, JoinWorkers,
         Destroy, MainReturns, Goes, PlaceInv, Actors
  <2> QED BY <2>1, <2>2, <2>3, <2>4
<1>3. CASE WorkerMoves
  BY <1>3, OnlyWorkerMoves DEF flags, downVars
<1>4. CASE NobodyMoves
  BY <1>4, NobodysMove DEF PlaceInv
<1>5. CASE UNCHANGED vars
  BY <1>5 DEF vars, PlaceInv, flags, downVars
<1> QED BY <1>1, <1>2, <1>3, <1>4, <1>5, StepIsOneOf

(* kill(self_pid) never cuts the process off: "_exit" takes a signal from  *)
(* the user.                                                               *)
THEOREM OnlyUserForcesQuit == Spec => []ForceQuitOnlyByUser
<1>1. LifeInv => ForceQuitOnlyByUser BY DEF LifeInv
<1> QED BY <1>1, LifeInit, LifeInductive, PTL DEF Spec

(* No thread uses the queue, a demodulator or an output after main has     *)
(* destroyed it.                                                           *)
THEOREM NothingUsedAfterDestroy == Spec => []UsesOnlyWhatIsAlive
<1>1. LifeInv => UsesOnlyWhatIsAlive BY DEF LifeInv, UsesOnlyWhatIsAlive, Resources
<1> QED BY <1>1, LifeInit, LifeInductive, PTL DEF Spec

-----------------------------------------------------------------------------
(* The buffers.  Which call each thread is in and what it has in hand;     *)
(* each buffer has one owner; the books are exact while the program runs,  *)
(* and for a file until the user interrupts.                               *)

Users == {"input", "main"}
Codes == {"OK", "BQ_FULL", "BQ_EMPTY", "BQ_CLOSED"}
Requests == [kind : {"none", "add", "put", "poll"}, elem : Nat \cup {NoElement}]
Answers == [code : Codes \cup {"none"}, elem : Nat \cup {NoElement}]

BufType ==
  /\ items \in Seq(Nat) /\ processed \in Seq(Nat)
  /\ request \in [Users -> Requests]
  /\ status \in [Users -> {"idle", "pending", "answered"}]
  /\ answer \in [Users -> Answers]
  /\ held \in [Users -> SUBSET Nat]
  /\ delivered \in Nat /\ drops \in Nat

InputInv ==
  /\ pc["input"] = "call" <=> status["input"] # "idle"
  /\ pc["input"] = "call" =>
       /\ request["input"].kind = (IF input = "file" THEN "put" ELSE "add")
       /\ request["input"].elem \in Nat /\ held["input"] = {request["input"].elem}
  /\ pc["input"] = "have" => \E b \in Nat : held["input"] = {b}
  /\ pc["input"] \notin {"have", "call"} => held["input"] = {}
  /\ status["input"] = "answered" =>
       \/ answer["input"].code = "OK"
       \/ answer["input"].code = "BQ_FULL" /\ input # "file"
       \/ answer["input"].code = "BQ_CLOSED" /\ isClosed

MainInv ==
  /\ pc["main"] = "polled" <=> status["main"] # "idle"
  /\ pc["main"] = "polled" => request["main"].kind = "poll"
  /\ status["main"] = "answered" =>
       \/ answer["main"].code = "OK" /\ answer["main"].elem \in Nat
       \/ answer["main"].code = "BQ_EMPTY"
  /\ pc["main"] = "process" => \E b \in Nat : held["main"] = {b}
  /\ pc["main"] # "process" => held["main"] = {}
  /\ isClosed => pc["main"] \notin Looping \cup {"stop", "cancelled"}
  /\ running => pc["main"] \in Looping

OwnInv ==
  /\ \A i, j \in 1..Len(items) : items[i] = items[j] => i = j
  /\ InputOwns \cup Queued \cup MainOwns \subseteq heap
  /\ InputOwns \cap Queued = {} /\ Queued \cap MainOwns = {} /\ InputOwns \cap MainOwns = {}
  /\ ~isClosed => heap \subseteq InputOwns \cup Queued \cup MainOwns

(* Nothing has been given up silently yet.                                 *)
Exact == running \/ (input = "file" /\ userSignals = 0)

CountInv ==
  /\ heap \subseteq 1..delivered /\ IsFiniteSet(heap)
  /\ Exact => delivered = Len(processed) + drops + Cardinality(heap)
  /\ input = "file" => drops = 0

FileInv ==
  input = "file" /\ userSignals = 0 =>
    /\ ~running => pc["input"] \in {"kill", "exit"}
    /\ pc["input"] \in {"ending", "kill", "exit"} => items = <<>>
    /\ pc["main"] \notin Looping => heap = {}

BufInv == LifeInv /\ BufType /\ InputInv /\ MainInv /\ OwnInv /\ CountInv /\ FileInv

USE DEF Users, Codes, Requests, Answers

LEMMA BufInit == Init => BufInv
<1> SUFFICES ASSUME Init PROVE BufInv OBVIOUS
<1>1. LifeInv BY LifeInit
<1>2. /\ items = <<>> /\ ~isClosed /\ running /\ heap = {} /\ drops = 0 /\ delivered = 0
      /\ processed = <<>> /\ held["input"] = {} /\ held["main"] = {}
      /\ status["input"] = "idle" /\ status["main"] = "idle"
      /\ pc["input"] = "top" /\ pc["main"] = "poll"
  BY DEF Init, Queue!Init
<1>3. BufType
  BY DEF Init, Queue!Init, Queue!NoRequest, Queue!NoAnswer, BufType
<1>4. InputInv /\ MainInv BY <1>2 DEF InputInv, MainInv, Looping
<1>5. InputOwns = {} /\ Queued = {} /\ MainOwns = {}
  BY <1>2 DEF InputOwns, Queued, MainOwns
<1>6. OwnInv BY <1>2, <1>5 DEF OwnInv
<1>7. CountInv BY <1>2, FS_EmptySet DEF CountInv
<1>8. FileInv BY <1>2 DEF FileInv
<1> QED BY <1>1, <1>3, <1>4, <1>6, <1>7, <1>8 DEF BufInv

-----------------------------------------------------------------------------
(* What a step of the one leaves alone of the other.                       *)

Untouched(t) ==
  /\ pc'[t] = pc[t] /\ status'[t] = status[t] /\ request'[t] = request[t]
  /\ answer'[t] = answer[t] /\ held'[t] = held[t]

LEMMA InputKept ==
  ASSUME InputInv, Untouched("input"), input' = input, isClosed => isClosed'
  PROVE  InputInv' /\ InputOwns' = InputOwns
<1>1. InputInv' BY DEF InputInv, Untouched
<1>2. InputOwns' = InputOwns BY DEF InputOwns, Untouched
<1> QED BY <1>1, <1>2

LEMMA MainKept ==
  ASSUME MainInv, Untouched("main"), isClosed' => isClosed, running' => running
  PROVE  MainInv' /\ MainOwns' = MainOwns
<1>1. MainInv' BY DEF MainInv, Untouched
<1>2. MainOwns' = MainOwns BY DEF MainOwns, Untouched
<1> QED BY <1>1, <1>2

LEMMA ExactOnlyFalls ==
  ASSUME input' = input, running' => running, userSignals \in Nat,
         userSignals' \in {userSignals, userSignals + 1}, Exact'
  PROVE  Exact
BY DEF Exact

(* When a thread owns what.                                                *)
LEMMA InputOwnsWhat ==
  ASSUME InputInv
  PROVE  /\ pc["input"] \notin {"have", "call"} => InputOwns = {}
         /\ pc["input"] = "have" => InputOwns = held["input"]
         /\ pc["input"] = "call" /\ status["input"] = "pending" => InputOwns = held["input"]
         /\ status["input"] = "answered" /\ answer["input"].code = "OK" => InputOwns = {}
         /\ status["input"] = "answered" /\ answer["input"].code # "OK" => InputOwns = held["input"]
BY DEF InputInv, InputOwns

LEMMA MainOwnsWhat ==
  ASSUME MainInv
  PROVE  /\ pc["main"] \notin {"polled", "process"} => MainOwns = {}
         /\ pc["main"] = "process" => MainOwns = held["main"]
         /\ status["main"] = "pending" => MainOwns = {}
         /\ status["main"] = "answered" /\ answer["main"].code = "OK" =>
              MainOwns = {answer["main"].elem}
         /\ status["main"] = "answered" /\ answer["main"].code # "OK" => MainOwns = {}
BY DEF MainInv, MainOwns

-----------------------------------------------------------------------------
(* Calls of the queue begin, are answered and return.                      *)

LEMMA CallBegins ==
  ASSUME BufType, PlaceInv, NEW t \in Users, NEW kind \in {"add", "put", "poll"},
         NEW e \in Nat \cup {NoElement}, NEW to, Queue!Invoke(t, kind, e), Goes(t, to)
  PROVE  /\ pc'[t] = to /\ \A u \in Actors \ {t} : pc'[u] = pc[u]
         /\ \A u \in Users \ {t} : /\ status'[u] = status[u] /\ request'[u] = request[u]
                                   /\ answer'[u] = answer[u]
         /\ status[t] = "idle" /\ status'[t] = "pending"
         /\ request'[t].kind = kind /\ request'[t].elem = e
         /\ UNCHANGED <<items, isClosed, answer>>
         /\ status' \in [Users -> {"idle", "pending", "answered"}]
         /\ request' \in [Users -> Requests]
<1> DEFINE r == [kind |-> kind, elem |-> e]
<1>1. r \in Requests /\ r.kind = kind /\ r.elem = e OBVIOUS
<1>2. /\ request' = [request EXCEPT ![t] = r] /\ status' = [status EXCEPT ![t] = "pending"]
      /\ status[t] = "idle" /\ UNCHANGED <<items, isClosed, answer>>
      /\ pc' = [pc EXCEPT ![t] = to]
  BY DEF Queue!Invoke, Goes
<1> HIDE DEF r, Requests
<1> QED BY <1>1, <1>2 DEF BufType, PlaceInv, Actors

LEMMA CallEnds ==
  ASSUME BufType, PlaceInv, NEW t \in Users, NEW to, Queue!Return(t), Goes(t, to)
  PROVE  /\ pc'[t] = to /\ \A u \in Actors \ {t} : pc'[u] = pc[u]
         /\ \A u \in Users \ {t} : /\ status'[u] = status[u] /\ request'[u] = request[u]
                                   /\ answer'[u] = answer[u]
         /\ status[t] = "answered" /\ status'[t] = "idle"
         /\ UNCHANGED <<items, isClosed>>
         /\ status' \in [Users -> {"idle", "pending", "answered"}]
         /\ request' \in [Users -> Requests]
         /\ answer' \in [Users -> Answers]
<1>1. Queue!NoRequest \in Requests /\ Queue!NoAnswer \in Answers
  BY DEF Queue!NoRequest, Queue!NoAnswer
<1>2. /\ request' = [request EXCEPT ![t] = Queue!NoRequest]
      /\ answer' = [answer EXCEPT ![t] = Queue!NoAnswer]
      /\ status' = [status EXCEPT ![t] = "idle"]
      /\ status[t] = "answered" /\ UNCHANGED <<items, isClosed>>
      /\ pc' = [pc EXCEPT ![t] = to]
  BY DEF Queue!Return, Goes
<1> HIDE DEF Requests, Answers
<1> QED BY <1>1, <1>2 DEF BufType, PlaceInv, Actors

LEMMA AnswerIs ==
  ASSUME BufType, NEW t \in Users, NEW code \in Codes, NEW e \in Nat \cup {NoElement},
         Queue!Answer({t}, code, e)
  PROVE  /\ status[t] = "pending" /\ status'[t] = "answered"
         /\ answer'[t].code = code /\ answer'[t].elem = e
         /\ \A u \in Users \ {t} : status'[u] = status[u] /\ answer'[u] = answer[u]
         /\ UNCHANGED <<request, isClosed>>
         /\ status' \in [Users -> {"idle", "pending", "answered"}]
         /\ answer' \in [Users -> Answers]
<1> DEFINE a == [code |-> code, elem |-> e]
<1>1. /\ status[t] = "pending"
      /\ status' = [u \in Users |-> IF u \in {t} THEN "answered" ELSE status[u]]
      /\ answer' = [u \in Users |-> IF u \in {t} THEN a ELSE answer[u]]
      /\ UNCHANGED <<request, isClosed>>
  BY DEF Queue!Answer
<1>2. a \in Answers /\ a.code = code /\ a.elem = e OBVIOUS
<1> HIDE DEF a, Answers
<1> QED BY <1>1, <1>2 DEF BufType

(* A queue that answers accepts the input's buffer, delivers to main, or   *)
(* refuses.                                                                *)
Accepts ==
  /\ status["input"] = "pending" /\ status'["input"] = "answered"
  /\ answer'["input"].code = "OK" /\ Untouched("main")
  /\ items' = Append(items, request["input"].elem)

Delivers ==
  /\ status["main"] = "pending" /\ status'["main"] = "answered"
  /\ answer'["main"].code = "OK" /\ answer'["main"].elem = Head(items) /\ Untouched("input")
  /\ items # <<>> /\ items' = Tail(items)

Refuses(t) ==
  /\ status[t] = "pending" /\ status'[t] = "answered" /\ answer'[t].code # "OK"
  /\ t = "input" => /\ Untouched("main")
                    /\ \/ answer'[t].code = "BQ_FULL" /\ input # "file"
                       \/ answer'[t].code = "BQ_CLOSED" /\ isClosed
  /\ t = "main" => Untouched("input") /\ answer'[t].code = "BQ_EMPTY"
  /\ UNCHANGED items

LEMMA QueueStep ==
  ASSUME BufInv, NEW t \in Users, QueueAnswers(t)
  PROVE  /\ Accepts \/ Delivers \/ Refuses(t)
         /\ UNCHANGED <<request, isClosed, input, pc, flags, bufVars, downVars>>
         /\ status' \in [Users -> {"idle", "pending", "answered"}]
         /\ answer' \in [Users -> Answers]
<1> USE DEF BufInv
<1>0. UNCHANGED <<input, pc, flags, bufVars, downVars>> /\ UNCHANGED held
  BY DEF QueueAnswers, bufVars
<1>a. NoElement \in Nat \cup {NoElement} OBVIOUS
<1> DEFINE Rest == /\ UNCHANGED <<request, isClosed>>
                   /\ status' \in [Users -> {"idle", "pending", "answered"}]
                   /\ answer' \in [Users -> Answers]
                   /\ status[t] = "pending" /\ status'[t] = "answered"
                   /\ \A u \in Users \ {t} : status'[u] = status[u] /\ answer'[u] = answer[u]
<1>b. Rest /\ t = "input" => Untouched("main") BY <1>0 DEF Untouched
<1>c. Rest /\ t = "main" => Untouched("input") BY <1>0 DEF Untouched
<1>d. Rest => /\ t = "input" => request["input"].kind \in {"add", "put"}
              /\ t = "input" /\ input = "file" => request["input"].kind = "put"
              /\ t = "main" => request["main"].kind = "poll" /\ ~isClosed
  BY DEF InputInv, MainInv, Looping
<1>1. CASE Queue!Accept(t)
  <2>1. /\ request[t].kind \in {"add", "put"} /\ items' = Append(items, request[t].elem)
        /\ Queue!Answer({t}, "OK", NoElement)
    BY <1>1 DEF Queue!Accept, Queue!Adding
  <2>2. Rest /\ answer'[t].code = "OK" BY <1>a, <2>1, AnswerIs
  <2>3. t = "input" BY <1>d, <2>1, <2>2
  <2>4. Accepts BY <1>b, <2>1, <2>2, <2>3 DEF Accepts
  <2> QED BY <1>0, <2>2, <2>4
<1>2. CASE Queue!Deliver(t)
  <2>1. /\ request[t].kind \in {"poll", "take"} /\ items # <<>> /\ items' = Tail(items)
        /\ Queue!Answer({t}, "OK", Head(items))
    BY <1>2 DEF Queue!Deliver, Queue!Getting
  <2>2. Head(items) \in Nat \cup {NoElement} BY <2>1 DEF BufType
  <2>3. Rest /\ answer'[t].code = "OK" /\ answer'[t].elem = Head(items) BY <2>1, <2>2, AnswerIs
  <2>4. t = "main" BY <1>d, <2>1, <2>3
  <2>5. Delivers BY <1>c, <2>1, <2>3, <2>4 DEF Delivers
  <2> QED BY <1>0, <2>3, <2>5
<1>3. CASE Queue!RefuseClosed(t)
  <2>1. UNCHANGED items /\ isClosed /\ Queue!Answer({t}, "BQ_CLOSED", NoElement)
    BY <1>3 DEF Queue!RefuseClosed
  <2>2. Rest /\ answer'[t].code = "BQ_CLOSED" BY <1>a, <2>1, AnswerIs
  <2>3. t = "input" BY <1>d, <2>1, <2>2
  <2>4. Refuses(t) BY <1>b, <2>1, <2>2, <2>3 DEF Refuses
  <2> QED BY <1>0, <2>2, <2>4
<1>4. CASE Queue!RefuseFull({t})
  <2>1. UNCHANGED items /\ request[t].kind = "add" /\ Queue!Answer({t}, "BQ_FULL", NoElement)
    BY <1>4 DEF Queue!RefuseFull
  <2>2. Rest /\ answer'[t].code = "BQ_FULL" BY <1>a, <2>1, AnswerIs
  <2>3. t = "input" /\ input # "file" BY <1>d, <2>1, <2>2
  <2>4. Refuses(t) BY <1>b, <2>1, <2>2, <2>3 DEF Refuses
  <2> QED BY <1>0, <2>2, <2>4
<1>5. CASE Queue!RefuseEmpty({t})
  <2>1. UNCHANGED items /\ request[t].kind = "poll" /\ Queue!Answer({t}, "BQ_EMPTY", NoElement)
    BY <1>5 DEF Queue!RefuseEmpty
  <2>2. Rest /\ answer'[t].code = "BQ_EMPTY" BY <1>a, <2>1, AnswerIs
  <2>3. t = "main" BY <1>d, <2>1, <2>2
  <2>4. Refuses(t) BY <1>c, <2>1, <2>2, <2>3 DEF Refuses
  <2> QED BY <1>0, <2>2, <2>4
<1>6. CASE Queue!RefuseLate(t)
  <2>1. PICK code \in {"BQ_FULL", "BQ_EMPTY"} :
             code = IF request[t].kind = "add" THEN "BQ_FULL" ELSE "BQ_EMPTY"
    OBVIOUS
  <2>2. /\ UNCHANGED items /\ isClosed /\ request[t].kind \in {"add", "poll"}
        /\ Queue!Answer({t}, code, NoElement)
    BY <1>6, <2>1 DEF Queue!RefuseLate
  <2>3. Rest /\ answer'[t].code = code BY <1>a, <2>2, AnswerIs
  <2>4. t = "input" /\ input # "file" /\ code = "BQ_FULL" BY <1>d, <2>1, <2>2, <2>3
  <2>5. Refuses(t) BY <1>b, <2>2, <2>3, <2>4 DEF Refuses
  <2> QED BY <1>0, <2>3, <2>5
<1> QED BY <1>1, <1>2, <1>3, <1>4, <1>5, <1>6 DEF QueueAnswers

-----------------------------------------------------------------------------
LEMMA AnswersKeep ==
  ASSUME BufInv, NEW t \in Users, QueueAnswers(t), LifeInv'
  PROVE  BufInv'
<1> USE DEF BufInv
<1>1. /\ UNCHANGED <<request, isClosed, input, pc, running, userSignals, held, heap, drops,
                     delivered, processed>>
      /\ status' \in [Users -> {"idle", "pending", "answered"}]
      /\ answer' \in [Users -> Answers]
  BY QueueStep DEF flags, bufVars
<1>2. items' \in Seq(Nat) => BufType' BY <1>1 DEF BufType
<1>3. CountInv' BY <1>1 DEF CountInv, Exact
<1>4. CASE Accepts
  <2> DEFINE b == request["input"].elem
  <2>1. MainInv' /\ MainOwns' = MainOwns BY <1>1, <1>4, MainKept DEF Accepts
  <2>2. pc["input"] = "call" /\ status["input"] = "pending" /\ status'["input"] = "answered"
        /\ answer'["input"].code = "OK" /\ b \in Nat /\ held["input"] = {b}
    BY <1>4 DEF Accepts, InputInv
  <2>3. InputInv' BY <1>1, <2>2 DEF InputInv
  <2>4. InputOwns = {b} /\ InputOwns' = {} BY <1>1, <2>2, <2>3 DEF InputOwns
  <2>5. items' = Append(items, b) /\ items \in Seq(Nat) BY <1>4 DEF Accepts, BufType
  <2> HIDE DEF b
  <2>6. /\ items' \in Seq(Nat) /\ Len(items') = Len(items) + 1 /\ Len(items) \in Nat
        /\ items'[Len(items) + 1] = b /\ \A i \in 1..Len(items) : items'[i] = items[i]
    BY <2>2, <2>5
  <2>7. Queued' = Queued \cup {b} BY <2>6 DEF Queued
  <2>8. \A i \in 1..Len(items) : items[i] # b BY <2>4 DEF OwnInv, Queued
  <2>9. \A i, j \in 1..Len(items') : items'[i] = items'[j] => i = j
    <3> SUFFICES ASSUME NEW i \in 1..Len(items'), NEW j \in 1..Len(items'), items'[i] = items'[j]
                 PROVE  i = j
      OBVIOUS
    <3>1. /\ i \in 1..Len(items) \/ i = Len(items) + 1
          /\ j \in 1..Len(items) \/ j = Len(items) + 1
      BY <2>6
    <3> QED BY <2>6, <2>8, <3>1 DEF OwnInv
  <2>10. OwnInv' BY <1>1, <2>1, <2>4, <2>7, <2>9 DEF OwnInv
  <2>11. FileInv' BY <1>1, <2>2 DEF FileInv
  <2> QED BY <1>2, <1>3, <2>1, <2>3, <2>6, <2>10, <2>11
<1>5. CASE Delivers
  <2> DEFINE b == Head(items)
  <2>1. InputInv' /\ InputOwns' = InputOwns BY <1>1, <1>5, InputKept DEF Delivers
  <2>2. items \in Seq(Nat) /\ items # <<>> /\ items' = Tail(items) BY <1>5 DEF Delivers, BufType
  <2>3. b \in Nat /\ b = items[1] BY <2>2
  <2>4. /\ pc["main"] = "polled" /\ status["main"] = "pending" /\ status'["main"] = "answered"
        /\ answer'["main"].code = "OK" /\ answer'["main"].elem = b /\ held["main"] = {}
    BY <1>5 DEF Delivers, MainInv
  <2> HIDE DEF b
  <2>5. MainInv' BY <1>1, <2>3, <2>4 DEF MainInv
  <2>6. MainOwns = {} /\ MainOwns' = {b} BY <1>1, <2>4, <2>5 DEF MainOwns
  <2>7. /\ items' \in Seq(Nat) /\ Len(items') = Len(items) - 1 /\ Len(items) \in Nat \ {0}
        /\ \A i \in 1..Len(items') : items'[i] = items[i + 1]
    BY <2>2
  <2>8. \A i \in 1..Len(items) : i = 1 \/ (i - 1 \in 1..Len(items') /\ items'[i - 1] = items[i])
    BY <2>7
  <2>9. \A i \in 1..Len(items') : i + 1 \in 1..Len(items) /\ i + 1 # 1 BY <2>7
  <2>10. 1 \in 1..Len(items) BY <2>7
  <2>11. Queued = Queued' \cup {b}
    <3>1. \A x \in Queued : x = b \/ x \in Queued' BY <2>3, <2>8 DEF Queued
    <3>2. \A x \in Queued' : x \in Queued BY <2>7, <2>9 DEF Queued
    <3>3. b \in Queued BY <2>3, <2>10 DEF Queued
    <3> QED BY <3>1, <3>2, <3>3
  <2>12. b \notin Queued' BY <2>3, <2>7, <2>9, <2>10 DEF Queued, OwnInv
  <2>13. \A i, j \in 1..Len(items') : items'[i] = items'[j] => i = j
    <3> SUFFICES ASSUME NEW i \in 1..Len(items'), NEW j \in 1..Len(items'), items'[i] = items'[j]
                 PROVE  i = j
      OBVIOUS
    <3>1. i + 1 = j + 1 BY <2>7, <2>9 DEF OwnInv
    <3> QED BY <3>1
  <2>14. OwnInv' BY <1>1, <2>1, <2>6, <2>11, <2>12, <2>13 DEF OwnInv
  <2>15. FileInv' BY <1>1, <2>2 DEF FileInv
  <2> QED BY <1>2, <1>3, <2>1, <2>5, <2>7, <2>14, <2>15
<1>6. CASE Refuses(t)
  <2>1. items' = items /\ items \in Seq(Nat) BY <1>6 DEF Refuses, BufType
  <2>2. InputInv' /\ InputOwns' = InputOwns
    <3>1. CASE t = "main" BY <1>1, <1>6, <3>1, InputKept DEF Refuses
    <3>2. CASE t = "input"
      <4>1. pc["input"] = "call" /\ status["input"] = "pending" /\ status'["input"] = "answered"
            /\ answer'["input"].code # "OK"
            /\ \/ answer'["input"].code = "BQ_FULL" /\ input # "file"
               \/ answer'["input"].code = "BQ_CLOSED" /\ isClosed
        BY <1>6, <3>2 DEF Refuses, InputInv
      <4>2. InputInv' BY <1>1, <4>1 DEF InputInv
      <4> QED BY <1>1, <4>1, <4>2 DEF InputOwns
    <3> QED BY <3>1, <3>2
  <2>3. MainInv' /\ MainOwns' = MainOwns
    <3>1. CASE t = "input" BY <1>1, <1>6, <3>1, MainKept DEF Refuses
    <3>2. CASE t = "main"
      <4>1. pc["main"] = "polled" /\ status["main"] = "pending" /\ status'["main"] = "answered"
            /\ answer'["main"].code = "BQ_EMPTY"
        BY <1>6, <3>2 DEF Refuses, MainInv
      <4>2. MainInv' BY <1>1, <4>1 DEF MainInv
      <4> QED BY <1>1, <4>1, <4>2 DEF MainOwns
    <3> QED BY <3>1, <3>2
  <2>4. OwnInv' BY <1>1, <2>1, <2>2, <2>3 DEF OwnInv, Queued
  <2>5. FileInv' BY <1>1, <2>1 DEF FileInv
  <2> QED BY <1>2, <1>3, <2>1, <2>2, <2>3, <2>4, <2>5
<1> QED BY <1>4, <1>5, <1>6, QueueStep

(* A step that touches neither the queue nor a buffer: a thread goes       *)
(* between places where it has nothing in hand, or `running` falls.        *)
Quiet ==
  /\ UNCHANGED <<queueVars, input, bufVars>>
  /\ pc'["input"] = pc["input"] \/ ({pc["input"], pc'["input"]} \cap {"have", "call"} = {})
  /\ \/ pc'["main"] = pc["main"]
     \/ /\ pc["main"] \notin {"polled", "process"} /\ pc'["main"] \notin Looping
        /\ ~running'
        /\ pc'["main"] \in {"stop", "cancelled"} => pc["main"] \in {"poll", "stop"}
  /\ running' => running
  /\ userSignals' \in {userSignals, userSignals + 1}

LEMMA QuietKeeps ==
  ASSUME BufInv, Quiet, LifeInv', FileInv'
  PROVE  BufInv'
<1> USE DEF BufInv
<1>1. /\ UNCHANGED <<items, isClosed, request, status, answer, input, held, heap, drops,
                     delivered, processed>>
      /\ running' => running
  BY DEF Quiet, queueVars, bufVars
<1>2. BufType' BY <1>1 DEF BufType
<1>3. InputInv' /\ InputOwns' = InputOwns
  <2>1. CASE pc'["input"] = pc["input"] BY <1>1, <2>1, InputKept DEF Untouched
  <2>2. CASE pc'["input"] \notin {"have", "call"} /\ pc["input"] \notin {"have", "call"}
    <3>1. InputInv' BY <1>1, <2>2 DEF InputInv
    <3> QED BY <1>1, <2>2, <3>1 DEF InputOwns, InputInv
  <2> QED BY <2>1, <2>2 DEF Quiet
<1>4. MainInv' /\ MainOwns' = MainOwns
  <2>1. CASE pc'["main"] = pc["main"] BY <1>1, <2>1, MainKept DEF Untouched
  <2>2. CASE pc'["main"] # pc["main"]
    <3>1. /\ pc["main"] \notin {"polled", "process"} /\ pc'["main"] \notin Looping /\ ~running'
          /\ pc'["main"] \in {"stop", "cancelled"} => pc["main"] \in {"poll", "stop"}
      BY <2>2 DEF Quiet
    <3>2. isClosed => pc'["main"] \notin Looping \cup {"stop", "cancelled"}
      BY <3>1 DEF MainInv, Looping
    <3>3. MainInv' BY <1>1, <3>1, <3>2 DEF MainInv, Looping
    <3> QED BY <1>1, <3>3 DEF MainOwns
  <2> QED BY <2>1, <2>2
<1>5. OwnInv' BY <1>1, <1>3, <1>4 DEF OwnInv, Queued
<1>6. Exact' => Exact BY <1>1, ExactOnlyFalls DEF Quiet, LifeInv
<1>7. CountInv' BY <1>1, <1>6 DEF CountInv
<1> QED BY <1>2, <1>3, <1>4, <1>5, <1>7

-----------------------------------------------------------------------------
(* The input thread's steps on a buffer.                                   *)

LEMMA InputDeliversKeeps ==
  ASSUME BufInv, InputDelivers, LifeInv'
  PROVE  BufInv'
<1> USE DEF BufInv
<1> DEFINE b == delivered + 1
<1>1. /\ pc["input"] = "reading" /\ delivered' = b /\ heap' = heap \cup {b}
      /\ held' = [held EXCEPT !["input"] = {b}] /\ pc' = [pc EXCEPT !["input"] = "have"]
      /\ UNCHANGED <<items, isClosed, request, status, answer, input, running, userSignals,
                     drops, processed>>
  BY DEF InputDelivers, queueVars, flags, Goes, Holds
<1>2. b \in Nat /\ b > delivered /\ b \in 1..b BY DEF BufType
<1>3. b \notin heap /\ heap \subseteq 1..b /\ IsFiniteSet(heap) BY <1>2 DEF CountInv, BufType
<1>4. delivered \in Nat /\ b = delivered + 1 BY DEF BufType
<1> HIDE DEF b
<1>5. /\ pc'["input"] = "have" /\ pc'["main"] = pc["main"]
      /\ held'["input"] = {b} /\ held'["main"] = held["main"] /\ held' \in [Users -> SUBSET Nat]
  BY <1>1, <1>2 DEF BufType, LifeInv, PlaceInv, Actors
<1>6. BufType' BY <1>1, <1>2, <1>5 DEF BufType
<1>7. InputInv' BY <1>1, <1>2, <1>5 DEF InputInv
<1>8. InputOwns = {} /\ InputOwns' = {b}
  <2>1. InputOwns = {} BY <1>1, InputOwnsWhat
  <2> QED BY <1>5, <2>1 DEF InputOwns
<1>9. MainInv' /\ MainOwns' = MainOwns BY <1>1, <1>5, MainKept DEF Untouched
<1>10. Queued' = Queued BY <1>1 DEF Queued
<1>11. OwnInv'
  <2>1. b \notin Queued /\ b \notin MainOwns BY <1>3 DEF OwnInv
  <2>2. \A i, j \in 1..Len(items') : items'[i] = items'[j] => i = j BY <1>1 DEF OwnInv
  <2>3. Queued' \cap MainOwns' = {} /\ InputOwns' \cap Queued' = {}
        /\ InputOwns' \cap MainOwns' = {}
    BY <1>8, <1>9, <1>10, <2>1 DEF OwnInv
  <2>4. InputOwns' \cup Queued' \cup MainOwns' \subseteq heap'
    BY <1>1, <1>8, <1>9, <1>10 DEF OwnInv
  <2>5. ~isClosed' => heap' \subseteq InputOwns' \cup Queued' \cup MainOwns'
    BY <1>1, <1>8, <1>9, <1>10 DEF OwnInv
  <2> QED BY <2>2, <2>3, <2>4, <2>5 DEF OwnInv
<1>12. CountInv'
  <2>1. IsFiniteSet(heap') /\ Cardinality(heap') = Cardinality(heap) + 1
    BY <1>1, <1>3, FS_AddElement
  <2>2. heap' \subseteq 1..delivered' BY <1>1, <1>2, <1>3
  <2>3. Cardinality(heap) \in Nat /\ Len(processed) \in Nat /\ drops \in Nat
    BY <1>3, FS_CardinalityType DEF BufType
  <2>4. Exact' <=> Exact BY <1>1 DEF Exact
  <2>5. Exact => delivered = Len(processed) + drops + Cardinality(heap) BY DEF CountInv
  <2>6. Exact => delivered' = Len(processed) + drops + Cardinality(heap')
    BY <1>1, <1>4, <2>1, <2>3, <2>5
  <2>7. input = "file" => drops = 0 BY DEF CountInv
  <2> QED BY <1>1, <2>1, <2>2, <2>4, <2>6, <2>7 DEF CountInv
<1>13. FileInv'
  <2>1. input = "file" /\ userSignals = 0 => running BY <1>1 DEF FileInv
  <2>2. running => pc["main"] \in Looping BY DEF MainInv
  <2> QED BY <1>1, <1>5, <2>1, <2>2 DEF FileInv
<1> QED BY <1>6, <1>7, <1>9, <1>11, <1>12, <1>13

LEMMA InputPushesKeeps ==
  ASSUME BufInv, InputPushes, LifeInv'
  PROVE  BufInv'
<1> USE DEF BufInv
<1>1. /\ pc["input"] = "have" /\ Goes("input", "call")
      /\ UNCHANGED <<input, running, userSignals, held, heap, drops, delivered, processed>>
  BY DEF InputPushes, flags, bufVars
<1>2. PICK b \in Nat : held["input"] = {b} BY <1>1 DEF InputInv
<1>3. Queue!Invoke("input", IF input = "file" THEN "put" ELSE "add", b)
  BY <1>2 DEF InputPushes
<1> DEFINE kind == IF input = "file" THEN "put" ELSE "add"
<1>4. kind \in {"add", "put", "poll"} /\ b \in Nat \cup {NoElement} /\ "input" \in Users OBVIOUS
<1>5. Queue!Invoke("input", kind, b) BY <1>3
<1> HIDE DEF kind
<1>6. /\ pc'["input"] = "call" /\ \A u \in Actors \ {"input"} : pc'[u] = pc[u]
      /\ \A u \in Users \ {"input"} : /\ status'[u] = status[u] /\ request'[u] = request[u]
                                      /\ answer'[u] = answer[u]
      /\ status'["input"] = "pending"
      /\ request'["input"].kind = kind /\ request'["input"].elem = b
      /\ UNCHANGED <<items, isClosed, answer>>
      /\ status' \in [Users -> {"idle", "pending", "answered"}]
      /\ request' \in [Users -> Requests]
  <2> HIDE DEF Requests, Users
  <2> QED BY <1>1, <1>4, <1>5, CallBegins DEF LifeInv
<1>7. BufType' BY <1>1, <1>6 DEF BufType
<1>8. InputInv' BY <1>1, <1>2, <1>6 DEF InputInv, kind
<1>9. InputOwns' = InputOwns
  <2>1. InputOwns = held["input"] BY <1>1, InputOwnsWhat
  <2>2. status'["input"] # "answered" BY <1>6
  <2> QED BY <1>1, <2>1, <2>2 DEF InputOwns
<1>10. MainInv' /\ MainOwns' = MainOwns
  <2>1. Untouched("main") BY <1>1, <1>6 DEF Untouched, Actors
  <2> QED BY <1>1, <1>6, <2>1, MainKept
<1>11. OwnInv' BY <1>1, <1>6, <1>9, <1>10 DEF OwnInv, Queued
<1>12. CountInv' BY <1>1 DEF CountInv, Exact
<1>13. FileInv' BY <1>1, <1>6 DEF FileInv, Actors
<1> QED BY <1>7, <1>8, <1>10, <1>11, <1>12, <1>13

LEMMA InputDiscardsKeeps ==
  ASSUME BufInv, InputDiscards, LifeInv'
  PROVE  BufInv'
<1> USE DEF BufInv
<1>1. /\ pc["input"] = "have" /\ input # "file" /\ ~running /\ heap' = heap \ held["input"]
      /\ held' = [held EXCEPT !["input"] = {}] /\ pc' = [pc EXCEPT !["input"] = "top"]
      /\ UNCHANGED <<items, isClosed, request, status, answer, input, running, userSignals,
                     drops, delivered, processed>>
  BY DEF InputDiscards, queueVars, flags, Goes, Holds, Rechecks
<1>2. /\ pc'["input"] = "top" /\ pc'["main"] = pc["main"]
      /\ held'["input"] = {} /\ held'["main"] = held["main"] /\ held' \in [Users -> SUBSET Nat]
  BY <1>1 DEF BufType, LifeInv, PlaceInv, Actors
<1>3. BufType' BY <1>1, <1>2 DEF BufType
<1>4. InputInv' BY <1>1, <1>2 DEF InputInv
<1>5. InputOwns = held["input"] /\ InputOwns' = {} BY <1>1, <1>2, InputOwnsWhat DEF InputOwns
<1>6. MainInv' /\ MainOwns' = MainOwns BY <1>1, <1>2, MainKept DEF Untouched
<1>7. Queued' = Queued BY <1>1 DEF Queued
<1>8. OwnInv' BY <1>1, <1>5, <1>6, <1>7 DEF OwnInv
<1>9. CountInv'
  <2>1. ~Exact' BY <1>1 DEF Exact
  <2>2. IsFiniteSet(heap') BY <1>1, FS_Subset DEF CountInv
  <2> QED BY <1>1, <2>1, <2>2 DEF CountInv
<1>10. FileInv' BY <1>1 DEF FileInv
<1> QED BY <1>3, <1>4, <1>6, <1>8, <1>9, <1>10

LEMMA InputReturnsKeeps ==
  ASSUME BufInv, InputReturns, LifeInv'
  PROVE  BufInv'
<1> USE DEF BufInv
<1> DEFINE code == answer["input"].code
           to == IF input = "file" /\ code # "OK" THEN "drain" ELSE "top"
<1>1. /\ pc["input"] = "call" /\ status["input"] = "answered"
      /\ heap' = (IF code = "BQ_FULL" \/ (input = "file" /\ code # "OK")
                  THEN heap \ held["input"] ELSE heap)
      /\ drops' = (IF code = "BQ_FULL" THEN drops + 1 ELSE drops)
      /\ Goes("input", to) /\ Queue!Return("input")
      /\ held' = [held EXCEPT !["input"] = {}]
      /\ UNCHANGED <<input, running, userSignals, delivered, processed>>
  BY DEF InputReturns, flags, Holds
<1>2. PICK b \in Nat : held["input"] = {b} BY <1>1 DEF InputInv
<1>3. \/ code = "OK"
      \/ code = "BQ_FULL" /\ input # "file"
      \/ code = "BQ_CLOSED" /\ isClosed
  BY <1>1 DEF InputInv
<1>4. to \in {"drain", "top"} OBVIOUS
<1> HIDE DEF to
<1>5. /\ pc'["input"] = to /\ \A u \in Actors \ {"input"} : pc'[u] = pc[u]
      /\ \A u \in Users \ {"input"} : /\ status'[u] = status[u] /\ request'[u] = request[u]
                                      /\ answer'[u] = answer[u]
      /\ status'["input"] = "idle"
      /\ UNCHANGED <<items, isClosed>>
      /\ status' \in [Users -> {"idle", "pending", "answered"}]
      /\ request' \in [Users -> Requests]
      /\ answer' \in [Users -> Answers]
  <2>1. "input" \in Users OBVIOUS
  <2> HIDE DEF Requests, Answers, Users
  <2> QED BY <1>1, <2>1, CallEnds DEF LifeInv
<1>6. held'["input"] = {} /\ held'["main"] = held["main"] /\ held' \in [Users -> SUBSET Nat]
  BY <1>1 DEF BufType
<1>7. drops' \in Nat BY <1>1 DEF BufType
<1>8. BufType' BY <1>1, <1>5, <1>6, <1>7 DEF BufType
<1>9. InputInv' BY <1>4, <1>5, <1>6 DEF InputInv
<1>10. MainInv' /\ MainOwns' = MainOwns
  <2>1. Untouched("main") BY <1>5, <1>6 DEF Untouched, Actors
  <2> QED BY <1>1, <1>5, <2>1, MainKept
<1>11. InputOwns' = {} BY <1>6 DEF InputOwns
<1>12. Queued' = Queued BY <1>5 DEF Queued
<1>13. FileInv'
  <2> SUFFICES ASSUME input = "file", userSignals = 0 PROVE FileInv'
    BY <1>1 DEF FileInv
  <2>1. running /\ pc["main"] \in Looping BY <1>1 DEF FileInv, MainInv
  <2>2. running' /\ pc'["main"] \in Looping BY <1>1, <1>5, <2>1 DEF Actors
  <2>3. pc'["input"] \notin {"ending", "kill", "exit"} BY <1>4, <1>5
  <2> QED BY <2>2, <2>3 DEF FileInv
<1>14. Cardinality(heap) \in Nat /\ Len(processed) \in Nat /\ drops \in Nat /\ delivered \in Nat
  BY FS_CardinalityType DEF BufType, CountInv
<1>15. Exact' <=> Exact BY <1>1 DEF Exact
<1>16. isClosed => ~Exact
  <2>1. isClosed => ~running /\ pc["main"] \notin Looping BY DEF MainInv
  <2> QED BY <1>1, <2>1 DEF Exact, FileInv
<1>17. CASE code = "OK"
  <2>1. heap' = heap /\ drops' = drops BY <1>1, <1>17
  <2>2. InputOwns = {} BY <1>1, <1>17, InputOwnsWhat
  <2>3. OwnInv' BY <1>5, <1>10, <1>11, <1>12, <2>1, <2>2 DEF OwnInv
  <2>4. CountInv' BY <1>1, <1>15, <2>1 DEF CountInv
  <2> QED BY <1>8, <1>9, <1>10, <1>13, <2>3, <2>4
<1>18. CASE code # "OK"
  <2>1. InputOwns = {b} BY <1>1, <1>2, <1>18, InputOwnsWhat
  <2>2. b \in heap BY <2>1 DEF OwnInv
  <2>3. CASE code = "BQ_FULL"
    <3>1. heap' = heap \ {b} /\ drops' = drops + 1 /\ input # "file" BY <1>1, <1>2, <1>3, <2>3
    <3>2. OwnInv' BY <1>5, <1>10, <1>11, <1>12, <2>1, <3>1 DEF OwnInv
    <3>3. IsFiniteSet(heap') /\ Cardinality(heap') = Cardinality(heap) - 1
      BY <2>2, <3>1, FS_RemoveElement DEF CountInv
    <3>4. Exact => delivered = Len(processed) + drops + Cardinality(heap) BY DEF CountInv
    <3>5. Exact => delivered = Len(processed) + drops' + Cardinality(heap')
      BY <1>14, <3>1, <3>3, <3>4
    <3>6. CountInv' BY <1>1, <1>15, <3>1, <3>3, <3>5 DEF CountInv
    <3> QED BY <1>8, <1>9, <1>10, <1>13, <3>2, <3>6
  <2>4. CASE code # "BQ_FULL"
    <3>1. isClosed /\ drops' = drops /\ heap' \in {heap, heap \ {b}} BY <1>1, <1>2, <1>3, <1>18, <2>4
    <3>2. OwnInv' BY <1>5, <1>10, <1>11, <1>12, <2>1, <3>1 DEF OwnInv
    <3>3. heap' \subseteq heap /\ IsFiniteSet(heap') BY <3>1, FS_Subset DEF CountInv
    <3>4. CountInv' BY <1>1, <1>15, <1>16, <3>1, <3>3 DEF CountInv
    <3> QED BY <1>8, <1>9, <1>10, <1>13, <3>2, <3>4
  <2> QED BY <2>3, <2>4
<1> QED BY <1>17, <1>18

-----------------------------------------------------------------------------
(* The main loop's steps on a buffer, and the close.                       *)

LEMMA MainPollsKeeps ==
  ASSUME BufInv, MainPolls, LifeInv'
  PROVE  BufInv'
<1> USE DEF BufInv
<1>1. /\ pc["main"] = "poll" /\ Goes("main", "polled")
      /\ Queue!Invoke("main", "poll", NoElement)
      /\ UNCHANGED <<input, running, userSignals, held, heap, drops, delivered, processed>>
  BY DEF MainPolls, flags, bufVars
<1>2. /\ pc'["main"] = "polled" /\ \A u \in Actors \ {"main"} : pc'[u] = pc[u]
      /\ \A u \in Users \ {"main"} : /\ status'[u] = status[u] /\ request'[u] = request[u]
                                     /\ answer'[u] = answer[u]
      /\ status'["main"] = "pending" /\ request'["main"].kind = "poll"
      /\ UNCHANGED <<items, isClosed, answer>>
      /\ status' \in [Users -> {"idle", "pending", "answered"}]
      /\ request' \in [Users -> Requests]
  <2>1. "main" \in Users /\ NoElement \in Nat \cup {NoElement} OBVIOUS
  <2> HIDE DEF Requests, Users
  <2> QED BY <1>1, <2>1, CallBegins DEF LifeInv
<1>3. BufType' BY <1>1, <1>2 DEF BufType
<1>4. MainInv' BY <1>1, <1>2 DEF MainInv, Looping
<1>5. MainOwns' = MainOwns
  <2>1. MainOwns = held["main"] BY <1>1 DEF MainOwns, MainInv
  <2> QED BY <1>1, <1>2, <2>1 DEF MainOwns
<1>6. InputInv' /\ InputOwns' = InputOwns
  <2>1. Untouched("input") BY <1>1, <1>2 DEF Untouched, Actors
  <2> QED BY <1>1, <1>2, <2>1, InputKept
<1>7. OwnInv' BY <1>1, <1>2, <1>5, <1>6 DEF OwnInv, Queued
<1>8. CountInv' BY <1>1 DEF CountInv, Exact
<1>9. FileInv' BY <1>1, <1>2 DEF FileInv, Actors, Looping
<1> QED BY <1>3, <1>4, <1>6, <1>7, <1>8, <1>9

LEMMA MainPolledKeeps ==
  ASSUME BufInv, MainPolled, LifeInv'
  PROVE  BufInv'
<1> USE DEF BufInv
<1>1. /\ pc["main"] = "polled" /\ status["main"] = "answered" /\ Queue!Return("main")
      /\ UNCHANGED <<input, running, userSignals, heap, drops, delivered, processed>>
  BY DEF MainPolled, flags
<1>2. held["main"] = {} BY <1>1 DEF MainInv
<1> DEFINE got == answer["main"].code = "OK"
           to == IF got THEN "process" ELSE "poll"
           S == IF got THEN {answer["main"].elem} ELSE {}
<1>3. got => answer["main"].elem \in Nat BY <1>1 DEF MainInv
<1>4. ~got => answer["main"].code = "BQ_EMPTY" BY <1>1 DEF MainInv
<1>5. Goes("main", to) BY <1>4 DEF MainPolled
<1>a. held' = [held EXCEPT !["main"] = S]
  <2>1. CASE got BY <2>1 DEF MainPolled, Holds
  <2>2. CASE ~got
    <3>1. held' = held BY <2>2 DEF MainPolled
    <3> QED BY <1>2, <2>2, <3>1 DEF BufType
  <2> QED BY <2>1, <2>2
<1>7. MainOwns = S BY <1>1, MainOwnsWhat
<1>8. (to = "process" /\ \E b \in Nat : S = {b}) \/ (to = "poll" /\ S = {})
  <2>1. CASE got
    <3>1. to = "process" /\ S = {answer["main"].elem} BY <2>1
    <3>2. answer["main"].elem \in Nat BY <1>3, <2>1
    <3> HIDE DEF got, to, S
    <3> QED BY <3>1, <3>2
  <2>2. CASE ~got BY <2>2
  <2> QED BY <2>1, <2>2
<1>b. S \subseteq Nat
  <2> HIDE DEF S, to, got
  <2> QED BY <1>8
<1>6. held' \in [Users -> SUBSET Nat] /\ held'["main"] = S /\ held'["input"] = held["input"]
  <2> HIDE DEF S, to, got
  <2> QED BY <1>a, <1>b DEF BufType
<1> HIDE DEF S, to, got
<1>9. /\ pc'["main"] = to /\ \A u \in Actors \ {"main"} : pc'[u] = pc[u]
      /\ \A u \in Users \ {"main"} : /\ status'[u] = status[u] /\ request'[u] = request[u]
                                     /\ answer'[u] = answer[u]
      /\ status'["main"] = "idle"
      /\ UNCHANGED <<items, isClosed>>
      /\ status' \in [Users -> {"idle", "pending", "answered"}]
      /\ request' \in [Users -> Requests]
      /\ answer' \in [Users -> Answers]
  <2>1. "main" \in Users OBVIOUS
  <2> HIDE DEF Requests, Answers, Users
  <2> QED BY <1>1, <1>5, <2>1, CallEnds DEF LifeInv
<1>10. BufType' BY <1>1, <1>6, <1>9 DEF BufType
<1>11. MainInv' BY <1>1, <1>6, <1>8, <1>9 DEF MainInv, Looping
<1>12. MainOwns' = MainOwns BY <1>6, <1>7, <1>9 DEF MainOwns
<1>13. InputInv' /\ InputOwns' = InputOwns
  <2>1. Untouched("input") BY <1>6, <1>9 DEF Untouched, Actors
  <2> QED BY <1>1, <1>9, <2>1, InputKept
<1>14. OwnInv' BY <1>1, <1>9, <1>12, <1>13 DEF OwnInv, Queued
<1>15. CountInv' BY <1>1 DEF CountInv, Exact
<1>16. FileInv' BY <1>1, <1>8, <1>9 DEF FileInv, Actors, Looping
<1> QED BY <1>10, <1>11, <1>13, <1>14, <1>15, <1>16

LEMMA MainProcessesKeeps ==
  ASSUME BufInv, MainProcesses, LifeInv'
  PROVE  BufInv'
<1> USE DEF BufInv
<1>1. /\ pc["main"] = "process" /\ heap' = heap \ held["main"]
      /\ held' = [held EXCEPT !["main"] = {}] /\ pc' = [pc EXCEPT !["main"] = "poll"]
      /\ UNCHANGED <<items, isClosed, request, status, answer, input, running, userSignals,
                     drops, delivered>>
  BY DEF MainProcesses, queueVars, flags, Goes, Holds
<1>2. PICK b \in Nat : held["main"] = {b} BY <1>1 DEF MainInv
<1>3. processed' = Append(processed, b) BY <1>2 DEF MainProcesses
<1>4. processed' \in Seq(Nat) /\ Len(processed') = Len(processed) + 1 /\ Len(processed) \in Nat
  BY <1>3 DEF BufType
<1>5. /\ pc'["main"] = "poll" /\ pc'["input"] = pc["input"]
      /\ held'["main"] = {} /\ held'["input"] = held["input"] /\ held' \in [Users -> SUBSET Nat]
  BY <1>1 DEF BufType, LifeInv, PlaceInv, Actors
<1>6. BufType' BY <1>1, <1>4, <1>5 DEF BufType
<1>7. MainInv' BY <1>1, <1>5 DEF MainInv, Looping
<1>8. MainOwns = {b} /\ MainOwns' = {}
  <2>1. MainOwns = {b} BY <1>1, <1>2, MainOwnsWhat
  <2>2. status["main"] = "idle" BY <1>1 DEF MainInv, BufType
  <2> QED BY <1>1, <1>5, <2>1, <2>2 DEF MainOwns
<1>9. InputInv' /\ InputOwns' = InputOwns BY <1>1, <1>5, InputKept DEF Untouched
<1>10. Queued' = Queued BY <1>1 DEF Queued
<1>11. OwnInv' BY <1>1, <1>2, <1>8, <1>9, <1>10 DEF OwnInv
<1>12. CountInv'
  <2>1. b \in heap /\ IsFiniteSet(heap) BY <1>8 DEF OwnInv, CountInv
  <2>2. IsFiniteSet(heap') /\ Cardinality(heap') = Cardinality(heap) - 1
    BY <1>1, <1>2, <2>1, FS_RemoveElement
  <2>3. Cardinality(heap) \in Nat /\ drops \in Nat /\ delivered \in Nat
    BY <2>1, FS_CardinalityType DEF BufType
  <2>4. Exact => delivered = Len(processed) + drops + Cardinality(heap) BY DEF CountInv
  <2>5. Exact => delivered = Len(processed') + drops + Cardinality(heap')
    BY <1>4, <2>2, <2>3, <2>4
  <2>6. Exact' <=> Exact BY <1>1 DEF Exact
  <2> QED BY <1>1, <2>2, <2>5, <2>6 DEF CountInv
<1>13. FileInv' BY <1>1, <1>5 DEF FileInv, Looping
<1> QED BY <1>6, <1>7, <1>9, <1>11, <1>12, <1>13

LEMMA CloseKeeps ==
  ASSUME BufInv, CloseQueue, LifeInv'
  PROVE  BufInv'
<1> USE DEF BufInv
<1>1. /\ pc["main"] = "cancelled" /\ isClosed' /\ pc' = [pc EXCEPT !["main"] = "closing"]
      /\ UNCHANGED <<items, request, status, answer, input, running, userSignals, held, heap,
                     drops, delivered, processed>>
  BY DEF CloseQueue, Queue!Close, flags, bufVars, Goes
<1>2. pc'["main"] = "closing" /\ pc'["input"] = pc["input"]
  BY <1>1 DEF LifeInv, PlaceInv, Actors
<1>3. BufType' BY <1>1 DEF BufType
<1>4. InputInv' /\ InputOwns' = InputOwns BY <1>1, <1>2, InputKept DEF Untouched
<1>5. MainInv' BY <1>1, <1>2 DEF MainInv, Looping
<1>6. MainOwns' = MainOwns BY <1>1 DEF MainOwns
<1>7. OwnInv' BY <1>1, <1>4, <1>6 DEF OwnInv, Queued
<1>8. CountInv' BY <1>1 DEF CountInv, Exact
<1>9. FileInv' BY <1>1, <1>2 DEF FileInv, Looping
<1> QED BY <1>3, <1>4, <1>5, <1>7, <1>8, <1>9

-----------------------------------------------------------------------------
(* The other steps are quiet; what each needs for a file.                  *)

LEMMA InputQuietKeeps ==
  ASSUME BufInv, LifeInv',
         InputChecks \/ InputDeliversNothing \/ InputStops \/ InputFails \/ SpewerDrained
           \/ InputEnds \/ InputKills
  PROVE  BufInv'
<1> USE DEF BufInv
<1> DEFINE to == pc'["input"]
<1>1. /\ UNCHANGED <<queueVars, input, bufVars, userSignals>>
      /\ running' => running
  <2>1. CASE InputEnds BY <2>1 DEF InputEnds
  <2>2. CASE InputKills BY <2>2 DEF InputKills, sig_handler
  <2>3. CASE ~InputEnds /\ ~InputKills
    BY <2>3 DEF InputChecks, InputDeliversNothing, InputStops, InputFails, SpewerDrained, flags
  <2> QED BY <2>1, <2>2, <2>3
<1>2. UNCHANGED <<items, heap>> BY <1>1 DEF queueVars, bufVars
<1>3. \E x \in InputPlaces \ {"have", "call"} : pc' = [pc EXCEPT !["input"] = x]
  BY DEF InputChecks, InputDeliversNothing, InputStops, InputFails, SpewerDrained, InputEnds,
         InputKills, Goes, InputPlaces
<1>4. pc["input"] \in {"top", "reading", "drain", "ending", "kill"}
  BY DEF InputChecks, InputDeliversNothing, InputStops, InputFails, SpewerDrained, InputEnds,
         InputKills
<1>5. pc'["main"] = pc["main"] /\ to \notin {"have", "call"}
  BY <1>3 DEF LifeInv, PlaceInv, Actors
<1>6. Quiet BY <1>1, <1>4, <1>5 DEF Quiet
<1>7. input = "file" =>
        /\ to \in {"ending", "kill", "exit"} =>
             \/ pc["input"] \in {"ending", "kill"}
             \/ ~running \/ items = <<>>
        /\ ~running' => ~running \/ to \in {"kill", "exit"}
        /\ pc["input"] = "kill" => to = "exit"
        /\ pc["input"] = "ending" => to = "kill"
  <2>1. CASE InputChecks \/ InputDeliversNothing \/ InputStops \/ InputFails
    BY <2>1 DEF InputChecks, InputDeliversNothing, InputStops, InputFails, Goes, flags, LifeInv,
                PlaceInv, Actors
  <2>2. CASE SpewerDrained
    BY <2>2 DEF SpewerDrained, Goes, flags, LifeInv, PlaceInv, Actors
  <2>3. CASE InputEnds
    BY <2>3 DEF InputEnds, Goes, LifeInv, PlaceInv, Actors
  <2>4. CASE InputKills
    BY <2>4 DEF InputKills, Goes, LifeInv, PlaceInv, Actors
  <2> QED BY <2>1, <2>2, <2>3, <2>4
<1> HIDE DEF to
<1>8. FileInv'
  <2> SUFFICES ASSUME input = "file", userSignals = 0
               PROVE  /\ ~running' => to \in {"kill", "exit"}
                      /\ to \in {"ending", "kill", "exit"} => items' = <<>>
                      /\ pc'["main"] \notin Looping => heap' = {}
    BY <1>1 DEF FileInv, to
  <2>1. ~running => pc["input"] = "kill" BY <1>4 DEF FileInv
  <2>2. pc["input"] \in {"ending", "kill"} => items = <<>> BY DEF FileInv
  <2>3. pc["main"] \notin Looping => heap = {} BY DEF FileInv
  <2> QED BY <1>2, <1>5, <1>7, <2>1, <2>2, <2>3
<1> QED BY <1>6, <1>8, QuietKeeps

LEMMA MainQuietKeeps ==
  ASSUME BufInv, LifeInv',
         MainLeavesLoop \/ CancelAsync \/ CloseQueueReturns \/ JoinInput \/ FlushStdcAndStop
           \/ JoinWorkers \/ Destroy \/ MainReturns
  PROVE  BufInv'
<1> USE DEF BufInv
<1>1. UNCHANGED <<queueVars, input, bufVars, running, userSignals>>
  <2>1. CASE Destroy
    <3>1. UNCHANGED <<queueVars, input, pc, flags, bufVars, thread_run>> BY <2>1 DEF Destroy
    <3> QED BY <3>1 DEF flags
  <2>2. CASE ~Destroy
    BY <2>2 DEF MainLeavesLoop, CancelAsync, CloseQueueReturns, JoinInput, FlushStdcAndStop,
                JoinWorkers, MainReturns, flags
  <2> QED BY <2>1, <2>2
<1>2. UNCHANGED <<items, heap>> BY <1>1 DEF queueVars, bufVars
<1>3. \/ UNCHANGED pc
      \/ \E x : /\ pc' = [pc EXCEPT !["main"] = x]
                /\ \/ pc["main"] = "poll" /\ ~running /\ x = "stop"
                   \/ pc["main"] = "stop" /\ x = "cancelled"
                   \/ /\ pc["main"] \in {"closing", "join", "flush", "joinworkers", "destroy"}
                      /\ x \notin Looping \cup {"stop", "cancelled"}
  BY DEF MainLeavesLoop, CancelAsync, CloseQueueReturns, JoinInput, FlushStdcAndStop,
         JoinWorkers, Destroy, MainReturns, Goes, Looping
<1>4. pc'["input"] = pc["input"] BY <1>3 DEF LifeInv, PlaceInv, Actors
<1>5. \/ pc'["main"] = pc["main"]
      \/ pc["main"] = "poll" /\ ~running /\ pc'["main"] = "stop"
      \/ pc["main"] = "stop" /\ pc'["main"] = "cancelled"
      \/ /\ pc["main"] \in {"closing", "join", "flush", "joinworkers", "destroy"}
         /\ pc'["main"] \notin Looping \cup {"stop", "cancelled"}
  BY <1>3 DEF LifeInv, PlaceInv, Actors
<1>6. running => pc["main"] \in Looping BY DEF MainInv
<1>7. Quiet
  <2>1. \/ pc'["main"] = pc["main"]
        \/ /\ pc["main"] \notin {"polled", "process"} /\ pc'["main"] \notin Looping
           /\ ~running'
           /\ pc'["main"] \in {"stop", "cancelled"} => pc["main"] \in {"poll", "stop"}
    BY <1>1, <1>5, <1>6 DEF Looping
  <2> QED BY <1>1, <1>4, <2>1 DEF Quiet
<1>8. ASSUME input = "file", userSignals = 0, pc["main"] = "poll", ~running
      PROVE  heap = {}
  <2>1. pc["input"] \in {"kill", "exit"} /\ items = <<>> BY <1>8 DEF FileInv
  <2>2. InputOwns = {} BY <2>1, InputOwnsWhat
  <2>3. MainOwns = {} BY <1>8, MainOwnsWhat
  <2>4. Queued = {} BY <2>1 DEF Queued
  <2>5. ~isClosed BY <1>8 DEF MainInv, Looping
  <2> QED BY <2>2, <2>3, <2>4, <2>5 DEF OwnInv
<1>9. FileInv'
  <2>1. pc'["main"] \notin Looping =>
          pc["main"] \notin Looping \/ (pc["main"] = "poll" /\ ~running)
    BY <1>5 DEF Looping
  <2> QED BY <1>1, <1>2, <1>4, <1>8, <2>1 DEF FileInv
<1> QED BY <1>7, <1>9, QuietKeeps

LEMMA OtherQuietKeeps ==
  ASSUME BufInv, LifeInv', WorkerMoves \/ UserSignal \/ DeviceRemoved \/ UNCHANGED vars
  PROVE  BufInv'
<1> USE DEF BufInv
<1>0. PlaceInv /\ userSignals \in Nat BY DEF LifeInv
<1>1. /\ UNCHANGED <<queueVars, input, bufVars>>
      /\ pc'["input"] = pc["input"] /\ pc'["main"] = pc["main"]
      /\ running' => running
      /\ \/ userSignals' = userSignals + 1
         \/ userSignals' = userSignals /\ (running' = running \/ input = "sdrplay")
  <2>1. CASE WorkerMoves BY <1>0, <2>1, OnlyWorkerMoves DEF flags
  <2>2. CASE UserSignal BY <2>2 DEF UserSignal, sig_handler
  <2>3. CASE DeviceRemoved BY <2>3 DEF DeviceRemoved
  <2>4. CASE UNCHANGED vars BY <2>4 DEF vars, flags
  <2> QED BY <2>1, <2>2, <2>3, <2>4
<1>2. Quiet BY <1>1 DEF Quiet
<1>3. UNCHANGED <<items, heap>> BY <1>1 DEF queueVars, bufVars
<1>4. userSignals' = 0 => userSignals' = userSignals BY <1>0, <1>1
<1>5. input = "sdrplay" => input # "file" OBVIOUS
<1>6. FileInv' BY <1>1, <1>3, <1>4, <1>5 DEF FileInv
<1> QED BY <1>2, <1>6, QuietKeeps

LEMMA BufInductive == BufInv /\ [Next]_vars => BufInv'
<1> SUFFICES ASSUME BufInv, [Next]_vars PROVE BufInv' OBVIOUS
<1>1. LifeInv' BY LifeInductive DEF BufInv
<1>2. CASE InputMoves
  <2>1. \/ InputDelivers \/ InputPushes \/ InputDiscards \/ InputReturns
        \/ InputChecks \/ InputDeliversNothing \/ InputStops \/ InputFails \/ SpewerDrained
        \/ InputEnds \/ InputKills
    BY <1>2 DEF InputMoves, InputReads, InputStep
  <2> QED BY <1>1, <2>1, InputDeliversKeeps, InputPushesKeeps, InputDiscardsKeeps,
             InputReturnsKeeps, InputQuietKeeps
<1>3. CASE MainMoves
  <2>1. \/ MainPolls \/ MainPolled \/ MainProcesses \/ CloseQueue
        \/ MainLeavesLoop \/ CancelAsync \/ CloseQueueReturns \/ JoinInput \/ FlushStdcAndStop
        \/ JoinWorkers \/ Destroy \/ MainReturns
    BY <1>3 DEF MainMoves, MainStep
  <2> QED BY <1>1, <2>1, MainPollsKeeps, MainPolledKeeps, MainProcessesKeeps, CloseKeeps,
             MainQuietKeeps
<1>4. ASSUME NEW t \in Users, QueueAnswers(t) PROVE BufInv' BY <1>1, <1>4, AnswersKeep
<1>5. CASE WorkerMoves \/ UserSignal \/ DeviceRemoved \/ UNCHANGED vars
  BY <1>1, <1>5, OtherQuietKeeps
<1> QED BY <1>2, <1>3, <1>4, <1>5, StepIsOneOf DEF NobodyMoves

(* A sample buffer has one owner at a time and is allocated while it has;  *)
(* until samples_queue is closed every allocated buffer has an owner, and  *)
(* while the program runs every block the input delivered is in the        *)
(* pipeline, was processed, or is counted in stat_drops.                   *)
THEOREM BuffersAccountedFor == Spec => []NoSilentLoss
<1>1. ASSUME BufInv PROVE NoSilentLoss
  <2> USE <1>1 DEF BufInv
  <2>1. running => ~isClosed BY DEF MainInv
  <2>2. ~isClosed => heap = InputOwns \cup Queued \cup MainOwns BY DEF OwnInv
  <2>3. running => delivered = Len(processed) + drops + Cardinality(heap)
    BY DEF CountInv, Exact
  <2> HIDE DEF BufInv
  <2>4. running => delivered = Len(processed) + drops
                               + Cardinality(InputOwns \cup Queued \cup MainOwns)
    BY <2>1, <2>2, <2>3
  <2> QED BY <2>2, <2>4 DEF NoSilentLoss, OwnInv, BufInv
<1>2. BufInv => NoSilentLoss BY <1>1
<1> QED BY <1>2, BufInit, BufInductive, PTL DEF Spec

(* A file is processed to its end before the main loop is left, unless the *)
(* user interrupts.                                                        *)
THEOREM FilesAreFinished == Spec => []FileProcessedToEnd
<1>1. ASSUME BufInv PROVE FileProcessedToEnd
  <2> SUFFICES ASSUME input = "file", userSignals = 0, pc["main"] \notin Looping
               PROVE  Len(processed) = delivered
    BY DEF FileProcessedToEnd, Looping
  <2>1. heap = {} /\ drops = 0 /\ Exact BY <1>1 DEF BufInv, FileInv, CountInv, Exact
  <2>2. delivered = Len(processed) + drops + Cardinality(heap) BY <1>1, <2>1 DEF BufInv, CountInv
  <2>3. Cardinality(heap) = 0 BY <2>1, FS_EmptySet
  <2>4. Len(processed) \in Nat BY <1>1 DEF BufInv, BufType
  <2> QED BY <2>1, <2>2, <2>3, <2>4
<1>2. BufInv => FileProcessedToEnd BY <1>1
<1> QED BY <1>2, BufInit, BufInductive, PTL DEF Spec

=============================================================================
