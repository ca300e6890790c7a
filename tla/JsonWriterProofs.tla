-------------------------- MODULE JsonWriterProofs --------------------------
(***************************************************************************)
(* Proofs about JsonWriter: every copy of a message has one owner, and the *)
(* output is what the queue accepted, in order, with every other message   *)
(* counted as a drop.  They hold for every queue that meets QueueContract, *)
(* any capacity and any set of decoders and messages.                      *)
(***************************************************************************)
EXTENDS JsonWriter, FiniteSetTheorems, SequenceTheorems, TLAPS

(* The decoders whose copy the queue has not taken.                        *)
Callers == {q \in Producers : pc[q] = "add" /\ ~Returned(q, "OK")}

Places == {"idle", "add", "top", "take", "write", "exit", "run", "close",
           "closing", "join", "drain", "poll", "destroy", "done"}
Codes == {"OK", "BQ_FULL", "BQ_EMPTY", "BQ_CLOSED", "BQ_ERROR"}
Requests == [kind : {"none", "add", "put", "poll", "take"}, elem : Messages \cup {NoElement}]
Answers == [code : Codes \cup {"none"}, elem : Messages \cup {NoElement}]

JwType ==
  /\ items \in Seq(Messages) /\ accepted \in Seq(Messages)
  /\ out \in Seq([msg : Messages, written : BOOLEAN])
  /\ request \in [Threads -> Requests]
  /\ status \in [Threads -> {"idle", "pending", "answered"}]
  /\ answer \in [Threads -> Answers]
  /\ pc \in [Threads -> Places]
  /\ held \subseteq Messages /\ offered \subseteq Messages
  /\ IsFiniteSet(offered) /\ drops \in Nat /\ connected \in BOOLEAN

(* Which call each thread is in, and which answers it can get.             *)
ProducersInv ==
  \A p \in Producers :
    /\ pc[p] \in {"idle", "add"}
    /\ pc[p] = "add" <=> status[p] # "idle"
    /\ pc[p] = "add" => request[p].kind = "add" /\ request[p].elem \in offered

WriterInv ==
  /\ pc[Writer] \in {"top", "take", "write", "exit"}
  /\ pc[Writer] = "take" <=> status[Writer] # "idle"
  /\ pc[Writer] = "take" => request[Writer].kind = "take"
  /\ status[Writer] = "answered" =>
       \/ answer[Writer].code = "OK" /\ answer[Writer].elem \in Messages
       \/ answer[Writer].code = "BQ_CLOSED"
  /\ pc[Writer] = "write" => \E m \in Messages : held = {m}
  /\ pc[Writer] # "write" => held = {}

MainInv ==
  /\ pc[Main] \in {"run", "close", "closing", "join", "drain", "poll", "destroy", "done"}
  /\ pc[Main] = "poll" <=> status[Main] # "idle"
  /\ pc[Main] = "poll" => request[Main].kind = "poll"
  /\ pc[Main] \notin {"run", "close"} => isClosed
  /\ status[Main] = "answered" => answer[Main].code # "OK"

RoleInv == JwType /\ ProducersInv /\ WriterInv /\ MainInv

(* No message is accepted twice, and none that a caller still owns.        *)
AcceptedInv ==
  /\ \A i \in 1..Len(accepted) : accepted[i] \in offered
  /\ \A i, j \in 1..Len(accepted) : accepted[i] = accepted[j] => i = j
  /\ \A p \in Callers, i \in 1..Len(accepted) : request[p].elem # accepted[i]
  /\ \A p, q \in Callers : request[p].elem = request[q].elem => p = q

(* What was accepted is the output, then what the writer has, then the     *)
(* queue.                                                                  *)
Hand == IF WriterOwns = {} THEN 0 ELSE 1

OrderInv ==
  /\ Len(accepted) = Len(out) + Hand + Len(items)
  /\ \A i \in 1..Len(out) : accepted[i] = out[i].msg
  /\ \A m \in WriterOwns : accepted[Len(out) + 1] = m
  /\ \A i \in 1..Len(items) : accepted[Len(out) + Hand + i] = items[i]

HeapInv == heap = CallersOwn \cup Elems(items) \cup WriterOwns

CountInv ==
  /\ IsFiniteSet(Callers)
  /\ drops + Len(accepted) + Cardinality(Callers) = Cardinality(offered)

JwInv == RoleInv /\ AcceptedInv /\ OrderInv /\ HeapInv /\ CountInv

USE JsonWriterAssumption DEF Places, Codes, Requests, Answers

-----------------------------------------------------------------------------
LEMMA OwnersOfWriter ==
  ASSUME WriterInv, JwType
  PROVE  /\ pc[Writer] = "write" => WriterOwns = held
         /\ Returned(Writer, "OK") => WriterOwns = {answer[Writer].elem}
         /\ pc[Writer] # "write" /\ ~Returned(Writer, "OK") => WriterOwns = {}
         /\ WriterOwns = {} \/ \E m \in Messages : WriterOwns = {m}
<1>1. Returned(Writer, "OK") => pc[Writer] = "take" /\ answer[Writer].elem \in Messages
  BY DEF WriterInv, Returned
<1>2. pc[Writer] = "write" => ~Returned(Writer, "OK") BY DEF WriterInv, Returned
<1> QED BY <1>1, <1>2 DEF WriterOwns, WriterInv

LEMMA OwnOfCallers == CallersOwn = {request[p].elem : p \in Callers}
BY DEF CallersOwn, Callers

(* The three sets of owners are disjoint.                                  *)
LEMMA OwnersDisjoint ==
  ASSUME JwInv
  PROVE  /\ CallersOwn \cap Elems(items) = {}
         /\ CallersOwn \cap WriterOwns = {}
         /\ Elems(items) \cap WriterOwns = {}
<1> USE DEF JwInv, RoleInv
<1>1. WriterOwns = {} \/ \E m \in Messages : WriterOwns = {m} BY OwnersOfWriter
<1>2. Len(out) \in Nat /\ Len(items) \in Nat /\ Len(accepted) \in Nat /\ Hand \in {0, 1}
  BY DEF JwType, Hand
<1>3. ASSUME NEW i \in 1..Len(items)
      PROVE  /\ Len(out) + Hand + i \in 1..Len(accepted)
             /\ accepted[Len(out) + Hand + i] = items[i]
  BY <1>2 DEF OrderInv
<1>4. ASSUME NEW m \in WriterOwns
      PROVE  Len(out) + 1 \in 1..Len(accepted) /\ accepted[Len(out) + 1] = m /\ Hand = 1
  BY <1>1, <1>2 DEF OrderInv, Hand
<1>5. \A x \in CallersOwn : \E p \in Callers : x = request[p].elem
  BY OwnOfCallers
<1>6. CallersOwn \cap Elems(items) = {} BY <1>3, <1>5 DEF AcceptedInv, Elems
<1>7. CallersOwn \cap WriterOwns = {} BY <1>4, <1>5 DEF AcceptedInv
<1>8. Elems(items) \cap WriterOwns = {}
  <2> SUFFICES ASSUME NEW i \in 1..Len(items), items[i] \in WriterOwns PROVE FALSE
    BY DEF Elems
  <2>1. Len(out) + Hand + i = Len(out) + 1 BY <1>3, <1>4, ZenonT(30) DEF AcceptedInv
  <2> QED BY <1>2, <1>4, <2>1
<1> QED BY <1>6, <1>7, <1>8

LEMMA JwInitInv == Init => JwInv
<1> SUFFICES ASSUME Init PROVE JwInv OBVIOUS
<1> USE DEF Init, Queue!Init, Queue!NoRequest, Queue!NoAnswer, Threads
<1>1. JwType BY FS_EmptySet DEF JwType
<1>2. ProducersInv /\ WriterInv /\ MainInv
  <2>1. /\ pc[Writer] = "top" /\ pc[Main] = "run" /\ held = {}
        /\ \A p \in Producers : pc[p] = "idle" /\ p \in Threads
        /\ \A t \in Threads : status[t] = "idle"
        /\ Writer \in Threads /\ Main \in Threads
    OBVIOUS
  <2> QED BY <2>1 DEF ProducersInv, WriterInv, MainInv
<1>3. Callers = {} /\ WriterOwns = {} BY DEF Callers, WriterOwns, Returned
<1>4. CallersOwn = {} /\ Elems(items) = {}
  <2>1. Elems(items) = {} BY DEF Elems
  <2> QED BY <1>3, <2>1, OwnOfCallers
<1>5. AcceptedInv /\ OrderInv BY <1>3 DEF AcceptedInv, OrderInv, Hand
<1>6. HeapInv BY <1>3, <1>4 DEF HeapInv
<1>7. CountInv BY <1>3, FS_EmptySet DEF CountInv
<1> QED BY <1>1, <1>2, <1>5, <1>6, <1>7 DEF JwInv, RoleInv

-----------------------------------------------------------------------------
(* The steps of the queue.                                                 *)

restVars == <<pc, held, heap, running, link, drops, destroyed, offered, out>>

(* The queue answers t's call, and only that.                              *)
Answered(t) ==
  /\ status[t] = "pending"
  /\ status' = [status EXCEPT ![t] = "answered"]
  /\ \E a \in [code : Codes,
               elem : Messages \cup {NoElement}] : answer' = [answer EXCEPT ![t] = a]
  /\ UNCHANGED <<request, isClosed, restVars>>

Accepts(t) ==
  /\ t \in Producers /\ answer'[t].code = "OK"
  /\ items' = Append(items, request[t].elem)
  /\ accepted' = Append(accepted, request[t].elem)

Delivers(t) ==
  /\ t = Writer /\ answer'[t].code = "OK" /\ answer'[t].elem = Head(items)
  /\ items # <<>> /\ items' = Tail(items) /\ accepted' = accepted

Refuses(t) ==
  /\ answer'[t].code # "OK" /\ (t = Writer => answer'[t].code = "BQ_CLOSED")
  /\ UNCHANGED <<items, accepted>>

LEMMA AnswerIs ==
  ASSUME RoleInv, NEW t \in Threads,
         NEW code \in Codes,
         NEW e \in Messages \cup {NoElement},
         Queue!Answer({t}, code, e), UNCHANGED restVars
  PROVE  /\ Answered(t)
         /\ answer'[t].code = code /\ answer'[t].elem = e
<1> DEFINE a == [code |-> code, elem |-> e]
<1>1. /\ status[t] = "pending"
      /\ status' = [u \in Threads |-> IF u \in {t} THEN "answered" ELSE status[u]]
      /\ answer' = [u \in Threads |-> IF u \in {t} THEN a ELSE answer[u]]
      /\ UNCHANGED <<request, isClosed>>
  BY DEF Queue!Answer
<1>2. a \in [code : Codes,
             elem : Messages \cup {NoElement}]
      /\ a.code = code /\ a.elem = e
  OBVIOUS
<1> HIDE DEF a
<1>3. status' = [status EXCEPT ![t] = "answered"] BY <1>1 DEF RoleInv, JwType
<1>4. answer' = [answer EXCEPT ![t] = a] /\ answer'[t] = a BY <1>1 DEF RoleInv, JwType
<1> QED BY <1>1, <1>2, <1>3, <1>4 DEF Answered

LEMMA QueueStep ==
  ASSUME RoleInv, NEW t \in Threads, QueueAnswers(t) \/ (t \in Producers /\ QueueFails(t))
  PROVE  Answered(t) /\ (Accepts(t) \/ Delivers(t) \/ Refuses(t))
<1> USE DEF RoleInv
<1>0. UNCHANGED restVars BY DEF QueueAnswers, QueueFails, restVars
<1>1. NoElement \in Messages \cup {NoElement} OBVIOUS
<1>2. CASE Queue!Accept(t) /\ accepted' = Append(accepted, request[t].elem)
  <2>1. /\ request[t].kind \in {"add", "put"} /\ items' = Append(items, request[t].elem)
        /\ Queue!Answer({t}, "OK", NoElement)
    BY <1>2 DEF Queue!Accept, Queue!Adding
  <2>2. Answered(t) /\ answer'[t].code = "OK" BY <1>0, <1>1, <2>1, AnswerIs
  <2>3. t \in Producers
    BY <2>1, <2>2 DEF Answered, Threads, WriterInv, MainInv
  <2> QED BY <1>2, <2>1, <2>2, <2>3 DEF Accepts
<1>3. CASE Queue!Deliver(t) /\ UNCHANGED accepted
  <2>1. /\ request[t].kind \in {"poll", "take"} /\ items # <<>> /\ items' = Tail(items)
        /\ ~isClosed /\ Queue!Answer({t}, "OK", Head(items))
    BY <1>3 DEF Queue!Deliver, Queue!Getting
  <2>2. Head(items) \in Messages \cup {NoElement} BY <2>1 DEF JwType
  <2>3. Answered(t) /\ answer'[t].code = "OK" /\ answer'[t].elem = Head(items)
    BY <1>0, <2>1, <2>2, AnswerIs
  <2>4. t = Writer
    BY <2>1, <2>3 DEF Answered, Threads, ProducersInv, MainInv
  <2> QED BY <1>3, <2>1, <2>3, <2>4 DEF Delivers
<1>4. CASE UNCHANGED accepted /\ Queue!RefuseClosed(t)
  <2>1. UNCHANGED items /\ Queue!Answer({t}, "BQ_CLOSED", NoElement)
    BY <1>4 DEF Queue!RefuseClosed
  <2>2. Answered(t) /\ answer'[t].code = "BQ_CLOSED" BY <1>0, <1>1, <2>1, AnswerIs
  <2> QED BY <1>4, <2>1, <2>2 DEF Refuses
<1>5. CASE UNCHANGED accepted /\ Queue!RefuseFull({t})
  <2>1. /\ UNCHANGED items /\ Queue!Answer({t}, "BQ_FULL", NoElement)
        /\ request[t].kind = "add"
    BY <1>5 DEF Queue!RefuseFull
  <2>2. Answered(t) /\ answer'[t].code = "BQ_FULL" BY <1>0, <1>1, <2>1, AnswerIs
  <2>3. t # Writer BY <2>1, <2>2 DEF Answered, WriterInv
  <2> QED BY <1>5, <2>1, <2>2, <2>3 DEF Refuses
<1>6. CASE UNCHANGED accepted /\ Queue!RefuseEmpty({t})
  <2>1. /\ UNCHANGED items /\ Queue!Answer({t}, "BQ_EMPTY", NoElement)
        /\ request[t].kind = "poll"
    BY <1>6 DEF Queue!RefuseEmpty
  <2>2. Answered(t) /\ answer'[t].code = "BQ_EMPTY" BY <1>0, <1>1, <2>1, AnswerIs
  <2>3. t # Writer BY <2>1, <2>2 DEF Answered, WriterInv
  <2> QED BY <1>6, <2>1, <2>2, <2>3 DEF Refuses
<1>8. CASE UNCHANGED accepted /\ Queue!RefuseLate(t)
  <2>1. PICK code \in {"BQ_FULL", "BQ_EMPTY"} :
             code = IF request[t].kind = "add" THEN "BQ_FULL" ELSE "BQ_EMPTY"
    OBVIOUS
  <2>2. /\ UNCHANGED items /\ Queue!Answer({t}, code, NoElement)
        /\ request[t].kind \in {"add", "poll"}
    BY <1>8, <2>1 DEF Queue!RefuseLate
  <2>3. code \in Codes BY DEF Codes
  <2>4. Answered(t) /\ answer'[t].code = code BY <1>0, <1>1, <2>2, <2>3, AnswerIs
  <2>5. t # Writer BY <2>2, <2>4 DEF Answered, WriterInv
  <2> QED BY <1>8, <2>2, <2>4, <2>5 DEF Refuses
<1>7. CASE t \in Producers /\ QueueFails(t)
  <2>1. UNCHANGED <<items, accepted>> /\ Queue!Answer({t}, "BQ_ERROR", NoElement)
    BY <1>7 DEF QueueFails, Queue!Fail
  <2>2. Answered(t) /\ answer'[t].code = "BQ_ERROR" BY <1>0, <1>1, <2>1, AnswerIs
  <2> QED BY <1>7, <2>1, <2>2 DEF Refuses
<1> QED BY <1>2, <1>3, <1>4, <1>5, <1>6, <1>7, <1>8 DEF QueueAnswers

-----------------------------------------------------------------------------
(* Each thread is in the call its place says.                              *)

\* What a step of t leaves alone.
Alone(t) ==
  \A u \in Threads \ {t} : /\ pc'[u] = pc[u] /\ status'[u] = status[u]
                           /\ request'[u] = request[u] /\ answer'[u] = answer[u]

LEMMA RolesKept ==
  ASSUME RoleInv, NEW t \in Threads, Alone(t), isClosed => isClosed', offered \subseteq offered',
         t # Writer => held' = held
  PROVE  /\ t \notin Producers => ProducersInv'
         /\ t # Writer => WriterInv'
         /\ t # Main => MainInv'
         /\ t \in Producers =>
             ((/\ pc'[t] \in {"idle", "add"}
               /\ pc'[t] = "add" <=> status'[t] # "idle"
               /\ pc'[t] = "add" => request'[t].kind = "add" /\ request'[t].elem \in offered')
              => ProducersInv')
<1>1. Writer \in Threads /\ Main \in Threads /\ Producers \subseteq Threads BY DEF Threads
<1>2. t \notin Producers => ProducersInv' BY <1>1 DEF RoleInv, ProducersInv, Alone
<1>3. t # Writer => WriterInv' BY <1>1 DEF RoleInv, WriterInv, Alone
<1>4. t # Main => MainInv' BY <1>1 DEF RoleInv, MainInv, Alone
<1> QED BY <1>1, <1>2, <1>3, <1>4 DEF RoleInv, ProducersInv, Alone

\* A call begins, and a call returns.
LEMMA CallBegins ==
  ASSUME RoleInv, NEW t \in Threads, NEW kind \in {"add", "poll", "take"},
         NEW e \in Messages \cup {NoElement}, NEW to, Queue!Invoke(t, kind, e), Goes(t, to),
         to \in {"add", "take", "poll"}
  PROVE  /\ Alone(t) /\ pc'[t] = to /\ status'[t] = "pending" /\ status[t] = "idle"
         /\ request'[t].kind = kind /\ request'[t].elem = e /\ answer' = answer
         /\ UNCHANGED <<items, isClosed>>
         /\ pc' \in [Threads -> Places]
         /\ status' \in [Threads -> {"idle", "pending", "answered"}]
         /\ request' \in [Threads -> Requests]
<1> DEFINE r == [kind |-> kind, elem |-> e]
<1>1. /\ r \in Requests
      /\ r.kind = kind /\ r.elem = e
  OBVIOUS
<1>2. /\ request' = [request EXCEPT ![t] = r] /\ status' = [status EXCEPT ![t] = "pending"]
      /\ status[t] = "idle" /\ UNCHANGED <<items, isClosed, answer>>
      /\ pc' = [pc EXCEPT ![t] = to]
  BY DEF Queue!Invoke, Goes
<1> HIDE DEF r
<1> QED BY <1>1, <1>2 DEF RoleInv, JwType, Alone

LEMMA CallEnds ==
  ASSUME RoleInv, NEW t \in Threads, Queue!Return(t), NEW to,
         to \in {"idle", "write", "exit", "drain", "destroy"}, Goes(t, to)
  PROVE  /\ Alone(t) /\ pc'[t] = to /\ status'[t] = "idle" /\ status[t] = "answered"
         /\ answer'[t].code = "none"
         /\ UNCHANGED <<items, isClosed>>
         /\ pc' \in [Threads -> Places]
         /\ status' \in [Threads -> {"idle", "pending", "answered"}]
         /\ request' \in [Threads -> Requests]
         /\ answer' \in [Threads -> Answers]
<1>1. /\ Queue!NoRequest \in Requests
      /\ Queue!NoAnswer \in Answers
      /\ Queue!NoAnswer.code = "none"
  BY DEF Queue!NoRequest, Queue!NoAnswer
<1>2. /\ request' = [request EXCEPT ![t] = Queue!NoRequest]
      /\ answer' = [answer EXCEPT ![t] = Queue!NoAnswer]
      /\ status' = [status EXCEPT ![t] = "idle"]
      /\ status[t] = "answered" /\ UNCHANGED <<items, isClosed>>
      /\ pc' = [pc EXCEPT ![t] = to]
  BY DEF Queue!Return, Goes
<1> QED BY <1>1, <1>2 DEF RoleInv, JwType, Alone

-----------------------------------------------------------------------------
(* The copies and the order.                                               *)

LEMMA OwnersKept ==
  ASSUME RoleInv, NEW t \in Threads, Alone(t)
  PROVE  /\ \A q \in Producers \ {t} : q \in Callers' <=> q \in Callers
         /\ t \notin Producers => Callers' = Callers
         /\ t # Writer /\ held' = held => WriterOwns' = WriterOwns
<1>1. Writer \in Threads /\ Main \in Threads /\ Producers \subseteq Threads BY DEF Threads
<1>2. \A q \in Producers \ {t} : q \in Callers' <=> q \in Callers
  BY <1>1 DEF Callers, Returned, Alone
<1>3. Callers \subseteq Producers /\ Callers' \subseteq Producers BY DEF Callers
<1>4. t \notin Producers => Callers' = Callers BY <1>2, <1>3
<1>5. t # Writer /\ held' = held => WriterOwns' = WriterOwns
  BY <1>1 DEF WriterOwns, Returned, Alone
<1> QED BY <1>2, <1>4, <1>5

DataInv == AcceptedInv /\ OrderInv /\ HeapInv /\ CountInv

LEMMA DataKept ==
  ASSUME JwInv, Callers' = Callers, \A p \in Callers : request'[p].elem = request[p].elem,
         WriterOwns' = WriterOwns, UNCHANGED <<accepted, offered, items, out, heap, drops>>
  PROVE  DataInv'
<1> USE DEF JwInv
<1>1. AcceptedInv' BY DEF AcceptedInv
<1>2. OrderInv' BY DEF OrderInv, Hand
<1>3. CallersOwn' = CallersOwn
  <2>1. CallersOwn' = {request'[p].elem : p \in Callers'} BY DEF CallersOwn, Callers
  <2> QED BY <2>1, OwnOfCallers
<1>4. HeapInv' BY <1>3 DEF HeapInv, Elems
<1>5. CountInv' BY DEF CountInv
<1> QED BY <1>1, <1>2, <1>4, <1>5 DEF DataInv

LEMMA MainKeeps ==
  ASSUME JwInv, MainStep
  PROVE  JwInv'
<1> USE DEF JwInv
<1>0. RoleInv /\ JwType /\ MainInv BY DEF RoleInv
<1>1. Main \in Threads /\ Main # Writer /\ Main \notin Producers /\ Producers \subseteq Threads
  BY DEF Threads
<1>2. /\ UNCHANGED <<held, link, drops, offered, accepted, out>>
  BY DEF MainStep, StopProducers, Close, CloseReturns, JoinWriter, DrainPoll, DrainPolled,
         Destroy, mainVars
<1>3. /\ Alone(Main) /\ JwType' /\ MainInv' /\ UNCHANGED <<items, heap>> /\ (isClosed => isClosed')
  <2>1. CASE StopProducers \/ Close \/ CloseReturns \/ JoinWriter \/ Destroy
    <3>1. PICK to \in {"close", "closing", "join", "drain", "done"} :
             /\ pc' = [pc EXCEPT ![Main] = to] /\ pc[Main] # "poll"
             /\ isClosed => isClosed'
             /\ (to = "close" => pc[Main] = "run") /\ (to = "closing" => isClosed')
             /\ (to \notin {"close", "closing"} => pc[Main] \notin {"run", "close"})
      BY <2>1 DEF StopProducers, Close, CloseReturns, JoinWriter, Destroy, Goes, Queue!Close,
                  queueVars
    <3>2. UNCHANGED <<items, request, status, answer, heap>>
      BY <2>1 DEF StopProducers, Close, CloseReturns, JoinWriter, Destroy, Queue!Close, queueVars
    <3>3. pc'[Main] = to /\ Alone(Main) /\ JwType'
      BY <1>0, <1>1, <1>2, <3>1, <3>2 DEF JwType, Alone, link
    <3>4. MainInv' BY <1>0, <3>1, <3>2, <3>3 DEF MainInv
    <3> QED BY <3>1, <3>2, <3>3, <3>4
  <2>2. CASE DrainPoll
    <3>1. pc[Main] = "drain" /\ Queue!Invoke(Main, "poll", NoElement) /\ Goes(Main, "poll")
          /\ UNCHANGED heap
      BY <2>2 DEF DrainPoll
    <3>2. /\ Alone(Main) /\ pc'[Main] = "poll" /\ status'[Main] = "pending"
          /\ request'[Main].kind = "poll" /\ answer' = answer
          /\ UNCHANGED <<items, isClosed>>
          /\ pc' \in [Threads -> Places] /\ status' \in [Threads -> {"idle", "pending", "answered"}]
          /\ request' \in [Threads -> Requests]
      <4> HIDE DEF Places, Requests
      <4> QED BY <1>0, <1>1, <3>1, CallBegins
    <3>3. JwType' BY <1>0, <1>2, <3>2 DEF JwType, link
    <3>4. MainInv' BY <1>0, <3>1, <3>2 DEF MainInv
    <3> QED BY <3>1, <3>2, <3>3, <3>4
  <2>3. CASE DrainPolled
    <3>1. answer[Main].code # "OK" BY <1>0, <2>3 DEF DrainPolled, MainInv
    <3>2. pc[Main] = "poll" /\ Queue!Return(Main) /\ Goes(Main, "destroy") /\ UNCHANGED heap
      BY <2>3, <3>1 DEF DrainPolled
    <3>3. /\ Alone(Main) /\ pc'[Main] = "destroy" /\ status'[Main] = "idle"
          /\ UNCHANGED <<items, isClosed>>
          /\ pc' \in [Threads -> Places] /\ status' \in [Threads -> {"idle", "pending", "answered"}]
          /\ request' \in [Threads -> Requests] /\ answer' \in [Threads -> Answers]
      <4> HIDE DEF Places, Requests, Answers
      <4> QED BY <1>0, <1>1, <3>2, CallEnds
    <3>4. JwType' BY <1>0, <1>2, <3>3 DEF JwType, link
    <3>5. MainInv' BY <1>0, <3>2, <3>3 DEF MainInv
    <3> QED BY <3>2, <3>3, <3>4, <3>5
  <2> QED BY <2>1, <2>2, <2>3 DEF MainStep
<1>4. ProducersInv' /\ WriterInv' BY <1>0, <1>1, <1>2, <1>3, RolesKept
<1>5. Callers' = Callers /\ WriterOwns' = WriterOwns BY <1>0, <1>1, <1>2, <1>3, OwnersKept
<1>6. \A p \in Callers : request'[p].elem = request[p].elem
  BY <1>1, <1>3 DEF Alone, Callers
<1>7. DataInv' BY <1>2, <1>3, <1>5, <1>6, DataKept
<1> QED BY <1>3, <1>4, <1>7 DEF RoleInv, DataInv

(* The writer's call and its return leave every copy where it was ...      *)
LEMMA TakeKeeps ==
  ASSUME JwInv, Take \/ Taken
  PROVE  JwInv'
<1> USE DEF JwInv
<1>0. RoleInv /\ JwType /\ WriterInv BY DEF RoleInv
<1>1. Writer \in Threads /\ Writer # Main /\ Writer \notin Producers /\ Producers \subseteq Threads
  BY DEF Threads
<1>2. UNCHANGED <<heap, link, drops, offered, accepted, out>>
  BY DEF Take, Taken
<1>3. Alone(Writer) /\ JwType' /\ WriterInv' /\ WriterOwns' = WriterOwns /\ UNCHANGED <<items, isClosed>>
  <2>1. CASE Take
    <3>1. /\ pc[Writer] = "top" /\ Queue!Invoke(Writer, "take", NoElement) /\ Goes(Writer, "take")
          /\ held' = held
      BY <2>1 DEF Take
    <3>2. /\ Alone(Writer) /\ pc'[Writer] = "take" /\ status'[Writer] = "pending"
          /\ status[Writer] = "idle"
          /\ request'[Writer].kind = "take" /\ answer' = answer
          /\ UNCHANGED <<items, isClosed>>
          /\ pc' \in [Threads -> Places] /\ status' \in [Threads -> {"idle", "pending", "answered"}]
          /\ request' \in [Threads -> Requests]
      <4> HIDE DEF Places, Requests
      <4> QED BY <1>0, <1>1, <3>1, CallBegins
    <3>3. JwType' BY <1>0, <1>2, <3>1, <3>2 DEF JwType, link
    <3>4. WriterInv' BY <1>0, <3>1, <3>2 DEF WriterInv
    <3>5. WriterOwns' = WriterOwns BY <3>1, <3>2 DEF WriterOwns, Returned
    <3> QED BY <3>2, <3>3, <3>4, <3>5
  <2>2. CASE Taken
    <3>1. /\ pc[Writer] = "take" /\ status[Writer] = "answered" /\ Queue!Return(Writer)
          /\ held = {}
      BY <1>0, <2>2 DEF Taken, WriterInv
    <3>2. PICK to \in {"exit", "write"} :
            /\ Goes(Writer, to)
            /\ to = "exit" => answer[Writer].code = "BQ_CLOSED" /\ held' = held
            /\ to = "write" => answer[Writer].code # "BQ_CLOSED" /\ held' = {answer[Writer].elem}
      BY <2>2 DEF Taken
    <3>3. /\ Alone(Writer) /\ pc'[Writer] = to /\ status'[Writer] = "idle"
          /\ UNCHANGED <<items, isClosed>>
          /\ pc' \in [Threads -> Places] /\ status' \in [Threads -> {"idle", "pending", "answered"}]
          /\ request' \in [Threads -> Requests] /\ answer' \in [Threads -> Answers]
      <4>1. to \in {"idle", "write", "exit", "drain", "destroy"} BY <3>2
      <4> HIDE DEF Places, Requests, Answers
      <4> QED BY <1>0, <1>1, <3>1, <3>2, <4>1, CallEnds
    <3>4. to = "write" => answer[Writer].code = "OK" /\ answer[Writer].elem \in Messages
      BY <1>0, <3>1, <3>2 DEF WriterInv
    <3>5. held' \subseteq Messages BY <3>1, <3>2, <3>4
    <3>6. JwType' BY <1>0, <1>2, <3>3, <3>5 DEF JwType, link
    <3>7. WriterInv' BY <1>0, <3>1, <3>2, <3>3, <3>4 DEF WriterInv
    <3>8. WriterOwns' = WriterOwns
      <4>1. to = "write" => WriterOwns = {answer[Writer].elem}
        BY <1>0, <3>1, <3>4, OwnersOfWriter DEF Returned
      <4>2. to = "exit" => WriterOwns = {}
        BY <1>0, <3>1, <3>2, OwnersOfWriter DEF Returned
      <4>3. WriterOwns' = held' BY <3>3 DEF WriterOwns, Returned
      <4> QED BY <3>1, <3>2, <4>1, <4>2, <4>3
    <3> QED BY <3>3, <3>6, <3>7, <3>8
  <2> QED BY <2>1, <2>2
<1>4. ProducersInv' /\ MainInv' BY <1>0, <1>1, <1>2, <1>3, RolesKept
<1>5. Callers' = Callers BY <1>0, <1>1, <1>3, OwnersKept
<1>6. \A p \in Callers : request'[p].elem = request[p].elem
  BY <1>1, <1>3 DEF Alone, Callers
<1>7. DataInv' BY <1>2, <1>3, <1>5, <1>6, DataKept
<1> QED BY <1>3, <1>4, <1>7 DEF RoleInv, DataInv

(* ... and Write frees its copy.                                           *)
LEMMA WriteKeeps ==
  ASSUME JwInv, Write
  PROVE  JwInv'
<1> USE DEF JwInv
<1>0. RoleInv /\ JwType /\ WriterInv BY DEF RoleInv
<1>1. Writer \in Threads /\ Writer # Main /\ Writer \notin Producers /\ Producers \subseteq Threads
  BY DEF Threads
<1>2. /\ pc[Writer] = "write" /\ pc' = [pc EXCEPT ![Writer] = "top"]
      /\ heap' = heap \ held /\ held' = {}
      /\ UNCHANGED <<items, isClosed, request, status, answer, link, drops, offered, accepted>>
  BY DEF Write, Goes, queueVars
<1>3. PICK m \in Messages : held = {m} BY <1>0, <1>2 DEF WriterInv
<1> DEFINE o == [msg |-> m, written |-> connected]
<1>4. o.msg = m /\ o \in [msg : Messages, written : BOOLEAN] BY <1>0 DEF JwType
<1>5. out' = Append(out, o) BY <1>3 DEF Write
<1> HIDE DEF o
<1>6. Alone(Writer) /\ pc'[Writer] = "top" BY <1>0, <1>1, <1>2 DEF JwType, Alone
<1>7. out' \in Seq([msg : Messages, written : BOOLEAN]) /\ Len(out') = Len(out) + 1
      /\ Len(out) \in Nat /\ Len(items) \in Nat /\ Len(accepted) \in Nat
      /\ (\A i \in 1..Len(out) : out'[i] = out[i]) /\ out'[Len(out) + 1] = o
  <2> DEFINE R == [msg : Messages, written : BOOLEAN]
  <2>1. out \in Seq(R) /\ o \in R /\ items \in Seq(Messages) /\ accepted \in Seq(Messages)
    BY <1>0, <1>4 DEF JwType
  <2> HIDE DEF R
  <2>2. out' \in Seq(R) /\ Len(out') = Len(out) + 1
      /\ Len(out) \in Nat /\ Len(items) \in Nat /\ Len(accepted) \in Nat
      /\ (\A i \in 1..Len(out) : out'[i] = out[i]) /\ out'[Len(out) + 1] = o
    BY <1>5, <2>1
  <2> QED BY <2>2 DEF R
<1>8. JwType' BY <1>0, <1>2, <1>7 DEF JwType, link
<1>9. WriterInv' BY <1>0, <1>2, <1>6 DEF WriterInv
<1>10. ProducersInv' /\ MainInv' BY <1>0, <1>1, <1>2, <1>6, RolesKept
<1>11. Callers' = Callers BY <1>0, <1>1, <1>6, OwnersKept
<1>12. WriterOwns = {m} /\ WriterOwns' = {} /\ Hand = 1 /\ Hand' = 0
  <2>1. WriterOwns = {m} BY <1>0, <1>2, <1>3, OwnersOfWriter
  <2>2. status'[Writer] = "idle" BY <1>0, <1>2 DEF WriterInv, JwType
  <2>3. WriterOwns' = {} BY <1>2, <2>2 DEF WriterOwns, Returned
  <2> QED BY <2>1, <2>3 DEF Hand
<1>13. AcceptedInv' BY <1>2, <1>11 DEF AcceptedInv
<1>14. OrderInv'
  <2>1. Len(accepted') = Len(out') + Hand' + Len(items')
    BY <1>2, <1>7, <1>12 DEF OrderInv
  <2>2. \A i \in 1..Len(out') : accepted'[i] = out'[i].msg
    <3>1. accepted[Len(out) + 1] = m BY <1>12 DEF OrderInv
    <3>2. \A i \in 1..Len(out) : accepted[i] = out[i].msg BY DEF OrderInv
    <3>3. \A i \in 1..Len(out') : i \in 1..Len(out) \/ i = Len(out) + 1 BY <1>7
    <3> QED BY <1>2, <1>4, <1>7, <3>1, <3>2, <3>3
  <2>3. \A i \in 1..Len(items') : accepted'[Len(out') + Hand' + i] = items'[i]
    <3>1. \A i \in 1..Len(items) : accepted[Len(out) + 1 + i] = items[i] BY <1>12 DEF OrderInv
    <3>2. \A i \in 1..Len(items) : Len(out') + Hand' + i = Len(out) + 1 + i BY <1>7, <1>12
    <3> QED BY <1>2, <3>1, <3>2
  <2> QED BY <1>12, <2>1, <2>2, <2>3 DEF OrderInv
<1>15. HeapInv'
  <2>1. CallersOwn' = CallersOwn
    <3>1. CallersOwn' = {request'[p].elem : p \in Callers'} BY DEF CallersOwn, Callers
    <3> QED BY <1>2, <1>11, <3>1, OwnOfCallers
  <2>2. m \notin CallersOwn /\ m \notin Elems(items) BY <1>12, OwnersDisjoint
  <2> QED BY <1>2, <1>3, <1>12, <2>1, <2>2 DEF HeapInv, Elems
<1>16. CountInv' BY <1>2, <1>11 DEF CountInv
<1> QED BY <1>8, <1>9, <1>10, <1>13, <1>14, <1>15, <1>16 DEF RoleInv

(* The queue refuses, ...                                                  *)
LEMMA AnsweredRoles ==
  ASSUME RoleInv, NEW t \in Threads, Answered(t), Accepts(t) \/ Delivers(t) \/ Refuses(t)
  PROVE  /\ RoleInv' /\ Alone(t) /\ UNCHANGED <<pc, request, held, heap, drops, offered, out>>
         /\ status'[t] = "answered" /\ status[t] = "pending"
<1>1. /\ status[t] = "pending" /\ status' = [status EXCEPT ![t] = "answered"]
      /\ UNCHANGED <<request, isClosed, pc, held, heap, running, link, drops, destroyed, offered, out>>
  BY DEF Answered, restVars
<1>2. PICK a \in [code : Codes, elem : Messages \cup {NoElement}] : answer' = [answer EXCEPT ![t] = a]
  BY DEF Answered
<1>3. a \in Answers OBVIOUS
<1>4. status'[t] = "answered" /\ answer'[t] = a /\ Alone(t)
  BY <1>1, <1>2 DEF Alone, RoleInv, JwType
<1>5. items' \in Seq(Messages) /\ accepted' \in Seq(Messages)
  <2>1. CASE Accepts(t)
    <3>1. request[t].elem \in Messages
      BY <1>1, <2>1 DEF Accepts, RoleInv, ProducersInv, JwType
    <3> QED BY <2>1, <3>1 DEF Accepts, RoleInv, JwType
  <2>2. CASE Delivers(t) BY <2>2 DEF Delivers, RoleInv, JwType
  <2>3. CASE Refuses(t) BY <2>3 DEF Refuses, RoleInv, JwType
  <2> QED BY <2>1, <2>2, <2>3
<1>6. JwType'
  <2> HIDE DEF Places, Requests, Answers, Codes
  <2>1. status' \in [Threads -> {"idle", "pending", "answered"}] BY <1>1 DEF RoleInv, JwType
  <2>2. answer' \in [Threads -> Answers] BY <1>2, <1>3 DEF RoleInv, JwType
  <2> QED BY <1>1, <1>5, <2>1, <2>2 DEF RoleInv, JwType, link
<1>7. ProducersInv'
  <2>1. t \in Producers => pc[t] = "add" /\ request[t].kind = "add" /\ request[t].elem \in offered
    BY <1>1 DEF RoleInv, ProducersInv
  <2> QED BY <1>1, <1>4, <2>1, RolesKept
<1>8. WriterInv'
  <2>1. CASE t = Writer
    <3>1. \/ answer'[t].code = "OK" /\ answer'[t].elem \in Messages
          \/ answer'[t].code = "BQ_CLOSED"
      <4>1. CASE Delivers(t)
        <5>1. Head(items) \in Messages BY <4>1 DEF Delivers, RoleInv, JwType
        <5> QED BY <4>1, <5>1 DEF Delivers
      <4>2. ~Accepts(t) BY <2>1 DEF Accepts
      <4>3. CASE Refuses(t) BY <2>1, <4>3 DEF Refuses
      <4> QED BY <4>1, <4>2, <4>3
    <3> QED BY <1>1, <1>4, <2>1, <3>1 DEF WriterInv, RoleInv
  <2>2. CASE t # Writer BY <1>1, <1>4, <2>2, RolesKept
  <2> QED BY <2>1, <2>2
<1>9. MainInv'
  <2>1. CASE t = Main
    <3>1. answer'[t].code # "OK" BY <2>1 DEF Accepts, Delivers, Refuses
    <3> QED BY <1>1, <1>4, <2>1, <3>1 DEF MainInv, RoleInv
  <2>2. CASE t # Main BY <1>1, <1>4, <2>2, RolesKept
  <2> QED BY <2>1, <2>2
<1> QED BY <1>1, <1>4, <1>6, <1>7, <1>8, <1>9 DEF RoleInv

LEMMA RefuseKeeps ==
  ASSUME JwInv, NEW t \in Threads, Answered(t), Refuses(t)
  PROVE  JwInv'
<1>1. /\ RoleInv' /\ Alone(t) /\ UNCHANGED <<pc, request, held, heap, drops, offered, out>>
      /\ status'[t] = "answered" /\ status[t] = "pending"
  BY AnsweredRoles DEF JwInv
<1>2. /\ answer'[t].code # "OK" /\ UNCHANGED <<items, accepted>> BY DEF Refuses
<1>3. Callers' = Callers
  <2>1. t \in Producers => (t \in Callers' <=> t \in Callers)
    BY <1>1, <1>2 DEF Callers, Returned
  <2>2. \A q \in Producers \ {t} : q \in Callers' <=> q \in Callers
    BY <1>1, OwnersKept DEF JwInv
  <2>3. Callers \subseteq Producers /\ Callers' \subseteq Producers BY DEF Callers
  <2> QED BY <2>1, <2>2, <2>3
<1>4. WriterOwns' = WriterOwns
  <2>1. CASE t = Writer BY <1>1, <1>2, <2>1 DEF WriterOwns, Returned
  <2>2. CASE t # Writer BY <1>1, <2>2, OwnersKept DEF JwInv
  <2> QED BY <2>1, <2>2
<1>5. DataInv' BY <1>1, <1>2, <1>3, <1>4, DataKept
<1> QED BY <1>1, <1>5 DEF JwInv, DataInv

(* ... delivers to the writer, ...                                         *)
LEMMA DeliverKeeps ==
  ASSUME JwInv, NEW t \in Threads, Answered(t), Delivers(t)
  PROVE  JwInv'
<1> USE DEF JwInv
<1>0. RoleInv /\ JwType /\ WriterInv BY DEF RoleInv
<1>1. /\ RoleInv' /\ Alone(t) /\ UNCHANGED <<pc, request, held, heap, drops, offered, out>>
      /\ status'[t] = "answered" /\ status[t] = "pending"
  BY AnsweredRoles
<1>2. /\ t = Writer /\ answer'[Writer].code = "OK" /\ answer'[Writer].elem = Head(items)
      /\ items # <<>> /\ items' = Tail(items) /\ accepted' = accepted
  BY DEF Delivers
<1>3. /\ Len(items) \in Nat \ {0} /\ Head(items) = items[1] /\ Len(items') = Len(items) - 1
      /\ \A i \in 1..Len(items') : items'[i] = items[i + 1]
      /\ Len(out) \in Nat /\ Len(accepted) \in Nat
  BY <1>0, <1>2 DEF JwType
<1>4. Callers' = Callers BY <1>0, <1>1, <1>2, OwnersKept
<1>5. WriterOwns = {} /\ WriterOwns' = {items[1]} /\ Hand = 0 /\ Hand' = 1
  <2>1. WriterOwns = {}
    BY <1>0, <1>1, <1>2, OwnersOfWriter DEF Returned, WriterInv
  <2>2. WriterInv' /\ JwType' BY <1>1 DEF RoleInv
  <2>3. held' = {} BY <1>0, <1>1, <1>2 DEF WriterInv
  <2>4. WriterOwns' = {items[1]} BY <1>1, <1>2, <1>3, <2>3 DEF WriterOwns, Returned
  <2> QED BY <2>1, <2>4 DEF Hand
<1>6. AcceptedInv' BY <1>1, <1>2, <1>4 DEF AcceptedInv
<1>7. OrderInv'
  <2>1. Len(accepted') = Len(out') + Hand' + Len(items')
    <3>1. Len(accepted) = Len(out) + 0 + Len(items) BY <1>5 DEF OrderInv
    <3>2. Len(out') = Len(out) /\ Len(accepted') = Len(accepted) BY <1>1, <1>2
    <3> QED BY <1>3, <1>5, <3>1, <3>2
  <2>2. \A i \in 1..Len(items) : accepted[Len(out) + 0 + i] = items[i] BY <1>5 DEF OrderInv
  <2>3. accepted[Len(out) + 1] = items[1]
    <3>1. accepted[Len(out) + 0 + 1] = items[1] BY <1>3, <2>2
    <3> QED BY <1>3, <3>1
  <2>4. \A i \in 1..Len(items') : accepted'[Len(out') + Hand' + i] = items'[i]
    <3> SUFFICES ASSUME NEW i \in 1..Len(items')
                 PROVE  accepted'[Len(out') + Hand' + i] = items'[i]
      OBVIOUS
    <3>1. i + 1 \in 1..Len(items) /\ Len(out') + Hand' + i = Len(out) + 0 + (i + 1)
      BY <1>1, <1>3, <1>5
    <3> QED BY <1>2, <1>3, <2>2, <3>1
  <2>5. \A i \in 1..Len(out') : accepted'[i] = out'[i].msg BY <1>1, <1>2 DEF OrderInv
  <2> QED BY <1>1, <1>2, <1>5, <2>1, <2>3, <2>4, <2>5 DEF OrderInv
<1>8. Elems(items) = {items[1]} \cup Elems(items')
  <2>1. ASSUME NEW x \in Elems(items) PROVE x = items[1] \/ x \in Elems(items')
    <3>1. PICK i \in 1..Len(items) : x = items[i] BY DEF Elems
    <3>2. CASE i = 1 BY <3>1, <3>2
    <3>3. CASE i # 1
      <4>1. i - 1 \in 1..Len(items') /\ (i - 1) + 1 = i BY <1>3, <3>3
      <4>2. items'[i - 1] = items[i] BY <1>3, <4>1
      <4> QED BY <3>1, <4>1, <4>2 DEF Elems
    <3> QED BY <3>2, <3>3
  <2>2. ASSUME NEW x \in Elems(items') PROVE x \in Elems(items)
    <3>1. PICK i \in 1..Len(items') : x = items'[i] BY DEF Elems
    <3>2. i + 1 \in 1..Len(items) BY <1>3
    <3> QED BY <1>3, <3>1, <3>2 DEF Elems
  <2>3. items[1] \in Elems(items) BY <1>3 DEF Elems
  <2> QED BY <2>1, <2>2, <2>3
<1>9. HeapInv'
  <2>1. CallersOwn' = CallersOwn
    <3>1. CallersOwn' = {request'[p].elem : p \in Callers'} BY DEF CallersOwn, Callers
    <3> QED BY <1>1, <1>4, <3>1, OwnOfCallers
  <2>2. Elems(items)' = Elems(items') BY DEF Elems
  <2> QED BY <1>1, <1>5, <1>8, <2>1, <2>2 DEF HeapInv
<1>10. CountInv' BY <1>1, <1>2, <1>4 DEF CountInv
<1> QED BY <1>1, <1>6, <1>7, <1>9, <1>10

(* ... or accepts a decoder's copy.                                        *)
LEMMA AcceptKeeps ==
  ASSUME JwInv, NEW t \in Threads, Answered(t), Accepts(t)
  PROVE  JwInv'
<1> USE DEF JwInv
<1>0. RoleInv /\ JwType /\ ProducersInv BY DEF RoleInv
<1>1. /\ RoleInv' /\ Alone(t) /\ UNCHANGED <<pc, request, held, heap, drops, offered, out>>
      /\ status'[t] = "answered" /\ status[t] = "pending"
  BY AnsweredRoles
<1> DEFINE e == request[t].elem
<1>2. /\ t \in Producers /\ answer'[t].code = "OK"
      /\ items' = Append(items, e) /\ accepted' = Append(accepted, e)
  BY DEF Accepts
<1>3. pc[t] = "add" /\ e \in offered /\ e \in Messages /\ t # Writer /\ t \in Callers
  BY <1>0, <1>1, <1>2 DEF ProducersInv, JwType, Callers, Returned
<1> HIDE DEF e
<1>4. /\ Len(items) \in Nat /\ Len(out) \in Nat /\ Len(accepted) \in Nat
      /\ Len(items') = Len(items) + 1 /\ items'[Len(items) + 1] = e
      /\ (\A i \in 1..Len(items) : items'[i] = items[i])
      /\ Len(accepted') = Len(accepted) + 1 /\ accepted'[Len(accepted) + 1] = e
      /\ (\A i \in 1..Len(accepted) : accepted'[i] = accepted[i])
  BY <1>0, <1>2, <1>3 DEF JwType
<1>5. Callers' = Callers \ {t}
  <2>1. t \notin Callers' BY <1>1, <1>2 DEF Callers, Returned
  <2>2. \A q \in Producers \ {t} : q \in Callers' <=> q \in Callers
    BY <1>0, <1>1, OwnersKept
  <2>3. Callers \subseteq Producers /\ Callers' \subseteq Producers BY DEF Callers
  <2> QED BY <2>1, <2>2, <2>3
<1>6. WriterOwns' = WriterOwns /\ Hand' = Hand /\ Hand \in {0, 1}
  <2>1. WriterOwns' = WriterOwns BY <1>0, <1>1, <1>3, OwnersKept
  <2> QED BY <2>1 DEF Hand
<1>7. \A i \in 1..Len(accepted') : i \in 1..Len(accepted) \/ i = Len(accepted) + 1 BY <1>4
<1>8. \A i \in 1..Len(accepted) : accepted[i] # e BY <1>3 DEF AcceptedInv, e
<1>9. AcceptedInv'
  <2>1. \A i \in 1..Len(accepted') : accepted'[i] \in offered'
    BY <1>1, <1>3, <1>4, <1>7 DEF AcceptedInv
  <2>2. \A i, j \in 1..Len(accepted') : accepted'[i] = accepted'[j] => i = j
    BY <1>4, <1>7, <1>8 DEF AcceptedInv
  <2>3. \A p \in Callers', i \in 1..Len(accepted') : request'[p].elem # accepted'[i]
    <3> SUFFICES ASSUME NEW p \in Callers', NEW i \in 1..Len(accepted')
                 PROVE  request[p].elem # accepted'[i]
      BY <1>1
    <3>1. p \in Callers /\ p # t BY <1>5
    <3>2. CASE i \in 1..Len(accepted) BY <1>4, <3>1, <3>2 DEF AcceptedInv
    <3>3. CASE i = Len(accepted) + 1 BY <1>3, <1>4, <3>1, <3>3 DEF AcceptedInv, e
    <3> QED BY <1>7, <3>2, <3>3
  <2>4. \A p, q \in Callers' : request'[p].elem = request'[q].elem => p = q
    BY <1>1, <1>5 DEF AcceptedInv
  <2> QED BY <2>1, <2>2, <2>3, <2>4 DEF AcceptedInv
<1>10. OrderInv'
  <2>0. Len(accepted) = Len(out) + Hand + Len(items) BY DEF OrderInv
  <2>1. Len(accepted') = Len(out') + Hand' + Len(items')
    <3>1. Len(out') = Len(out) BY <1>1
    <3>2. /\ Len(accepted') = Len(accepted) + 1 /\ Len(items') = Len(items) + 1
          /\ Len(accepted) \in Nat /\ Len(out) \in Nat /\ Len(items) \in Nat
      BY <1>4
    <3>3. Hand \in Nat /\ Hand' = Hand BY <1>6
    <3> QED BY <2>0, <3>1, <3>2, <3>3
  <2>2. \A i \in 1..Len(out') : accepted'[i] = out'[i].msg
    <3>1. \A i \in 1..Len(out) : i \in 1..Len(accepted) BY <1>4, <1>6, <2>0
    <3> QED BY <1>1, <1>4, <3>1 DEF OrderInv
  <2>3. \A m \in WriterOwns' : accepted'[Len(out') + 1] = m
    <3>1. \A m \in WriterOwns : Len(out) + 1 \in 1..Len(accepted)
      BY <1>4, <2>0 DEF Hand
    <3> QED BY <1>1, <1>4, <1>6, <3>1 DEF OrderInv
  <2>4. \A i \in 1..Len(items') : accepted'[Len(out') + Hand' + i] = items'[i]
    <3> SUFFICES ASSUME NEW i \in 1..Len(items')
                 PROVE  accepted'[Len(out) + Hand + i] = items'[i]
      BY <1>1, <1>6
    <3>1. CASE i = Len(items) + 1
      <4>1. Len(out) + Hand + i = Len(accepted) + 1 BY <1>4, <1>6, <2>0, <3>1
      <4> QED BY <1>4, <3>1, <4>1
    <3>2. CASE i \in 1..Len(items)
      <4>1. Len(out) + Hand + i \in 1..Len(accepted) BY <1>4, <1>6, <2>0, <3>2
      <4> QED BY <1>4, <3>2, <4>1 DEF OrderInv
    <3> QED BY <1>4, <3>1, <3>2
  <2> QED BY <2>1, <2>2, <2>3, <2>4 DEF OrderInv
<1>11. HeapInv'
  <2>1. CallersOwn' = {request[p].elem : p \in Callers \ {t}}
    <3>1. CallersOwn' = {request'[p].elem : p \in Callers'} BY DEF CallersOwn, Callers
    <3> QED BY <1>1, <1>5, <3>1
  <2>2. CallersOwn = CallersOwn' \cup {e} BY <1>3, <2>1, OwnOfCallers DEF e
  <2>3. Elems(items)' = Elems(items) \cup {e}
    <3>1. Elems(items)' = {items'[i] : i \in 1..Len(items')} BY DEF Elems
    <3>2. 1..Len(items') = (1..Len(items)) \cup {Len(items) + 1} BY <1>4
    <3> QED BY <1>4, <3>1, <3>2 DEF Elems
  <2> QED BY <1>1, <1>6, <2>2, <2>3 DEF HeapInv
<1>12. CountInv'
  <2>1. IsFiniteSet(Callers) BY DEF CountInv
  <2>2. IsFiniteSet(Callers \ {t}) /\ Cardinality(Callers \ {t}) = Cardinality(Callers) - 1
    BY <1>3, <2>1, FS_RemoveElement
  <2>3. Cardinality(Callers) \in Nat /\ Cardinality(offered) \in Nat /\ drops \in Nat
    BY <1>0, <2>1, FS_CardinalityType DEF JwType
  <2>4. drops + Len(accepted) + Cardinality(Callers) = Cardinality(offered) BY DEF CountInv
  <2>5. drops + Len(accepted') + Cardinality(Callers \ {t}) = Cardinality(offered)
    BY <1>4, <2>2, <2>3, <2>4
  <2> QED BY <1>1, <1>5, <2>2, <2>5 DEF CountInv
<1> QED BY <1>1, <1>9, <1>10, <1>11, <1>12

LEMMA SendKeeps ==
  ASSUME JwInv, NEW t \in Producers, NEW m \in Messages, SendJson(t, m)
  PROVE  JwInv'
<1> USE DEF JwInv
<1>0. RoleInv /\ JwType /\ ProducersInv BY DEF RoleInv
<1>1. /\ pc[t] = "idle" /\ m \notin offered /\ offered' = offered \cup {m}
      /\ heap' = heap \cup {m} /\ Queue!Invoke(t, "add", m) /\ Goes(t, "add")
      /\ UNCHANGED <<held, running, link, drops, destroyed, accepted, out>>
  BY DEF SendJson
<1>2. t \in Threads /\ t # Writer /\ t # Main /\ Producers \subseteq Threads BY DEF Threads
<1>3. /\ Alone(t) /\ pc'[t] = "add" /\ status'[t] = "pending" /\ status[t] = "idle"
      /\ request'[t].kind = "add" /\ request'[t].elem = m /\ answer' = answer
      /\ UNCHANGED <<items, isClosed>>
      /\ pc' \in [Threads -> Places] /\ status' \in [Threads -> {"idle", "pending", "answered"}]
      /\ request' \in [Threads -> Requests]
  <2>1. m \in Messages \cup {NoElement} OBVIOUS
  <2> HIDE DEF Places, Requests
  <2> QED BY <1>0, <1>1, <1>2, <2>1, CallBegins
<1>4. IsFiniteSet(offered') /\ Cardinality(offered') = Cardinality(offered) + 1
  BY <1>0, <1>1, FS_AddElement DEF JwType
<1>5. JwType' BY <1>0, <1>1, <1>3, <1>4 DEF JwType, link
<1>6. ProducersInv' /\ WriterInv' /\ MainInv' BY <1>0, <1>1, <1>2, <1>3, RolesKept
<1>7. Callers' = Callers \cup {t} /\ t \notin Callers
  <2>1. t \notin Callers /\ t \in Callers' BY <1>1, <1>3 DEF Callers, Returned
  <2>2. \A q \in Producers \ {t} : q \in Callers' <=> q \in Callers
    BY <1>0, <1>2, <1>3, OwnersKept
  <2>3. Callers \subseteq Producers /\ Callers' \subseteq Producers BY DEF Callers
  <2> QED BY <2>1, <2>2, <2>3
<1>8. WriterOwns' = WriterOwns BY <1>0, <1>1, <1>2, <1>3, OwnersKept
<1>9. \A p \in Callers : /\ p \in Producers /\ p # t /\ request'[p] = request[p]
                         /\ request[p].elem \in offered
  BY <1>0, <1>2, <1>3, <1>7 DEF Alone, Callers, ProducersInv
<1>10. AcceptedInv'
  <2>1. \A i \in 1..Len(accepted) : accepted[i] # m BY <1>1 DEF AcceptedInv
  <2>2. \A p \in Callers : request[p].elem # m BY <1>1, <1>9
  <2>3. \A p \in Callers', i \in 1..Len(accepted') : request'[p].elem # accepted'[i]
    BY <1>1, <1>3, <1>7, <1>9, <2>1 DEF AcceptedInv
  <2>4. \A p, q \in Callers' : request'[p].elem = request'[q].elem => p = q
    BY <1>3, <1>7, <1>9, <2>2 DEF AcceptedInv
  <2> QED BY <1>1, <2>3, <2>4 DEF AcceptedInv
<1>11. OrderInv' BY <1>1, <1>3, <1>8 DEF OrderInv, Hand
<1>12. HeapInv'
  <2>1. CallersOwn' = {request'[p].elem : p \in Callers'} BY DEF CallersOwn, Callers
  <2>2. CallersOwn' = CallersOwn \cup {m} BY <1>3, <1>7, <1>9, <2>1, OwnOfCallers
  <2> QED BY <1>1, <1>3, <1>8, <2>2 DEF HeapInv, Elems
<1>13. CountInv'
  <2>1. IsFiniteSet(Callers) BY DEF CountInv
  <2>2. IsFiniteSet(Callers') /\ Cardinality(Callers') = Cardinality(Callers) + 1
    BY <1>7, <2>1, FS_AddElement
  <2>3. Cardinality(Callers) \in Nat /\ Cardinality(offered) \in Nat /\ drops \in Nat
        /\ Len(accepted) \in Nat
    BY <1>0, <2>1, FS_CardinalityType DEF JwType
  <2>4. drops + Len(accepted) + Cardinality(Callers) = Cardinality(offered) BY DEF CountInv
  <2>5. drops + Len(accepted) + Cardinality(Callers') = Cardinality(offered')
    BY <1>4, <2>2, <2>3, <2>4
  <2> QED BY <1>1, <2>2, <2>5 DEF CountInv
<1> QED BY <1>5, <1>6, <1>10, <1>11, <1>12, <1>13 DEF RoleInv

LEMMA NoMemoryKeeps ==
  ASSUME JwInv, NEW t \in Producers, NEW m \in Messages, SendJsonNoMemory(t, m)
  PROVE  JwInv'
<1> USE DEF JwInv
<1>0. RoleInv /\ JwType /\ ProducersInv BY DEF RoleInv
<1>1. /\ m \notin offered /\ offered' = offered \cup {m} /\ drops' = drops + 1
      /\ UNCHANGED <<items, isClosed, request, status, answer, pc, held, heap, link, accepted, out>>
  BY DEF SendJsonNoMemory, queueVars
<1>2. IsFiniteSet(offered') /\ Cardinality(offered') = Cardinality(offered) + 1
  BY <1>0, <1>1, FS_AddElement DEF JwType
<1>3. JwType' BY <1>0, <1>1, <1>2 DEF JwType, link
<1>4. ProducersInv' /\ WriterInv' /\ MainInv'
  BY <1>1 DEF RoleInv, ProducersInv, WriterInv, MainInv
<1>5. Callers' = Callers /\ WriterOwns' = WriterOwns /\ CallersOwn' = CallersOwn
  BY <1>1 DEF Callers, WriterOwns, CallersOwn, Returned
<1>6. AcceptedInv' BY <1>1, <1>5 DEF AcceptedInv
<1>7. OrderInv' BY <1>1, <1>5 DEF OrderInv, Hand
<1>8. HeapInv' BY <1>1, <1>5 DEF HeapInv, Elems
<1>9. CountInv'
  <2>1. Cardinality(Callers) \in Nat /\ Cardinality(offered) \in Nat /\ drops \in Nat
        /\ Len(accepted) \in Nat
    BY <1>0, FS_CardinalityType DEF JwType, CountInv
  <2>2. drops + Len(accepted) + Cardinality(Callers) = Cardinality(offered) BY DEF CountInv
  <2>3. drops' + Len(accepted) + Cardinality(Callers) = Cardinality(offered')
    BY <1>1, <1>2, <2>1, <2>2
  <2> QED BY <1>1, <1>5, <2>3 DEF CountInv
<1> QED BY <1>3, <1>4, <1>6, <1>7, <1>8, <1>9 DEF RoleInv

LEMMA AddReturnsKeeps ==
  ASSUME JwInv, NEW t \in Producers, AddReturns(t)
  PROVE  JwInv'
<1> USE DEF JwInv
<1>0. RoleInv /\ JwType /\ ProducersInv BY DEF RoleInv
<1>1. /\ pc[t] = "add" /\ status[t] = "answered" /\ Queue!Return(t) /\ Goes(t, "idle")
      /\ UNCHANGED <<held, running, link, destroyed, offered, accepted, out>>
  BY DEF AddReturns
<1>2. t \in Threads /\ t # Writer /\ t # Main /\ Producers \subseteq Threads BY DEF Threads
<1>3. /\ Alone(t) /\ pc'[t] = "idle" /\ status'[t] = "idle"
      /\ UNCHANGED <<items, isClosed>>
      /\ pc' \in [Threads -> Places] /\ status' \in [Threads -> {"idle", "pending", "answered"}]
      /\ request' \in [Threads -> Requests] /\ answer' \in [Threads -> Answers]
  <2> HIDE DEF Places, Requests, Answers
  <2> QED BY <1>0, <1>1, <1>2, CallEnds
<1>4. drops' \in Nat BY <1>0 DEF AddReturns, JwType
<1>5. JwType' BY <1>0, <1>1, <1>3, <1>4 DEF JwType, link
<1>6. ProducersInv' /\ WriterInv' /\ MainInv' BY <1>0, <1>1, <1>2, <1>3, RolesKept
<1>7. Callers' = Callers \ {t}
  <2>1. t \notin Callers' BY <1>3 DEF Callers
  <2>2. \A q \in Producers \ {t} : q \in Callers' <=> q \in Callers
    BY <1>0, <1>2, <1>3, OwnersKept
  <2>3. Callers \subseteq Producers /\ Callers' \subseteq Producers BY DEF Callers
  <2> QED BY <2>1, <2>2, <2>3
<1>8. WriterOwns' = WriterOwns BY <1>0, <1>1, <1>2, <1>3, OwnersKept
<1>9. \A p \in Callers' : p \in Callers /\ p # t /\ request'[p] = request[p]
  BY <1>2, <1>3, <1>7 DEF Alone, Callers
<1>10. CASE answer[t].code = "OK"
  <2>1. t \notin Callers BY <1>1, <1>10 DEF Callers, Returned
  <2>2. Callers' = Callers BY <1>7, <2>1
  <2>3. UNCHANGED <<heap, drops>> BY <1>10 DEF AddReturns
  <2>4. DataInv' BY <1>1, <1>3, <1>8, <1>9, <2>2, <2>3, DataKept
  <2> QED BY <1>5, <1>6, <2>4 DEF RoleInv, DataInv
<1>11. CASE answer[t].code # "OK"
  <2> DEFINE e == request[t].elem
  <2>1. t \in Callers BY <1>1, <1>11 DEF Callers, Returned
  <2>2. heap' = heap \ {e} /\ drops' = drops + 1 BY <1>11 DEF AddReturns
  <2>3. AcceptedInv' BY <1>1, <1>9 DEF AcceptedInv
  <2>4. OrderInv' BY <1>1, <1>3, <1>8 DEF OrderInv, Hand
  <2>5. HeapInv'
    <3>1. CallersOwn' = {request'[p].elem : p \in Callers'} BY DEF CallersOwn, Callers
    <3>2. CallersOwn' = {request[p].elem : p \in Callers \ {t}} BY <1>7, <1>9, <3>1
    <3>3. \A p \in Callers \ {t} : request[p].elem # e BY <2>1 DEF AcceptedInv
    <3>4. CallersOwn = CallersOwn' \cup {e} /\ e \notin CallersOwn'
      BY <2>1, <3>2, <3>3, OwnOfCallers
    <3>5. e \notin Elems(items) /\ e \notin WriterOwns BY <3>4, OwnersDisjoint
    <3> QED BY <1>3, <1>8, <2>2, <3>4, <3>5 DEF HeapInv, Elems
  <2>6. CountInv'
    <3>1. IsFiniteSet(Callers) BY DEF CountInv
    <3>2. IsFiniteSet(Callers') /\ Cardinality(Callers') = Cardinality(Callers) - 1
      BY <1>7, <2>1, <3>1, FS_RemoveElement
    <3>3. Cardinality(Callers) \in Nat /\ Cardinality(offered) \in Nat /\ drops \in Nat
          /\ Len(accepted) \in Nat
      BY <1>0, <3>1, FS_CardinalityType DEF JwType
    <3>4. drops + Len(accepted) + Cardinality(Callers) = Cardinality(offered) BY DEF CountInv
    <3>5. drops' + Len(accepted) + Cardinality(Callers') = Cardinality(offered)
      BY <2>2, <3>2, <3>3, <3>4
    <3> QED BY <1>1, <3>2, <3>5 DEF CountInv
  <2> QED BY <1>5, <1>6, <2>3, <2>4, <2>5, <2>6 DEF RoleInv
<1> QED BY <1>10, <1>11

LEMMA JwInductive == JwInv /\ [Next]_vars => JwInv'
<1> SUFFICES ASSUME JwInv, [Next]_vars PROVE JwInv' OBVIOUS
<1>0. RoleInv BY DEF JwInv
<1>1. ASSUME NEW p \in Producers, NEW m \in Messages, SendJson(p, m) \/ SendJsonNoMemory(p, m)
      PROVE  JwInv'
  BY <1>1, SendKeeps, NoMemoryKeeps
<1>2. ASSUME NEW p \in Producers, AddReturns(p) PROVE JwInv' BY <1>2, AddReturnsKeeps
<1>3. ASSUME NEW t \in Threads, QueueAnswers(t) \/ (t \in Producers /\ QueueFails(t))
      PROVE  JwInv'
  BY <1>0, <1>3, QueueStep, AcceptKeeps, DeliverKeeps, RefuseKeeps
<1>4. CASE Take \/ Taken BY <1>4, TakeKeeps
<1>5. CASE Write BY <1>5, WriteKeeps
<1>6. CASE MainStep BY <1>6, MainKeeps
<1>7. CASE LinkChanges \/ UNCHANGED vars
  <2>1. /\ UNCHANGED <<items, isClosed, request, status, answer, pc, held, heap, drops, offered,
                       accepted, out>>
        /\ connected' = ~connected \/ connected' = connected
    BY <1>7 DEF LinkChanges, vars, queueVars, link
  <2>2. connected' \in BOOLEAN BY <1>0, <2>1 DEF RoleInv, JwType
  <2>3. RoleInv' BY <1>0, <2>1, <2>2 DEF RoleInv, JwType, ProducersInv, WriterInv, MainInv
  <2>4. Callers' = Callers /\ WriterOwns' = WriterOwns
    BY <2>1 DEF Callers, WriterOwns, Returned
  <2>5. DataInv' BY <2>1, <2>4, DataKept
  <2> QED BY <2>3, <2>5 DEF JwInv, DataInv
<1>8. Producers \subseteq Threads BY DEF Threads
<1> QED BY <1>1, <1>2, <1>3, <1>4, <1>5, <1>6, <1>7, <1>8 DEF Next, Finished

(* Every allocated copy has exactly one owner: a decoder whose call the    *)
(* queue has not accepted, the queue, or the writer; nothing is freed      *)
(* twice, used after it is freed, or lost while the program runs.          *)
THEOREM CopiesHaveOneOwner == Spec => []OneOwner
<1>1. ASSUME JwInv PROVE OneOwner
  <2>1. ~Returned(Main, "OK") BY <1>1 DEF JwInv, RoleInv, MainInv, Returned
  <2> QED BY <1>1, <2>1, OwnersDisjoint DEF JwInv, HeapInv, OneOwner
<1>2. JwInv => OneOwner BY <1>1
<1> QED BY <1>2, JwInitInv, JwInductive, PTL DEF Spec

(* The output is what the queue accepted, in order and each once, followed *)
(* by what the writer has and what is still queued; when no call is in     *)
(* progress, every other message is counted as a drop.                     *)
THEOREM OutputIsAccepted == Spec => []WrittenInOrder
<1>1. ASSUME JwInv PROVE WrittenInOrder
  <2> DEFINE done  == [i \in 1..Len(out) |-> out[i].msg]
             Tries == {<<>>} \cup {<<m>> : m \in WriterOwns}
             taken == CHOOSE s \in Tries : WriterOwns # {} => s # <<>>
             whole == done \o taken \o items
  <2>1. RoleInv /\ JwType /\ WriterInv /\ OrderInv BY <1>1 DEF JwInv, RoleInv
  <2>2. done \in Seq(Messages) /\ Len(done) = Len(out)
        /\ \A i \in 1..Len(out) : done[i] = out[i].msg
    <3>1. Len(out) \in Nat /\ \A i \in 1..Len(out) : out[i].msg \in Messages
      <4> DEFINE R == [msg : Messages, written : BOOLEAN]
      <4>1. out \in Seq(R) BY <2>1 DEF JwType
      <4>2. \A r \in R : r.msg \in Messages OBVIOUS
      <4> HIDE DEF R
      <4> QED BY <4>1, <4>2
    <3> QED BY <3>1
  <2>3. taken \in Seq(Messages) /\ Len(taken) = Hand
        /\ \A i \in 1..Hand : i = 1 /\ accepted[Len(out) + i] = taken[i]
    <3>1. CASE WriterOwns = {}
      <4>1. Tries = {<<>>} BY <3>1
      <4>2. taken \in Tries BY <3>1, <4>1
      <4>3. taken = <<>> BY <4>1, <4>2
      <4>4. Hand = 0 BY <3>1 DEF Hand
      <4> HIDE DEF taken
      <4> QED BY <4>3, <4>4
    <3>2. CASE WriterOwns # {}
      <4>1. PICK m \in Messages : WriterOwns = {m} BY <2>1, <3>2, OwnersOfWriter
      <4>2. <<m>> # <<>> /\ <<m>> \in Seq(Messages) /\ Len(<<m>>) = 1 /\ <<m>>[1] = m OBVIOUS
      <4>3. Tries = {<<>>, <<m>>} BY <4>1
      <4>4. taken \in Tries /\ taken # <<>> BY <3>2, <4>2, <4>3
      <4>5. taken = <<m>> BY <4>3, <4>4
      <4>6. Hand = 1 /\ accepted[Len(out) + 1] = m BY <2>1, <3>2, <4>1 DEF Hand, OrderInv
      <4> HIDE DEF taken
      <4> QED BY <4>2, <4>5, <4>6
    <3> QED BY <3>1, <3>2
  <2> HIDE DEF done, taken
  <2>4. /\ items \in Seq(Messages) /\ accepted \in Seq(Messages)
        /\ Len(out) \in Nat /\ Len(items) \in Nat /\ Len(accepted) \in Nat /\ Hand \in {0, 1}
    BY <2>1 DEF JwType, Hand
  <2>5. whole = accepted
    <3> DEFINE first == done \o taken
    <3>1. first \in Seq(Messages) /\ Len(first) = Len(out) + Hand
      BY <2>2, <2>3, <2>4
    <3>2. \A i \in 1..(Len(out) + Hand) : first[i] = accepted[i]
      <4> SUFFICES ASSUME NEW i \in 1..(Len(out) + Hand) PROVE first[i] = accepted[i]
        OBVIOUS
      <4>1. CASE i \in 1..Len(out)
        <5>1. first[i] = done[i] BY <2>2, <2>3, <4>1
        <5> QED BY <2>1, <2>2, <4>1, <5>1 DEF OrderInv
      <4>2. CASE i \notin 1..Len(out)
        <5>1. Hand = 1 /\ i = Len(out) + 1 BY <2>4, <4>2
        <5>2. /\ done \in Seq(Messages) /\ taken \in Seq(Messages)
              /\ Len(done) = Len(out) /\ Len(taken) = 1 /\ Len(out) \in Nat
          BY <2>2, <2>3, <2>4, <5>1
        <5>3. (done \o taken)[Len(done) + 1] = taken[1]
          <6>1. Len(done \o taken) = Len(done) + 1 BY <3>1, <5>1, <5>2
          <6>2. Len(done) + 1 \in 1..Len(done \o taken) /\ ~(Len(done) + 1 <= Len(done))
                /\ Len(done) + 1 - Len(done) = 1
            BY <5>2, <6>1
          <6>3. \A k \in 1..Len(done) + Len(taken) : (done \o taken)[k] =
                  IF k <= Len(done) THEN done[k] ELSE taken[k - Len(done)]
            BY <5>2, ConcatProperties, Zenon
          <6>4. Len(done) + 1 \in 1..Len(done) + Len(taken) BY <5>2
          <6> QED BY <6>2, <6>3, <6>4
        <5> QED BY <2>3, <2>4, <5>1, <5>2, <5>3
      <4> QED BY <4>1, <4>2
    <3> HIDE DEF first
    <3>3. whole = first \o items BY DEF first
    <3> HIDE DEF whole
    <3>4. whole \in Seq(Messages) /\ Len(whole) = Len(out) + Hand + Len(items)
          /\ \A i \in 1..Len(whole) : whole[i] = IF i <= Len(out) + Hand THEN first[i]
                                                 ELSE items[i - (Len(out) + Hand)]
      <4>1. Len(first) \in Nat /\ items \in Seq(Messages) /\ first \in Seq(Messages)
        BY <2>4, <3>1
      <4>2. whole \in Seq(Messages) /\ Len(whole) = Len(first) + Len(items)
            /\ \A i \in 1..Len(whole) : whole[i] = IF i <= Len(first) THEN first[i]
                                                   ELSE items[i - Len(first)]
        BY <3>3, <4>1
      <4> QED BY <3>1, <4>2
    <3>5. Len(whole) = Len(accepted) BY <2>1, <3>4 DEF OrderInv
    <3>6. \A i \in 1..Len(whole) : whole[i] = accepted[i]
      <4> SUFFICES ASSUME NEW i \in 1..Len(whole) PROVE whole[i] = accepted[i]
        OBVIOUS
      <4>1. CASE i <= Len(out) + Hand
        <5>1. i \in 1..(Len(out) + Hand) BY <2>4, <4>1
        <5> QED BY <3>2, <3>4, <4>1, <5>1
      <4>2. CASE ~(i <= Len(out) + Hand)
        <5> DEFINE j == i - (Len(out) + Hand)
        <5>1. j \in 1..Len(items) /\ Len(out) + Hand + j = i BY <2>4, <3>4, <4>2
        <5>2. accepted[Len(out) + Hand + j] = items[j] BY <2>1, <5>1 DEF OrderInv
        <5> QED BY <3>4, <4>2, <5>1, <5>2
      <4> QED BY <4>1, <4>2
    <3> QED BY <2>4, <3>4, <3>5, <3>6, SeqEqual
  <2>6. ASSUME \A p \in Producers : pc[p] = "idle"
        PROVE  drops + Len(accepted) = Cardinality(offered)
    <3>1. Callers = {} BY <2>6 DEF Callers
    <3>2. drops + Len(accepted) + 0 = Cardinality(offered)
      BY <1>1, <3>1, FS_EmptySet DEF JwInv, CountInv
    <3>3. drops \in Nat BY <2>1 DEF JwType
    <3> QED BY <2>4, <3>2, <3>3
  <2> QED BY <2>5, <2>6 DEF WrittenInOrder, done, taken
<1>2. JwInv => WrittenInOrder BY <1>1
<1> QED BY <1>2, JwInitInv, JwInductive, PTL DEF Spec

=============================================================================
