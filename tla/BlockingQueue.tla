---------------------------- MODULE BlockingQueue ---------------------------
(***************************************************************************)
(* blocking_queue.h: a circular buffer of fixed or growing capacity under  *)
(* one mutex and one condition variable, with a fair lock in front of the  *)
(* adders and another in front of the getters.                             *)
(*                                                                         *)
(* A section that runs under bq->mutex is one step, cut where the code     *)
(* gives the mutex up (pthread_cond_wait) and where it operates on a fair  *)
(* lock a second time, because the fair locks are also used without the    *)
(* mutex.                                                                  *)
(***************************************************************************)
EXTENDS FairLockOps, Sequences

CONSTANTS
  Elements,      \* the pointers put in the queue
  NoElement,     \* the element of a call that carries none
  Closers,       \* the threads that close and destroy the queue
  Uses,          \* the ways the queue is used; see below
  MaxCapacity    \* bound: malloc fails when a boundless queue would pass it

ASSUME BlockingQueueAssumption ==
  /\ \A u \in Uses : /\ u.bound \in Nat /\ u.callers \in Nat
                     /\ u.kinds \subseteq {"add", "put", "poll", "take"}
                     /\ u.elements \subseteq Elements
                     /\ u.closes \in BOOLEAN
  /\ MaxCapacity \in Nat
  /\ NoElement \notin Elements

VARIABLES
  use,           \* the capacity given to blocking_queue_init (0: boundless),
                 \* and a bound on the callers: how many at once, which calls
                 \* they make with which elements, whether the queue is closed
  capacity, size, front, rear, queue,  \* the circular buffer
  fl,            \* fl["add"] and fl["get"]: add_lock and get_lock
  weakBlocked,   \* add_/get_lock_are_weak_locks_blocked
  mutex,         \* {}, or the thread in a section that takes two steps
  condWaiters,   \* threads in pthread_cond_wait(&bq->cond) not yet signalled
  closed,        \* bq->closed
  active,        \* active_callers_count
  call,          \* call[t]: kind and element of t's call
  pc,            \* where t is in it
  ret,           \* its return code and the element it delivers
  cpc,           \* where each closer is
  closeMutex,    \* {}, or the closer that holds close_mutex
  destroyer,     \* {}, or the closer whose call is blocking_queue_destroy
  freed          \* it has freed bq->queue

bufVars   == <<capacity, size, front, rear, queue>>
callVars  == <<call, pc, ret>>
closeVars == <<cpc, closeMutex, destroyer, freed>>
vars == <<use, bufVars, fl, weakBlocked, mutex, condWaiters, closed, active,
          callVars, closeVars>>

-----------------------------------------------------------------------------
Boundless == use.bound = 0

NoCall == [kind |-> "none", elem |-> NoElement, late |-> FALSE]
NoRet  == [code |-> "none", elem |-> NoElement]

Side(t)  == IF call[t].kind \in {"add", "put"} THEN "add" ELSE "get"
Async(t) == call[t].kind \in {"add", "poll"}

(* What the internal functions answer when a weak lock is abandoned, and   *)
(* when a non-blocking call finds the queue full or empty.                 *)
Refusal(t) == IF Side(t) = "add" THEN "BQ_FULL" ELSE "BQ_EMPTY"

(* The condition an adder, or a getter, waits on. *)
Stuck(side) == IF side = "add" THEN size = capacity ELSE size = 0

blocking_queue_init ==
  /\ use \in Uses
  /\ capacity = IF Boundless THEN 1 ELSE use.bound
  /\ size = 0
  /\ front = 0
  /\ rear = capacity - 1
  /\ queue = [i \in 0..(capacity - 1) |-> NoElement]
  /\ fl = [s \in {"add", "get"} |-> fair_lock_init]
  /\ weakBlocked = [s \in {"add", "get"} |-> FALSE]
  /\ mutex = {}
  /\ condWaiters = {}
  /\ closed = FALSE
  /\ active = 0

Init ==
  /\ blocking_queue_init
  /\ call = [t \in Threads |-> NoCall]
  /\ pc = [t \in Threads |-> "idle"]
  /\ ret = [t \in Threads |-> NoRet]
  /\ cpc = [c \in Closers |-> "idle"]
  /\ closeMutex = {}
  /\ destroyer = {}
  /\ freed = FALSE

-----------------------------------------------------------------------------
(* The circular buffer. *)

enqueue(e) ==
  /\ rear' = (rear + 1) % capacity
  /\ queue' = [queue EXCEPT ![rear'] = e]
  /\ size' = size + 1
  /\ UNCHANGED <<capacity, front>>

dequeue ==
  /\ front' = (front + 1) % capacity
  /\ size' = size - 1
  /\ UNCHANGED <<capacity, rear, queue>>

(* Fault: the wrapped part of the buffer is not moved. *)
growAndEnqueue_OneCopy(e) ==
  /\ capacity' = 2 * capacity
  /\ front' = 0
  /\ rear' = size
  /\ queue' = [i \in 0..(2 * capacity - 1) |->
                 IF i = size THEN e ELSE queue[i % capacity]]
  /\ size' = size + 1

(* grow_queue, then enqueue: the two memcpy calls bring the elements to    *)
(* the start of the new buffer, oldest first.                              *)
growAndEnqueue(e) ==
  LET moved == [i \in 0..(2 * capacity - 1) |->
                  IF i >= size THEN NoElement
                  ELSE IF rear >= front THEN queue[front + i]
                  ELSE IF i < capacity - front THEN queue[front + i]
                  ELSE queue[i - (capacity - front)]]
  IN  /\ capacity' = 2 * capacity
      /\ front' = 0
      /\ rear' = size
      /\ queue' = [moved EXCEPT ![size] = e]
      /\ size' = size + 1

(* pthread_cond_signal(&bq->cond) wakes one waiter, if there is one. *)
SignalCond ==
  \/ condWaiters = {} /\ UNCHANGED condWaiters
  \/ \E t \in condWaiters : condWaiters' = condWaiters \ {t}

-----------------------------------------------------------------------------
Goes(t, to) == pc' = [pc EXCEPT ![t] = to]

Answers(t, code, e) == ret' = [ret EXCEPT ![t] = [code |-> code, elem |-> e]]

SetLock(side, l) == fl' = [fl EXCEPT ![side] = l]

(* A call starts: increase_active_callers_count.  The API forbids starting *)
(* one once blocking_queue_destroy has been called.                        *)
Call(t, kind, e) ==
  /\ pc[t] = "idle"
  /\ destroyer = {}
  /\ Cardinality({o \in Threads : pc[o] # "idle"}) < use.callers
  /\ kind \in use.kinds
  /\ IF kind \in {"poll", "take"} THEN e = NoElement ELSE e \in use.elements
  /\ active' = active + 1
  /\ call' = [call EXCEPT ![t] = [kind |-> kind, elem |-> e, late |-> closed]]
  /\ Goes(t, "lock")
  /\ UNCHANGED <<use, bufVars, fl, weakBlocked, mutex, condWaiters, closed, ret, closeVars>>

(* fair_lock_lock or fair_lock_lock_weak on this side's lock. *)
Lock(t) ==
  LET l == fl[Side(t)] IN
  /\ pc[t] = "lock"
  /\ \/ /\ RejectsWeak(l, Async(t))
        /\ Goes(t, "leave")
        /\ Answers(t, Refusal(t), NoElement)
        /\ UNCHANGED fl
     \/ /\ ~RejectsWeak(l, Async(t)) /\ ~MustWait(l)
        /\ SetLock(Side(t), TakeFree(l))
        /\ Goes(t, "enter")
        /\ UNCHANGED ret
     \/ /\ ~RejectsWeak(l, Async(t)) /\ MustWait(l)
        /\ SetLock(Side(t), Enqueue(l, t, Async(t)))
        /\ Goes(t, "queued")
        /\ UNCHANGED ret
     \/ /\ ~RejectsWeak(l, Async(t)) /\ MustWait(l) /\ EnqueueMayFail(l)
        /\ Goes(t, "leave")
        /\ Answers(t, "BQ_ERROR", NoElement)
        /\ UNCHANGED fl
  /\ UNCHANGED <<bufVars, weakBlocked, mutex, condWaiters, closed, active, call, closeVars>>

(* The rest of _fair_lock_lock, when the fair lock has signalled t. *)
LockWake(t) ==
  LET l == fl[Side(t)] IN
  /\ pc[t] = "queued"
  /\ \/ /\ t \in l.signalled
        /\ SetLock(Side(t), WakeAcquires(l, t))
        /\ Goes(t, "enter")
        /\ UNCHANGED ret
     \/ /\ t \in l.abandoned
        /\ SetLock(Side(t), WakeAbandoned(l, t))
        /\ Goes(t, "leave")
        /\ Answers(t, Refusal(t), NoElement)
  /\ UNCHANGED <<bufVars, weakBlocked, mutex, condWaiters, closed, active, call, closeVars>>

-----------------------------------------------------------------------------
(* The section under bq->mutex.  Each piece states what it does to the     *)
(* fair locks, and leaves the counter and the closers alone.               *)

(* An exit with the fair lock given back before the mutex. *)
GiveUp(t, code) ==
  /\ \E l \in fair_lock_unlock(fl[Side(t)]) : SetLock(Side(t), l)
  /\ Goes(t, "leave")
  /\ Answers(t, code, NoElement)
  /\ mutex' = {}
  /\ UNCHANGED <<bufVars, weakBlocked, condWaiters>>

(* The common end of both functions: the other side's weak locks are       *)
(* allowed again, the waiter is signalled, an element moves, the mutex is  *)
(* released.  The fair lock is given back after it.                        *)
Proceed(t) ==
  LET other == IF Side(t) = "add" THEN "get" ELSE "add" IN
  /\ IF weakBlocked[other]
     THEN /\ SetLock(other, fair_lock_allow_weak_locks(fl[other]))
          /\ weakBlocked' = [weakBlocked EXCEPT ![other] = FALSE]
     ELSE UNCHANGED <<fl, weakBlocked>>
  /\ SignalCond
  /\ IF Side(t) = "add"
     THEN /\ IF Boundless /\ size = capacity THEN growAndEnqueue(call[t].elem)
                                             ELSE enqueue(call[t].elem)
          /\ Answers(t, "OK", NoElement)
     ELSE /\ dequeue
          /\ Answers(t, "OK", queue[front])
  /\ Goes(t, "unlock")
  /\ UNCHANGED mutex

(* Fault: non-blocking callers are left queued behind a blocked one. *)
BlockWeak_None(t) == UNCHANGED <<fl, weakBlocked>>

BlockWeak(t) ==
  IF weakBlocked[Side(t)]
  THEN UNCHANGED <<fl, weakBlocked>>
  ELSE /\ SetLock(Side(t), fair_lock_block_weak_locks(fl[Side(t)]))
       /\ weakBlocked' = [weakBlocked EXCEPT ![Side(t)] = TRUE]

(* The queue is full (empty) and not growing: weak locks are blocked, then *)
(* a blocking call waits, while a non-blocking one still has to give up.   *)
FindStuck(t) ==
  /\ BlockWeak(t)
  /\ IF Async(t)
     THEN /\ mutex' = {t}
          /\ Goes(t, "refuse")
          /\ UNCHANGED condWaiters
     ELSE /\ condWaiters' = condWaiters \cup {t}
          /\ Goes(t, "cond")
          /\ UNCHANGED mutex
  /\ UNCHANGED <<bufVars, ret>>

Grows(t) == Boundless /\ Side(t) = "add"

(* From pthread_mutex_lock on. *)
Enter(t) ==
  /\ pc[t] = "enter"
  /\ mutex = {}
  /\ IF closed THEN GiveUp(t, "BQ_CLOSED")
     ELSE IF ~Stuck(Side(t)) THEN Proceed(t)
     ELSE IF ~Grows(t) THEN FindStuck(t)
     ELSE \/ 2 * capacity <= MaxCapacity /\ Proceed(t)
          \/ GiveUp(t, "BQ_ERROR")
  /\ UNCHANGED <<closed, active, call, closeVars>>

Refuse(t) ==
  /\ pc[t] = "refuse"
  /\ mutex = {t}
  /\ GiveUp(t, Refusal(t))
  /\ UNCHANGED <<closed, active, call, closeVars>>

(* pthread_cond_wait returns, with the mutex; only `closed` is looked at.  *)
CondWake(t) ==
  /\ pc[t] = "cond"
  /\ t \notin condWaiters
  /\ mutex = {}
  /\ IF closed THEN GiveUp(t, "BQ_CLOSED") ELSE Proceed(t)
  /\ UNCHANGED <<closed, active, call, closeVars>>

(* fair_lock_unlock after the mutex was released. *)
Unlock(t) ==
  /\ pc[t] = "unlock"
  /\ \E l \in fair_lock_unlock(fl[Side(t)]) : SetLock(Side(t), l)
  /\ Goes(t, "leave")
  /\ UNCHANGED <<bufVars, weakBlocked, mutex, condWaiters, closed, active, call, ret, closeVars>>

(* Fault: destroy_cond is not signalled. *)
Leave_Silent(t) ==
  /\ pc[t] = "leave"
  /\ active' = active - 1
  /\ Goes(t, "idle")
  /\ call' = [call EXCEPT ![t] = NoCall]
  /\ ret' = [ret EXCEPT ![t] = NoRet]
  /\ UNCHANGED <<bufVars, fl, weakBlocked, mutex, condWaiters, closed, closeVars>>

(* decrease_active_callers_count, which signals destroy_cond, and return. *)
Leave(t) ==
  /\ pc[t] = "leave"
  /\ active' = active - 1
  /\ cpc' = [c \in Closers |-> IF cpc[c] = "wait" THEN "drain" ELSE cpc[c]]
  /\ Goes(t, "idle")
  /\ call' = [call EXCEPT ![t] = NoCall]
  /\ ret' = [ret EXCEPT ![t] = NoRet]
  /\ UNCHANGED <<bufVars, fl, weakBlocked, mutex, condWaiters, closed, closeMutex, destroyer, freed>>

-----------------------------------------------------------------------------
(* blocking_queue_close and blocking_queue_destroy.  A closer is at        *)
(* "begin" before its close_mutex section, at "drain" in the loop on       *)
(* active_callers_count, at "wait" in its pthread_cond_wait, and at        *)
(* "closed" when blocking_queue_close has returned.                        *)

queueVars == <<bufVars, fl, weakBlocked, mutex>>

BeginClose(c) ==
  /\ cpc[c] = "idle"
  /\ use.closes
  /\ destroyer = {}
  /\ cpc' = [cpc EXCEPT ![c] = "begin"]
  /\ UNCHANGED <<use, queueVars, condWaiters, closed, active, callVars, closeMutex, destroyer, freed>>

(* "This function can only be called a single time", after a close or not. *)
BeginDestroy(c) ==
  /\ cpc[c] \in {"idle", "closed"}
  /\ use.closes
  /\ destroyer = {}
  /\ destroyer' = {c}
  /\ cpc' = [cpc EXCEPT ![c] = "begin"]
  /\ UNCHANGED <<use, queueVars, condWaiters, closed, active, callVars, closeMutex, freed>>

CloseSection(c) ==
  /\ cpc[c] = "begin"
  /\ closeMutex = {} /\ mutex = {}
  /\ closed' = TRUE
  /\ IF closed
     THEN /\ cpc' = [cpc EXCEPT ![c] = "closed"]
          /\ UNCHANGED closeMutex
     ELSE /\ cpc' = [cpc EXCEPT ![c] = "drain"]
          /\ closeMutex' = {c}
  /\ UNCHANGED <<queueVars, condWaiters, active, callVars, destroyer, freed>>

(* Fault: the loop on active_callers_count is left out. *)
Drain_NoLoop(c) ==
  /\ cpc[c] = "drain"
  /\ SignalCond
  /\ cpc' = [cpc EXCEPT ![c] = "closed"]
  /\ closeMutex' = {}
  /\ UNCHANGED <<queueVars, closed, active, callVars, destroyer, freed>>

(* One evaluation of the loop condition, under active_callers_mutex. *)
Drain(c) ==
  /\ cpc[c] = "drain"
  /\ IF active > 0
     THEN /\ SignalCond
          /\ cpc' = [cpc EXCEPT ![c] = "wait"]
          /\ UNCHANGED closeMutex
     ELSE /\ cpc' = [cpc EXCEPT ![c] = "closed"]
          /\ closeMutex' = {}
          /\ UNCHANGED condWaiters
  /\ UNCHANGED <<queueVars, closed, active, callVars, destroyer, freed>>

Free(c) ==
  /\ cpc[c] = "closed"
  /\ c \in destroyer
  /\ ~freed
  /\ freed' = TRUE
  /\ UNCHANGED <<queueVars, condWaiters, closed, active, callVars, cpc, closeMutex, destroyer>>

-----------------------------------------------------------------------------
ThreadStep(t) ==
  /\ \/ Lock(t) \/ LockWake(t) \/ Enter(t) \/ Refuse(t) \/ CondWake(t)
     \/ Unlock(t) \/ Leave(t)
  /\ UNCHANGED use

CloserStep(c) == (CloseSection(c) \/ Drain(c) \/ Free(c)) /\ UNCHANGED use

(* The queue is destroyed and everybody has returned. *)
Finished ==
  /\ freed
  /\ \A t \in Threads : pc[t] = "idle"
  /\ UNCHANGED vars

Next ==
  \/ \E t \in Threads, kind \in use.kinds, e \in Elements \cup {NoElement} : Call(t, kind, e)
  \/ \E t \in Threads : ThreadStep(t)
  \/ \E c \in Closers : BeginClose(c) \/ BeginDestroy(c) \/ CloserStep(c)
  \/ Finished

Spec == Init /\ [][Next]_vars

(* Every thread in a call, and every closer in its call, keeps running.    *)
Fairness ==
  /\ \A t \in Threads : WF_vars(ThreadStep(t))
  /\ \A c \in Closers : WF_vars(CloserStep(c))

FairSpec == Spec /\ Fairness

-----------------------------------------------------------------------------
TypeOK ==
  /\ capacity \in Nat \ {0}
  /\ size \in 0..capacity
  /\ front \in 0..(capacity - 1)
  /\ rear \in 0..(capacity - 1)
  /\ queue \in [0..(capacity - 1) -> Elements \cup {NoElement}]
  /\ fl \in [{"add", "get"} -> FairLockType]
  /\ weakBlocked \in [{"add", "get"} -> BOOLEAN]
  /\ mutex \subseteq Threads
  /\ condWaiters \subseteq Threads
  /\ closed \in BOOLEAN
  /\ active \in Nat
  /\ call \in [Threads -> [kind : use.kinds \cup {"none"},
                           elem : Elements \cup {NoElement}, late : BOOLEAN]]
  /\ pc \in [Threads -> {"idle", "lock", "queued", "enter", "refuse", "cond",
                         "unlock", "leave"}]
  /\ ret \in [Threads ->
               [code : {"none", "OK", "BQ_ERROR", "BQ_FULL", "BQ_EMPTY", "BQ_CLOSED"},
                elem : Elements \cup {NoElement}]]
  /\ cpc \in [Closers -> {"idle", "begin", "drain", "wait", "closed"}]
  /\ closeMutex \subseteq Closers
  /\ destroyer \subseteq Closers
  /\ freed \in BOOLEAN

(* The elements in the queue, oldest first. *)
Items == [i \in 1..size |-> queue[(front + i - 1) % capacity]]

(* A thread whose weak lock was abandoned has its answer before it runs. *)
Abandoned(t) == pc[t] = "queued" /\ t \in fl[Side(t)].abandoned

Answered(t) == pc[t] \in {"unlock", "leave"} \/ Abandoned(t)

Contract == INSTANCE QueueContract WITH
  bound    <- use.bound,
  items    <- Items,
  isClosed <- closed,
  request  <- [t \in Threads |-> [kind |-> call[t].kind, elem |-> call[t].elem]],
  status   <- [t \in Threads |-> IF pc[t] = "idle" THEN "idle"
                                 ELSE IF Answered(t) THEN "answered" ELSE "pending"],
  answer   <- [t \in Threads |-> IF Abandoned(t)
                                 THEN [code |-> Refusal(t), elem |-> NoElement]
                                 ELSE ret[t]]

(* The queue is linearizable: each call of blocking_queue_add, _put, _poll *)
(* and _take acts on one FIFO at one moment of the call, and answers       *)
(* BQ_FULL, BQ_EMPTY or BQ_CLOSED only if that was so at that moment, even *)
(* when the answer comes from an abandoned weak lock.  The contract lets a *)
(* closed queue answer BQ_FULL or BQ_EMPTY (RefuseLate), which the header  *)
(* does not, see ClosedAnswersClosed.                                      *)
ImplementsContract == Contract!Spec

(* "When a blocking queue is closed, all _add/_put/_poll/_take calls will  *)
(* immediately return BQ_CLOSED if called" (blocking_queue.h): a call that *)
(* began on a closed queue is never told that it is full or empty.         *)
ClosedAnswersClosed ==
  \A t \in Threads : call[t].late => ret[t].code \notin {"BQ_FULL", "BQ_EMPTY"}

(* blocking_queue_destroy frees the buffer only when every call that began *)
(* before the queue was closed has returned.                               *)
FreeWaitsForCallers ==
  freed => \A t \in Threads : pc[t] # "idle" => call[t].late

(* blocking_queue_close returns, unless calls keep coming after the close: *)
(* its loop waits for active_callers_count, which they also hold up.       *)
CloseReturns ==
  \A c \in Closers :
    cpc[c] = "drain" ~> \/ cpc[c] = "closed"
                        \/ \E t \in Threads : call[t].late

(* A thread blocked on a full (empty) queue goes on once there is room (an *)
(* element), and so does everybody queued behind it; a non-blocking call   *)
(* returns whatever the others do, a full queue and a blocked _put in      *)
(* front of it included.                                                   *)
CallsReturn ==
  \A t \in Threads :
    /\ pc[t] = "cond" /\ ~Stuck(Side(t)) ~> pc[t] = "idle"
    /\ pc[t] # "idle" /\ Async(t) ~> pc[t] = "idle"

=============================================================================
