------------------------- MODULE BlockingQueueProofs ------------------------
(***************************************************************************)
(* blocking_queue.h implements QueueContract, for any number of threads,   *)
(* any capacity and any elements, and its buffer is not freed under a call *)
(* that began before the close.                                            *)
(*                                                                         *)
(* The argument: each fair lock admits one thread of its side at a time,   *)
(* so a thread that was signalled on bq->cond still finds what it waited   *)
(* for; weak locks are blocked only while the queue is full (empty), so an *)
(* abandoned or rejected caller is told the truth; and the ring holds the  *)
(* FIFO, wherever it wraps and whenever it grows.                          *)
(***************************************************************************)
EXTENDS BlockingQueue, FairLockOpsProofs, SequenceTheorems

Sides == {"add", "get"}
Kinds == {"add", "put", "poll", "take"}
Other(s) == IF s = "add" THEN "get" ELSE "add"

(* Who waits for, and who has, the fair lock of a side.                    *)
QueuedAt(s)  == {t \in Threads : pc[t] = "queued" /\ Side(t) = s}
WeakAt(s)    == {t \in QueuedAt(s) : Async(t)}
HoldersOf(s) == {t \in Threads : pc[t] \in {"enter", "refuse", "cond", "unlock"} /\ Side(t) = s}

LocksInv ==
  \A s \in Sides : /\ LockOK(fl[s], QueuedAt(s), WeakAt(s), HoldersOf(s))
                   /\ weakBlocked[s] <=> fl[s].blockWeak

(* When a side is full (empty) for good, until the other side moves.       *)
StuckInv ==
  /\ \A s \in Sides : weakBlocked[s] => Stuck(s) /\ (s = "add" => ~Boundless)
  /\ \A t \in Threads : pc[t] \in {"cond", "refuse"} => ~Grows(t)
  /\ \A t \in condWaiters : pc[t] = "cond" /\ Stuck(Side(t))
  /\ \A t \in Threads : pc[t] = "cond" /\ t \notin condWaiters /\ ~closed => ~Stuck(Side(t))
  /\ \A t \in Threads : pc[t] = "refuse" => mutex = {t} /\ Stuck(Side(t)) /\ Async(t)
  /\ \A t \in mutex : pc[t] = "refuse"

(* The ring: where the rear is, and that a bounded queue does not grow.    *)
RingInv ==
  /\ capacity \in Nat \ {0} /\ size \in 0..capacity
  /\ front \in 0..(capacity - 1) /\ rear \in 0..(capacity - 1)
  /\ queue \in [0..(capacity - 1) -> Elements \cup {NoElement}]
  /\ ~Boundless => capacity = use.bound
  /\ \/ rear + 1 = front + size
     \/ rear + 1 = front + size - capacity
     \/ front = 0 /\ size = 0 /\ rear = capacity - 1

Codes == {"OK", "BQ_ERROR", "BQ_FULL", "BQ_EMPTY", "BQ_CLOSED"}
Places == {"idle", "lock", "queued", "enter", "refuse", "cond", "unlock", "leave"}
Calls == [kind : Kinds \cup {"none"}, elem : Elements \cup {NoElement}, late : BOOLEAN]
Rets == [code : Codes \cup {"none"}, elem : Elements \cup {NoElement}]

CallInv ==
  /\ use \in Uses
  /\ pc \in [Threads -> Places] /\ call \in [Threads -> Calls] /\ ret \in [Threads -> Rets]
  /\ fl \in [Sides -> FairLockType] /\ weakBlocked \in [Sides -> BOOLEAN]
  /\ condWaiters \subseteq Threads /\ mutex \subseteq Threads
  /\ \A t \in Threads : pc[t] # "idle" => call[t].kind \in Kinds

QueueInv == CallInv /\ RingInv /\ StuckInv /\ LocksInv

USE BlockingQueueAssumption

-----------------------------------------------------------------------------
(* Arithmetic of the ring.                                                 *)

LEMMA Wraps ==
  ASSUME NEW c \in Nat \ {0}, NEW x \in 0..(2 * c - 1)
  PROVE  x % c = IF x < c THEN x ELSE x - c
<1>1. CASE x < c BY <1>1
<1>2. CASE ~(x < c)
  <2> DEFINE r == x - c
  <2>1. r \in 0..(c - 1) /\ x = c * 1 + r BY <1>2
  <2> HIDE DEF r
  <2>2. (c * 1 + r) % c = r BY <2>1
  <2> QED BY <1>2, <2>1, <2>2 DEF r
<1> QED BY <1>1, <1>2

(* Where the i-th oldest element is.                                       *)
At(i) == IF front + i - 1 < capacity THEN front + i - 1 ELSE front + i - 1 - capacity

ItemsAt ==
  /\ Items \in Seq(Elements \cup {NoElement}) /\ Len(Items) = size
  /\ \A i \in 1..size : At(i) \in 0..(capacity - 1) /\ Items[i] = queue[At(i)]

LEMMA ItemsAre == RingInv => ItemsAt
<1> SUFFICES ASSUME RingInv PROVE ItemsAt OBVIOUS
<1>1. capacity \in Nat \ {0} /\ size \in Nat /\ size <= capacity /\ front \in 0..(capacity - 1)
  BY DEF RingInv
<1>2. ASSUME NEW i \in 1..size
      PROVE  (front + i - 1) % capacity = At(i) /\ At(i) \in 0..(capacity - 1)
  <2>1. front + i - 1 \in 0..(2 * capacity - 1) BY <1>1
  <2>2. (front + i - 1) % capacity =
          IF front + i - 1 < capacity THEN front + i - 1 ELSE front + i - 1 - capacity
    <3> DEFINE x == front + i - 1
    <3>1. x \in 0..(2 * capacity - 1) BY <2>1
    <3> HIDE DEF x
    <3>2. x % capacity = IF x < capacity THEN x ELSE x - capacity BY <1>1, <3>1, Wraps
    <3> QED BY <1>1, <3>2 DEF x
  <2>3. At(i) \in 0..(capacity - 1) BY <1>1 DEF At
  <2> QED BY <2>2, <2>3 DEF At
<1>3. \A i \in 1..size : Items[i] = queue[At(i)] BY <1>2 DEF Items
<1>4. \A i \in 1..size : Items[i] \in Elements \cup {NoElement} BY <1>2, <1>3 DEF RingInv
<1>5. Items = [i \in 1..size |-> Items[i]] BY DEF Items
<1>6. Items \in [1..size -> Elements \cup {NoElement}] BY <1>4, <1>5
<1> QED BY <1>1, <1>2, <1>3, <1>6 DEF ItemsAt

LEMMA AppendIs ==
  ASSUME NEW S, NEW s \in Seq(S), NEW r \in Seq(S), NEW e \in S, Len(r) = Len(s) + 1,
         \A i \in 1..Len(s) : r[i] = s[i], r[Len(s) + 1] = e
  PROVE  r = Append(s, e)
<1>1. Append(s, e) \in Seq(S) /\ Len(Append(s, e)) = Len(s) + 1 /\ Len(s) \in Nat OBVIOUS
<1>2. \A i \in 1..(Len(s) + 1) : r[i] = Append(s, e)[i] OBVIOUS
<1> QED BY <1>1, <1>2, SeqEqual

LEMMA TailIs ==
  ASSUME NEW S, NEW s \in Seq(S), NEW r \in Seq(S), s # <<>>, Len(r) = Len(s) - 1,
         \A i \in 1..Len(r) : r[i] = s[i + 1]
  PROVE  r = Tail(s)
<1>1. Tail(s) \in Seq(S) /\ Len(Tail(s)) = Len(s) - 1 /\ Len(s) \in Nat \ {0} OBVIOUS
<1>2. \A i \in 1..(Len(s) - 1) : r[i] = Tail(s)[i] OBVIOUS
<1> QED BY <1>1, <1>2, SeqEqual

LEMMA EnqueueAppends ==
  ASSUME RingInv, size < capacity, NEW e \in Elements \cup {NoElement}, enqueue(e), use' = use
  PROVE  RingInv' /\ Items' = Append(Items, e) /\ size' = size + 1 /\ capacity' = capacity
<1> DEFINE n == IF rear + 1 < capacity THEN rear + 1 ELSE 0
<1>1. /\ capacity \in Nat \ {0} /\ size \in Nat /\ size < capacity /\ front \in 0..(capacity - 1)
      /\ rear \in 0..(capacity - 1)
      /\ queue \in [0..(capacity - 1) -> Elements \cup {NoElement}]
      /\ \/ rear + 1 = front + size
         \/ rear + 1 = front + size - capacity
         \/ front = 0 /\ size = 0 /\ rear = capacity - 1
  BY DEF RingInv
<1>2. (rear + 1) % capacity = n
  <2> DEFINE x == rear + 1
  <2>1. x \in 0..(2 * capacity - 1) BY <1>1
  <2> HIDE DEF x
  <2>2. x % capacity = IF x < capacity THEN x ELSE x - capacity BY <1>1, <2>1, Wraps
  <2> QED BY <1>1, <2>2 DEF x
<1>3. n \in 0..(capacity - 1) BY <1>1
<1>4. rear' = n /\ size' = size + 1 /\ capacity' = capacity /\ front' = front
      /\ queue' = [queue EXCEPT ![n] = e]
  BY <1>2 DEF enqueue
<1>5. At(size + 1) = n BY <1>1 DEF At
<1>6. \A i \in 1..size : At(i) # n /\ At(i) \in 0..(capacity - 1) BY <1>1 DEF At
<1>7. RingInv'
  <2>1. n + 1 = front + (size + 1) \/ n + 1 = front + (size + 1) - capacity BY <1>1
  <2>2. size + 1 \in 0..capacity BY <1>1
  <2>3. queue' \in [0..(capacity - 1) -> Elements \cup {NoElement}] BY <1>1, <1>3, <1>4
  <2>4. ~Boundless' => capacity' = use'.bound BY <1>4 DEF RingInv, Boundless
  <2> HIDE DEF n
  <2> QED BY <1>1, <1>3, <1>4, <2>1, <2>2, <2>3, <2>4 DEF RingInv
<1> HIDE DEF n
<1>8. \A i \in 1..(size + 1) : At(i)' = At(i) BY <1>4 DEF At
<1>9. /\ Items' \in Seq(Elements \cup {NoElement}) /\ Len(Items') = size + 1
      /\ \A i \in 1..(size + 1) : Items'[i] = queue'[At(i)]
  <2>1. ItemsAt' BY <1>7, ItemsAre, PTL
  <2> QED BY <1>1, <1>4, <1>8, <2>1 DEF ItemsAt
<1>10. /\ Items \in Seq(Elements \cup {NoElement}) /\ Len(Items) = size
       /\ \A i \in 1..size : Items[i] = queue[At(i)]
  BY ItemsAre DEF ItemsAt
<1>11. \A i \in 1..size : queue'[At(i)] = queue[At(i)] BY <1>1, <1>4, <1>6
<1>12. queue'[n] = e BY <1>1, <1>3, <1>4
<1>13. \A i \in 1..size : Items'[i] = Items[i] BY <1>1, <1>9, <1>10, <1>11
<1>14. Items'[size + 1] = e BY <1>1, <1>5, <1>9, <1>12
<1>15. Items' = Append(Items, e) BY <1>9, <1>10, <1>13, <1>14, AppendIs
<1> QED BY <1>4, <1>7, <1>15

LEMMA DequeueTakesHead ==
  ASSUME RingInv, size # 0, dequeue, use' = use
  PROVE  /\ RingInv' /\ Items # <<>> /\ Items' = Tail(Items) /\ queue[front] = Head(Items)
         /\ queue[front] \in Elements \cup {NoElement}
         /\ size' = size - 1 /\ capacity' = capacity
<1> DEFINE n == IF front + 1 < capacity THEN front + 1 ELSE 0
<1>1. /\ capacity \in Nat \ {0} /\ size \in 1..capacity /\ front \in 0..(capacity - 1)
      /\ rear \in 0..(capacity - 1)
      /\ queue \in [0..(capacity - 1) -> Elements \cup {NoElement}]
      /\ \/ rear + 1 = front + size
         \/ rear + 1 = front + size - capacity
  BY DEF RingInv
<1>2. (front + 1) % capacity = n
  <2> DEFINE x == front + 1
  <2>1. x \in 0..(2 * capacity - 1) BY <1>1
  <2> HIDE DEF x
  <2>2. x % capacity = IF x < capacity THEN x ELSE x - capacity BY <1>1, <2>1, Wraps
  <2> QED BY <1>1, <2>2 DEF x
<1>3. n \in 0..(capacity - 1) BY <1>1
<1>4. front' = n /\ size' = size - 1 /\ capacity' = capacity /\ rear' = rear /\ queue' = queue
  BY <1>2 DEF dequeue
<1>5. \A i \in 1..(size - 1) :
        (IF n + i - 1 < capacity THEN n + i - 1 ELSE n + i - 1 - capacity) = At(i + 1)
  BY <1>1 DEF At
<1>6. At(1) = front BY <1>1 DEF At
<1>7. RingInv'
  <2>1. \/ rear + 1 = n + (size - 1)
        \/ rear + 1 = n + (size - 1) - capacity
        \/ n = 0 /\ size - 1 = 0 /\ rear = capacity - 1
    BY <1>1
  <2>2. size - 1 \in 0..capacity BY <1>1
  <2>3. ~Boundless' => capacity' = use'.bound BY <1>4 DEF RingInv, Boundless
  <2> HIDE DEF n
  <2> QED BY <1>1, <1>3, <1>4, <2>1, <2>2, <2>3 DEF RingInv
<1> HIDE DEF n
<1>8. \A i \in 1..(size - 1) : At(i)' = At(i + 1) BY <1>4, <1>5 DEF At
<1>9. /\ Items' \in Seq(Elements \cup {NoElement}) /\ Len(Items') = size - 1
      /\ \A i \in 1..(size - 1) : Items'[i] = queue[At(i + 1)]
  <2>1. ItemsAt' BY <1>7, ItemsAre, PTL
  <2> QED BY <1>1, <1>4, <1>8, <2>1 DEF ItemsAt
<1>10. /\ Items \in Seq(Elements \cup {NoElement}) /\ Len(Items) = size
       /\ \A i \in 1..size : Items[i] = queue[At(i)]
  BY ItemsAre DEF ItemsAt
<1>11. \A i \in 1..(size - 1) : Items'[i] = Items[i + 1]
  <2> SUFFICES ASSUME NEW i \in 1..(size - 1) PROVE Items'[i] = Items[i + 1] OBVIOUS
  <2>1. i + 1 \in 1..size BY <1>1
  <2> QED BY <1>9, <1>10, <2>1
<1>12. Items # <<>> BY <1>1, <1>10
<1>13. Items' = Tail(Items) BY <1>9, <1>10, <1>11, <1>12, TailIs
<1>14. Head(Items) = queue[front] BY <1>1, <1>6, <1>10, <1>12
<1> QED BY <1>1, <1>4, <1>7, <1>12, <1>13, <1>14

LEMMA GrowAppends ==
  ASSUME RingInv, Boundless, size = capacity, NEW e \in Elements \cup {NoElement},
         growAndEnqueue(e), use' = use
  PROVE  RingInv' /\ Items' = Append(Items, e) /\ size' = size + 1 /\ capacity' = 2 * capacity
<1> DEFINE moved == [i \in 0..(2 * capacity - 1) |->
                       IF i >= size THEN NoElement
                       ELSE IF rear >= front THEN queue[front + i]
                       ELSE IF i < capacity - front THEN queue[front + i]
                       ELSE queue[i - (capacity - front)]]
<1>1. /\ capacity \in Nat \ {0} /\ size = capacity /\ front \in 0..(capacity - 1)
      /\ rear \in 0..(capacity - 1)
      /\ queue \in [0..(capacity - 1) -> Elements \cup {NoElement}]
      /\ rear >= front => front = 0
  BY DEF RingInv
<1>2. capacity' = 2 * capacity /\ front' = 0 /\ rear' = size /\ size' = size + 1
      /\ queue' = [moved EXCEPT ![size] = e]
  BY DEF growAndEnqueue
<1>3. ASSUME NEW i \in 1..size
      PROVE  moved[i - 1] = queue[At(i)] /\ At(i) \in 0..(capacity - 1)
  <2>1. i - 1 \in 0..(2 * capacity - 1) /\ ~(i - 1 >= size) BY <1>1
  <2>2. moved[i - 1] = IF rear >= front THEN queue[front + (i - 1)]
                       ELSE IF i - 1 < capacity - front THEN queue[front + (i - 1)]
                       ELSE queue[(i - 1) - (capacity - front)]
    BY <2>1
  <2> HIDE DEF moved
  <2>3. CASE front + i - 1 < capacity
    <3>1. At(i) = front + (i - 1) BY <1>1, <2>3 DEF At
    <3>2. i - 1 < capacity - front BY <1>1, <2>3
    <3> QED BY <1>1, <2>2, <3>1, <3>2
  <2>4. CASE ~(front + i - 1 < capacity)
    <3>1. At(i) = (i - 1) - (capacity - front) BY <1>1, <2>4 DEF At
    <3>2. ~(i - 1 < capacity - front) /\ ~(rear >= front) BY <1>1, <2>4
    <3> QED BY <1>1, <2>2, <3>1, <3>2
  <2> QED BY <2>3, <2>4
<1>4. moved \in [0..(2 * capacity - 1) -> Elements \cup {NoElement}]
  <2> SUFFICES ASSUME NEW j \in 0..(2 * capacity - 1)
               PROVE  moved[j] \in Elements \cup {NoElement}
    OBVIOUS
  <2>1. CASE j >= size BY <2>1
  <2>2. CASE ~(j >= size)
    <3>1. j + 1 \in 1..size /\ (j + 1) - 1 = j BY <1>1, <2>2
    <3>2. moved[(j + 1) - 1] = queue[At(j + 1)] /\ At(j + 1) \in 0..(capacity - 1)
      BY <1>3, <3>1
    <3> HIDE DEF moved
    <3>3. moved[j] = queue[At(j + 1)] BY <3>1, <3>2
    <3> QED BY <1>1, <3>2, <3>3
  <2> QED BY <2>1, <2>2
<1> HIDE DEF moved
<1>5. /\ queue' \in [0..(2 * capacity - 1) -> Elements \cup {NoElement}]
      /\ queue'[size] = e /\ \A j \in 0..(size - 1) : queue'[j] = moved[j]
  <2>1. size \in 0..(2 * capacity - 1) BY <1>1
  <2>2. \A j \in 0..(size - 1) : j \in 0..(2 * capacity - 1) /\ j # size BY <1>1
  <2> QED BY <1>2, <1>4, <2>1, <2>2
<1>6. RingInv'
  <2>1. /\ 2 * capacity \in Nat \ {0} /\ size + 1 \in 0..(2 * capacity)
        /\ 0 \in 0..(2 * capacity - 1) /\ size \in 0..(2 * capacity - 1)
    BY <1>1
  <2>2. Boundless' BY DEF Boundless
  <2>3. size + 1 = 0 + (size + 1) BY <1>1
  <2> QED BY <1>2, <1>5, <2>1, <2>2, <2>3 DEF RingInv
<1>7. \A i \in 1..(size + 1) : At(i)' = i - 1
  <2> SUFFICES ASSUME NEW i \in 1..(size + 1)
               PROVE  (IF 0 + i - 1 < 2 * capacity THEN 0 + i - 1
                       ELSE 0 + i - 1 - 2 * capacity) = i - 1
    BY <1>2 DEF At
  <2> QED BY <1>1
<1>8. /\ Items' \in Seq(Elements \cup {NoElement}) /\ Len(Items') = size + 1
      /\ \A i \in 1..(size + 1) : Items'[i] = queue'[i - 1]
  <2>1. ItemsAt' BY <1>6, ItemsAre, PTL
  <2> QED BY <1>1, <1>2, <1>7, <2>1 DEF ItemsAt
<1>9. /\ Items \in Seq(Elements \cup {NoElement}) /\ Len(Items) = size
      /\ \A i \in 1..size : Items[i] = queue[At(i)]
  BY ItemsAre DEF ItemsAt
<1>10. \A i \in 1..size : Items'[i] = Items[i]
  <2> SUFFICES ASSUME NEW i \in 1..size PROVE Items'[i] = Items[i] OBVIOUS
  <2>1. i \in 1..(size + 1) /\ i - 1 \in 0..(size - 1) BY <1>1
  <2>2. queue'[i - 1] = moved[i - 1] BY <1>5, <2>1
  <2> QED BY <1>3, <1>8, <1>9, <2>1, <2>2
<1>11. Items'[size + 1] = e
  <2>1. size + 1 \in 1..(size + 1) /\ (size + 1) - 1 = size BY <1>1
  <2> QED BY <1>5, <1>8, <2>1
<1>12. Items' = Append(Items, e) BY <1>8, <1>9, <1>10, <1>11, AppendIs
<1> QED BY <1>2, <1>6, <1>12

-----------------------------------------------------------------------------
(* The call of a thread as QueueContract sees it.                          *)

RequestOf(t) == [kind |-> call[t].kind, elem |-> call[t].elem]
StatusOf(t)  == IF pc[t] = "idle" THEN "idle" ELSE IF Answered(t) THEN "answered" ELSE "pending"
AnswerOf(t)  == IF Abandoned(t) THEN [code |-> Refusal(t), elem |-> NoElement] ELSE ret[t]

Same(t) == /\ RequestOf(t)' = RequestOf(t) /\ StatusOf(t)' = StatusOf(t)
           /\ AnswerOf(t)' = AnswerOf(t)

Refines == [Contract!Next]_(Contract!vars)

LEMMA SilentStep ==
  ASSUME \A u \in Threads : Same(u), Items' = Items, UNCHANGED <<closed, use>>
  PROVE  Refines
<1> USE DEF Same
<1>1. [t \in Threads |-> RequestOf(t)]' = [t \in Threads |-> RequestOf(t)] OBVIOUS
<1>2. [t \in Threads |-> StatusOf(t)]' = [t \in Threads |-> StatusOf(t)] OBVIOUS
<1>3. [t \in Threads |-> AnswerOf(t)]' = [t \in Threads |-> AnswerOf(t)] OBVIOUS
<1> QED BY <1>1, <1>2, <1>3 DEF Refines, Contract!vars, RequestOf, StatusOf, AnswerOf

LEMMA AnswerStep ==
  ASSUME NEW S \in SUBSET Threads, NEW code, NEW e,
         \A t \in S : /\ StatusOf(t) = "pending" /\ StatusOf(t)' = "answered"
                      /\ AnswerOf(t)' = [code |-> code, elem |-> e]
                      /\ RequestOf(t)' = RequestOf(t),
         \A t \in Threads \ S : Same(t), closed' = closed
  PROVE  Contract!Answer(S, code, e)
<1> DEFINE a == [code |-> code, elem |-> e]
<1>1. \A t \in S : AnswerOf(t)' = a OBVIOUS
<1>2. Contract!Answer(S, code, e) <=>
        /\ \A t \in S : [u \in Threads |-> StatusOf(u)][t] = "pending"
        /\ [u \in Threads |-> StatusOf(u)]' =
             [t \in Threads |-> IF t \in S THEN "answered" ELSE [u \in Threads |-> StatusOf(u)][t]]
        /\ [u \in Threads |-> AnswerOf(u)]' =
             [t \in Threads |-> IF t \in S THEN a ELSE [u \in Threads |-> AnswerOf(u)][t]]
        /\ [u \in Threads |-> RequestOf(u)]' = [u \in Threads |-> RequestOf(u)]
        /\ closed' = closed
  BY DEF Contract!Answer, RequestOf, StatusOf, AnswerOf
<1> HIDE DEF a
<1>3. \A t \in Threads : /\ t \in S => StatusOf(t)' = "answered"
                         /\ t \notin S => StatusOf(t)' = StatusOf(t)
  BY DEF Same
<1>4. \A t \in Threads : /\ t \in S => AnswerOf(t)' = a
                         /\ t \notin S => AnswerOf(t)' = AnswerOf(t)
  BY <1>1 DEF Same
<1>5. \A t \in Threads : RequestOf(t)' = RequestOf(t) BY DEF Same
<1> QED BY <1>2, <1>3, <1>4, <1>5

-----------------------------------------------------------------------------
(* Closing.                                                                *)

Busy  == {t \in Threads : pc[t] # "idle"}
Early == {t \in Busy : ~call[t].late}

(* active_callers_count counts the calls; whoever finds the queue closed   *)
(* with close_mutex free comes after a closer that saw the count at zero.  *)
CloseInv ==
  /\ use \in Uses /\ closed \in BOOLEAN
  /\ pc \in [Threads -> Places] /\ call \in [Threads -> Calls]
  /\ cpc \in [Closers -> {"idle", "begin", "drain", "wait", "closed"}]
  /\ active = Cardinality(Busy)
  /\ \A c \in Closers : cpc[c] \in {"drain", "wait"} => closed /\ closeMutex = {c}
  /\ closed /\ closeMutex = {} => Early = {}
  /\ \A c \in Closers : cpc[c] = "closed" => closed /\ Early = {}
  /\ freed => closed /\ Early = {}

LEMMA CloseInit == Init => CloseInv
<1> SUFFICES ASSUME Init PROVE CloseInv OBVIOUS
<1>1. Busy = {} /\ Early = {} BY DEF Init, Busy, Early
<1>2. active = 0 /\ Cardinality({}) = 0 BY FS_EmptySet DEF Init, blocking_queue_init
<1>3. use \in Uses /\ closed = FALSE BY DEF Init, blocking_queue_init
<1>4. NoCall \in Calls BY DEF NoCall, Calls
<1>5. pc \in [Threads -> Places] BY DEF Init, Places
<1>6. call \in [Threads -> Calls] BY <1>4 DEF Init
<1>7. cpc \in [Closers -> {"idle", "begin", "drain", "wait", "closed"}] BY DEF Init
<1>8. \A c \in Closers : cpc[c] = "idle" BY DEF Init
<1>9. freed = FALSE BY DEF Init
<1> QED BY <1>1, <1>2, <1>3, <1>5, <1>6, <1>7, <1>8, <1>9 DEF CloseInv

(* A step of a call neither begins nor ends one.                           *)
Inside(t) == /\ pc[t] # "idle" /\ \E to \in Places \ {"idle"} : Goes(t, to)
             /\ UNCHANGED <<use, call, closed, active, closeVars>>

LEMMA InsideStep ==
  ASSUME NEW t \in Threads, ThreadStep(t)
  PROVE  Leave(t) \/ Inside(t)
<1> USE DEF ThreadStep, Inside, Places
<1>1. CASE Lock(t) BY <1>1 DEF Lock
<1>2. CASE LockWake(t) BY <1>2 DEF LockWake
<1>3. ASSUME NEW code, GiveUp(t, code) PROVE \E to \in Places \ {"idle"} : Goes(t, to)
  BY <1>3 DEF GiveUp
<1>4. ASSUME Proceed(t) PROVE \E to \in Places \ {"idle"} : Goes(t, to)
  BY <1>4 DEF Proceed
<1>5. ASSUME FindStuck(t) PROVE \E to \in Places \ {"idle"} : Goes(t, to)
  BY <1>5 DEF FindStuck
<1>6. CASE Enter(t) BY <1>3, <1>4, <1>5, <1>6 DEF Enter
<1>7. CASE Refuse(t) BY <1>3, <1>7 DEF Refuse
<1>8. CASE CondWake(t) BY <1>3, <1>4, <1>8 DEF CondWake
<1>9. CASE Unlock(t) BY <1>9 DEF Unlock
<1> QED BY <1>1, <1>2, <1>6, <1>7, <1>8, <1>9

LEMMA CloseNext == CloseInv /\ [Next]_vars => CloseInv'
<1> SUFFICES ASSUME CloseInv, [Next]_vars PROVE CloseInv' OBVIOUS
<1>1. IsFiniteSet(Busy) /\ Cardinality(Busy) \in Nat
  <2>1. Busy \in SUBSET Threads BY DEF Busy
  <2> QED BY <2>1, SetsAreFinite
<1>2. ASSUME NEW t \in Threads, NEW kind \in use.kinds, NEW e \in Elements \cup {NoElement},
             Call(t, kind, e)
      PROVE  CloseInv'
  <2> DEFINE r == [kind |-> kind, elem |-> e, late |-> closed]
  <2>1. /\ pc[t] = "idle" /\ pc' = [pc EXCEPT ![t] = "lock"] /\ active' = active + 1
        /\ call' = [call EXCEPT ![t] = r]
        /\ UNCHANGED <<use, closed, closeVars>>
    BY <1>2 DEF Call, Goes
  <2>2. kind \in Kinds BY DEF CloseInv, Kinds
  <2>3. r \in Calls /\ (r.late <=> closed) BY <2>2 DEF CloseInv, Calls
  <2> HIDE DEF r
  <2>4. Busy' = Busy \cup {t} /\ t \notin Busy BY <2>1 DEF Busy, CloseInv
  <2>5. active' = Cardinality(Busy')
    <3>1. Cardinality(Busy \cup {t}) = Cardinality(Busy) + 1 BY <1>1, <2>4, FS_AddElement
    <3> QED BY <2>1, <2>4, <3>1 DEF CloseInv
  <2>6. \A u \in Threads : /\ u # t => call'[u] = call[u]
                           /\ u = t => (call'[u].late <=> closed)
    BY <2>1, <2>3 DEF CloseInv
  <2>7. closed => Early' = Early BY <2>4, <2>6 DEF Early, Busy
  <2>8. call' \in [Threads -> Calls] /\ pc' \in [Threads -> Places]
    BY <2>1, <2>3 DEF CloseInv, Places
  <2> QED BY <2>1, <2>5, <2>7, <2>8 DEF CloseInv, closeVars
<1>3. ASSUME NEW t \in Threads, ThreadStep(t) PROVE CloseInv'
  <2>1. CASE Inside(t)
    <3>1. PICK to \in Places \ {"idle"} : Goes(t, to) BY <2>1 DEF Inside
    <3>2. /\ pc[t] # "idle" /\ pc' = [pc EXCEPT ![t] = to]
          /\ UNCHANGED <<use, call, closed, active, closeVars>>
      BY <2>1, <3>1 DEF Inside, Goes
    <3>3. Busy' = Busy BY <3>2 DEF Busy, CloseInv
    <3>4. Early' = Early BY <3>2, <3>3 DEF Early
    <3>5. pc' \in [Threads -> Places] BY <3>2 DEF CloseInv
    <3> QED BY <3>2, <3>3, <3>4, <3>5 DEF CloseInv, closeVars
  <2>2. CASE Leave(t)
    <3>1. /\ pc[t] # "idle" /\ pc' = [pc EXCEPT ![t] = "idle"] /\ active' = active - 1
          /\ call' = [call EXCEPT ![t] = NoCall]
          /\ cpc' = [c \in Closers |-> IF cpc[c] = "wait" THEN "drain" ELSE cpc[c]]
          /\ UNCHANGED <<use, closed, closeMutex, freed>>
      BY <1>3, <2>2 DEF ThreadStep, Leave, Goes
    <3>2. Busy' = Busy \ {t} /\ t \in Busy BY <3>1 DEF Busy, CloseInv
    <3>3. active' = Cardinality(Busy')
      <4>1. Cardinality(Busy \ {t}) = Cardinality(Busy) - 1 BY <1>1, <3>2, FS_RemoveElement
      <4> QED BY <3>1, <3>2, <4>1 DEF CloseInv
    <3>4. Early' \subseteq Early
      <4>1. \A u \in Busy' : call'[u] = call[u] /\ u \in Busy BY <3>1, <3>2 DEF CloseInv, Busy
      <4> QED BY <4>1 DEF Early
    <3>5. call' \in [Threads -> Calls] /\ pc' \in [Threads -> Places]
      <4>1. NoCall \in Calls BY DEF NoCall, Calls
      <4> QED BY <3>1, <4>1 DEF CloseInv, Places
    <3>6. /\ cpc' \in [Closers -> {"idle", "begin", "drain", "wait", "closed"}]
          /\ \A c \in Closers : /\ cpc'[c] = "closed" => cpc[c] = "closed"
                                /\ cpc'[c] \in {"drain", "wait"} => cpc[c] \in {"drain", "wait"}
      BY <3>1 DEF CloseInv
    <3> QED BY <3>1, <3>3, <3>4, <3>5, <3>6 DEF CloseInv
  <2> QED BY <1>3, <2>1, <2>2, InsideStep
<1>4. ASSUME NEW c \in Closers,
             BeginClose(c) \/ BeginDestroy(c) \/ CloserStep(c)
      PROVE  CloseInv'
  <2>1. UNCHANGED <<use, active, call, pc>>
    BY <1>4 DEF BeginClose, BeginDestroy, CloserStep, CloseSection, Drain, Free, callVars
  <2>2. Busy' = Busy /\ Early' = Early BY <2>1 DEF Busy, Early
  <2>3. CASE BeginClose(c) \/ BeginDestroy(c)
    <3>1. cpc' = [cpc EXCEPT ![c] = "begin"] /\ UNCHANGED <<closed, closeMutex, freed>>
      BY <2>3 DEF BeginClose, BeginDestroy
    <3> QED BY <2>1, <2>2, <3>1 DEF CloseInv
  <2>4. CASE CloseSection(c)
    <3>1. closeMutex = {} /\ closed' = TRUE /\ freed' = freed
      BY <2>4 DEF CloseSection
    <3>2. CASE closed
      <4>1. cpc' = [cpc EXCEPT ![c] = "closed"] /\ closeMutex' = closeMutex
        BY <2>4, <3>2 DEF CloseSection
      <4> QED BY <2>1, <2>2, <3>1, <3>2, <4>1 DEF CloseInv
    <3>3. CASE ~closed
      <4>1. cpc' = [cpc EXCEPT ![c] = "drain"] /\ closeMutex' = {c}
        BY <2>4, <3>3 DEF CloseSection
      <4> QED BY <2>1, <2>2, <3>1, <3>3, <4>1 DEF CloseInv
    <3> QED BY <3>2, <3>3
  <2>5. CASE Drain(c)
    <3>1. cpc[c] = "drain" /\ UNCHANGED <<closed, freed>> BY <2>5 DEF Drain
    <3>2. CASE active > 0
      <4>1. cpc' = [cpc EXCEPT ![c] = "wait"] /\ closeMutex' = closeMutex
        BY <2>5, <3>2 DEF Drain
      <4> QED BY <2>1, <2>2, <3>1, <4>1 DEF CloseInv
    <3>3. CASE ~(active > 0)
      <4>1. cpc' = [cpc EXCEPT ![c] = "closed"] /\ closeMutex' = {}
        BY <2>5, <3>3 DEF Drain
      <4>2. Cardinality(Busy) = 0 BY <1>1, <3>3 DEF CloseInv
      <4>3. Busy = {} BY <1>1, <4>2, FS_EmptySet
      <4>4. Early = {} BY <4>3 DEF Early
      <4>5. \A d \in Closers : cpc[d] \in {"drain", "wait"} => d = c BY <3>1 DEF CloseInv
      <4> QED BY <2>1, <2>2, <3>1, <4>1, <4>4, <4>5 DEF CloseInv
    <3> QED BY <3>2, <3>3
  <2>6. CASE Free(c)
    <3>1. cpc[c] = "closed" /\ UNCHANGED <<closed, cpc, closeMutex>> BY <2>6 DEF Free
    <3> QED BY <2>1, <2>2, <3>1 DEF CloseInv
  <2> QED BY <1>4, <2>3, <2>4, <2>5, <2>6 DEF CloserStep
<1>5. CASE UNCHANGED vars
  <2>1. Busy' = Busy /\ Early' = Early BY <1>5 DEF Busy, Early, vars, callVars
  <2> QED BY <1>5, <2>1 DEF CloseInv, vars, callVars, closeVars
<1> QED BY <1>2, <1>3, <1>4, <1>5 DEF Next, Finished

(* blocking_queue_destroy frees bq->queue only when every call that began  *)
(* before the close has returned, however many threads close the queue and *)
(* whatever calls keep coming.                                             *)
THEOREM FreedWhenDrained == Spec => []FreeWaitsForCallers
<1>1. CloseInv => FreeWaitsForCallers BY DEF CloseInv, FreeWaitsForCallers, Early, Busy
<1> QED BY <1>1, CloseInit, CloseNext, PTL DEF Spec

-----------------------------------------------------------------------------
(* What the steps have in common.                                          *)

Refused(t) == t \in fl[Side(t)].abandoned

(* Nobody but t can tell that t took a step.                               *)
Frame(t) ==
  \A u \in Threads \ {t} :
    /\ pc'[u] = pc[u] /\ call'[u] = call[u] /\ ret'[u] = ret[u]
    /\ pc[u] = "queued" => (Refused(u)' <=> Refused(u))

LEMMA OthersSame ==
  ASSUME NEW t \in Threads, Frame(t)
  PROVE  \A u \in Threads \ {t} : Same(u)
<1> SUFFICES ASSUME NEW u \in Threads \ {t} PROVE Same(u) OBVIOUS
<1>1. /\ pc'[u] = pc[u] /\ call'[u] = call[u] /\ ret'[u] = ret[u]
      /\ pc[u] = "queued" => (Refused(u)' <=> Refused(u))
  BY DEF Frame
<1>2. Side(u)' = Side(u) /\ Refusal(u)' = Refusal(u) BY <1>1 DEF Side, Refusal
<1>3. Abandoned(u)' <=> Abandoned(u) BY <1>1 DEF Abandoned, Refused
<1>4. Answered(u)' <=> Answered(u) BY <1>1, <1>3 DEF Answered
<1>5. RequestOf(u)' = RequestOf(u) BY <1>1 DEF RequestOf
<1>6. StatusOf(u)' = StatusOf(u) BY <1>1, <1>4 DEF StatusOf
<1>7. AnswerOf(u)' = AnswerOf(u) BY <1>1, <1>2, <1>3 DEF AnswerOf
<1> QED BY <1>5, <1>6, <1>7 DEF Same

(* A thread's answer is settled when it is at "unlock" or "leave", or when *)
(* its weak lock was abandoned.                                            *)
LEMMA Views ==
  ASSUME NEW t \in Threads
  PROVE  /\ pc[t] \in {"lock", "enter", "refuse", "cond"} => StatusOf(t) = "pending"
         /\ pc[t] = "queued" /\ ~Refused(t) => StatusOf(t) = "pending"
         /\ pc[t] = "queued" /\ Refused(t) =>
              /\ StatusOf(t) = "answered"
              /\ AnswerOf(t) = [code |-> Refusal(t), elem |-> NoElement]
         /\ pc[t] \in {"unlock", "leave"} => StatusOf(t) = "answered"
         /\ pc[t] = "idle" => StatusOf(t) = "idle"
         /\ pc[t] # "queued" \/ ~Refused(t) => AnswerOf(t) = ret[t]
BY DEF StatusOf, AnswerOf, Answered, Abandoned, Refused

(* The same after a step.                                                  *)
LEMMA ViewsNext ==
  ASSUME NEW t \in Threads
  PROVE  /\ pc'[t] \in {"lock", "enter", "refuse", "cond"} => StatusOf(t)' = "pending"
         /\ pc'[t] = "queued" /\ ~Refused(t)' => StatusOf(t)' = "pending"
         /\ pc'[t] = "queued" /\ Refused(t)' =>
              /\ StatusOf(t)' = "answered"
              /\ AnswerOf(t)' = [code |-> Refusal(t)', elem |-> NoElement]
         /\ pc'[t] \in {"unlock", "leave"} => StatusOf(t)' = "answered"
         /\ pc'[t] = "idle" => StatusOf(t)' = "idle"
         /\ pc'[t] # "queued" \/ ~Refused(t)' => AnswerOf(t)' = ret'[t]
BY DEF StatusOf, AnswerOf, Answered, Abandoned, Refused

(* How a step of t changes who waits for and who has the fair locks.       *)
HoldPlaces == {"enter", "refuse", "cond", "unlock"}

Moved(t, to) ==
  \A s \in Sides :
    IF s # Side(t)
    THEN QueuedAt(s)' = QueuedAt(s) /\ WeakAt(s)' = WeakAt(s) /\ HoldersOf(s)' = HoldersOf(s)
    ELSE /\ QueuedAt(s)' = IF to = "queued" THEN QueuedAt(s) \cup {t} ELSE QueuedAt(s) \ {t}
         /\ WeakAt(s)' = IF to = "queued" /\ Async(t) THEN WeakAt(s) \cup {t}
                                                      ELSE WeakAt(s) \ {t}
         /\ HoldersOf(s)' = IF to \in HoldPlaces THEN HoldersOf(s) \cup {t}
                                                 ELSE HoldersOf(s) \ {t}

LEMMA Moves ==
  ASSUME CallInv, NEW t \in Threads, NEW to, Goes(t, to), call' = call
  PROVE  Moved(t, to)
<1>1. \A u \in Threads : pc'[u] = IF u = t THEN to ELSE pc[u] BY DEF CallInv, Goes
<1>2. \A u \in Threads : Side(u)' = Side(u) /\ (Async(u)' <=> Async(u)) BY DEF Side, Async
<1>3. \A s : QueuedAt(s)' = {u \in Threads : pc'[u] = "queued" /\ Side(u) = s}
  BY <1>2 DEF QueuedAt
<1>4. \A s : WeakAt(s)' = {u \in QueuedAt(s)' : Async(u)}
  <2>1. \A s : \A u \in QueuedAt(s)' : u \in Threads BY DEF QueuedAt
  <2> QED BY <1>2, <2>1 DEF WeakAt
<1>5. \A s : HoldersOf(s)' = {u \in Threads : pc'[u] \in HoldPlaces /\ Side(u) = s}
  BY <1>2 DEF HoldersOf, HoldPlaces
<1>6. ASSUME NEW s \in Sides, s # Side(t)
      PROVE  QueuedAt(s)' = QueuedAt(s) /\ WeakAt(s)' = WeakAt(s) /\ HoldersOf(s)' = HoldersOf(s)
  <2>1. QueuedAt(s)' = QueuedAt(s) BY <1>1, <1>3, <1>6 DEF QueuedAt
  <2>2. WeakAt(s)' = WeakAt(s) BY <1>4, <2>1 DEF WeakAt
  <2>3. HoldersOf(s)' = HoldersOf(s) BY <1>1, <1>5, <1>6 DEF HoldersOf, HoldPlaces
  <2> QED BY <2>1, <2>2, <2>3
<1>7. ASSUME NEW s \in Sides, s = Side(t)
      PROVE  /\ QueuedAt(s)' = IF to = "queued" THEN QueuedAt(s) \cup {t} ELSE QueuedAt(s) \ {t}
             /\ WeakAt(s)' = IF to = "queued" /\ Async(t) THEN WeakAt(s) \cup {t}
                                                          ELSE WeakAt(s) \ {t}
             /\ HoldersOf(s)' = IF to \in HoldPlaces THEN HoldersOf(s) \cup {t}
                                                     ELSE HoldersOf(s) \ {t}
  <2>1. QueuedAt(s)' = IF to = "queued" THEN QueuedAt(s) \cup {t} ELSE QueuedAt(s) \ {t}
    BY <1>1, <1>3, <1>7 DEF QueuedAt
  <2>2. WeakAt(s)' = IF to = "queued" /\ Async(t) THEN WeakAt(s) \cup {t} ELSE WeakAt(s) \ {t}
    <3>1. CASE to = "queued" BY <1>4, <2>1, <3>1 DEF WeakAt
    <3>2. CASE to # "queued" BY <1>4, <2>1, <3>2 DEF WeakAt
    <3> QED BY <3>1, <3>2
  <2>3. HoldersOf(s)' = IF to \in HoldPlaces THEN HoldersOf(s) \cup {t} ELSE HoldersOf(s) \ {t}
    BY <1>1, <1>5, <1>7 DEF HoldersOf, HoldPlaces
  <2> QED BY <2>1, <2>2, <2>3
<1> QED BY <1>6, <1>7 DEF Moved

LEMMA SideType == \A t : Side(t) \in Sides
BY DEF Side, Sides

LEMMA LocksStep ==
  ASSUME CallInv, LocksInv, NEW s \in Sides, NEW m, SetLock(s, m),
         \A r \in Sides \ {s} :
           /\ QueuedAt(r)' = QueuedAt(r) /\ WeakAt(r)' = WeakAt(r)
           /\ HoldersOf(r)' = HoldersOf(r) /\ weakBlocked'[r] = weakBlocked[r],
         LockOK(m, QueuedAt(s)', WeakAt(s)', HoldersOf(s)'), weakBlocked'[s] <=> m.blockWeak
  PROVE  LocksInv' /\ fl' \in [Sides -> FairLockType]
<1>1. fl' = [fl EXCEPT ![s] = m] BY DEF SetLock
<1>2. \A r \in Sides : fl'[r] = IF r = s THEN m ELSE fl[r] BY <1>1 DEF CallInv
<1>3. m \in FairLockType BY DEF LockOK
<1>4. ASSUME NEW r \in Sides
      PROVE  /\ LockOK(fl'[r], QueuedAt(r)', WeakAt(r)', HoldersOf(r)')
             /\ weakBlocked'[r] <=> fl'[r].blockWeak
  <2>1. CASE r = s BY <1>2, <2>1, Zenon
  <2>2. CASE r # s BY <1>2, <2>2, Zenon DEF LocksInv
  <2> QED BY <2>1, <2>2
<1> QED BY <1>1, <1>3, <1>4 DEF LocksInv, LockOK, CallInv, EntriesInUse

LEMMA RefusalsStep ==
  ASSUME CallInv, NEW s \in Sides, NEW t \in Threads, NEW m, SetLock(s, m), call' = call,
         m.abandoned \ {t} = fl[s].abandoned \ {t}
  PROVE  \A u \in Threads \ {t} : Refused(u)' <=> Refused(u)
<1> SUFFICES ASSUME NEW u \in Threads \ {t} PROVE Refused(u)' <=> Refused(u) OBVIOUS
<1>1. Side(u)' = Side(u) /\ Side(u) \in Sides BY SideType DEF Side
<1>2. fl'[Side(u)] = IF Side(u) = s THEN m ELSE fl[Side(u)] BY <1>1 DEF CallInv, SetLock
<1>3. u \in fl'[Side(u)].abandoned <=> u \in fl[Side(u)].abandoned
  <2>1. CASE Side(u) = s BY <1>2, <2>1
  <2>2. CASE Side(u) # s BY <1>2, <2>2
  <2> QED BY <2>1, <2>2
<1> QED BY <1>1, <1>3 DEF Refused

(* A step of t outside bq->mutex.                                          *)
Outside(t) ==
  /\ pc[t] \notin {"cond", "refuse"}
  /\ \E to \in Places \ {"cond", "refuse"} : Goes(t, to)
  /\ UNCHANGED <<use, bufVars, weakBlocked, condWaiters, mutex, closed, call>>

LEMMA OutsideStuck ==
  ASSUME QueueInv, NEW t \in Threads, Outside(t)
  PROVE  StuckInv'
<1>1. PICK to \in Places \ {"cond", "refuse"} : pc' = [pc EXCEPT ![t] = to]
  BY DEF Outside, Goes
<1>2. \A u \in Threads : pc[u] \in {"cond", "refuse"} \/ pc'[u] \in {"cond", "refuse"} =>
                           u # t /\ pc'[u] = pc[u]
  BY <1>1 DEF Outside, QueueInv, CallInv
<1>3. /\ \A u \in Threads : Side(u)' = Side(u) /\ (Async(u)' <=> Async(u))
      /\ \A s : Stuck(s)' <=> Stuck(s)
      /\ Boundless' <=> Boundless
      /\ \A u \in Threads : Grows(u)' <=> Grows(u)
  BY DEF Outside, Side, Async, Stuck, Boundless, Grows, bufVars
<1>4. condWaiters' = condWaiters /\ mutex' = mutex /\ weakBlocked' = weakBlocked
      /\ closed' = closed
  BY DEF Outside
<1>5. condWaiters \subseteq Threads /\ mutex \subseteq Threads BY DEF QueueInv, CallInv
<1> QED BY <1>2, <1>3, <1>4, <1>5 DEF StuckInv, QueueInv

LEMMA RingKept ==
  ASSUME QueueInv, UNCHANGED <<use, bufVars>>
  PROVE  RingInv' /\ Items' = Items
BY DEF QueueInv, RingInv, Items, bufVars, Boundless

(* Why whoever is refused is told the truth.                               *)
LEMMA StuckIs ==
  ASSUME QueueInv, NEW s \in Sides, Stuck(s), s = "add" => ~Boundless
  PROVE  /\ s = "add" => use.bound # 0 /\ Len(Items) >= use.bound
         /\ s = "get" => Items = <<>>
<1>1. Items \in Seq(Elements \cup {NoElement}) /\ Len(Items) = size
  BY ItemsAre DEF QueueInv, ItemsAt
<1>2. ~Boundless => capacity = use.bound BY DEF QueueInv, RingInv
<1>3. use.bound \in Nat BY DEF QueueInv, CallInv
<1>4. CASE s = "add"
  <2>1. size = capacity /\ ~Boundless BY <1>4 DEF Stuck
  <2> QED BY <1>1, <1>2, <1>3, <1>4, <2>1 DEF Boundless
<1>5. CASE s = "get"
  <2>1. Len(Items) = 0 BY <1>1, <1>5 DEF Stuck
  <2> QED BY <1>1, <1>5, <2>1
<1> QED BY <1>4, <1>5 DEF Sides

LEMMA RefuseStep ==
  ASSUME QueueInv, NEW s \in Sides, Stuck(s), s = "add" => ~Boundless,
         NEW S \in SUBSET Threads, S # {}, closed => \E t \in Threads : S = {t},
         \A t \in S : /\ pc[t] # "idle" /\ Side(t) = s /\ Async(t)
                      /\ StatusOf(t) = "pending" /\ StatusOf(t)' = "answered"
                      /\ AnswerOf(t)' = [code |-> Refusal(t), elem |-> NoElement]
                      /\ RequestOf(t)' = RequestOf(t),
         \A t \in Threads \ S : Same(t), Items' = Items, UNCHANGED <<use, closed>>
  PROVE  Refines
<1> DEFINE code == IF s = "add" THEN "BQ_FULL" ELSE "BQ_EMPTY"
<1>1. \A t \in S : Refusal(t) = code BY DEF Refusal
<1> HIDE DEF code
<1>2. Contract!Answer(S, code, NoElement) BY <1>1, AnswerStep
<1>3. \A t \in S : call[t].kind \in Kinds BY DEF QueueInv, CallInv
<1>4. \A t \in S : RequestOf(t).kind = IF s = "add" THEN "add" ELSE "poll"
  BY <1>3 DEF Side, Async, RequestOf, Sides, Kinds
<1>5. \A t \in S : [u \in Threads |-> RequestOf(u)][t].kind = IF s = "add" THEN "add" ELSE "poll"
  BY <1>4
<1>8. CASE closed
  <2>1. PICK t \in Threads : S = {t} BY <1>8
  <2>2. [u \in Threads |-> RequestOf(u)][t].kind = IF s = "add" THEN "add" ELSE "poll"
    BY <1>5, <2>1
  <2>3. IF s = "add" THEN Contract!Full ELSE Items = <<>>
    BY StuckIs DEF Contract!Full, Sides
  <2>4. Contract!Answer({t}, IF s = "add" THEN "BQ_FULL" ELSE "BQ_EMPTY", NoElement)
    BY <1>2, <2>1 DEF code
  <2>5. Contract!RefuseLate(t)
    BY <1>8, <2>2, <2>3, <2>4 DEF Contract!RefuseLate, RequestOf, Sides
  <2> QED BY <2>5 DEF Refines, Contract!Next, Contract!Step
<1>6. CASE ~closed /\ s = "add"
  <2>1. Contract!Full BY <1>6, StuckIs DEF Contract!Full
  <2>2. Contract!RefuseFull(S)
    BY <1>2, <1>5, <1>6, <2>1 DEF Contract!RefuseFull, RequestOf, code
  <2> QED BY <2>2 DEF Refines, Contract!Next, Contract!Step
<1>7. CASE ~closed /\ s = "get"
  <2>1. Items = <<>> BY <1>7, StuckIs
  <2>2. Contract!RefuseEmpty(S)
    BY <1>2, <1>5, <1>7, <2>1 DEF Contract!RefuseEmpty, RequestOf, code
  <2> QED BY <2>2 DEF Refines, Contract!Next, Contract!Step
<1> QED BY <1>6, <1>7, <1>8 DEF Sides

-----------------------------------------------------------------------------
(* One lemma per step: the invariant holds after it, and the contract      *)
(* takes a step or none.                                                   *)

LEMMA QueueInit == Init => QueueInv /\ Contract!Init
<1> SUFFICES ASSUME Init PROVE QueueInv /\ Contract!Init OBVIOUS
<1>1. /\ use \in Uses /\ size = 0 /\ front = 0 /\ rear = capacity - 1
      /\ queue = [i \in 0..(capacity - 1) |-> NoElement]
      /\ capacity = IF Boundless THEN 1 ELSE use.bound
      /\ fl = [s \in Sides |-> fair_lock_init] /\ weakBlocked = [s \in Sides |-> FALSE]
      /\ mutex = {} /\ condWaiters = {} /\ ~closed /\ closed = FALSE
  BY DEF Init, blocking_queue_init, Sides
<1>2. capacity \in Nat \ {0} /\ use.bound \in Nat BY <1>1 DEF Boundless
<1>3. \A t \in Threads : pc[t] = "idle" /\ call[t] = NoCall /\ ret[t] = NoRet BY DEF Init
<1>4. CallInv
  <2>1. NoCall \in Calls /\ NoRet \in Rets BY DEF NoCall, NoRet, Calls, Rets
  <2>2. pc \in [Threads -> Places] BY DEF Init, Places
  <2>3. call \in [Threads -> Calls] /\ ret \in [Threads -> Rets] BY <2>1 DEF Init
  <2>4. fair_lock_init \in FairLockType BY InitOK DEF LockOK
  <2> QED BY <1>1, <1>3, <2>2, <2>3, <2>4 DEF CallInv
<1>5. RingInv BY <1>1, <1>2 DEF RingInv
<1>6. StuckInv BY <1>1, <1>3 DEF StuckInv
<1>7. LocksInv
  <2>1. \A s \in Sides : QueuedAt(s) = {} /\ WeakAt(s) = {} /\ HoldersOf(s) = {}
    BY <1>3 DEF QueuedAt, WeakAt, HoldersOf
  <2>2. \A s \in Sides : fl[s] = fair_lock_init /\ ~weakBlocked[s] BY <1>1
  <2> QED BY <2>1, <2>2, InitOK DEF LocksInv
<1>8. Items = <<>> BY <1>1 DEF Items
<1>9. \A t \in Threads : ~Abandoned(t) BY <1>3 DEF Abandoned
<1>10. \A t \in Threads : StatusOf(t) = "idle" /\ AnswerOf(t) = NoRet
                          /\ RequestOf(t) = [kind |-> "none", elem |-> NoElement]
  BY <1>3, <1>9 DEF StatusOf, AnswerOf, RequestOf, NoCall
<1>11. /\ [t \in Threads |-> StatusOf(t)] = [t \in Threads |-> "idle"]
       /\ [t \in Threads |-> AnswerOf(t)] = [t \in Threads |-> NoRet]
       /\ [t \in Threads |-> RequestOf(t)] =
            [t \in Threads |-> [kind |-> "none", elem |-> NoElement]]
  BY <1>10
<1>12. Contract!Init
  BY <1>1, <1>2, <1>8, <1>11
  DEF Contract!Init, Contract!NoRequest, Contract!NoAnswer, NoRet, StatusOf, AnswerOf, RequestOf
<1> QED BY <1>4, <1>5, <1>6, <1>7, <1>12 DEF QueueInv

(* A call that begins or ends waits for and holds no fair lock.            *)
LEMMA EdgeKeeps ==
  ASSUME QueueInv, NEW t \in Threads, pc[t] \in {"idle", "leave"},
         NEW to \in {"idle", "lock"}, Goes(t, to), NEW c \in Calls, call' = [call EXCEPT ![t] = c],
         UNCHANGED <<use, bufVars, fl, weakBlocked, condWaiters, mutex, closed>>
  PROVE  RingInv' /\ StuckInv' /\ LocksInv' /\ Items' = Items
<1>1. \A u \in Threads : /\ pc'[u] = IF u = t THEN to ELSE pc[u]
                         /\ u # t => call'[u] = call[u]
  BY DEF QueueInv, CallInv, Goes
<1>2. \A u \in Threads \ {t} : /\ Side(u)' = Side(u) /\ (Async(u)' <=> Async(u))
                               /\ Grows(u)' <=> Grows(u)
  BY <1>1 DEF Side, Async, Grows, Boundless
<1>3. \A s : Stuck(s)' <=> Stuck(s) BY DEF Stuck, bufVars
<1>4. \A s \in Sides : QueuedAt(s)' = QueuedAt(s) BY <1>1, <1>2 DEF QueuedAt
<1>5. \A s \in Sides : WeakAt(s)' = WeakAt(s)
  <2>1. \A s \in Sides : \A u \in QueuedAt(s) : u \in Threads \ {t} BY DEF QueuedAt
  <2> QED BY <1>2, <1>4, <2>1 DEF WeakAt
<1>6. \A s \in Sides : HoldersOf(s)' = HoldersOf(s) BY <1>1, <1>2 DEF HoldersOf
<1>7. LocksInv' BY <1>4, <1>5, <1>6 DEF LocksInv, QueueInv
<1>8. StuckInv'
  <2>1. \A u \in Threads : pc[u] \in {"cond", "refuse"} \/ pc'[u] \in {"cond", "refuse"} =>
                             u # t /\ pc'[u] = pc[u]
    BY <1>1
  <2>2. condWaiters \subseteq Threads /\ mutex \subseteq Threads BY DEF QueueInv, CallInv
  <2>3. Boundless' <=> Boundless BY DEF Boundless
  <2> QED BY <1>2, <1>3, <2>1, <2>2, <2>3 DEF StuckInv, QueueInv
<1> QED BY <1>7, <1>8, RingKept

LEMMA CallStep ==
  ASSUME QueueInv, NEW t \in Threads, NEW kind \in use.kinds,
         NEW e \in Elements \cup {NoElement}, Call(t, kind, e), closed \in BOOLEAN
  PROVE  QueueInv' /\ Refines
<1> DEFINE c == [kind |-> kind, elem |-> e, late |-> closed]
<1>1. /\ pc[t] = "idle" /\ Goes(t, "lock") /\ call' = [call EXCEPT ![t] = c]
      /\ UNCHANGED <<use, bufVars, fl, weakBlocked, condWaiters, mutex, closed, ret>>
  BY DEF Call
<1>2. kind \in Kinds /\ (e = NoElement <=> kind \in {"poll", "take"})
  BY DEF Call, QueueInv, CallInv, Kinds
<1>3. c \in Calls /\ c.kind = kind /\ c.elem = e BY <1>2 DEF Calls
<1> HIDE DEF c
<1>4. RingInv' /\ StuckInv' /\ LocksInv' /\ Items' = Items BY <1>1, <1>3, EdgeKeeps
<1>5. \A u \in Threads : /\ pc'[u] = IF u = t THEN "lock" ELSE pc[u]
                         /\ call'[u] = IF u = t THEN c ELSE call[u]
  BY <1>1 DEF QueueInv, CallInv, Goes
<1>6. CallInv'
  <2>1. pc' \in [Threads -> Places] /\ call' \in [Threads -> Calls]
    BY <1>1, <1>3 DEF QueueInv, CallInv, Goes, Places
  <2> QED BY <1>1, <1>2, <1>3, <1>5, <2>1 DEF QueueInv, CallInv
<1>7. Frame(t)
  <2>1. \A u \in Threads \ {t} : Refused(u)' <=> Refused(u) BY <1>1, <1>5 DEF Refused, Side
  <2> QED BY <1>1, <1>5, <2>1 DEF Frame
<1>8. \A u \in Threads \ {t} : Same(u) BY <1>7, OthersSame
<1>9. /\ StatusOf(t) = "idle" /\ StatusOf(t)' = "pending"
      /\ AnswerOf(t) = ret[t] /\ AnswerOf(t)' = ret[t]
  <2>1. StatusOf(t) = "idle" /\ AnswerOf(t) = ret[t] BY <1>1, Views
  <2>2. pc'[t] = "lock" BY <1>5
  <2>3. StatusOf(t)' = "pending" /\ AnswerOf(t)' = ret'[t] BY <2>2, ViewsNext
  <2> QED BY <1>1, <2>1, <2>3
<1>10. RequestOf(t)' = [kind |-> kind, elem |-> e] BY <1>3, <1>5 DEF RequestOf
<1>11. [u \in Threads |-> StatusOf(u)]' =
         [[u \in Threads |-> StatusOf(u)] EXCEPT ![t] = "pending"]
  BY <1>8, <1>9 DEF Same
<1>12. [u \in Threads |-> RequestOf(u)]' =
         [[u \in Threads |-> RequestOf(u)] EXCEPT ![t] = [kind |-> kind, elem |-> e]]
  BY <1>8, <1>10 DEF Same
<1>13. [u \in Threads |-> AnswerOf(u)]' = [u \in Threads |-> AnswerOf(u)]
  BY <1>8, <1>9 DEF Same
<1>14. [u \in Threads |-> StatusOf(u)][t] = "idle" BY <1>9
<1>15. Contract!Invoke(t, kind, e)
  BY <1>1, <1>2, <1>4, <1>11, <1>12, <1>13, <1>14
  DEF Contract!Invoke, Contract!Getting, StatusOf, RequestOf, AnswerOf
<1>16. Refines
  BY <1>1, <1>2, <1>15
  DEF Refines, Contract!Next, Contract!Step, Contract!Adding, Contract!Getting, Kinds
<1> QED BY <1>4, <1>6, <1>16 DEF QueueInv

LEMMA LeaveStep ==
  ASSUME QueueInv, NEW t \in Threads, Leave(t), use' = use
  PROVE  QueueInv' /\ Refines
<1>1. /\ pc[t] = "leave" /\ Goes(t, "idle") /\ call' = [call EXCEPT ![t] = NoCall]
      /\ ret' = [ret EXCEPT ![t] = NoRet]
      /\ UNCHANGED <<use, bufVars, fl, weakBlocked, condWaiters, mutex, closed>>
  BY DEF Leave
<1>2. NoCall \in Calls /\ NoRet \in Rets BY DEF NoCall, NoRet, Calls, Rets
<1>3. RingInv' /\ StuckInv' /\ LocksInv' /\ Items' = Items BY <1>1, <1>2, EdgeKeeps
<1>4. \A u \in Threads : /\ pc'[u] = IF u = t THEN "idle" ELSE pc[u]
                         /\ call'[u] = IF u = t THEN NoCall ELSE call[u]
                         /\ ret'[u] = IF u = t THEN NoRet ELSE ret[u]
  BY <1>1 DEF QueueInv, CallInv, Goes
<1>5. CallInv'
  <2>1. pc' \in [Threads -> Places] /\ call' \in [Threads -> Calls] /\ ret' \in [Threads -> Rets]
    BY <1>1, <1>2 DEF QueueInv, CallInv, Goes, Places
  <2> QED BY <1>1, <1>4, <2>1 DEF QueueInv, CallInv
<1>6. Frame(t)
  <2>1. \A u \in Threads \ {t} : Refused(u)' <=> Refused(u) BY <1>1, <1>4 DEF Refused, Side
  <2> QED BY <1>4, <2>1 DEF Frame
<1>7. \A u \in Threads \ {t} : Same(u) BY <1>6, OthersSame
<1>8. StatusOf(t) = "answered" /\ StatusOf(t)' = "idle" /\ AnswerOf(t)' = NoRet
  <2>1. StatusOf(t) = "answered" BY <1>1, Views
  <2>2. pc'[t] = "idle" /\ ret'[t] = NoRet BY <1>4
  <2>3. StatusOf(t)' = "idle" /\ AnswerOf(t)' = ret'[t] BY <2>2, ViewsNext
  <2> QED BY <2>1, <2>2, <2>3
<1>9. RequestOf(t)' = [kind |-> "none", elem |-> NoElement] BY <1>4 DEF RequestOf, NoCall
<1>10. [u \in Threads |-> StatusOf(u)]' = [[u \in Threads |-> StatusOf(u)] EXCEPT ![t] = "idle"]
  BY <1>7, <1>8 DEF Same
<1>11. [u \in Threads |-> RequestOf(u)]' =
         [[u \in Threads |-> RequestOf(u)] EXCEPT ![t] = [kind |-> "none", elem |-> NoElement]]
  BY <1>7, <1>9 DEF Same
<1>12. [u \in Threads |-> AnswerOf(u)]' = [[u \in Threads |-> AnswerOf(u)] EXCEPT ![t] = NoRet]
  BY <1>7, <1>8 DEF Same
<1>13. [u \in Threads |-> StatusOf(u)][t] = "answered" BY <1>8
<1>14. Contract!Return(t)
  BY <1>1, <1>3, <1>10, <1>11, <1>12, <1>13
  DEF Contract!Return, Contract!NoRequest, Contract!NoAnswer, NoRet, StatusOf, RequestOf, AnswerOf
<1>15. Refines BY <1>1, <1>14 DEF Refines, Contract!Next, Contract!Step
<1> QED BY <1>3, <1>5, <1>15 DEF QueueInv

(* A step of t outside bq->mutex that sets its side's fair lock to m.      *)
LEMMA OutsideStep ==
  ASSUME QueueInv, NEW t \in Threads, pc[t] \in {"lock", "queued", "unlock"},
         NEW to \in {"queued", "enter", "leave"}, Goes(t, to),
         NEW s \in Sides, s = Side(t), NEW m, SetLock(s, m),
         LockOK(m, QueuedAt(s)', WeakAt(s)', HoldersOf(s)'), m.blockWeak <=> fl[s].blockWeak,
         m.abandoned \ {t} = fl[s].abandoned \ {t},
         ret' \in [Threads -> Rets], \A u \in Threads \ {t} : ret'[u] = ret[u],
         UNCHANGED <<use, bufVars, weakBlocked, condWaiters, mutex, closed, call>>
  PROVE  QueueInv' /\ Items' = Items /\ \A u \in Threads \ {t} : Same(u)
<1>1. CallInv /\ LocksInv BY DEF QueueInv
<1>2. Moved(t, to) BY <1>1, Moves
<1>3. weakBlocked'[s] <=> m.blockWeak BY <1>1 DEF LocksInv
<1>4. \A r \in Sides \ {s} :
        /\ QueuedAt(r)' = QueuedAt(r) /\ WeakAt(r)' = WeakAt(r)
        /\ HoldersOf(r)' = HoldersOf(r) /\ weakBlocked'[r] = weakBlocked[r]
  BY <1>2 DEF Moved
<1>5. LocksInv' /\ fl' \in [Sides -> FairLockType] BY <1>1, <1>3, <1>4, LocksStep
<1>6. to \in Places \ {"cond", "refuse"} /\ pc[t] \notin {"cond", "refuse"} BY DEF Places
<1>7. Outside(t) BY <1>6 DEF Outside
<1>8. StuckInv' BY <1>7, OutsideStuck
<1>9. RingInv' /\ Items' = Items BY RingKept
<1>10. \A u \in Threads : pc'[u] = IF u = t THEN to ELSE pc[u] BY <1>1 DEF CallInv, Goes
<1>11. CallInv'
  <2>1. pc' \in [Threads -> Places] BY <1>1, <1>6 DEF CallInv, Goes
  <2>2. \A u \in Threads : pc'[u] # "idle" => pc[u] # "idle" BY <1>10
  <2> QED BY <1>1, <1>5, <2>1, <2>2 DEF CallInv
<1>12. \A u \in Threads \ {t} : Refused(u)' <=> Refused(u) BY <1>1, RefusalsStep
<1>13. Frame(t) BY <1>10, <1>12 DEF Frame
<1> QED BY <1>5, <1>8, <1>9, <1>11, <1>13, OthersSame DEF QueueInv

(* The thread of a side that a lock's refusal reaches.                     *)
LEMMA RefusedAt ==
  ASSUME QueueInv, NEW t \in Threads, NEW s \in Sides, s = Side(t), NEW m, SetLock(s, m),
         call' = call
  PROVE  /\ Refused(t) <=> t \in fl[s].abandoned
         /\ Refused(t)' <=> t \in m.abandoned
         /\ RequestOf(t)' = RequestOf(t) /\ Refusal(t)' = Refusal(t)
<1>1. Side(t)' = s BY DEF Side
<1>2. fl'[s] = m BY DEF SetLock, QueueInv, CallInv
<1> QED BY <1>1, <1>2 DEF Refused, RequestOf, Refusal

LEMMA LockStep ==
  ASSUME QueueInv, NEW t \in Threads, Lock(t), use' = use
  PROVE  QueueInv' /\ Refines
<1>s. PICK s \in Sides : s = Side(t) BY SideType
<1> DEFINE l == fl[s]
<1>0. UNCHANGED <<use, bufVars, weakBlocked, condWaiters, mutex, closed, call>> /\ pc[t] = "lock"
  BY DEF Lock
<1>1. s \in Sides /\ l \in FairLockType BY DEF QueueInv, CallInv
<1>2. LockOK(l, QueuedAt(s), WeakAt(s), HoldersOf(s)) /\ (weakBlocked[s] <=> l.blockWeak)
  BY <1>1 DEF QueueInv, LocksInv
<1>3. t \notin QueuedAt(s) /\ t \notin WeakAt(s) /\ t \notin HoldersOf(s) /\ t \notin l.abandoned
  <2>1. t \notin QueuedAt(s) /\ t \notin HoldersOf(s) BY <1>0 DEF QueuedAt, HoldersOf
  <2>2. t \notin WeakAt(s) BY <2>1 DEF WeakAt
  <2>3. t \notin l.abandoned BY <1>2, <2>1 DEF LockOK, EntriesInUse
  <2> QED BY <2>1, <2>2, <2>3
<1>4. s = Side(t) /\ l = fl[s] BY <1>s
<1>5. StatusOf(t) = "pending" /\ AnswerOf(t) = ret[t] BY <1>0, Views
<1>6. ret \in [Threads -> Rets] /\ Async(t) \in BOOLEAN BY DEF QueueInv, CallInv, Async
<1>7. ASSUME NEW to, Goes(t, to), to \in {"queued", "enter", "leave"}
      PROVE  pc'[t] = to /\ Moved(t, to)
  <2>1. pc'[t] = to BY <1>7 DEF QueueInv, CallInv, Goes
  <2>2. Moved(t, to) BY <1>0, <1>7, Moves DEF QueueInv
  <2> QED BY <2>1, <2>2
<1> DEFINE Refuses(code) == Goes(t, "leave") /\ Answers(t, code, NoElement) /\ UNCHANGED fl
<1>8. \/ RejectsWeak(l, Async(t)) /\ Refuses(Refusal(t))
      \/ ~MustWait(l) /\ SetLock(s, TakeFree(l)) /\ Goes(t, "enter") /\ UNCHANGED ret
      \/ SetLock(s, Enqueue(l, t, Async(t))) /\ Goes(t, "queued") /\ UNCHANGED ret
      \/ Refuses("BQ_ERROR")
  BY <1>s DEF Lock
<1>9. ASSUME NEW code \in Codes, Refuses(code)
      PROVE  /\ QueueInv' /\ Items' = Items /\ \A u \in Threads \ {t} : Same(u)
             /\ StatusOf(t)' = "answered" /\ AnswerOf(t)' = [code |-> code, elem |-> NoElement]
             /\ RequestOf(t)' = RequestOf(t)
  <2> DEFINE a == [code |-> code, elem |-> NoElement]
  <2>1. a \in Rets /\ ret' = [ret EXCEPT ![t] = a] BY <1>9 DEF Answers, Rets
  <2> HIDE DEF a
  <2>2. ret' \in [Threads -> Rets] /\ ret'[t] = a /\ \A u \in Threads \ {t} : ret'[u] = ret[u]
    BY <1>6, <2>1
  <2>3. SetLock(s, l)
    <3>1. fl = [fl EXCEPT ![s] = fl[s]] BY <1>1 DEF QueueInv, CallInv
    <3> QED BY <1>9, <3>1 DEF SetLock
  <2>4. pc'[t] = "leave" /\ Moved(t, "leave") BY <1>7, <1>9
  <2>5. QueuedAt(s)' = QueuedAt(s) /\ WeakAt(s)' = WeakAt(s) /\ HoldersOf(s)' = HoldersOf(s)
    <3>1. /\ QueuedAt(s)' = QueuedAt(s) \ {t} /\ WeakAt(s)' = WeakAt(s) \ {t}
          /\ HoldersOf(s)' = HoldersOf(s) \ {t}
      BY <1>s, <2>4 DEF Moved, HoldPlaces
    <3> QED BY <1>3, <3>1
  <2> HIDE DEF l
  <2>6. LockOK(l, QueuedAt(s)', WeakAt(s)', HoldersOf(s)') BY <1>2, <2>5
  <2>7. QueueInv' /\ Items' = Items /\ \A u \in Threads \ {t} : Same(u)
    BY <1>0, <1>1, <1>4, <1>9, <2>2, <2>3, <2>6, OutsideStep
  <2>8. StatusOf(t)' = "answered" /\ AnswerOf(t)' = ret'[t] BY <2>4, ViewsNext
  <2>9. RequestOf(t)' = RequestOf(t) BY <1>0 DEF RequestOf
  <2> QED BY <2>2, <2>7, <2>8, <2>9 DEF a
<1>10. ASSUME NEW m, SetLock(s, m), m.abandoned = l.abandoned,
              NEW to \in {"queued", "enter"}, Goes(t, to)
       PROVE  UNCHANGED ret => Same(t)
  <2>1. pc'[t] = to BY <1>7, <1>10
  <2>2. ~Refused(t)' /\ RequestOf(t)' = RequestOf(t)
    BY <1>0, <1>1, <1>3, <1>4, <1>10, RefusedAt
  <2>3. StatusOf(t)' = "pending" /\ AnswerOf(t)' = ret'[t] BY <2>1, <2>2, ViewsNext
  <2> QED BY <1>5, <2>2, <2>3 DEF Same
<1> HIDE DEF l
<1>11. CASE RejectsWeak(l, Async(t)) /\ Refuses(Refusal(t))
  <2>1. Refusal(t) \in Codes BY DEF Refusal, Codes
  <2>2. /\ QueueInv' /\ Items' = Items /\ \A u \in Threads \ {t} : Same(u)
        /\ StatusOf(t)' = "answered"
        /\ AnswerOf(t)' = [code |-> Refusal(t), elem |-> NoElement]
        /\ RequestOf(t)' = RequestOf(t)
    BY <1>9, <1>11, <2>1
  <2>3. Async(t) /\ weakBlocked[s] BY <1>2, <1>11 DEF RejectsWeak
  <2>4. Stuck(s) /\ (s = "add" => ~Boundless) BY <1>1, <2>3 DEF QueueInv, StuckInv
  <2> DEFINE S == {t}
  <2>5. S \in SUBSET Threads /\ S # {} /\ \E u \in Threads : S = {u} OBVIOUS
  <2>6. \A u \in S : /\ pc[u] # "idle" /\ Side(u) = s /\ Async(u)
                     /\ StatusOf(u) = "pending" /\ StatusOf(u)' = "answered"
                     /\ AnswerOf(u)' = [code |-> Refusal(u), elem |-> NoElement]
                     /\ RequestOf(u)' = RequestOf(u)
    BY <1>0, <1>4, <1>5, <2>2, <2>3
  <2>7. \A u \in Threads \ S : Same(u) BY <2>2
  <2> HIDE DEF S
  <2>8. Refines BY <1>0, <1>1, <2>2, <2>4, <2>5, <2>6, <2>7, RefuseStep
  <2> QED BY <2>2, <2>8
<1>12. CASE ~MustWait(l) /\ SetLock(s, TakeFree(l)) /\ Goes(t, "enter") /\ UNCHANGED ret
  <2> DEFINE m == TakeFree(l)
  <2>1. HoldersOf(s) = {} /\ LockOK(m, QueuedAt(s), WeakAt(s), {t}) /\ SameRefusals(l, m)
    BY <1>2, <1>12, TakeFreeOK
  <2>2. SetLock(s, m) BY <1>12
  <2> HIDE DEF m
  <2>3. Moved(t, "enter") BY <1>7, <1>12
  <2>4. QueuedAt(s)' = QueuedAt(s) /\ WeakAt(s)' = WeakAt(s) /\ HoldersOf(s)' = {t}
    <3>1. /\ QueuedAt(s)' = QueuedAt(s) \ {t} /\ WeakAt(s)' = WeakAt(s) \ {t}
          /\ HoldersOf(s)' = HoldersOf(s) \cup {t}
      BY <1>s, <2>3 DEF Moved, HoldPlaces
    <3> QED BY <1>3, <2>1, <3>1
  <2>5. LockOK(m, QueuedAt(s)', WeakAt(s)', HoldersOf(s)') BY <2>1, <2>4
  <2>6. m.abandoned = l.abandoned /\ (m.blockWeak <=> fl[s].blockWeak)
    BY <1>4, <2>1 DEF SameRefusals
  <2>7. QueueInv' /\ Items' = Items /\ \A u \in Threads \ {t} : Same(u)
    BY <1>0, <1>1, <1>4, <1>6, <1>12, <2>2, <2>5, <2>6, OutsideStep
  <2>8. Same(t) BY <1>10, <1>12, <2>2, <2>6
  <2>9. \A u \in Threads : Same(u) BY <2>7, <2>8
  <2>10. Refines BY <1>0, <2>7, <2>9, SilentStep
  <2> QED BY <2>7, <2>10
<1>13. CASE SetLock(s, Enqueue(l, t, Async(t))) /\ Goes(t, "queued") /\ UNCHANGED ret
  <2> DEFINE m == Enqueue(l, t, Async(t))
             V == WeakAt(s)'
  <2>1. Moved(t, "queued") BY <1>7, <1>13
  <2>2. /\ QueuedAt(s)' = QueuedAt(s) \cup {t} /\ HoldersOf(s)' = HoldersOf(s)
        /\ WeakAt(s) \subseteq V /\ (Async(t) => t \in V)
    BY <1>1, <1>3, <1>4, <2>1 DEF Moved, HoldPlaces
  <2> HIDE DEF V
  <2>3. LockOK(m, QueuedAt(s) \cup {t}, V, HoldersOf(s)) /\ SameRefusals(l, m)
    BY <1>2, <1>3, <1>6, <2>2, EnqueueOK
  <2>4. SetLock(s, m) BY <1>13
  <2> HIDE DEF m
  <2>5. LockOK(m, QueuedAt(s)', WeakAt(s)', HoldersOf(s)') BY <2>2, <2>3 DEF V
  <2>6. m.abandoned = l.abandoned /\ (m.blockWeak <=> fl[s].blockWeak)
    BY <1>4, <2>3 DEF SameRefusals
  <2>7. QueueInv' /\ Items' = Items /\ \A u \in Threads \ {t} : Same(u)
    BY <1>0, <1>1, <1>4, <1>6, <1>13, <2>4, <2>5, <2>6, OutsideStep
  <2>8. Same(t) BY <1>10, <1>13, <2>4, <2>6
  <2>9. \A u \in Threads : Same(u) BY <2>7, <2>8
  <2>10. Refines BY <1>0, <2>7, <2>9, SilentStep
  <2> QED BY <2>7, <2>10
<1>14. CASE Refuses("BQ_ERROR")
  <2>1. /\ QueueInv' /\ Items' = Items /\ \A u \in Threads \ {t} : Same(u)
        /\ StatusOf(t)' = "answered"
        /\ AnswerOf(t)' = [code |-> "BQ_ERROR", elem |-> NoElement]
        /\ RequestOf(t)' = RequestOf(t)
    BY <1>9, <1>14 DEF Codes
  <2>2. Contract!Answer({t}, "BQ_ERROR", NoElement) BY <1>0, <1>5, <2>1, AnswerStep
  <2>3. Refines
    BY <1>0, <2>1, <2>2 DEF Refines, Contract!Next, Contract!Step, Contract!Fail
  <2> QED BY <2>1, <2>3
<1> QED BY <1>8, <1>11, <1>12, <1>13, <1>14

LEMMA LockWakeStep ==
  ASSUME QueueInv, NEW t \in Threads, LockWake(t), use' = use
  PROVE  QueueInv' /\ Refines
<1>s. PICK s \in Sides : s = Side(t) BY SideType
<1> DEFINE l == fl[s]
<1>0. UNCHANGED <<use, bufVars, weakBlocked, condWaiters, mutex, closed, call>> /\ pc[t] = "queued"
  BY DEF LockWake
<1>1. LockOK(l, QueuedAt(s), WeakAt(s), HoldersOf(s)) BY DEF QueueInv, LocksInv
<1>2. ret \in [Threads -> Rets] BY DEF QueueInv, CallInv
<1>3. s = Side(t) /\ l = fl[s] BY <1>s
<1>4. t \notin HoldersOf(s) BY <1>0 DEF HoldersOf
<1>5. ASSUME NEW to, Goes(t, to)
      PROVE  pc'[t] = to /\ Moved(t, to)
  BY <1>0, <1>5, Moves DEF QueueInv, CallInv, Goes
<1>6. \/ /\ t \in l.signalled /\ SetLock(s, WakeAcquires(l, t)) /\ Goes(t, "enter")
         /\ UNCHANGED ret
      \/ /\ t \in l.abandoned /\ SetLock(s, WakeAbandoned(l, t)) /\ Goes(t, "leave")
         /\ Answers(t, Refusal(t), NoElement)
  BY <1>s DEF LockWake
<1> HIDE DEF l
<1>7. CASE /\ t \in l.signalled /\ SetLock(s, WakeAcquires(l, t)) /\ Goes(t, "enter")
           /\ UNCHANGED ret
  <2> DEFINE m == WakeAcquires(l, t)
             V == WeakAt(s)'
  <2>1. pc'[t] = "enter" /\ Moved(t, "enter") BY <1>5, <1>7
  <2>2. /\ QueuedAt(s)' = QueuedAt(s) \ {t} /\ HoldersOf(s)' = HoldersOf(s) \cup {t}
        /\ WeakAt(s) \ {t} \subseteq V
    BY <1>s, <2>1 DEF Moved, HoldPlaces
  <2> HIDE DEF V
  <2>3. HoldersOf(s) = {} /\ LockOK(m, QueuedAt(s) \ {t}, V, {t}) /\ SameRefusals(l, m)
    <3>1. t \in l.signalled /\ WeakAt(s) \ {t} \subseteq V BY <1>7, <2>2
    <3> DEFINE Q == QueuedAt(s)
               W == WeakAt(s)
               H == HoldersOf(s)
    <3>2. LockOK(l, Q, W, H) /\ W \ {t} \subseteq V BY <1>1, <3>1
    <3> HIDE DEF Q, W, H
    <3>3. /\ H = {} /\ LockOK(WakeAcquires(l, t), Q \ {t}, V, {t})
          /\ SameRefusals(l, WakeAcquires(l, t))
      <4>1. H = {} BY <3>1, <3>2 DEF LockOK
      <4>2. LockOK(WakeAcquires(l, t), Q \ {t}, V, {t}) BY <3>1, <3>2, WakeAcquiresOK
      <4>3. SameRefusals(l, WakeAcquires(l, t)) BY <3>1, <3>2, <4>2, WakeAcquiresOK
      <4> QED BY <4>1, <4>2, <4>3
    <3> QED BY <3>3 DEF Q, W, H
  <2>4. SetLock(s, m) BY <1>7
  <2> HIDE DEF m
  <2>5. LockOK(m, QueuedAt(s)', WeakAt(s)', HoldersOf(s)')
    <3>1. HoldersOf(s)' = {t} BY <2>2, <2>3
    <3> QED BY <2>2, <2>3, <3>1 DEF V
  <2>6. m.abandoned = l.abandoned /\ (m.blockWeak <=> fl[s].blockWeak)
    BY <1>3, <2>3 DEF SameRefusals
  <2>7. QueueInv' /\ Items' = Items /\ \A u \in Threads \ {t} : Same(u)
    BY <1>0, <1>2, <1>3, <1>7, <2>4, <2>5, <2>6, OutsideStep
  <2>8. t \notin l.abandoned BY <1>1, <1>7 DEF LockOK
  <2>9. ~Refused(t) /\ ~Refused(t)' /\ RequestOf(t)' = RequestOf(t)
    BY <1>0, <1>3, <2>4, <2>6, <2>8, RefusedAt
  <2>10. StatusOf(t) = "pending" /\ AnswerOf(t) = ret[t] BY <1>0, <2>9, Views
  <2>11. StatusOf(t)' = "pending" /\ AnswerOf(t)' = ret'[t] BY <2>1, ViewsNext
  <2>12. Same(t) BY <1>7, <2>9, <2>10, <2>11 DEF Same
  <2>13. \A u \in Threads : Same(u) BY <2>7, <2>12
  <2>14. Refines BY <1>0, <2>7, <2>13, SilentStep
  <2> QED BY <2>7, <2>14
<1>8. CASE /\ t \in l.abandoned /\ SetLock(s, WakeAbandoned(l, t)) /\ Goes(t, "leave")
           /\ Answers(t, Refusal(t), NoElement)
  <2> DEFINE m == WakeAbandoned(l, t)
             V == WeakAt(s)'
             a == [code |-> Refusal(t), elem |-> NoElement]
  <2>1. pc'[t] = "leave" /\ Moved(t, "leave") BY <1>5, <1>8
  <2>2. /\ QueuedAt(s)' = QueuedAt(s) \ {t} /\ HoldersOf(s)' = HoldersOf(s)
        /\ WeakAt(s) \ {t} \subseteq V
    <3>1. QueuedAt(s)' = QueuedAt(s) \ {t} /\ HoldersOf(s)' = HoldersOf(s) \ {t}
          /\ WeakAt(s) \ {t} \subseteq V
      BY <1>s, <2>1 DEF Moved, HoldPlaces
    <3> QED BY <1>4, <3>1
  <2> HIDE DEF V
  <2>3. /\ LockOK(m, QueuedAt(s) \ {t}, V, HoldersOf(s))
        /\ m.abandoned = l.abandoned \ {t} /\ (m.blockWeak <=> l.blockWeak)
    BY <1>1, <1>8, <2>2, WakeAbandonedOK
  <2>4. SetLock(s, m) BY <1>8
  <2> HIDE DEF m
  <2>5. LockOK(m, QueuedAt(s)', WeakAt(s)', HoldersOf(s)') BY <2>2, <2>3 DEF V
  <2>6. a \in Rets /\ ret' = [ret EXCEPT ![t] = a]
    <3>1. Refusal(t) \in Codes BY DEF Refusal, Codes
    <3> QED BY <1>8, <3>1 DEF Answers, Rets
  <2> HIDE DEF a
  <2>7. ret' \in [Threads -> Rets] /\ ret'[t] = a /\ \A u \in Threads \ {t} : ret'[u] = ret[u]
    BY <1>2, <2>6
  <2>8. m.abandoned \ {t} = fl[s].abandoned \ {t} /\ (m.blockWeak <=> fl[s].blockWeak)
    BY <1>3, <2>3
  <2>9. QueueInv' /\ Items' = Items /\ \A u \in Threads \ {t} : Same(u)
    BY <1>0, <1>3, <1>8, <2>4, <2>5, <2>7, <2>8, OutsideStep
  <2>10. Refused(t) /\ RequestOf(t)' = RequestOf(t)
    BY <1>0, <1>3, <1>8, <2>4, RefusedAt
  <2>11. StatusOf(t) = "answered" /\ AnswerOf(t) = a BY <1>0, <2>10, Views DEF a
  <2>12. StatusOf(t)' = "answered" /\ AnswerOf(t)' = a BY <2>1, <2>7, ViewsNext
  <2>13. Same(t) BY <2>10, <2>11, <2>12 DEF Same
  <2>14. \A u \in Threads : Same(u) BY <2>9, <2>13
  <2>15. Refines BY <1>0, <2>9, <2>14, SilentStep
  <2> QED BY <2>9, <2>15
<1> QED BY <1>6, <1>7, <1>8

LEMMA UnlockStep ==
  ASSUME QueueInv, NEW t \in Threads, Unlock(t), use' = use
  PROVE  QueueInv' /\ Refines
<1>s. PICK s \in Sides : s = Side(t) BY SideType
<1>0. /\ pc[t] = "unlock" /\ Goes(t, "leave")
      /\ UNCHANGED <<use, bufVars, weakBlocked, condWaiters, mutex, closed, call, ret>>
  BY DEF Unlock
<1>1. PICK m \in fair_lock_unlock(fl[s]) : SetLock(s, m) BY <1>s DEF Unlock
<1>2. LockOK(fl[s], QueuedAt(s), WeakAt(s), HoldersOf(s)) BY DEF QueueInv, LocksInv
<1>3. t \in HoldersOf(s) /\ t \notin QueuedAt(s) BY <1>0, <1>s DEF HoldersOf, QueuedAt
<1>4. LockOK(m, QueuedAt(s), WeakAt(s), {}) /\ SameRefusals(fl[s], m)
  BY <1>2, <1>3, UnlockOK
<1>5. pc'[t] = "leave" /\ Moved(t, "leave") BY <1>0, Moves DEF QueueInv, CallInv, Goes
<1>6. QueuedAt(s)' = QueuedAt(s) /\ WeakAt(s)' = WeakAt(s) /\ HoldersOf(s)' = {}
  <2>1. /\ QueuedAt(s)' = QueuedAt(s) \ {t} /\ WeakAt(s)' = WeakAt(s) \ {t}
        /\ HoldersOf(s)' = HoldersOf(s) \ {t}
    BY <1>s, <1>5 DEF Moved, HoldPlaces
  <2>2. t \notin WeakAt(s) BY <1>3 DEF WeakAt
  <2>3. HoldersOf(s) = {t} BY <1>2, <1>3 DEF LockOK
  <2> QED BY <1>3, <2>1, <2>2, <2>3
<1>7. LockOK(m, QueuedAt(s)', WeakAt(s)', HoldersOf(s)') BY <1>4, <1>6
<1>8. ret' \in [Threads -> Rets] /\ \A u \in Threads \ {t} : ret'[u] = ret[u]
  BY <1>0 DEF QueueInv, CallInv
<1>9. m.abandoned = fl[s].abandoned /\ (m.blockWeak <=> fl[s].blockWeak)
  BY <1>4 DEF SameRefusals
<1>10. QueueInv' /\ Items' = Items /\ \A u \in Threads \ {t} : Same(u)
  BY <1>0, <1>s, <1>1, <1>7, <1>8, <1>9, OutsideStep
<1>11. StatusOf(t) = "answered" /\ AnswerOf(t) = ret[t] BY <1>0, Views
<1>12. StatusOf(t)' = "answered" /\ AnswerOf(t)' = ret'[t] BY <1>5, ViewsNext
<1>13. RequestOf(t)' = RequestOf(t) BY <1>0 DEF RequestOf
<1>14. Same(t) BY <1>0, <1>11, <1>12, <1>13 DEF Same
<1>15. \A u \in Threads : Same(u) BY <1>10, <1>14
<1>16. Refines BY <1>0, <1>10, <1>15, SilentStep
<1> QED BY <1>10, <1>16

(* The exits that give the fair lock back before the mutex.                *)
LEMMA GiveUpStep ==
  ASSUME QueueInv, NEW t \in Threads, pc[t] \in {"enter", "refuse", "cond"}, t \notin condWaiters,
         mutex \subseteq {t}, NEW code \in Codes, GiveUp(t, code), UNCHANGED <<use, closed, call>>
  PROVE  QueueInv' /\ Items' = Items /\ Contract!Answer({t}, code, NoElement)
         /\ RequestOf(t)' = RequestOf(t) /\ StatusOf(t) = "pending" /\ StatusOf(t)' = "answered"
         /\ AnswerOf(t)' = [code |-> code, elem |-> NoElement]
         /\ \A u \in Threads \ {t} : Same(u)
<1> DEFINE a == [code |-> code, elem |-> NoElement]
<1>s. PICK s \in Sides : s = Side(t) BY SideType
<1>0. /\ Goes(t, "leave") /\ mutex' = {} /\ ret' = [ret EXCEPT ![t] = a]
      /\ UNCHANGED <<use, bufVars, weakBlocked, condWaiters, closed, call>>
  BY DEF GiveUp, Answers
<1>1. PICK m \in fair_lock_unlock(fl[s]) : SetLock(s, m) BY <1>s DEF GiveUp
<1>2. LockOK(fl[s], QueuedAt(s), WeakAt(s), HoldersOf(s)) /\ CallInv /\ LocksInv /\ StuckInv
  BY DEF QueueInv, LocksInv
<1>3. t \in HoldersOf(s) /\ t \notin QueuedAt(s) BY <1>s DEF HoldersOf, QueuedAt
<1>4. LockOK(m, QueuedAt(s), WeakAt(s), {}) /\ SameRefusals(fl[s], m)
  BY <1>2, <1>3, UnlockOK
<1>5. a \in Rets BY DEF Rets
<1> HIDE DEF a
<1>6. \A u \in Threads : /\ pc'[u] = IF u = t THEN "leave" ELSE pc[u]
                         /\ ret'[u] = IF u = t THEN a ELSE ret[u]
  BY <1>0, <1>2 DEF CallInv, Goes
<1>7. Moved(t, "leave") BY <1>0, <1>2, Moves
<1>8. QueuedAt(s)' = QueuedAt(s) /\ WeakAt(s)' = WeakAt(s) /\ HoldersOf(s)' = {}
  <2>1. /\ QueuedAt(s)' = QueuedAt(s) \ {t} /\ WeakAt(s)' = WeakAt(s) \ {t}
        /\ HoldersOf(s)' = HoldersOf(s) \ {t}
    BY <1>s, <1>7 DEF Moved, HoldPlaces
  <2>2. t \notin WeakAt(s) BY <1>3 DEF WeakAt
  <2>3. HoldersOf(s) = {t} BY <1>2, <1>3 DEF LockOK
  <2> QED BY <1>3, <2>1, <2>2, <2>3
<1>9. LockOK(m, QueuedAt(s)', WeakAt(s)', HoldersOf(s)') BY <1>4, <1>8
<1>10. m.abandoned = fl[s].abandoned /\ (m.blockWeak <=> fl[s].blockWeak)
  BY <1>4 DEF SameRefusals
<1>11. weakBlocked'[s] <=> m.blockWeak BY <1>0, <1>2, <1>10 DEF LocksInv
<1>12. \A r \in Sides \ {s} :
         /\ QueuedAt(r)' = QueuedAt(r) /\ WeakAt(r)' = WeakAt(r)
         /\ HoldersOf(r)' = HoldersOf(r) /\ weakBlocked'[r] = weakBlocked[r]
  BY <1>0, <1>s, <1>7 DEF Moved
<1>13. LocksInv' /\ fl' \in [Sides -> FairLockType]
  BY <1>1, <1>2, <1>9, <1>11, <1>12, LocksStep
<1>14. CallInv'
  <2>1. pc' \in [Threads -> Places] /\ ret' \in [Threads -> Rets]
    BY <1>0, <1>2, <1>5 DEF CallInv, Goes, Places
  <2>2. \A u \in Threads : pc'[u] # "idle" => pc[u] # "idle" BY <1>6
  <2> QED BY <1>0, <1>2, <1>13, <2>1, <2>2 DEF CallInv
<1>15. RingInv' /\ Items' = Items BY <1>0, RingKept
<1>16. StuckInv'
  <2>1. \A u \in Threads : pc'[u] \in {"cond", "refuse"} => u # t /\ pc'[u] = pc[u] BY <1>6
  <2>2. /\ \A u \in Threads : Side(u)' = Side(u) /\ (Async(u)' <=> Async(u))
        /\ \A r : Stuck(r)' <=> Stuck(r)
        /\ Boundless' <=> Boundless
        /\ \A u \in Threads : Grows(u)' <=> Grows(u)
    BY <1>0 DEF Side, Async, Stuck, Boundless, Grows, bufVars
  <2>3. \A u \in condWaiters : u \in Threads /\ u # t /\ pc'[u] = pc[u]
    BY <1>2, <1>6 DEF CallInv
  <2>4. \A u \in Threads : pc'[u] # "refuse" BY <1>2, <2>1 DEF StuckInv
  <2> QED BY <1>0, <1>2, <2>1, <2>2, <2>3, <2>4 DEF StuckInv
<1>17. Frame(t)
  <2>1. \A u \in Threads \ {t} : Refused(u)' <=> Refused(u)
    BY <1>0, <1>1, <1>2, <1>10, RefusalsStep
  <2> QED BY <1>0, <1>6, <2>1 DEF Frame
<1>18. \A u \in Threads \ {t} : Same(u) BY <1>17, OthersSame
<1>19. StatusOf(t) = "pending" BY Views
<1>20. StatusOf(t)' = "answered" /\ AnswerOf(t)' = a
  <2>1. pc'[t] = "leave" /\ ret'[t] = a BY <1>6
  <2> QED BY <2>1, ViewsNext
<1>21. RequestOf(t)' = RequestOf(t) BY <1>0 DEF RequestOf
<1>22. Contract!Answer({t}, code, NoElement)
  BY <1>0, <1>18, <1>19, <1>20, <1>21, AnswerStep DEF a
<1> QED BY <1>13, <1>14, <1>15, <1>16, <1>18, <1>19, <1>20, <1>21, <1>22 DEF QueueInv, a

(* The element moves.  Every other waiter on bq->cond has the fair lock of *)
(* the other side, so there is one at most, and the signal is for it.      *)
Fits(t) == ~Stuck(Side(t)) \/ Grows(t)

LEMMA ProceedRing ==
  ASSUME QueueInv, NEW t \in Threads, pc[t] # "idle", Fits(t), Proceed(t), UNCHANGED <<use, call>>
  PROVE  /\ RingInv' /\ ~Stuck(Other(Side(t)))' /\ ret' \in [Threads -> Rets]
         /\ Side(t) = "add" => /\ Items' = Append(Items, call[t].elem)
                               /\ use.bound = 0 \/ ~(Len(Items) >= use.bound)
                               /\ ret' = [ret EXCEPT ![t] = [code |-> "OK", elem |-> NoElement]]
         /\ Side(t) = "get" => /\ Items # <<>> /\ Items' = Tail(Items)
                               /\ ret' = [ret EXCEPT ![t] = [code |-> "OK", elem |-> Head(Items)]]
<1>1. RingInv /\ ret \in [Threads -> Rets] /\ call[t].elem \in Elements \cup {NoElement}
  BY DEF QueueInv, CallInv, Calls
<1>2. Items \in Seq(Elements \cup {NoElement}) /\ Len(Items) = size
  BY <1>1, ItemsAre DEF ItemsAt
<1>3. capacity \in Nat \ {0} /\ size \in Nat /\ size <= capacity /\ use.bound \in Nat
      /\ (~Boundless => capacity = use.bound)
  BY <1>1 DEF RingInv, QueueInv, CallInv
<1>4. Side(t)' = Side(t) BY DEF Side
<1>5. CASE Side(t) = "add"
  <2> DEFINE a == [code |-> "OK", elem |-> NoElement]
  <2>1. a \in Rets /\ ret' = [ret EXCEPT ![t] = a] BY <1>5 DEF Proceed, Answers, Rets, Codes
  <2> HIDE DEF a
  <2>2. ret' \in [Threads -> Rets] BY <1>1, <2>1
  <2>3. RingInv' /\ Items' = Append(Items, call[t].elem) /\ size' = size + 1
    <3>1. CASE Boundless /\ size = capacity
      <4>1. growAndEnqueue(call[t].elem) BY <1>5, <3>1 DEF Proceed
      <4> QED BY <1>1, <3>1, <4>1, GrowAppends
    <3>2. CASE ~(Boundless /\ size = capacity)
      <4>1. enqueue(call[t].elem) BY <1>5, <3>2 DEF Proceed
      <4>2. size < capacity BY <1>3, <1>5, <3>2 DEF Fits, Stuck, Grows
      <4> QED BY <1>1, <4>1, <4>2, EnqueueAppends
    <3> QED BY <3>1, <3>2
  <2>4. use.bound = 0 \/ ~(Len(Items) >= use.bound)
    <3>1. Boundless \/ size # capacity BY <1>5 DEF Fits, Stuck, Grows
    <3> QED BY <1>2, <1>3, <3>1 DEF Boundless
  <2>5. ~Stuck(Other(Side(t)))'
    <3>1. Other(Side(t))' = "get" BY <1>4, <1>5 DEF Other
    <3>2. size' # 0 BY <1>3, <2>3
    <3> QED BY <1>4, <1>5, <3>2 DEF Stuck, Other
  <2> QED BY <1>5, <2>1, <2>2, <2>3, <2>4, <2>5 DEF a
<1>6. CASE Side(t) = "get"
  <2>1. dequeue /\ Answers(t, "OK", queue[front]) BY <1>6 DEF Proceed
  <2>2. size # 0 BY <1>6 DEF Fits, Stuck, Grows
  <2>3. /\ RingInv' /\ Items # <<>> /\ Items' = Tail(Items) /\ queue[front] = Head(Items)
        /\ queue[front] \in Elements \cup {NoElement}
        /\ size' = size - 1 /\ capacity' = capacity
    BY <1>1, <2>1, <2>2, DequeueTakesHead
  <2> DEFINE a == [code |-> "OK", elem |-> Head(Items)]
  <2>4. a \in Rets /\ ret' = [ret EXCEPT ![t] = a] BY <2>1, <2>3 DEF Answers, Rets, Codes
  <2> HIDE DEF a
  <2>5. ret' \in [Threads -> Rets] BY <1>1, <2>4
  <2>6. ~Stuck(Other(Side(t)))'
    <3>1. size' # capacity' BY <1>3, <2>3
    <3> QED BY <1>4, <1>6, <3>1 DEF Stuck, Other
  <2> QED BY <1>6, <2>3, <2>4, <2>5, <2>6 DEF a
<1> QED BY <1>5, <1>6, SideType DEF Sides

LEMMA ProceedStep ==
  ASSUME QueueInv, NEW t \in Threads, pc[t] \in {"enter", "cond"}, t \notin condWaiters,
         mutex = {}, ~closed, Fits(t), Proceed(t), UNCHANGED <<use, closed, call>>
  PROVE  QueueInv' /\ Refines
<1>s. PICK s \in Sides : s = Side(t) BY SideType
<1>1. CallInv /\ RingInv /\ StuckInv /\ LocksInv BY DEF QueueInv
<1>2. /\ RingInv' /\ ~Stuck(Other(Side(t)))' /\ ret' \in [Threads -> Rets]
      /\ s = "add" => /\ Items' = Append(Items, call[t].elem)
                      /\ use.bound = 0 \/ ~(Len(Items) >= use.bound)
                      /\ ret' = [ret EXCEPT ![t] = [code |-> "OK", elem |-> NoElement]]
      /\ s = "get" => /\ Items # <<>> /\ Items' = Tail(Items)
                      /\ ret' = [ret EXCEPT ![t] = [code |-> "OK", elem |-> Head(Items)]]
  BY <1>s, ProceedRing
<1>3. PICK o \in Sides : o = Other(s) /\ o # s /\ \A r \in Sides : r = s \/ r = o
  BY DEF Sides, Other
<1>4. Goes(t, "unlock") /\ mutex' = {} BY DEF Proceed
<1>5. \A u \in Threads : pc'[u] = IF u = t THEN "unlock" ELSE pc[u] BY <1>1, <1>4 DEF CallInv, Goes
<1>6. Moved(t, "unlock") BY <1>1, <1>4, Moves
<1>7. t \in HoldersOf(s) /\ t \notin QueuedAt(s) BY <1>s DEF HoldersOf, QueuedAt
<1>8. \A r \in Sides : QueuedAt(r)' = QueuedAt(r) /\ WeakAt(r)' = WeakAt(r)
                       /\ HoldersOf(r)' = HoldersOf(r)
  <2>1. /\ QueuedAt(s)' = QueuedAt(s) \ {t} /\ WeakAt(s)' = WeakAt(s) \ {t}
        /\ HoldersOf(s)' = HoldersOf(s) \cup {t}
    BY <1>s, <1>6 DEF Moved, HoldPlaces
  <2>2. t \notin WeakAt(s) BY <1>7 DEF WeakAt
  <2>3. \A r \in Sides \ {s} : QueuedAt(r)' = QueuedAt(r) /\ WeakAt(r)' = WeakAt(r)
                               /\ HoldersOf(r)' = HoldersOf(r)
    BY <1>s, <1>6 DEF Moved
  <2> QED BY <1>7, <2>1, <2>2, <2>3
<1>9. ~weakBlocked[s] BY <1>1, <1>s DEF StuckInv, Fits, Grows
<1>10. \/ /\ weakBlocked[o] /\ SetLock(o, fair_lock_allow_weak_locks(fl[o]))
          /\ weakBlocked' = [weakBlocked EXCEPT ![o] = FALSE]
       \/ ~weakBlocked[o] /\ fl' = fl /\ weakBlocked' = weakBlocked
  BY <1>s, <1>3 DEF Proceed, Other
<1>11. /\ LocksInv' /\ fl' \in [Sides -> FairLockType] /\ weakBlocked' \in [Sides -> BOOLEAN]
       /\ \A u \in Threads \ {t} : Refused(u)' <=> Refused(u)
       /\ ~weakBlocked'[s] /\ ~weakBlocked'[o]
  <2>1. CASE /\ weakBlocked[o] /\ SetLock(o, fair_lock_allow_weak_locks(fl[o]))
             /\ weakBlocked' = [weakBlocked EXCEPT ![o] = FALSE]
    <3> DEFINE m == fair_lock_allow_weak_locks(fl[o])
    <3>1. LockOK(fl[o], QueuedAt(o), WeakAt(o), HoldersOf(o)) BY <1>1 DEF LocksInv
    <3>2. LockOK(m, QueuedAt(o), WeakAt(o), HoldersOf(o)) /\ m.abandoned = fl[o].abandoned
          /\ ~m.blockWeak
      BY <3>1, AllowWeakOK
    <3>3. SetLock(o, m) BY <2>1
    <3> HIDE DEF m
    <3>4. LockOK(m, QueuedAt(o)', WeakAt(o)', HoldersOf(o)') BY <1>8, <3>2
    <3>5. /\ weakBlocked' \in [Sides -> BOOLEAN] /\ ~weakBlocked'[o]
          /\ \A r \in Sides \ {o} : weakBlocked'[r] = weakBlocked[r]
      BY <1>1, <2>1 DEF CallInv
    <3>6. LocksInv' /\ fl' \in [Sides -> FairLockType]
      <4>1. \A r \in Sides \ {o} :
              /\ QueuedAt(r)' = QueuedAt(r) /\ WeakAt(r)' = WeakAt(r)
              /\ HoldersOf(r)' = HoldersOf(r) /\ weakBlocked'[r] = weakBlocked[r]
        BY <1>8, <3>5
      <4>2. weakBlocked'[o] <=> m.blockWeak BY <3>2, <3>5
      <4> QED BY <1>1, <3>3, <3>4, <4>1, <4>2, LocksStep
    <3>7. \A u \in Threads \ {t} : Refused(u)' <=> Refused(u)
      BY <1>1, <3>2, <3>3, RefusalsStep
    <3> QED BY <1>3, <1>9, <3>5, <3>6, <3>7
  <2>2. CASE ~weakBlocked[o] /\ fl' = fl /\ weakBlocked' = weakBlocked
    <3>1. LocksInv' BY <1>1, <1>8, <2>2 DEF LocksInv
    <3>2. \A u \in Threads \ {t} : Refused(u)' <=> Refused(u) BY <2>2 DEF Refused, Side
    <3> QED BY <1>1, <1>9, <2>2, <3>1, <3>2 DEF CallInv
  <2> QED BY <1>10, <2>1, <2>2
<1>12. condWaiters' = {}
  <2>1. \A u \in condWaiters : u \in HoldersOf(o)
    <3> SUFFICES ASSUME NEW u \in condWaiters PROVE u \in HoldersOf(o) OBVIOUS
    <3>1. u \in Threads /\ pc[u] = "cond" /\ u # t BY <1>1 DEF CallInv, StuckInv
    <3>2. Side(u) \in Sides /\ (Side(u) = s => u \in HoldersOf(s))
      BY <3>1, SideType DEF HoldersOf
    <3>3. u \notin HoldersOf(s) BY <1>1, <1>7, <3>1 DEF LocksInv, LockOK
    <3> QED BY <1>3, <3>1, <3>2, <3>3 DEF HoldersOf
  <2>2. \A u, v \in condWaiters : u = v BY <1>1, <2>1 DEF LocksInv, LockOK
  <2>3. \/ condWaiters = {} /\ condWaiters' = condWaiters
        \/ \E u \in condWaiters : condWaiters' = condWaiters \ {u}
    BY DEF Proceed, SignalCond
  <2> QED BY <2>2, <2>3
<1>13. StuckInv'
  <2>1. \A u \in Threads : Grows(u)' <=> Grows(u) BY DEF Grows, Boundless, Side
  <2>2. \A u \in Threads : pc'[u] # "refuse" BY <1>1, <1>5 DEF StuckInv
  <2>3. \A u \in Threads : pc'[u] = "cond" => ~Stuck(Side(u))'
    <3> SUFFICES ASSUME NEW u \in Threads, pc'[u] = "cond" PROVE ~Stuck(Side(u))' OBVIOUS
    <3>1. u # t /\ pc[u] = "cond" BY <1>5
    <3>2. Side(u) \in Sides /\ (Side(u) = s => u \in HoldersOf(s))
      BY <3>1, SideType DEF HoldersOf
    <3>3. u \notin HoldersOf(s) BY <1>1, <1>7, <3>1 DEF LocksInv, LockOK
    <3>4. Side(u) = Other(Side(t)) BY <1>s, <1>3, <3>2, <3>3
    <3>5. Side(u)' = Side(u) /\ Side(t)' = Side(t) BY DEF Side
    <3> QED BY <1>2, <3>4, <3>5 DEF Stuck, Other
  <2>4. \A u \in Threads : pc'[u] = "cond" => ~Grows(u)' BY <1>1, <1>5, <2>1 DEF StuckInv
  <2>5. \A r \in Sides : ~weakBlocked'[r] BY <1>3, <1>11
  <2> QED BY <1>4, <1>12, <2>2, <2>3, <2>4, <2>5 DEF StuckInv
<1>14. CallInv'
  <2>1. pc' \in [Threads -> Places] BY <1>1, <1>4 DEF CallInv, Goes, Places
  <2>2. \A u \in Threads : pc'[u] # "idle" => pc[u] # "idle" BY <1>5
  <2> QED BY <1>1, <1>2, <1>4, <1>11, <1>12, <2>1, <2>2 DEF CallInv
<1>15. \A u \in Threads \ {t} : ret'[u] = ret[u]
  BY <1>1, <1>2, <1>s DEF CallInv, Sides
<1>16. Frame(t) BY <1>5, <1>11, <1>15 DEF Frame
<1>17. \A u \in Threads \ {t} : Same(u) BY <1>16, OthersSame
<1>18. StatusOf(t) = "pending" BY Views
<1>19. StatusOf(t)' = "answered" /\ AnswerOf(t)' = ret'[t]
  <2>1. pc'[t] = "unlock" BY <1>5
  <2> QED BY <2>1, ViewsNext
<1>20. RequestOf(t)' = RequestOf(t) BY DEF RequestOf
<1>21. [u \in Threads |-> RequestOf(u)][t].kind = call[t].kind
       /\ [u \in Threads |-> RequestOf(u)][t].elem = call[t].elem
  BY DEF RequestOf
<1>22. call[t].kind \in Kinds BY <1>1 DEF CallInv
<1>23. Refines
  <2>1. CASE s = "add"
    <3>1. ret'[t] = [code |-> "OK", elem |-> NoElement] BY <1>1, <1>2, <2>1 DEF CallInv
    <3>2. Contract!Answer({t}, "OK", NoElement)
      BY <1>17, <1>18, <1>19, <1>20, <3>1, AnswerStep
    <3>3. call[t].kind \in {"add", "put"} BY <1>s, <2>1 DEF Side
    <3>4. ~Contract!Full BY <1>2, <2>1 DEF Contract!Full
    <3>5. Contract!Accept(t)
      BY <1>2, <1>21, <2>1, <3>2, <3>3, <3>4 DEF Contract!Accept, Contract!Adding, RequestOf
    <3> QED BY <3>5 DEF Refines, Contract!Next, Contract!Step
  <2>2. CASE s = "get"
    <3>1. ret'[t] = [code |-> "OK", elem |-> Head(Items)] BY <1>1, <1>2, <2>2 DEF CallInv
    <3>2. Contract!Answer({t}, "OK", Head(Items))
      <4>0. PICK h : h = Head(Items) OBVIOUS
      <4> DEFINE S == {t}
      <4>1. S \in SUBSET Threads OBVIOUS
      <4>2. \A u \in S : /\ StatusOf(u) = "pending" /\ StatusOf(u)' = "answered"
                         /\ AnswerOf(u)' = [code |-> "OK", elem |-> h]
                         /\ RequestOf(u)' = RequestOf(u)
        BY <1>18, <1>19, <1>20, <3>1, <4>0
      <4>3. \A u \in Threads \ S : Same(u) BY <1>17
      <4> HIDE DEF S
      <4>4. Contract!Answer(S, "OK", h) BY <4>1, <4>2, <4>3, AnswerStep
      <4> QED BY <4>0, <4>4 DEF S, Contract!Answer
    <3>3. call[t].kind \in {"poll", "take"} BY <1>s, <1>22, <2>2 DEF Side, Kinds
    <3>4. Contract!Deliver(t)
      BY <1>2, <1>21, <2>2, <3>2, <3>3 DEF Contract!Deliver, Contract!Getting, RequestOf
    <3> QED BY <3>4 DEF Refines, Contract!Next, Contract!Step
  <2> QED BY <2>1, <2>2 DEF Sides
<1> QED BY <1>2, <1>11, <1>13, <1>14, <1>23 DEF QueueInv

LEMMA FindStuckStep ==
  ASSUME QueueInv, NEW t \in Threads, pc[t] = "enter", mutex = {}, ~closed,
         Stuck(Side(t)), ~Grows(t),
         FindStuck(t), UNCHANGED <<use, closed, call>>
  PROVE  QueueInv' /\ Refines
<1>s. PICK s \in Sides : s = Side(t) BY SideType
<1>1. CallInv /\ RingInv /\ StuckInv /\ LocksInv BY DEF QueueInv
<1>2. PICK to \in {"refuse", "cond"} :
        /\ Goes(t, to)
        /\ to = "refuse" => Async(t) /\ mutex' = {t} /\ condWaiters' = condWaiters
        /\ to = "cond" => mutex' = mutex /\ condWaiters' = condWaiters \cup {t}
  BY DEF FindStuck
<1>3. UNCHANGED <<bufVars, ret>> BY DEF FindStuck
<1>4. \A u \in Threads : pc'[u] = IF u = t THEN to ELSE pc[u] BY <1>1, <1>2 DEF CallInv, Goes
<1>5. Moved(t, to) BY <1>1, <1>2, Moves
<1>6. t \in HoldersOf(s) /\ t \notin QueuedAt(s) BY <1>s DEF HoldersOf, QueuedAt
<1>7. \A r \in Sides : QueuedAt(r)' = QueuedAt(r) /\ WeakAt(r)' = WeakAt(r)
                       /\ HoldersOf(r)' = HoldersOf(r)
  <2>1. /\ QueuedAt(s)' = QueuedAt(s) \ {t} /\ WeakAt(s)' = WeakAt(s) \ {t}
        /\ HoldersOf(s)' = HoldersOf(s) \cup {t}
    BY <1>s, <1>2, <1>5 DEF Moved, HoldPlaces
  <2>2. t \notin WeakAt(s) BY <1>6 DEF WeakAt
  <2>3. \A r \in Sides \ {s} : QueuedAt(r)' = QueuedAt(r) /\ WeakAt(r)' = WeakAt(r)
                               /\ HoldersOf(r)' = HoldersOf(r)
    BY <1>s, <1>5 DEF Moved
  <2> QED BY <1>6, <2>1, <2>2, <2>3
<1>8. RingInv' /\ Items' = Items BY <1>3, RingKept
<1>9. Stuck(s) /\ (s = "add" => ~Boundless) BY <1>s DEF Grows
<1> DEFINE l == fl[s]
<1>10. LockOK(l, QueuedAt(s), WeakAt(s), HoldersOf(s)) BY <1>1 DEF LocksInv
<1>11. \/ weakBlocked[s] /\ fl' = fl /\ weakBlocked' = weakBlocked
       \/ /\ ~weakBlocked[s] /\ SetLock(s, fair_lock_block_weak_locks(l))
          /\ weakBlocked' = [weakBlocked EXCEPT ![s] = TRUE]
  BY <1>s DEF FindStuck, BlockWeak
<1>12. PICK D \in SUBSET Threads :
         /\ LocksInv' /\ fl' \in [Sides -> FairLockType] /\ weakBlocked' \in [Sides -> BOOLEAN]
         /\ weakBlocked'[s] /\ \A r \in Sides \ {s} : weakBlocked'[r] = weakBlocked[r]
         /\ D \subseteq QueuedAt(s) \cap WeakAt(s)
         /\ \A u \in D : u \notin l.abandoned /\ Refused(u)'
         /\ \A u \in Threads \ D : Refused(u)' <=> Refused(u)
  <2>1. CASE weakBlocked[s] /\ fl' = fl /\ weakBlocked' = weakBlocked
    <3>1. LocksInv' BY <1>1, <1>7, <2>1 DEF LocksInv
    <3>2. \A u \in Threads : Refused(u)' <=> Refused(u) BY <2>1 DEF Refused, Side
    <3>3. fl' \in [Sides -> FairLockType] /\ weakBlocked' \in [Sides -> BOOLEAN]
      BY <1>1, <2>1 DEF CallInv
    <3> WITNESS {} \in SUBSET Threads
    <3> QED BY <2>1, <3>1, <3>2, <3>3
  <2>2. CASE /\ ~weakBlocked[s] /\ SetLock(s, fair_lock_block_weak_locks(l))
             /\ weakBlocked' = [weakBlocked EXCEPT ![s] = TRUE]
    <3> DEFINE m == fair_lock_block_weak_locks(l)
    <3>0. PICK D : D = l.waiters \cap l.weak OBVIOUS
    <3>1. /\ LockOK(m, QueuedAt(s), WeakAt(s), HoldersOf(s)) /\ m.blockWeak
          /\ D \subseteq QueuedAt(s) \cap WeakAt(s) /\ D \cap l.abandoned = {}
          /\ m.abandoned = l.abandoned \cup D
      <4>1. m = fair_lock_block_weak_locks(l) OBVIOUS
      <4> HIDE DEF m, l
      <4>2. /\ LockOK(m, QueuedAt(s), WeakAt(s), HoldersOf(s)) /\ m.blockWeak
            /\ l.waiters \cap l.weak \subseteq QueuedAt(s) \cap WeakAt(s)
            /\ (l.waiters \cap l.weak) \cap l.abandoned = {}
            /\ m.abandoned = l.abandoned \cup (l.waiters \cap l.weak)
        BY <1>10, <4>1, BlockWeakOK
      <4> QED BY <3>0, <4>2
    <3>2. SetLock(s, m) BY <2>2
    <3> HIDE DEF m
    <3>3. LockOK(m, QueuedAt(s)', WeakAt(s)', HoldersOf(s)') BY <1>7, <3>1
    <3>4. /\ weakBlocked' \in [Sides -> BOOLEAN] /\ weakBlocked'[s]
          /\ \A r \in Sides \ {s} : weakBlocked'[r] = weakBlocked[r]
      BY <1>1, <2>2 DEF CallInv
    <3>5. LocksInv' /\ fl' \in [Sides -> FairLockType]
      <4>1. \A r \in Sides \ {s} :
              /\ QueuedAt(r)' = QueuedAt(r) /\ WeakAt(r)' = WeakAt(r)
              /\ HoldersOf(r)' = HoldersOf(r) /\ weakBlocked'[r] = weakBlocked[r]
        BY <1>7, <3>4
      <4>2. weakBlocked'[s] <=> m.blockWeak BY <3>1, <3>4
      <4> QED BY <1>1, <3>2, <3>3, <4>1, <4>2, LocksStep
    <3>6. \A u : Side(u)' = Side(u) /\ Side(u) \in Sides BY SideType DEF Side
    <3>7. \A r \in Sides : fl'[r] = IF r = s THEN m ELSE fl[r] BY <1>1, <3>2 DEF CallInv, SetLock
    <3>8. \A u \in D : u \notin l.abandoned /\ Refused(u)'
      <4>1. \A u \in D : Side(u) = s BY <3>1 DEF QueuedAt
      <4>2. \A u \in D : fl'[Side(u)] = m BY <3>7, <4>1
      <4> QED BY <3>1, <3>6, <4>2 DEF Refused
    <3>9. \A u \in Threads \ D : Refused(u)' <=> Refused(u)
      <4> SUFFICES ASSUME NEW u \in Threads \ D PROVE Refused(u)' <=> Refused(u) OBVIOUS
      <4>1. CASE Side(u) = s
        <5>1. fl'[Side(u)] = m /\ fl[Side(u)] = l BY <3>7, <4>1
        <5> QED BY <3>1, <3>6, <5>1 DEF Refused
      <4>2. CASE Side(u) # s
        <5>1. fl'[Side(u)] = fl[Side(u)] BY <3>6, <3>7, <4>2
        <5> QED BY <3>6, <5>1 DEF Refused
      <4> QED BY <4>1, <4>2
    <3>10. D \in SUBSET Threads BY <3>1 DEF QueuedAt
    <3> WITNESS D \in SUBSET Threads
    <3> QED BY <3>1, <3>4, <3>5, <3>8, <3>9
  <2> QED BY <1>11, <2>1, <2>2
<1>13. StuckInv'
  <2>1. /\ \A u \in Threads : Side(u)' = Side(u) /\ (Async(u)' <=> Async(u))
        /\ \A r : Stuck(r)' <=> Stuck(r)
        /\ Boundless' <=> Boundless
        /\ \A u \in Threads : Grows(u)' <=> Grows(u)
    BY <1>3 DEF Side, Async, Stuck, Boundless, Grows, bufVars
  <2>2. \A r \in Sides : weakBlocked'[r] => Stuck(r)' /\ (r = "add" => ~Boundless')
    BY <1>1, <1>9, <1>12, <2>1 DEF StuckInv
  <2>3. \A u \in Threads : pc'[u] \in {"cond", "refuse"} => ~Grows(u)'
    BY <1>1, <1>4, <2>1 DEF StuckInv
  <2>4. \A u \in Threads : pc[u] # "refuse" BY <1>1 DEF StuckInv
  <2>5. \A u \in condWaiters : u \in Threads /\ u # t BY <1>1 DEF StuckInv, CallInv
  <2>6. \A u \in condWaiters' : pc'[u] = "cond" /\ Stuck(Side(u))'
    <3> SUFFICES ASSUME NEW u \in condWaiters' PROVE pc'[u] = "cond" /\ Stuck(Side(u))' OBVIOUS
    <3>1. CASE u = t BY <1>2, <1>4, <2>1, <2>5, <3>1
    <3>2. CASE u # t
      <4>1. u \in condWaiters BY <1>2, <3>2
      <4>2. pc[u] = "cond" /\ Stuck(Side(u)) BY <1>1, <4>1 DEF StuckInv
      <4> QED BY <1>4, <2>1, <2>5, <3>2, <4>1, <4>2
    <3> QED BY <3>1, <3>2
  <2>7. \A u \in Threads : pc'[u] = "cond" /\ u \notin condWaiters' /\ ~closed' => ~Stuck(Side(u))'
    <3> SUFFICES ASSUME NEW u \in Threads, pc'[u] = "cond", u \notin condWaiters', ~closed'
                 PROVE  ~Stuck(Side(u))'
      OBVIOUS
    <3>1. u # t /\ u \notin condWaiters /\ pc[u] = "cond" BY <1>2, <1>4
    <3> QED BY <1>1, <2>1, <3>1 DEF StuckInv
  <2>8. \A u \in Threads : pc'[u] = "refuse" => mutex' = {u} /\ Stuck(Side(u))' /\ Async(u)'
    BY <1>2, <1>4, <2>1, <2>4
  <2>9. \A u \in mutex' : pc'[u] = "refuse" BY <1>2, <1>4
  <2> QED BY <2>2, <2>3, <2>6, <2>7, <2>8, <2>9 DEF StuckInv
<1>14. CallInv'
  <2>1. pc' \in [Threads -> Places] BY <1>1, <1>2 DEF CallInv, Goes, Places
  <2>2. \A u \in Threads : pc'[u] # "idle" => pc[u] # "idle" BY <1>4
  <2>3. condWaiters' \subseteq Threads /\ mutex' \subseteq Threads BY <1>1, <1>2 DEF CallInv
  <2> QED BY <1>1, <1>3, <1>12, <2>1, <2>2, <2>3 DEF CallInv
<1>15. \A u \in Threads \ D : Same(u)
  <2> SUFFICES ASSUME NEW u \in Threads \ D PROVE Same(u) OBVIOUS
  <2>1. CASE u = t
    <3>1. StatusOf(t) = "pending" /\ AnswerOf(t) = ret[t] BY Views
    <3>2. StatusOf(t)' = "pending" /\ AnswerOf(t)' = ret'[t]
      <4>1. pc'[t] \in {"refuse", "cond"} BY <1>2, <1>4
      <4> QED BY <4>1, ViewsNext
    <3>3. RequestOf(t)' = RequestOf(t) BY DEF RequestOf
    <3> QED BY <1>3, <2>1, <3>1, <3>2, <3>3 DEF Same
  <2>2. CASE u # t
    <3>1. /\ pc'[u] = pc[u] /\ call'[u] = call[u] /\ ret'[u] = ret[u]
          /\ Refused(u)' <=> Refused(u)
      BY <1>3, <1>4, <1>12, <2>2
    <3>2. Side(u)' = Side(u) /\ Refusal(u)' = Refusal(u) BY <3>1 DEF Side, Refusal
    <3>3. Abandoned(u)' <=> Abandoned(u) BY <3>1 DEF Abandoned, Refused
    <3>4. Answered(u)' <=> Answered(u) BY <3>1, <3>3 DEF Answered
    <3>5. RequestOf(u)' = RequestOf(u) BY <3>1 DEF RequestOf
    <3>6. StatusOf(u)' = StatusOf(u) BY <3>1, <3>4 DEF StatusOf
    <3>7. AnswerOf(u)' = AnswerOf(u) BY <3>1, <3>2, <3>3 DEF AnswerOf
    <3> QED BY <3>5, <3>6, <3>7 DEF Same
  <2> QED BY <2>1, <2>2
<1>16. Refines
  <2>1. CASE D = {}
    <3>1. \A u \in Threads : Same(u) BY <1>15, <2>1
    <3> QED BY <1>8, <3>1, SilentStep
  <2>2. CASE D # {}
    <3>1. \A u \in D : /\ pc[u] # "idle" /\ Side(u) = s /\ Async(u)
                       /\ StatusOf(u) = "pending" /\ StatusOf(u)' = "answered"
                       /\ AnswerOf(u)' = [code |-> Refusal(u), elem |-> NoElement]
                       /\ RequestOf(u)' = RequestOf(u)
      <4> SUFFICES ASSUME NEW u \in D
                   PROVE  /\ pc[u] # "idle" /\ Side(u) = s /\ Async(u)
                          /\ StatusOf(u) = "pending" /\ StatusOf(u)' = "answered"
                          /\ AnswerOf(u)' = [code |-> Refusal(u), elem |-> NoElement]
                          /\ RequestOf(u)' = RequestOf(u)
        OBVIOUS
      <4>1. u \in Threads /\ pc[u] = "queued" /\ Side(u) = s /\ Async(u)
        BY <1>12 DEF QueuedAt, WeakAt
      <4>2. pc'[u] = "queued" BY <1>4, <4>1
      <4>3. Refused(u)' /\ ~Refused(u) BY <1>12, <4>1 DEF Refused
      <4>4. StatusOf(u) = "pending" BY <4>1, <4>3, Views
      <4>5. StatusOf(u)' = "answered" /\ AnswerOf(u)' = [code |-> Refusal(u)', elem |-> NoElement]
        BY <4>1, <4>2, <4>3, ViewsNext
      <4>6. Refusal(u)' = Refusal(u) /\ RequestOf(u)' = RequestOf(u)
        BY DEF Refusal, RequestOf, Side
      <4> QED BY <4>1, <4>4, <4>5, <4>6
    <3> QED BY <1>8, <1>9, <1>15, <2>2, <3>1, RefuseStep
  <2> QED BY <2>1, <2>2
<1> QED BY <1>8, <1>12, <1>13, <1>14, <1>16 DEF QueueInv

LEMMA ClosedStep ==
  ASSUME QueueInv, NEW t \in Threads, pc[t] \in {"enter", "cond"}, t \notin condWaiters,
         mutex = {}, closed, GiveUp(t, "BQ_CLOSED"), UNCHANGED <<use, closed, call>>
  PROVE  QueueInv' /\ Refines
<1>1. QueueInv' /\ Items' = Items /\ Contract!Answer({t}, "BQ_CLOSED", NoElement)
  BY GiveUpStep DEF Codes
<1>2. Contract!RefuseClosed(t) BY <1>1 DEF Contract!RefuseClosed
<1> QED BY <1>1, <1>2 DEF Refines, Contract!Next, Contract!Step

LEMMA EnterStep ==
  ASSUME QueueInv, NEW t \in Threads, Enter(t), use' = use
  PROVE  QueueInv' /\ Refines
<1>1. pc[t] = "enter" /\ mutex = {} /\ UNCHANGED <<use, closed, call>> BY DEF Enter
<1>2. t \notin condWaiters BY <1>1 DEF QueueInv, StuckInv
<1>3. CASE closed
  <2>1. GiveUp(t, "BQ_CLOSED") BY <1>3 DEF Enter
  <2> QED BY <1>1, <1>2, <1>3, <2>1, ClosedStep
<1>4. CASE ~closed /\ Fits(t) /\ Proceed(t) BY <1>1, <1>2, <1>4, ProceedStep
<1>5. CASE ~closed /\ Stuck(Side(t)) /\ ~Grows(t)
  <2>1. FindStuck(t) BY <1>5 DEF Enter
  <2> QED BY <1>1, <1>5, <2>1, FindStuckStep
<1>6. CASE GiveUp(t, "BQ_ERROR")
  <2>1. QueueInv' /\ Items' = Items /\ Contract!Answer({t}, "BQ_ERROR", NoElement)
    BY <1>1, <1>2, <1>6, GiveUpStep DEF Codes
  <2>2. Contract!Fail(t) BY <2>1 DEF Contract!Fail
  <2> QED BY <1>1, <2>1, <2>2 DEF Refines, Contract!Next, Contract!Step
<1> QED BY <1>3, <1>4, <1>5, <1>6 DEF Enter, Fits

LEMMA CondWakeStep ==
  ASSUME QueueInv, NEW t \in Threads, CondWake(t), use' = use
  PROVE  QueueInv' /\ Refines
<1>1. pc[t] = "cond" /\ mutex = {} /\ t \notin condWaiters /\ UNCHANGED <<use, closed, call>>
  BY DEF CondWake
<1>2. CASE closed
  <2>1. GiveUp(t, "BQ_CLOSED") BY <1>2 DEF CondWake
  <2> QED BY <1>1, <1>2, <2>1, ClosedStep
<1>3. CASE ~closed
  <2>1. Proceed(t) BY <1>3 DEF CondWake
  <2>2. Fits(t) BY <1>1, <1>3 DEF Fits, QueueInv, StuckInv
  <2> QED BY <1>1, <1>3, <2>1, <2>2, ProceedStep
<1> QED BY <1>2, <1>3

LEMMA RefuseCallStep ==
  ASSUME QueueInv, NEW t \in Threads, Refuse(t), use' = use
  PROVE  QueueInv' /\ Refines
<1>s. PICK s \in Sides : s = Side(t) BY SideType
<1>1. pc[t] = "refuse" /\ mutex = {t} /\ GiveUp(t, Refusal(t)) /\ UNCHANGED <<use, closed, call>>
  BY DEF Refuse
<1>2. t \notin condWaiters /\ Stuck(s) /\ Async(t) /\ ~Grows(t)
  BY <1>1, <1>s DEF QueueInv, StuckInv
<1>3. PICK code \in Codes : code = Refusal(t) BY DEF Refusal, Codes
<1>4. /\ QueueInv' /\ Items' = Items
      /\ RequestOf(t)' = RequestOf(t) /\ StatusOf(t) = "pending" /\ StatusOf(t)' = "answered"
      /\ AnswerOf(t)' = [code |-> code, elem |-> NoElement]
      /\ \A u \in Threads \ {t} : Same(u)
  BY <1>1, <1>2, <1>3, GiveUpStep
<1>5. s = "add" => ~Boundless BY <1>s, <1>2 DEF Grows
<1> DEFINE S == {t}
<1>6. S \in SUBSET Threads /\ S # {} /\ \E u \in Threads : S = {u} OBVIOUS
<1>7. \A u \in S : /\ pc[u] # "idle" /\ Side(u) = s /\ Async(u)
                   /\ StatusOf(u) = "pending" /\ StatusOf(u)' = "answered"
                   /\ AnswerOf(u)' = [code |-> Refusal(u), elem |-> NoElement]
                   /\ RequestOf(u)' = RequestOf(u)
  BY <1>s, <1>1, <1>2, <1>3, <1>4
<1>8. \A u \in Threads \ S : Same(u) BY <1>4
<1> HIDE DEF S
<1>9. Refines BY <1>1, <1>2, <1>4, <1>5, <1>6, <1>7, <1>8, RefuseStep
<1> QED BY <1>4, <1>9

(* Closers do not touch the ring and the calls.  They may wake a waiter    *)
(* that is still stuck, but only once the queue is closed.                 *)
LEMMA ViewKept ==
  ASSUME UNCHANGED <<use, bufVars, fl, call, pc, ret>>
  PROVE  /\ Items' = Items
         /\ \A u \in Threads : Same(u)
<1>1. Items' = Items BY DEF Items, bufVars
<1>2. ASSUME NEW u \in Threads PROVE Same(u)
  <2>1. Abandoned(u)' <=> Abandoned(u) BY DEF Abandoned, Side
  <2>2. Refusal(u)' = Refusal(u) BY DEF Refusal, Side
  <2>3. Answered(u)' <=> Answered(u) BY <2>1 DEF Answered
  <2>4. RequestOf(u)' = RequestOf(u) BY DEF RequestOf
  <2>5. StatusOf(u)' = StatusOf(u) BY <2>3 DEF StatusOf
  <2>6. AnswerOf(u)' = AnswerOf(u) BY <2>1, <2>2 DEF AnswerOf
  <2> QED BY <2>4, <2>5, <2>6 DEF Same
<1> QED BY <1>1, <1>2

LEMMA CloserKeeps ==
  ASSUME QueueInv, UNCHANGED <<use, bufVars, fl, weakBlocked, mutex, call, pc, ret>>,
         condWaiters' \subseteq condWaiters, closed' \/ (UNCHANGED <<closed, condWaiters>>)
  PROVE  QueueInv'
<1>1. RingInv' BY RingKept
<1>2. CallInv' BY DEF QueueInv, CallInv
<1>3. \A s \in Sides : QueuedAt(s)' = QueuedAt(s) /\ WeakAt(s)' = WeakAt(s)
                       /\ HoldersOf(s)' = HoldersOf(s)
  BY DEF QueuedAt, WeakAt, HoldersOf, Side, Async
<1>4. LocksInv' BY <1>3 DEF QueueInv, LocksInv
<1>5. /\ \A u : Side(u)' = Side(u) /\ (Async(u)' <=> Async(u)) /\ (Grows(u)' <=> Grows(u))
      /\ \A s : Stuck(s)' <=> Stuck(s)
      /\ Boundless' <=> Boundless
  BY DEF Side, Async, Grows, Stuck, Boundless, bufVars
<1>6. StuckInv' BY <1>5 DEF QueueInv, StuckInv
<1> QED BY <1>1, <1>2, <1>4, <1>6 DEF QueueInv

LEMMA CloserNext ==
  ASSUME QueueInv, CloseInv, NEW c \in Closers, BeginClose(c) \/ BeginDestroy(c) \/ CloserStep(c)
  PROVE  QueueInv' /\ Refines
<1>1. UNCHANGED <<use, bufVars, fl, weakBlocked, mutex, call, pc, ret>>
  BY DEF BeginClose, BeginDestroy, CloserStep, CloseSection, Drain, Free, queueVars, callVars
<1>2. Items' = Items /\ \A u \in Threads : Same(u) BY <1>1, ViewKept
<1>3. CASE BeginClose(c) \/ BeginDestroy(c) \/ Free(c)
  <2>1. UNCHANGED <<closed, condWaiters>> BY <1>3 DEF BeginClose, BeginDestroy, Free
  <2> QED BY <1>1, <1>2, <2>1, CloserKeeps, SilentStep
<1>4. CASE Drain(c)
  <2>1. closed /\ closed' = closed BY <1>4 DEF Drain, CloseInv
  <2>2. condWaiters' \subseteq condWaiters BY <1>4 DEF Drain, SignalCond
  <2>3. QueueInv' BY <1>1, <2>1, <2>2, CloserKeeps
  <2>4. Refines BY <1>1, <1>2, <2>1, SilentStep
  <2> QED BY <2>3, <2>4
<1>5. CASE CloseSection(c)
  <2>1. closed' = TRUE /\ condWaiters' = condWaiters BY <1>5 DEF CloseSection
  <2>2. QueueInv' BY <1>1, <2>1, CloserKeeps
  <2>3. /\ [t \in Threads |-> RequestOf(t)]' = [t \in Threads |-> RequestOf(t)]
        /\ [t \in Threads |-> StatusOf(t)]' = [t \in Threads |-> StatusOf(t)]
        /\ [t \in Threads |-> AnswerOf(t)]' = [t \in Threads |-> AnswerOf(t)]
    BY <1>2 DEF Same
  <2>4. Contract!Close
    BY <1>2, <2>1, <2>3 DEF Contract!Close, RequestOf, StatusOf, AnswerOf
  <2> QED BY <1>1, <2>2, <2>4 DEF Refines, Contract!Next, Contract!Step
<1> QED BY <1>3, <1>4, <1>5 DEF CloserStep

LEMMA QueueNext == QueueInv /\ CloseInv /\ [Next]_vars => QueueInv' /\ Refines
<1> SUFFICES ASSUME QueueInv, CloseInv, [Next]_vars PROVE QueueInv' /\ Refines OBVIOUS
<1>1. ASSUME NEW t \in Threads, NEW kind \in use.kinds, NEW e \in Elements \cup {NoElement},
             Call(t, kind, e)
      PROVE  QueueInv' /\ Refines
  BY <1>1, CallStep DEF CloseInv
<1>2. ASSUME NEW t \in Threads, ThreadStep(t) PROVE QueueInv' /\ Refines
  <2>0. use' = use BY <1>2 DEF ThreadStep
  <2>1. CASE Lock(t) BY <2>0, <2>1, LockStep
  <2>2. CASE LockWake(t) BY <2>0, <2>2, LockWakeStep
  <2>3. CASE Enter(t) BY <2>0, <2>3, EnterStep
  <2>4. CASE Refuse(t) BY <2>0, <2>4, RefuseCallStep
  <2>5. CASE CondWake(t) BY <2>0, <2>5, CondWakeStep
  <2>6. CASE Unlock(t) BY <2>0, <2>6, UnlockStep
  <2>7. CASE Leave(t) BY <2>0, <2>7, LeaveStep
  <2> QED BY <1>2, <2>1, <2>2, <2>3, <2>4, <2>5, <2>6, <2>7 DEF ThreadStep
<1>3. ASSUME NEW c \in Closers, BeginClose(c) \/ BeginDestroy(c) \/ CloserStep(c)
      PROVE  QueueInv' /\ Refines
  BY <1>3, CloserNext
<1>4. CASE UNCHANGED vars
  <2>1. UNCHANGED <<use, bufVars, fl, weakBlocked, mutex, call, pc, ret, closed, condWaiters>>
    BY <1>4 DEF vars, callVars
  <2>2. Items' = Items /\ \A u \in Threads : Same(u) BY <2>1, ViewKept
  <2> QED BY <2>1, <2>2, CloserKeeps, SilentStep
<1> QED BY <1>1, <1>2, <1>3, <1>4 DEF Next, Finished

(* blocking_queue.h is linearizable, for any number of threads, any        *)
(* capacity, growing or not, and any number of closers: each call of _add, *)
(* _put, _poll and _take acts on one FIFO at one moment of the call, and a *)
(* refusal is true at that moment, also when it comes from a weak lock     *)
(* that was abandoned.                                                     *)
THEOREM ImplementsQueueContract == Spec => ImplementsContract
<1>1. Init => QueueInv /\ CloseInv /\ Contract!Init BY QueueInit, CloseInit
<1>2. QueueInv /\ CloseInv /\ [Next]_vars => QueueInv' /\ CloseInv'
                                             /\ [Contract!Next]_(Contract!vars)
  BY QueueNext, CloseNext DEF Refines
<1> QED BY <1>1, <1>2, PTL DEF Spec, ImplementsContract, Contract!Spec

(* The ring stays a ring: its indices and its size stay within the         *)
(* capacity, the capacity is the bound of a bounded queue, and an element  *)
(* read at front is the oldest one.  A thread that was signalled on        *)
(* bq->cond finds what it waited for although the code does not look       *)
(* again, and each fair lock has one holder at most.                       *)
THEOREM QueueStaysConsistent == Spec => [](RingInv /\ StuckInv /\ LocksInv)
<1>1. Init => QueueInv /\ CloseInv BY QueueInit, CloseInit
<1>2. QueueInv /\ CloseInv /\ [Next]_vars => QueueInv' /\ CloseInv' BY QueueNext, CloseNext
<1>3. QueueInv => RingInv /\ StuckInv /\ LocksInv BY DEF QueueInv
<1> QED BY <1>1, <1>2, <1>3, PTL DEF Spec

=============================================================================
