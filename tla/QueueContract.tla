---------------------------- MODULE QueueContract ---------------------------
(***************************************************************************)
(* What callers of blocking_queue.h can rely on: every call of _add, _put, *)
(* _poll and _take takes effect atomically at one moment between its start *)
(* and its return, on one bounded FIFO; BQ_FULL, BQ_EMPTY and BQ_CLOSED    *)
(* are only answered when, at that moment, the queue was full, empty or    *)
(* closed.                                                                 *)
(*                                                                         *)
(* The header promises more: once the queue is closed every call returns   *)
(* BQ_CLOSED.  The code does not keep that promise; RefuseLate is the one  *)
(* step that breaks it, and everything else here is what the header says.  *)
(***************************************************************************)
EXTENDS Naturals, Sequences

CONSTANTS
  Threads,   \* the threads that call the queue
  Elements,  \* what they put in it
  NoElement  \* the element of a call that carries none

VARIABLES
  bound,     \* the capacity given to init; 0: the queue grows without bounds
  items,     \* the elements in the queue, oldest first
  isClosed,  \* whether blocking_queue_close has taken effect
  request,   \* request[t]: the kind and the element of t's call
  status,    \* "idle", "pending" or "answered"
  answer     \* answer[t]: the return code, and the element it delivers

vars == <<bound, items, isClosed, request, status, answer>>

Adding  == {"add", "put"}
Getting == {"poll", "take"}

NoRequest == [kind |-> "none", elem |-> NoElement]
NoAnswer  == [code |-> "none", elem |-> NoElement]

Init ==
  /\ bound \in Nat
  /\ items = <<>>
  /\ isClosed = FALSE
  /\ request = [t \in Threads |-> NoRequest]
  /\ status = [t \in Threads |-> "idle"]
  /\ answer = [t \in Threads |-> NoAnswer]

Full == bound # 0 /\ Len(items) >= bound

Invoke(t, kind, e) ==
  /\ status[t] = "idle"
  /\ (e = NoElement) <=> (kind \in Getting)
  /\ request' = [request EXCEPT ![t] = [kind |-> kind, elem |-> e]]
  /\ status' = [status EXCEPT ![t] = "pending"]
  /\ UNCHANGED <<items, isClosed, answer>>

(* The call of each thread in S is answered, with the same code. *)
Answer(S, code, e) ==
  /\ \A t \in S : status[t] = "pending"
  /\ status' = [t \in Threads |-> IF t \in S THEN "answered" ELSE status[t]]
  /\ answer' = [t \in Threads |->
                  IF t \in S THEN [code |-> code, elem |-> e] ELSE answer[t]]
  /\ UNCHANGED <<request, isClosed>>

Accept(t) ==
  /\ request[t].kind \in Adding
  /\ ~isClosed /\ ~Full
  /\ items' = Append(items, request[t].elem)
  /\ Answer({t}, "OK", NoElement)

Deliver(t) ==
  /\ request[t].kind \in Getting
  /\ ~isClosed /\ items # <<>>
  /\ items' = Tail(items)
  /\ Answer({t}, "OK", Head(items))

(* Non-blocking calls only; several may be refused by one observation.     *)
RefuseFull(S) ==
  /\ ~isClosed /\ Full
  /\ \A t \in S : request[t].kind = "add"
  /\ Answer(S, "BQ_FULL", NoElement)
  /\ UNCHANGED items

RefuseEmpty(S) ==
  /\ ~isClosed /\ items = <<>>
  /\ \A t \in S : request[t].kind = "poll"
  /\ Answer(S, "BQ_EMPTY", NoElement)
  /\ UNCHANGED items

RefuseClosed(t) ==
  /\ isClosed
  /\ Answer({t}, "BQ_CLOSED", NoElement)
  /\ UNCHANGED items

(* Against the header: a non-blocking call is refused at the fair lock,    *)
(* before anybody looks at `closed`, because the weak locks are still      *)
(* blocked from when the queue was full or empty.                          *)
RefuseLate(t) ==
  /\ isClosed
  /\ IF request[t].kind = "add" THEN Full ELSE request[t].kind = "poll" /\ items = <<>>
  /\ Answer({t}, IF request[t].kind = "add" THEN "BQ_FULL" ELSE "BQ_EMPTY", NoElement)
  /\ UNCHANGED items

(* No memory for a waiter's entry, or to grow. *)
Fail(t) ==
  /\ Answer({t}, "BQ_ERROR", NoElement)
  /\ UNCHANGED items

Return(t) ==
  /\ status[t] = "answered"
  /\ status' = [status EXCEPT ![t] = "idle"]
  /\ request' = [request EXCEPT ![t] = NoRequest]
  /\ answer' = [answer EXCEPT ![t] = NoAnswer]
  /\ UNCHANGED <<items, isClosed>>

Close ==
  /\ isClosed' = TRUE
  /\ UNCHANGED <<items, request, status, answer>>

Step ==
  \/ \E t \in Threads, kind \in Adding \cup Getting, e \in Elements \cup {NoElement} :
       Invoke(t, kind, e)
  \/ \E t \in Threads : \/ Accept(t) \/ Deliver(t) \/ RefuseClosed(t)
                        \/ RefuseLate(t) \/ Fail(t) \/ Return(t)
  \/ \E S \in SUBSET Threads : S # {} /\ (RefuseFull(S) \/ RefuseEmpty(S))
  \/ Close

Next == Step /\ UNCHANGED bound

Spec == Init /\ [][Next]_vars

=============================================================================
