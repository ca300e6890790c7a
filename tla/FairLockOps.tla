---------------------------- MODULE FairLockOps ----------------------------
(***************************************************************************)
(* The critical sections of fair_lock.h as operators on a Fair_Lock value. *)
(* Each section runs under lock->mutex, so each is one atomic operator;    *)
(* pthread_cond_wait is where a section ends and a later one begins.       *)
(*                                                                         *)
(* A thread waits in at most one entry, so the linked list cond_queue_*    *)
(* is the set `waiters` with the order `ahead`: ahead[t] holds the threads *)
(* that were already in the list when t was linked at its rear.  The entry *)
(* of a thread is named by the thread.                                     *)
(***************************************************************************)
EXTENDS Naturals, FiniteSets

CONSTANT Threads

ASSUME ThreadsAssumption == IsFiniteSet(Threads)

(***************************************************************************)
(* struct Fair_Lock.  `signalled` and `abandoned` are the threads whose    *)
(* entry was unlinked and whose cond was signalled, and which have not yet *)
(* run again; `pool` counts the entries linked from cond_pool.             *)
(***************************************************************************)
FairLockType ==
  [acquired  : BOOLEAN,
   waiting   : Nat,
   waiters   : SUBSET Threads,
   weak      : SUBSET Threads,
   ahead     : [Threads -> SUBSET Threads],
   signalled : SUBSET Threads,
   abandoned : SUBSET Threads,
   pool      : Nat,
   blockWeak : BOOLEAN]

fair_lock_init ==
  [acquired  |-> FALSE,
   waiting   |-> 0,
   waiters   |-> {},
   weak      |-> {},
   ahead     |-> [t \in Threads |-> {}],
   signalled |-> {},
   abandoned |-> {},
   pool      |-> 0,
   blockWeak |-> FALSE]

(* Entries that exist and are not in the pool. *)
EntriesInUse(l) == l.waiters \cup l.signalled \cup l.abandoned

-----------------------------------------------------------------------------
(* _fair_lock_lock: the conditions it branches on.                         *)

RejectsWeak(l, weak) == weak /\ l.blockWeak

(* Fault: waiters that were signalled and have not run are forgotten.      *)
MustWait_Barging(l) == l.acquired

MustWait(l) == l.acquired \/ l.waiting > 0

(* ... the lock is free and nobody is queued: taken at once. *)
TakeFree(l) == [l EXCEPT !.acquired = TRUE]

(* enqueue_cond_queue_entry: an entry comes from the pool, or from malloc  *)
(* when the pool is empty.                                                 *)
Enqueue(l, t, weak) ==
  [l EXCEPT !.waiting = @ + 1,
            !.waiters = @ \cup {t},
            !.weak    = IF weak THEN @ \cup {t} ELSE @,
            !.ahead   = [@ EXCEPT ![t] = l.waiters],
            !.pool    = IF @ = 0 THEN 0 ELSE @ - 1]

(* malloc is only called, and so can only fail, when the pool is empty. *)
EnqueueMayFail(l) == l.pool = 0

(* The thread runs again after its cond was signalled by unlock: it puts   *)
(* its entry in the pool and takes the lock, whatever it finds in it.      *)
WakeAcquires(l, t) ==
  [l EXCEPT !.signalled = @ \ {t},
            !.weak      = @ \ {t},
            !.pool      = @ + 1,
            !.waiting   = @ - 1,
            !.acquired  = TRUE]

(* The thread runs again after its entry was abandoned. *)
WakeAbandoned(l, t) ==
  [l EXCEPT !.abandoned = @ \ {t},
            !.weak      = @ \ {t},
            !.pool      = @ + 1]

-----------------------------------------------------------------------------
(* Unlinking the entries of the threads in S from the list. *)
Unlink(l, S) ==
  [l EXCEPT !.waiters = @ \ S,
            !.ahead   = [u \in Threads |-> IF u \in S THEN {} ELSE @[u] \ S]]

(* Fault: the entry at the rear is taken. *)
IsFront_Rear(l, t) == t \in l.waiters /\ \A u \in l.waiters : t \notin l.ahead[u]

(* dequeue_cond_queue_entry takes the entry at the front of the list. *)
IsFront(l, t) == t \in l.waiters /\ l.ahead[t] = {}

(* fair_lock_unlock with a waiter: the front entry is unlinked and its     *)
(* thread signalled.  waiting_threads still counts it.                     *)
UnlockTo(l, t) ==
  [Unlink(l, {t}) EXCEPT !.signalled = @ \cup {t},
                         !.acquired  = FALSE]

(* fair_lock_unlock with an empty list. *)
UnlockNobody(l) == [l EXCEPT !.acquired = FALSE]

(* Fault: nobody is signalled. *)
fair_lock_unlock_Silent(l) == {UnlockNobody(l)}

(* fair_lock_unlock: the values it may leave behind. *)
fair_lock_unlock(l) ==
  IF l.waiters = {}
  THEN {UnlockNobody(l)}
  ELSE {UnlockTo(l, t) : t \in {u \in Threads : IsFront(l, u)}}

(* fair_lock_block_weak_locks, with abandone_weak_locks: every weak entry  *)
(* is unlinked, no longer counted, and its thread signalled.               *)
fair_lock_block_weak_locks(l) ==
  LET dropped == l.waiters \cap l.weak
  IN  [Unlink(l, dropped) EXCEPT !.blockWeak = TRUE,
                                 !.abandoned = @ \cup dropped,
                                 !.waiting   = @ - Cardinality(dropped)]

fair_lock_allow_weak_locks(l) == [l EXCEPT !.blockWeak = FALSE]

=============================================================================
