------------------------------ MODULE FairLock ------------------------------
(***************************************************************************)
(* fair_lock.h as a component of its own: threads that lock, lock weakly,  *)
(* unlock, and block or allow weak locks in any order the API permits.     *)
(***************************************************************************)
EXTENDS FairLockOps

VARIABLES
  lock,  \* the Fair_Lock
  pc,    \* "out": not in a call, "queued": in pthread_cond_wait, "in": holds
  ret,   \* what the thread's last call of fair_lock_lock[_weak] returned
  before \* history: before[t] are the requests, still pending, older than t's

lockVars == <<lock, pc, ret, before>>

LockInit ==
  /\ lock = fair_lock_init
  /\ pc = [t \in Threads |-> "out"]
  /\ ret = [t \in Threads |-> "FL_OK"]
  /\ before = [t \in Threads |-> {}]

-----------------------------------------------------------------------------
(* fair_lock_lock (weak = FALSE) and fair_lock_lock_weak (weak = TRUE).    *)

(* Threads whose request is pending and has not been abandoned. *)
Pending == {t \in Threads : pc[t] = "queued" /\ t \notin lock.abandoned}

Goes(t, to, result) ==
  /\ pc' = [pc EXCEPT ![t] = to]
  /\ ret' = [ret EXCEPT ![t] = result]
  /\ before' = [u \in Threads |->
                  IF u # t THEN before[u] \ (IF to = "queued" THEN {} ELSE {t})
                  ELSE IF to = "queued" THEN Pending ELSE {}]

LockRejected(t, weak) ==
  /\ pc[t] = "out"
  /\ RejectsWeak(lock, weak)
  /\ Goes(t, "out", "FL_ABANDONED")
  /\ UNCHANGED lock

LockFree(t, weak) ==
  /\ pc[t] = "out"
  /\ ~RejectsWeak(lock, weak)
  /\ ~MustWait(lock)
  /\ lock' = TakeFree(lock)
  /\ Goes(t, "in", "FL_OK")

LockQueued(t, weak) ==
  /\ pc[t] = "out"
  /\ ~RejectsWeak(lock, weak)
  /\ MustWait(lock)
  /\ lock' = Enqueue(lock, t, weak)
  /\ Goes(t, "queued", "FL_OK")

(* malloc or pthread_cond_init fails: waiting_threads is put back. *)
LockNoMemory(t, weak) ==
  /\ pc[t] = "out"
  /\ ~RejectsWeak(lock, weak)
  /\ MustWait(lock)
  /\ EnqueueMayFail(lock)
  /\ Goes(t, "out", "FL_ERROR")
  /\ UNCHANGED lock

(* The part of _fair_lock_lock after pthread_cond_wait. *)
Wake(t) ==
  /\ pc[t] = "queued"
  /\ t \in lock.signalled
  /\ lock' = WakeAcquires(lock, t)
  /\ Goes(t, "in", "FL_OK")

WakeToAbandon(t) ==
  /\ pc[t] = "queued"
  /\ t \in lock.abandoned
  /\ lock' = WakeAbandoned(lock, t)
  /\ Goes(t, "out", "FL_ABANDONED")

Unlock(t) ==
  /\ pc[t] = "in"
  /\ lock' \in fair_lock_unlock(lock)
  /\ Goes(t, "out", ret[t])

(* Any thread may block or allow weak locks, holder or not. *)
BlockWeak ==
  /\ lock' = fair_lock_block_weak_locks(lock)
  /\ UNCHANGED <<pc, ret, before>>

AllowWeak ==
  /\ lock' = fair_lock_allow_weak_locks(lock)
  /\ UNCHANGED <<pc, ret, before>>

LockNext ==
  \/ \E t \in Threads, weak \in BOOLEAN : \/ LockRejected(t, weak)
                                         \/ LockFree(t, weak)
                                         \/ LockQueued(t, weak)
                                         \/ LockNoMemory(t, weak)
  \/ \E t \in Threads : Wake(t) \/ WakeToAbandon(t) \/ Unlock(t)
  \/ BlockWeak
  \/ AllowWeak

LockSpec == LockInit /\ [][LockNext]_lockVars

(* A signalled thread runs again, and a holder gives the lock back. *)
LockFairness ==
  /\ \A t \in Threads : WF_lockVars(Wake(t))
  /\ \A t \in Threads : WF_lockVars(WakeToAbandon(t))
  /\ \A t \in Threads : WF_lockVars(Unlock(t))

LockFairSpec == LockSpec /\ LockFairness

-----------------------------------------------------------------------------
LockTypeOK ==
  /\ lock \in FairLockType
  /\ pc \in [Threads -> {"out", "queued", "in"}]
  /\ ret \in [Threads -> {"FL_OK", "FL_ERROR", "FL_ABANDONED"}]
  /\ before \in [Threads -> SUBSET Threads]

Holds(t) == pc[t] = "in"

(* At most one thread is between fair_lock_lock and fair_lock_unlock, even *)
(* in the window where unlock has signalled a waiter that has not run yet. *)
MutualExclusion ==
  \A t, u \in Threads : Holds(t) /\ Holds(u) => t = u

(* waiting_threads is exact through hand-over and abandonment: it is what  *)
(* keeps a newcomer from barging in while a signalled waiter wakes up.     *)
WaitingCountExact ==
  lock.waiting = Cardinality(lock.waiters \cup lock.signalled)

(* No lost wake-up: while somebody is queued, the lock is held or has been *)
(* handed to a thread that is about to run, so an unlock is still to come. *)
NoStrandedWaiter ==
  lock.waiters # {} => lock.acquired \/ lock.signalled # {}

(* "//assert(lock->is_lock_acquired == 0)" on the way out of               *)
(* _fair_lock_lock: whoever takes the lock finds it free.  It does because *)
(* pthread_cond_wait returns only when signalled here; the code calls it   *)
(* once and not in a loop, and POSIX also lets it return unsignalled.      *)
AcquireOnlyWhenFree ==
  [][\A t \in Threads : pc[t] # "in" /\ pc'[t] = "in" => ~lock.acquired]_lockVars

(* "FIFO order is guaranteed": when a thread takes the lock, every other   *)
(* pending request is younger, the one that unlock has signalled and that  *)
(* has not run yet included.                                               *)
NoOvertaking ==
  [][\A t \in Threads :
        pc[t] # "in" /\ pc'[t] = "in" =>
          \A u \in Pending \ {t} : t \in before[u]]_lockVars

(* "callers will never suffer from starvation": a queued thread gets the   *)
(* lock or its weak request is abandoned, and a strong request is never    *)
(* turned away, however often weak locks are blocked.                      *)
NoStarvation ==
  \A t \in Threads :
    /\ pc[t] = "queued" ~> pc[t] # "queued"
    /\ (pc[t] = "queued" /\ t \notin lock.weak) ~> Holds(t)

=============================================================================
