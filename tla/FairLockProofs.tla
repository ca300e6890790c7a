--------------------------- MODULE FairLockProofs ---------------------------
(***************************************************************************)
(* The fair lock excludes, hands over in order and strands nobody, for     *)
(* every finite set of threads.                                            *)
(*                                                                         *)
(* The argument: a thread in pthread_cond_wait is in exactly one of        *)
(* waiters, signalled and abandoned; unlock signals at most one thread,    *)
(* and until that thread runs waiting_threads counts it, so MustWait turns *)
(* every newcomer to the list although is_lock_acquired is 0.              *)
(***************************************************************************)
EXTENDS FairLock, FairLockOpsProofs

(* Where a waiting thread is. *)
PlaceInv ==
  /\ lock.waiters \cap lock.signalled = {}
  /\ lock.waiters \cap lock.abandoned = {}
  /\ lock.signalled \cap lock.abandoned = {}
  /\ \A t \in Threads : pc[t] = "queued" <=> t \in EntriesInUse(lock)

(* Whose the lock is. *)
HolderInv ==
  /\ MutualExclusion
  /\ lock.acquired <=> \E t \in Threads : Holds(t)
  /\ \A t, u \in lock.signalled : t = u
  /\ lock.signalled # {} => ~lock.acquired

(* The list is ordered, and the order is the order of arrival. *)
OrderInv ==
  /\ \A t, u \in lock.waiters : t # u => t \in lock.ahead[u] \/ u \in lock.ahead[t]
  /\ \A u \in lock.waiters : /\ lock.ahead[u] \subseteq lock.waiters
                             /\ lock.ahead[u] \subseteq before[u]
                             /\ lock.signalled \subseteq before[u]

LockInv ==
  /\ LockTypeOK
  /\ PlaceInv
  /\ HolderInv
  /\ WaitingCountExact
  /\ NoStrandedWaiter
  /\ OrderInv

-----------------------------------------------------------------------------
(* MustWait is exact: the lock is held, or somebody is entitled to it.     *)
LEMMA MustWaitExact ==
  ASSUME LockInv
  PROVE  MustWait(lock) <=> lock.acquired \/ lock.waiters \cup lock.signalled # {}
<1> DEFINE S == lock.waiters \cup lock.signalled
<1>1. S \in SUBSET Threads /\ lock.waiting = Cardinality(S)
  BY DEF LockInv, LockTypeOK, FairLockType, WaitingCountExact
<1>2. IsFiniteSet(S) /\ Cardinality(S) \in Nat BY <1>1, SetsAreFinite
<1>3. (Cardinality(S) = 0) <=> (S = {}) BY <1>2, FS_EmptySet
<1> HIDE DEF S
<1>4. lock.waiting > 0 <=> S # {} BY <1>1, <1>2, <1>3
<1> QED BY <1>4 DEF MustWait, S

LEMMA InitLockInv == LockInit => LockInv
<1> SUFFICES ASSUME LockInit PROVE LockInv OBVIOUS
<1> USE DEF LockInit, fair_lock_init
<1>1. LockTypeOK BY DEF LockTypeOK, FairLockType
<1>2. PlaceInv /\ HolderInv /\ NoStrandedWaiter /\ OrderInv
  BY DEF PlaceInv, EntriesInUse, HolderInv, MutualExclusion, Holds,
         NoStrandedWaiter, OrderInv
<1>3. WaitingCountExact BY FS_EmptySet DEF WaitingCountExact
<1> QED BY <1>1, <1>2, <1>3 DEF LockInv

(* A call that returns at once without the lock leaves the lock alone. *)
LEMMA ReturnsAtOnce ==
  ASSUME LockInv, NEW t \in Threads, NEW r \in {"FL_ERROR", "FL_ABANDONED"},
         pc[t] = "out", Goes(t, "out", r), UNCHANGED lock
  PROVE  LockInv'
<1> USE DEF LockInv, Goes
<1>1. LockTypeOK' BY DEF LockTypeOK
<1>2. pc' = pc BY DEF LockTypeOK
<1>3. PlaceInv' /\ HolderInv' /\ WaitingCountExact' /\ NoStrandedWaiter'
  BY <1>2 DEF PlaceInv, EntriesInUse, HolderInv, MutualExclusion, Holds,
              WaitingCountExact, NoStrandedWaiter
<1>4. t \notin EntriesInUse(lock) BY DEF PlaceInv
<1>5. OrderInv'
  BY <1>4 DEF OrderInv, EntriesInUse, LockTypeOK, FairLockType
<1> QED BY <1>1, <1>3, <1>5

LEMMA LockFreeInv ==
  ASSUME LockInv, NEW t \in Threads, NEW weak \in BOOLEAN, LockFree(t, weak)
  PROVE  LockInv'
<1> USE DEF LockInv
<1>1. lock.waiters = {} /\ lock.signalled = {} /\ ~lock.acquired
  BY MustWaitExact DEF LockFree
<1>2. lock' = [lock EXCEPT !.acquired = TRUE] /\ Goes(t, "in", "FL_OK") /\ pc[t] = "out"
  BY DEF LockFree, TakeFree
<1>3. LockTypeOK' BY <1>2 DEF LockTypeOK, FairLockType, Goes
<1>4. PlaceInv' BY <1>2 DEF PlaceInv, EntriesInUse, LockTypeOK, FairLockType, Goes
<1>5. HolderInv'
  BY <1>1, <1>2 DEF HolderInv, MutualExclusion, Holds, LockTypeOK, FairLockType, Goes
<1>6. WaitingCountExact' /\ NoStrandedWaiter' /\ OrderInv'
  BY <1>1, <1>2 DEF WaitingCountExact, NoStrandedWaiter, OrderInv, LockTypeOK, FairLockType
<1> QED BY <1>3, <1>4, <1>5, <1>6

LEMMA LockQueuedInv ==
  ASSUME LockInv, NEW t \in Threads, NEW weak \in BOOLEAN, LockQueued(t, weak)
  PROVE  LockInv'
<1> USE DEF LockInv
<1>1. /\ pc[t] = "out" /\ Goes(t, "queued", "FL_OK")
      /\ lock' = Enqueue(lock, t, weak)
  BY DEF LockQueued
<1>2. t \notin EntriesInUse(lock) BY <1>1 DEF PlaceInv
<1>3. lock.acquired \/ lock.waiters \cup lock.signalled # {}
  BY MustWaitExact DEF LockQueued
<1>4. /\ lock'.acquired = lock.acquired
      /\ lock'.waiting = lock.waiting + 1
      /\ lock'.waiters = lock.waiters \cup {t}
      /\ lock'.ahead = [lock.ahead EXCEPT ![t] = lock.waiters]
      /\ lock'.signalled = lock.signalled
      /\ lock'.abandoned = lock.abandoned
  BY <1>1 DEF Enqueue, LockTypeOK, FairLockType
<1>5. LockTypeOK'
  <2>1. lock' \in FairLockType BY <1>1, EnqueueType DEF LockTypeOK
  <2> QED BY <1>1, <2>1 DEF LockTypeOK, Goes, Pending
<1>6. PlaceInv'
  BY <1>1, <1>2, <1>4 DEF PlaceInv, EntriesInUse, LockTypeOK, Goes
<1>7. HolderInv'
  BY <1>1, <1>4 DEF HolderInv, MutualExclusion, Holds, LockTypeOK, FairLockType, Goes
<1>8. WaitingCountExact'
  <2> DEFINE S == lock.waiters \cup lock.signalled
  <2>1. S \in SUBSET Threads /\ t \notin S
    BY <1>2 DEF LockTypeOK, FairLockType, EntriesInUse
  <2>2. IsFiniteSet(S) BY <2>1, SetsAreFinite
  <2>3. Cardinality(S \cup {t}) = Cardinality(S) + 1 BY <2>1, <2>2, FS_AddElement
  <2>4. lock'.waiters \cup lock'.signalled = S \cup {t} BY <1>4
  <2> QED BY <1>4, <2>3, <2>4 DEF WaitingCountExact
<1>9. NoStrandedWaiter' BY <1>3, <1>4 DEF NoStrandedWaiter
<1>10. OrderInv'
  <2>1. before'[t] = Pending BY <1>1 DEF Goes
  <2>2. lock.waiters \subseteq Pending /\ lock.signalled \subseteq Pending
    BY DEF Pending, PlaceInv, EntriesInUse, LockTypeOK, FairLockType
  <2>3. \A u \in Threads : u # t => before'[u] = before[u] BY <1>1 DEF Goes
  <2>4. lock.waiters \subseteq Threads /\ lock.ahead \in [Threads -> SUBSET Threads]
        /\ t \notin lock.waiters
    BY <1>2 DEF LockTypeOK, FairLockType, EntriesInUse
  <2> QED BY <1>4, <2>1, <2>2, <2>3, <2>4 DEF OrderInv
<1> QED BY <1>5, <1>6, <1>7, <1>8, <1>9, <1>10

LEMMA WakeInv ==
  ASSUME LockInv, NEW t \in Threads, Wake(t)
  PROVE  LockInv'
<1> USE DEF LockInv
<1>1. /\ pc[t] = "queued" /\ t \in lock.signalled /\ Goes(t, "in", "FL_OK")
      /\ lock' = WakeAcquires(lock, t)
  BY DEF Wake
<1>2. /\ lock'.acquired = TRUE
      /\ lock'.waiting = lock.waiting - 1
      /\ lock'.waiters = lock.waiters
      /\ lock'.ahead = lock.ahead
      /\ lock'.signalled = lock.signalled \ {t}
      /\ lock'.abandoned = lock.abandoned
  BY <1>1 DEF WakeAcquires, LockTypeOK, FairLockType
<1>3. lock.signalled = {t} /\ ~lock.acquired BY <1>1 DEF HolderInv
<1>4. t \notin lock.waiters /\ t \notin lock.abandoned BY <1>1 DEF PlaceInv
<1>5. WaitingCountExact' /\ lock'.waiting \in Nat
  <2> DEFINE S == lock.waiters \cup lock.signalled
  <2>1. S \in SUBSET Threads /\ t \in S /\ lock.waiting = Cardinality(S)
    BY <1>1 DEF LockTypeOK, FairLockType, WaitingCountExact
  <2>2. IsFiniteSet(S) /\ IsFiniteSet(S \ {t}) /\ Cardinality(S \ {t}) \in Nat
    BY <2>1, SetsAreFinite
  <2>3. Cardinality(S \ {t}) = Cardinality(S) - 1 BY <2>1, <2>2, FS_RemoveElement
  <2>4. lock'.waiters \cup lock'.signalled = S \ {t} BY <1>2, <1>4
  <2> QED BY <1>2, <2>1, <2>2, <2>3, <2>4 DEF WaitingCountExact
<1>6. LockTypeOK'
  <2>1. lock' \in FairLockType
    BY <1>1, <1>2, <1>5, WakeAcquiresType DEF LockTypeOK
  <2> QED BY <1>1, <2>1 DEF LockTypeOK, Goes
<1>7. PlaceInv'
  BY <1>1, <1>2, <1>4 DEF PlaceInv, EntriesInUse, LockTypeOK, Goes
<1>8. HolderInv'
  BY <1>1, <1>2, <1>3 DEF HolderInv, MutualExclusion, Holds, LockTypeOK, Goes
<1>9. NoStrandedWaiter' BY <1>2 DEF NoStrandedWaiter
<1>10. OrderInv'
  BY <1>1, <1>2, <1>3, <1>4 DEF OrderInv, LockTypeOK, FairLockType, Goes
<1> QED BY <1>5, <1>6, <1>7, <1>8, <1>9, <1>10

LEMMA WakeToAbandonInv ==
  ASSUME LockInv, NEW t \in Threads, WakeToAbandon(t)
  PROVE  LockInv'
<1> USE DEF LockInv
<1>1. /\ pc[t] = "queued" /\ t \in lock.abandoned /\ Goes(t, "out", "FL_ABANDONED")
      /\ lock' = WakeAbandoned(lock, t)
  BY DEF WakeToAbandon
<1>2. /\ lock'.acquired = lock.acquired
      /\ lock'.waiting = lock.waiting
      /\ lock'.waiters = lock.waiters
      /\ lock'.ahead = lock.ahead
      /\ lock'.signalled = lock.signalled
      /\ lock'.abandoned = lock.abandoned \ {t}
  BY <1>1 DEF WakeAbandoned, LockTypeOK, FairLockType
<1>3. t \notin lock.waiters /\ t \notin lock.signalled BY <1>1 DEF PlaceInv
<1>4. LockTypeOK'
  <2>1. lock' \in FairLockType BY <1>1, WakeAbandonedType DEF LockTypeOK
  <2> QED BY <1>1, <2>1 DEF LockTypeOK, Goes
<1>5. PlaceInv' BY <1>1, <1>2, <1>3 DEF PlaceInv, EntriesInUse, LockTypeOK, Goes
<1>6. HolderInv' BY <1>1, <1>2 DEF HolderInv, MutualExclusion, Holds, LockTypeOK, FairLockType, Goes
<1>7. WaitingCountExact' /\ NoStrandedWaiter'
  BY <1>2 DEF WaitingCountExact, NoStrandedWaiter
<1>8. OrderInv' BY <1>1, <1>2, <1>3 DEF OrderInv, LockTypeOK, FairLockType, Goes
<1> QED BY <1>4, <1>5, <1>6, <1>7, <1>8

(* The holder gives the lock up.  The front of the list is the oldest      *)
(* request: everybody else in the list has it in `ahead`.                  *)
LEMMA UnlockInv ==
  ASSUME LockInv, NEW t \in Threads, Unlock(t)
  PROVE  LockInv'
<1> USE DEF LockInv
<1>1. pc[t] = "in" /\ Goes(t, "out", ret[t]) /\ lock' \in fair_lock_unlock(lock)
  BY DEF Unlock
<1>2. /\ lock.acquired /\ lock.signalled = {}
      /\ t \notin lock.waiters /\ t \notin lock.abandoned
  BY <1>1 DEF HolderInv, Holds, PlaceInv, EntriesInUse
<1>3. /\ pc' = [pc EXCEPT ![t] = "out"]
      /\ \A v \in Threads \ {t} : before'[v] = before[v] \ {t}
      /\ pc' \in [Threads -> {"out", "queued", "in"}]
      /\ ret' \in [Threads -> {"FL_OK", "FL_ERROR", "FL_ABANDONED"}]
      /\ before' \in [Threads -> SUBSET Threads]
  BY <1>1 DEF Goes, LockTypeOK
<1>4. \A v \in Threads : ~(pc'[v] = "in")
  BY <1>1, <1>3 DEF HolderInv, MutualExclusion, Holds, LockTypeOK
<1>5. CASE lock.waiters = {}
  <2>1. lock' = [lock EXCEPT !.acquired = FALSE]
    BY <1>1, <1>5 DEF fair_lock_unlock, UnlockNobody
  <2>2. LockTypeOK' BY <1>3, <2>1 DEF LockTypeOK, FairLockType
  <2>3. /\ lock'.waiters = {} /\ lock'.signalled = {} /\ lock'.acquired = FALSE
        /\ lock'.waiting = lock.waiting /\ lock'.abandoned = lock.abandoned
    BY <1>2, <1>5, <2>1 DEF LockTypeOK, FairLockType
  <2>4. PlaceInv' BY <1>1, <1>2, <1>3, <1>5, <2>3 DEF PlaceInv, EntriesInUse, LockTypeOK
  <2>5. HolderInv' BY <1>4, <2>3 DEF HolderInv, MutualExclusion, Holds
  <2>6. WaitingCountExact' BY <1>2, <1>5, <2>3 DEF WaitingCountExact
  <2>7. NoStrandedWaiter' /\ OrderInv' BY <2>3 DEF NoStrandedWaiter, OrderInv
  <2> QED BY <2>2, <2>4, <2>5, <2>6, <2>7
<1>6. CASE lock.waiters # {}
  <2>1. PICK f \in Threads : IsFront(lock, f) /\ lock' = UnlockTo(lock, f)
    BY <1>1, <1>6 DEF fair_lock_unlock
  <2>2. f \in lock.waiters /\ lock.ahead[f] = {} BY <2>1 DEF IsFront
  <2>3. /\ lock' \in FairLockType
        /\ lock'.waiters = lock.waiters \ {f}
        /\ \A u \in Threads \ {f} : lock'.ahead[u] = lock.ahead[u] \ {f}
        /\ lock'.acquired = FALSE
        /\ lock'.waiting = lock.waiting
        /\ lock'.signalled = lock.signalled \cup {f}
        /\ lock'.abandoned = lock.abandoned
    <3>1. lock \in FairLockType BY DEF LockTypeOK
    <3> DEFINE n == UnlockTo(lock, f)
    <3>2. /\ n \in FairLockType
          /\ n.waiters = lock.waiters \ {f}
          /\ \A u \in Threads \ {f} : n.ahead[u] = lock.ahead[u] \ {f}
          /\ n.acquired = FALSE
          /\ n.waiting = lock.waiting
          /\ n.signalled = lock.signalled \cup {f}
          /\ n.abandoned = lock.abandoned
      BY <3>1, UnlockToFields
    <3>3. lock' = n BY <2>1
    <3> HIDE DEF n
    <3> QED BY <3>2, <3>3
  <2>4. LockTypeOK' BY <1>3, <2>3 DEF LockTypeOK
  <2>5. PlaceInv'
    BY <1>1, <1>2, <1>3, <2>2, <2>3 DEF PlaceInv, EntriesInUse, LockTypeOK
  <2>6. HolderInv' BY <1>2, <1>4, <2>3 DEF HolderInv, MutualExclusion, Holds
  <2>7. WaitingCountExact'
    <3>1. lock'.waiters \cup lock'.signalled = lock.waiters \cup lock.signalled
      BY <2>2, <2>3
    <3> QED BY <2>3, <3>1 DEF WaitingCountExact
  <2>8. NoStrandedWaiter' BY <2>3 DEF NoStrandedWaiter
  <2>9. OrderInv'
    <3>1. lock.waiters \subseteq Threads /\ f # t BY <1>2, <2>2 DEF LockTypeOK, FairLockType
    <3>2. \A u \in lock.waiters \ {f} : f \in lock.ahead[u] BY <2>2 DEF OrderInv
    <3>3. \A u \in lock.waiters \ {f} :
            /\ lock'.ahead[u] = lock.ahead[u] \ {f}
            /\ before'[u] = before[u] \ {t}
      BY <1>2, <1>3, <2>3, <3>1
    <3>4. lock'.signalled = {f} BY <1>2, <2>3
    <3> QED BY <1>2, <2>3, <3>1, <3>2, <3>3, <3>4 DEF OrderInv
  <2> QED BY <2>4, <2>5, <2>6, <2>7, <2>8, <2>9
<1> QED BY <1>5, <1>6

(* Abandoning takes the weak waiters out of the list and out of the count; *)
(* the ones that stay keep their order.                                    *)
LEMMA BlockWeakInv ==
  ASSUME LockInv, BlockWeak
  PROVE  LockInv'
<1> USE DEF LockInv
<1> DEFINE dropped == lock.waiters \cap lock.weak
           S == lock.waiters \cup lock.signalled
<1>1. /\ dropped \in SUBSET Threads /\ S \in SUBSET Threads /\ dropped \subseteq S
      /\ lock.waiting = Cardinality(S)
  BY DEF LockTypeOK, FairLockType, WaitingCountExact
<1>2. /\ IsFiniteSet(dropped) /\ IsFiniteSet(S) /\ Cardinality(dropped) \in Nat
      /\ Cardinality(S) \in Nat /\ Cardinality(S \ dropped) \in Nat
  BY <1>1, SetsAreFinite
<1>3. Cardinality(S \ dropped) = Cardinality(S) - Cardinality(dropped)
  <2>1. S \cap dropped = dropped BY <1>1
  <2>2. Cardinality(S \ dropped) = Cardinality(S) - Cardinality(S \cap dropped)
    BY <1>2, FS_Difference, Zenon
  <2> QED BY <2>1, <2>2
<1>4. lock.waiting - Cardinality(dropped) \in Nat BY <1>1, <1>2, <1>3
<1>5. /\ lock' \in FairLockType
      /\ lock'.waiters = lock.waiters \ dropped
      /\ \A u \in Threads \ dropped : lock'.ahead[u] = lock.ahead[u] \ dropped
      /\ lock'.acquired = lock.acquired
      /\ lock'.waiting = lock.waiting - Cardinality(dropped)
      /\ lock'.signalled = lock.signalled
      /\ lock'.abandoned = lock.abandoned \cup dropped
  <2>1. lock' = fair_lock_block_weak_locks(lock) BY DEF BlockWeak
  <2>2. lock \in FairLockType BY DEF LockTypeOK
  <2>3. dropped = lock.waiters \cap lock.weak OBVIOUS
  <2> DEFINE n == fair_lock_block_weak_locks(lock)
  <2>4. n = fair_lock_block_weak_locks(lock) /\ lock' = n BY <2>1
  <2> HIDE DEF dropped, n
  <2>5. /\ n \in FairLockType
        /\ n.waiters = lock.waiters \ dropped
        /\ \A u \in Threads \ dropped : n.ahead[u] = lock.ahead[u] \ dropped
        /\ n.acquired = lock.acquired
        /\ n.waiting = lock.waiting - Cardinality(dropped)
        /\ n.signalled = lock.signalled
        /\ n.abandoned = lock.abandoned \cup dropped
    BY <1>1, <1>4, <2>2, <2>3, <2>4, BlockWeakFields
  <2> QED BY <2>4, <2>5
<1>6. pc' = pc /\ ret' = ret /\ before' = before BY DEF BlockWeak
<1>7. dropped \cap lock.signalled = {} /\ dropped \subseteq lock.waiters BY DEF PlaceInv
<1>8. WaitingCountExact'
  <2>1. lock'.waiters \cup lock'.signalled = S \ dropped BY <1>5, <1>7
  <2> QED BY <1>1, <1>3, <1>5, <2>1 DEF WaitingCountExact
<1>9. lock.waiters \subseteq Threads BY DEF LockTypeOK, FairLockType
<1> HIDE DEF dropped, S
<1>10. LockTypeOK' BY <1>5, <1>6 DEF LockTypeOK
<1>11. PlaceInv' BY <1>5, <1>6, <1>7 DEF PlaceInv, EntriesInUse
<1>12. HolderInv' BY <1>5, <1>6 DEF HolderInv, MutualExclusion, Holds
<1>13. NoStrandedWaiter' BY <1>5 DEF NoStrandedWaiter
<1>14. OrderInv' BY <1>5, <1>6, <1>9 DEF OrderInv
<1> QED BY <1>8, <1>10, <1>11, <1>12, <1>13, <1>14

LEMMA AllowWeakInv ==
  ASSUME LockInv, AllowWeak
  PROVE  LockInv'
<1> USE DEF LockInv
<1>1. lock' = [lock EXCEPT !.blockWeak = FALSE] /\ UNCHANGED <<pc, ret, before>>
  BY DEF AllowWeak, fair_lock_allow_weak_locks
<1>2. LockTypeOK' BY <1>1 DEF LockTypeOK, FairLockType
<1>3. /\ lock'.acquired = lock.acquired
      /\ lock'.waiting = lock.waiting
      /\ lock'.waiters = lock.waiters
      /\ lock'.ahead = lock.ahead
      /\ lock'.signalled = lock.signalled
      /\ lock'.abandoned = lock.abandoned
  BY <1>1 DEF LockTypeOK, FairLockType
<1> QED
  BY <1>1, <1>2, <1>3 DEF PlaceInv, EntriesInUse, HolderInv, MutualExclusion, Holds,
                          WaitingCountExact, NoStrandedWaiter, OrderInv

-----------------------------------------------------------------------------
LEMMA LockStep ==
  ASSUME LockInv, [LockNext]_lockVars
  PROVE  LockInv'
<1>1. ASSUME NEW t \in Threads, NEW weak \in BOOLEAN,
             LockRejected(t, weak) \/ LockNoMemory(t, weak)
      PROVE  LockInv'
  BY <1>1, ReturnsAtOnce DEF LockRejected, LockNoMemory
<1>2. CASE UNCHANGED lockVars
  BY <1>2 DEF lockVars, LockInv, LockTypeOK, PlaceInv, EntriesInUse, HolderInv, MutualExclusion,
              Holds, WaitingCountExact, NoStrandedWaiter, OrderInv
<1> QED
  BY <1>1, <1>2, LockFreeInv, LockQueuedInv, WakeInv, WakeToAbandonInv, UnlockInv,
     BlockWeakInv, AllowWeakInv
  DEF LockNext

(* LockInv is an inductive invariant of fair_lock.h. *)
THEOREM LockInvariant == LockSpec => []LockInv
BY InitLockInv, LockStep, PTL DEF LockSpec

(* The fields of the Fair_Lock and the threads' states keep their types;   *)
(* in particular waiting_threads never goes below zero.                    *)
THEOREM LockTypeCorrect == LockSpec => []LockTypeOK
<1>1. LockInv => LockTypeOK BY DEF LockInv
<1> QED BY <1>1, LockInvariant, PTL

(* fair_lock_lock[_weak] and fair_lock_unlock bracket a critical section:  *)
(* never two threads in it, whatever the interleaving of hand-over, weak   *)
(* requests and block/allow.                                               *)
THEOREM LockExcludes == LockSpec => []MutualExclusion
<1>1. LockInv => MutualExclusion BY DEF LockInv, HolderInv
<1> QED BY <1>1, LockInvariant, PTL

(* waiting_threads counts exactly the waiters in the list and the one that *)
(* was signalled and has not run.                                          *)
THEOREM LockCountsWaiters == LockSpec => []WaitingCountExact
<1>1. LockInv => WaitingCountExact BY DEF LockInv
<1> QED BY <1>1, LockInvariant, PTL

(* While a thread is in the list, an unlock or a wake-up is still to come. *)
THEOREM LockStrandsNobody == LockSpec => []NoStrandedWaiter
<1>1. LockInv => NoStrandedWaiter BY DEF LockInv
<1> QED BY <1>1, LockInvariant, PTL

(* Whoever takes the lock: by which action, and what it left to others. *)
LEMMA TakesLock ==
  ASSUME LockInv, [LockNext]_lockVars, NEW t \in Threads, pc[t] # "in", pc'[t] = "in"
  PROVE  Wake(t) \/ \E weak \in BOOLEAN : LockFree(t, weak)
<1>1. pc \in [Threads -> {"out", "queued", "in"}] BY DEF LockInv, LockTypeOK
<1> QED
  BY <1>1 DEF LockNext, lockVars, LockRejected, LockFree, LockQueued, LockNoMemory, Wake,
              WakeToAbandon, Unlock, BlockWeak, AllowWeak, Goes

(* The commented-out assertion of _fair_lock_lock holds as long as         *)
(* pthread_cond_wait returns only when signalled.                          *)
THEOREM LockTakenOnlyWhenFree == LockSpec => AcquireOnlyWhenFree
<1>1. ASSUME LockInv, [LockNext]_lockVars
      PROVE  [\A t \in Threads : pc[t] # "in" /\ pc'[t] = "in" => ~lock.acquired]_lockVars
  <2>1. ASSUME NEW t \in Threads, pc[t] # "in", pc'[t] = "in" PROVE ~lock.acquired
    <3>1. CASE Wake(t) BY <3>1, <1>1 DEF Wake, LockInv, HolderInv
    <3>2. CASE \E weak \in BOOLEAN : LockFree(t, weak)
      BY <3>2, <1>1 DEF LockFree, MustWait
    <3> QED BY <1>1, <2>1, <3>1, <3>2, TakesLock
  <2> QED BY <2>1
<1> QED BY <1>1, LockInvariant, PTL DEF LockSpec, AcquireOnlyWhenFree

(* "FIFO order is guaranteed": every request still pending when a thread   *)
(* takes the lock was made after that thread's own.                        *)
THEOREM LockIsFair == LockSpec => NoOvertaking
<1>1. ASSUME LockInv, [LockNext]_lockVars
      PROVE  [\A t \in Threads :
                pc[t] # "in" /\ pc'[t] = "in" => \A u \in Pending \ {t} : t \in before[u]]_lockVars
  <2>0. Pending = lock.waiters \cup lock.signalled
    BY <1>1 DEF Pending, LockInv, PlaceInv, EntriesInUse, LockTypeOK, FairLockType
  <2>1. ASSUME NEW t \in Threads, pc[t] # "in", pc'[t] = "in", NEW u \in Pending \ {t}
        PROVE  t \in before[u]
    <3>1. CASE Wake(t)
      BY <1>1, <2>0, <2>1, <3>1 DEF Wake, LockInv, HolderInv, OrderInv
    <3>2. CASE \E weak \in BOOLEAN : LockFree(t, weak)
      BY <1>1, <2>0, <2>1, <3>2, MustWaitExact DEF LockFree
    <3> QED BY <1>1, <2>1, <3>1, <3>2, TakesLock
  <2> QED BY <2>1
<1> QED BY <1>1, LockInvariant, PTL DEF LockSpec, NoOvertaking

=============================================================================
