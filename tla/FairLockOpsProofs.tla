-------------------------- MODULE FairLockOpsProofs -------------------------
(***************************************************************************)
(* Lemmas about the critical sections of fair_lock.h, for whoever uses a   *)
(* Fair_Lock: FairLockProofs, and BlockingQueueProofs with two of them.    *)
(***************************************************************************)
EXTENDS FairLockOps, FiniteSetTheorems, TLAPS

(* The operators of FairLockOps take a Fair_Lock to a Fair_Lock, and what  *)
(* each of them leaves in the fields the argument is about.                *)

LEMMA EnqueueType ==
  ASSUME NEW l \in FairLockType, NEW t \in Threads, NEW weak \in BOOLEAN
  PROVE  Enqueue(l, t, weak) \in FairLockType
<1> DEFINE pool    == IF l.pool = 0 THEN 0 ELSE l.pool - 1
           weaks   == IF weak THEN l.weak \cup {t} ELSE l.weak
           ahead   == [l.ahead EXCEPT ![t] = l.waiters]
           waiting == l.waiting + 1
           waiters == l.waiters \cup {t}
<1>1. pool \in Nat BY DEF FairLockType
<1>2. weaks \in SUBSET Threads BY DEF FairLockType
<1>3. ahead \in [Threads -> SUBSET Threads] BY DEF FairLockType
<1>4. waiting \in Nat /\ waiters \in SUBSET Threads BY DEF FairLockType
<1>5. Enqueue(l, t, weak) = [l EXCEPT !.waiting = waiting, !.waiters = waiters,
                               !.weak = weaks, !.ahead = ahead, !.pool = pool]
  BY DEF Enqueue
<1> HIDE DEF pool, weaks, ahead, waiting, waiters
<1> QED BY <1>1, <1>2, <1>3, <1>4, <1>5 DEF FairLockType

LEMMA WakeAcquiresType ==
  ASSUME NEW l \in FairLockType, NEW t \in Threads, l.waiting - 1 \in Nat
  PROVE  WakeAcquires(l, t) \in FairLockType
<1> DEFINE signalled == l.signalled \ {t}
           weaks     == l.weak \ {t}
           pool      == l.pool + 1
           waiting   == l.waiting - 1
<1>1. signalled \in SUBSET Threads /\ weaks \in SUBSET Threads BY DEF FairLockType
<1>2. pool \in Nat /\ waiting \in Nat BY DEF FairLockType
<1>3. WakeAcquires(l, t) = [l EXCEPT !.signalled = signalled, !.weak = weaks,
                              !.pool = pool, !.waiting = waiting, !.acquired = TRUE]
  BY DEF WakeAcquires
<1> HIDE DEF signalled, weaks, pool, waiting
<1> QED BY <1>1, <1>2, <1>3 DEF FairLockType

LEMMA WakeAbandonedType ==
  ASSUME NEW l \in FairLockType, NEW t \in Threads
  PROVE  WakeAbandoned(l, t) \in FairLockType
<1> DEFINE abandoned == l.abandoned \ {t}
           weaks     == l.weak \ {t}
           pool      == l.pool + 1
<1>1. abandoned \in SUBSET Threads /\ weaks \in SUBSET Threads BY DEF FairLockType
<1>2. pool \in Nat BY DEF FairLockType
<1>3. WakeAbandoned(l, t) = [l EXCEPT !.abandoned = abandoned, !.weak = weaks,
                               !.pool = pool]
  BY DEF WakeAbandoned
<1> HIDE DEF abandoned, weaks, pool
<1> QED BY <1>1, <1>2, <1>3 DEF FairLockType

LEMMA UnlinkFields ==
  ASSUME NEW l \in FairLockType, NEW S \in SUBSET Threads
  PROVE  /\ Unlink(l, S) \in FairLockType
         /\ Unlink(l, S).waiters = l.waiters \ S
         /\ \A u \in Threads :
              Unlink(l, S).ahead[u] = IF u \in S THEN {} ELSE l.ahead[u] \ S
         /\ Unlink(l, S).acquired = l.acquired
         /\ Unlink(l, S).waiting = l.waiting
         /\ Unlink(l, S).signalled = l.signalled
         /\ Unlink(l, S).abandoned = l.abandoned
         /\ Unlink(l, S).weak = l.weak /\ Unlink(l, S).blockWeak = l.blockWeak
<1> DEFINE waiters == l.waiters \ S
           ahead   == [u \in Threads |-> IF u \in S THEN {} ELSE l.ahead[u] \ S]
<1>1. waiters \in SUBSET Threads BY DEF FairLockType
<1>2. ahead \in [Threads -> SUBSET Threads] BY DEF FairLockType
<1>3. \A u \in Threads : ahead[u] = IF u \in S THEN {} ELSE l.ahead[u] \ S OBVIOUS
<1>4. Unlink(l, S) = [l EXCEPT !.waiters = waiters, !.ahead = ahead] BY DEF Unlink
<1>5. waiters = l.waiters \ S OBVIOUS
<1> HIDE DEF waiters, ahead
<1> QED BY <1>1, <1>2, <1>3, <1>4, <1>5 DEF FairLockType

LEMMA UnlockToFields ==
  ASSUME NEW l \in FairLockType, NEW t \in Threads
  PROVE  /\ UnlockTo(l, t) \in FairLockType
         /\ UnlockTo(l, t).waiters = l.waiters \ {t}
         /\ \A u \in Threads \ {t} : UnlockTo(l, t).ahead[u] = l.ahead[u] \ {t}
         /\ UnlockTo(l, t).acquired = FALSE
         /\ UnlockTo(l, t).waiting = l.waiting
         /\ UnlockTo(l, t).signalled = l.signalled \cup {t}
         /\ UnlockTo(l, t).abandoned = l.abandoned
         /\ UnlockTo(l, t).weak = l.weak /\ UnlockTo(l, t).blockWeak = l.blockWeak
<1> DEFINE m == Unlink(l, {t})
           signalled == l.signalled \cup {t}
<1>1. /\ m \in FairLockType
      /\ m.waiters = l.waiters \ {t}
      /\ \A u \in Threads : m.ahead[u] = IF u \in {t} THEN {} ELSE l.ahead[u] \ {t}
      /\ m.waiting = l.waiting
      /\ m.signalled = l.signalled
      /\ m.abandoned = l.abandoned
      /\ m.weak = l.weak /\ m.blockWeak = l.blockWeak
  <2>1. {t} \in SUBSET Threads OBVIOUS
  <2> QED BY <2>1, UnlinkFields, Zenon
<1>2. signalled \in SUBSET Threads BY DEF FairLockType
<1>3. UnlockTo(l, t) = [m EXCEPT !.signalled = signalled, !.acquired = FALSE]
  BY <1>1 DEF UnlockTo
<1>4. signalled = l.signalled \cup {t} OBVIOUS
<1> HIDE DEF m, signalled
<1> QED BY <1>1, <1>2, <1>3, <1>4 DEF FairLockType

LEMMA BlockWeakFields ==
  ASSUME NEW l \in FairLockType, NEW dropped \in SUBSET Threads,
         dropped = l.waiters \cap l.weak,
         NEW m, m = fair_lock_block_weak_locks(l),
         l.waiting - Cardinality(dropped) \in Nat
  PROVE  /\ m \in FairLockType
         /\ m.waiters = l.waiters \ dropped
         /\ \A u \in Threads \ dropped : m.ahead[u] = l.ahead[u] \ dropped
         /\ m.acquired = l.acquired
         /\ m.waiting = l.waiting - Cardinality(dropped)
         /\ m.signalled = l.signalled
         /\ m.abandoned = l.abandoned \cup dropped
         /\ m.weak = l.weak /\ m.blockWeak
<1> DEFINE k == Unlink(l, dropped)
           waiting == l.waiting - Cardinality(dropped)
           abandoned == l.abandoned \cup dropped
<1>1. \A S \in SUBSET Threads :
        /\ Unlink(l, S) \in FairLockType
        /\ Unlink(l, S).waiters = l.waiters \ S
        /\ \A u \in Threads :
             Unlink(l, S).ahead[u] = IF u \in S THEN {} ELSE l.ahead[u] \ S
        /\ Unlink(l, S).acquired = l.acquired
        /\ Unlink(l, S).waiting = l.waiting
        /\ Unlink(l, S).signalled = l.signalled
        /\ Unlink(l, S).abandoned = l.abandoned
        /\ Unlink(l, S).weak = l.weak
  BY UnlinkFields, ZenonT(30)
<1>2. abandoned \in SUBSET Threads /\ waiting \in Nat BY DEF FairLockType
<1>3. m = [k EXCEPT !.blockWeak = TRUE, !.abandoned = abandoned, !.waiting = waiting]
  <2>1. k.waiting = l.waiting /\ k.abandoned = l.abandoned BY <1>1
  <2> QED BY <2>1 DEF fair_lock_block_weak_locks
<1>4. waiting = l.waiting - Cardinality(dropped) /\ abandoned = l.abandoned \cup dropped
  OBVIOUS
<1>5. /\ k \in FairLockType
      /\ k.waiters = l.waiters \ dropped
      /\ \A u \in Threads : k.ahead[u] = IF u \in dropped THEN {} ELSE l.ahead[u] \ dropped
      /\ k.acquired = l.acquired
      /\ k.signalled = l.signalled
      /\ k.weak = l.weak
  BY <1>1
<1> HIDE DEF k, waiting, abandoned
<1>6. m \in FairLockType BY <1>2, <1>3, <1>5 DEF FairLockType
<1>7. /\ m.waiters = k.waiters /\ m.ahead = k.ahead /\ m.acquired = k.acquired
      /\ m.signalled = k.signalled /\ m.waiting = waiting /\ m.abandoned = abandoned
      /\ m.weak = k.weak /\ m.blockWeak
  BY <1>3, <1>5 DEF FairLockType
<1> QED BY <1>4, <1>5, <1>6, <1>7

-----------------------------------------------------------------------------
LEMMA SetsAreFinite ==
  ASSUME NEW S \in SUBSET Threads
  PROVE  IsFiniteSet(S) /\ Cardinality(S) \in Nat
BY ThreadsAssumption, FS_Subset, FS_CardinalityType

-----------------------------------------------------------------------------
(* A lock in order.  Q are the threads that wait in an entry, W those of   *)
(* them that wait weakly, H the threads that hold the lock: at most one,   *)
(* and while one has been signalled and has not run, none.                 *)
LockOK(l, Q, W, H) ==
  /\ l \in FairLockType
  /\ EntriesInUse(l) = Q
  /\ l.waiters \cap l.signalled = {} /\ l.waiters \cap l.abandoned = {}
  /\ l.signalled \cap l.abandoned = {}
  /\ l.weak \subseteq W
  /\ \A t, u \in H : t = u
  /\ l.acquired <=> H # {}
  /\ \A t, u \in l.signalled : t = u
  /\ l.signalled # {} => H = {}
  /\ l.waiting = Cardinality(l.waiters \cup l.signalled)

(* A section that does not touch who was refused.                          *)
SameRefusals(l, m) == m.abandoned = l.abandoned /\ (m.blockWeak <=> l.blockWeak)

LEMMA InitOK == LockOK(fair_lock_init, {}, {}, {}) /\ ~fair_lock_init.blockWeak
<1>1. fair_lock_init \in FairLockType BY DEF fair_lock_init, FairLockType
<1>2. fair_lock_init.waiters \cup fair_lock_init.signalled = {} BY DEF fair_lock_init
<1> QED BY <1>1, <1>2, FS_EmptySet DEF LockOK, EntriesInUse, fair_lock_init

LEMMA TakeFreeOK ==
  ASSUME NEW l, NEW Q, NEW W, NEW H, LockOK(l, Q, W, H), NEW t \in Threads, ~MustWait(l)
  PROVE  /\ H = {} /\ LockOK(TakeFree(l), Q, W, {t}) /\ SameRefusals(l, TakeFree(l))
<1> DEFINE S == l.waiters \cup l.signalled
<1>1. ~l.acquired /\ ~(l.waiting > 0) BY DEF MustWait
<1>2. S \in SUBSET Threads BY DEF LockOK, FairLockType
<1>3. Cardinality(S) \in Nat /\ IsFiniteSet(S) BY <1>2, SetsAreFinite
<1>4. l.waiting = Cardinality(S) BY DEF LockOK
<1>5. Cardinality(S) = 0 BY <1>1, <1>3, <1>4
<1>6. S = {} BY <1>3, <1>5, FS_EmptySet
<1>7. l.signalled = {} BY <1>6
<1> DEFINE m == TakeFree(l)
<1>8. /\ m \in FairLockType /\ m.acquired
      /\ m.waiters = l.waiters /\ m.signalled = l.signalled /\ m.abandoned = l.abandoned
      /\ m.weak = l.weak /\ m.waiting = l.waiting /\ (m.blockWeak <=> l.blockWeak)
  BY DEF LockOK, TakeFree, FairLockType
<1> HIDE DEF m, S
<1>9. LockOK(m, Q, W, {t}) BY <1>7, <1>8 DEF LockOK, EntriesInUse
<1> QED BY <1>1, <1>8, <1>9 DEF LockOK, SameRefusals, m

LEMMA EnqueueOK ==
  ASSUME NEW l, NEW Q, NEW W, NEW H, LockOK(l, Q, W, H), NEW t \in Threads, t \notin Q,
         NEW weak \in BOOLEAN, NEW V, W \subseteq V, weak => t \in V
  PROVE  LockOK(Enqueue(l, t, weak), Q \cup {t}, V, H) /\ SameRefusals(l, Enqueue(l, t, weak))
<1> DEFINE S == l.waiters \cup l.signalled
           m == Enqueue(l, t, weak)
<1>1. l \in FairLockType BY DEF LockOK
<1>2. /\ m.acquired = l.acquired
      /\ m.waiting = l.waiting + 1
      /\ m.waiters = l.waiters \cup {t}
      /\ m.signalled = l.signalled
      /\ m.abandoned = l.abandoned
      /\ m.blockWeak <=> l.blockWeak
      /\ m.weak \subseteq l.weak \cup (IF weak THEN {t} ELSE {})
  BY <1>1 DEF Enqueue, FairLockType
<1>3. m \in FairLockType BY <1>1, EnqueueType
<1>4. S \in SUBSET Threads /\ l.waiting = Cardinality(S) BY DEF LockOK, FairLockType
<1>5. t \notin S /\ t \notin l.abandoned BY DEF LockOK, EntriesInUse
<1>6. IsFiniteSet(S) BY <1>4, SetsAreFinite
<1>7. Cardinality(S \cup {t}) = Cardinality(S) + 1 BY <1>5, <1>6, FS_AddElement
<1>8. m.waiters \cup m.signalled = S \cup {t} BY <1>2
<1>9. m.waiting = Cardinality(m.waiters \cup m.signalled) BY <1>2, <1>4, <1>7, <1>8
<1>10. m.weak \subseteq V BY <1>2 DEF LockOK
<1>11. t \notin l.signalled BY <1>5
<1> HIDE DEF m, S
<1> QED BY <1>2, <1>3, <1>5, <1>9, <1>10, <1>11 DEF LockOK, EntriesInUse, SameRefusals, m

LEMMA WakeAcquiresOK ==
  ASSUME NEW l, NEW Q, NEW W, NEW H, LockOK(l, Q, W, H), NEW t \in l.signalled,
         NEW V, W \ {t} \subseteq V
  PROVE  /\ H = {} /\ LockOK(WakeAcquires(l, t), Q \ {t}, V, {t})
         /\ SameRefusals(l, WakeAcquires(l, t))
<1> DEFINE S == l.waiters \cup l.signalled
           m == WakeAcquires(l, t)
<1>1. l \in FairLockType /\ t \in Threads BY DEF LockOK, FairLockType
<1>2. /\ m.acquired
      /\ m.waiting = l.waiting - 1
      /\ m.waiters = l.waiters
      /\ m.signalled = l.signalled \ {t}
      /\ m.abandoned = l.abandoned
      /\ m.blockWeak <=> l.blockWeak
      /\ m.weak = l.weak \ {t}
  BY <1>1 DEF WakeAcquires, FairLockType
<1>3. S \in SUBSET Threads /\ l.waiting = Cardinality(S) /\ t \in S BY DEF LockOK, FairLockType
<1>4. t \notin l.waiters /\ t \notin l.abandoned BY DEF LockOK
<1>5. IsFiniteSet(S) /\ Cardinality(S \ {t}) \in Nat BY <1>3, SetsAreFinite
<1>6. Cardinality(S \ {t}) = Cardinality(S) - 1 BY <1>3, <1>5, FS_RemoveElement
<1>7. m.waiters \cup m.signalled = S \ {t} BY <1>2, <1>4
<1>8. m.waiting = Cardinality(m.waiters \cup m.signalled) BY <1>2, <1>3, <1>6, <1>7
<1>9. m \in FairLockType BY <1>1, <1>3, <1>5, <1>6, WakeAcquiresType
<1>10. l.signalled = {t} /\ H = {} BY DEF LockOK
<1>11. EntriesInUse(m) = Q \ {t} BY <1>2, <1>4 DEF LockOK, EntriesInUse
<1>12. m.weak \subseteq V BY <1>2 DEF LockOK
<1> HIDE DEF m, S
<1>13. LockOK(m, Q \ {t}, V, {t}) BY <1>2, <1>8, <1>9, <1>10, <1>11, <1>12 DEF LockOK
<1> QED BY <1>2, <1>10, <1>13 DEF SameRefusals, m

LEMMA WakeAbandonedOK ==
  ASSUME NEW l, NEW Q, NEW W, NEW H, LockOK(l, Q, W, H), NEW t \in l.abandoned,
         NEW V, W \ {t} \subseteq V
  PROVE  /\ LockOK(WakeAbandoned(l, t), Q \ {t}, V, H)
         /\ WakeAbandoned(l, t).abandoned = l.abandoned \ {t}
         /\ WakeAbandoned(l, t).blockWeak <=> l.blockWeak
<1> DEFINE m == WakeAbandoned(l, t)
<1>1. l \in FairLockType /\ t \in Threads BY DEF LockOK, FairLockType
<1>2. /\ m.acquired = l.acquired
      /\ m.waiting = l.waiting
      /\ m.waiters = l.waiters
      /\ m.signalled = l.signalled
      /\ m.abandoned = l.abandoned \ {t}
      /\ m.blockWeak <=> l.blockWeak
      /\ m.weak = l.weak \ {t}
  BY <1>1 DEF WakeAbandoned, FairLockType
<1>3. m \in FairLockType BY <1>1, WakeAbandonedType
<1>4. EntriesInUse(m) = Q \ {t} BY <1>2 DEF LockOK, EntriesInUse
<1>5. m.weak \subseteq V BY <1>2 DEF LockOK
<1> HIDE DEF m
<1>6. LockOK(m, Q \ {t}, V, H) BY <1>2, <1>3, <1>4, <1>5 DEF LockOK
<1> QED BY <1>2, <1>6 DEF m

LEMMA UnlockOK ==
  ASSUME NEW l, NEW Q, NEW W, NEW H, LockOK(l, Q, W, H), H # {}, NEW m \in fair_lock_unlock(l)
  PROVE  LockOK(m, Q, W, {}) /\ SameRefusals(l, m)
<1>1. l \in FairLockType /\ l.signalled = {} BY DEF LockOK
<1>2. CASE l.waiters = {}
  <2>1. m = [l EXCEPT !.acquired = FALSE] BY <1>2 DEF fair_lock_unlock, UnlockNobody
  <2>2. /\ m \in FairLockType /\ ~m.acquired
        /\ m.waiters = l.waiters /\ m.signalled = l.signalled /\ m.abandoned = l.abandoned
        /\ m.weak = l.weak /\ m.waiting = l.waiting /\ (m.blockWeak <=> l.blockWeak)
    BY <1>1, <2>1 DEF FairLockType
  <2> QED BY <2>2 DEF LockOK, EntriesInUse, SameRefusals
<1>3. CASE l.waiters # {}
  <2>1. PICK f \in Threads : IsFront(l, f) /\ m = UnlockTo(l, f)
    BY <1>3 DEF fair_lock_unlock
  <2>2. f \in l.waiters BY <2>1 DEF IsFront
  <2> DEFINE n == UnlockTo(l, f)
  <2>3. /\ n \in FairLockType /\ ~n.acquired
        /\ n.waiters = l.waiters \ {f} /\ n.signalled = l.signalled \cup {f}
        /\ n.abandoned = l.abandoned
        /\ n.weak = l.weak /\ n.waiting = l.waiting /\ (n.blockWeak <=> l.blockWeak)
    <3>1. /\ n \in FairLockType /\ n.acquired = FALSE
          /\ n.waiters = l.waiters \ {f} /\ n.signalled = l.signalled \cup {f}
          /\ n.abandoned = l.abandoned
          /\ n.weak = l.weak /\ n.waiting = l.waiting /\ n.blockWeak = l.blockWeak
      BY <1>1, UnlockToFields, Zenon
    <3> HIDE DEF n
    <3> QED BY <3>1
  <2>4. m = n BY <2>1
  <2> HIDE DEF n
  <2>5. n.signalled = {f} /\ n.waiters \cup n.signalled = l.waiters \cup l.signalled
    BY <1>1, <2>2, <2>3
  <2>6. EntriesInUse(n) = Q BY <1>1, <2>2, <2>3 DEF LockOK, EntriesInUse
  <2>7. f \notin l.abandoned BY <2>2 DEF LockOK
  <2>8. LockOK(n, Q, W, {}) BY <2>3, <2>5, <2>6, <2>7 DEF LockOK
  <2> QED BY <2>3, <2>4, <2>8 DEF SameRefusals
<1> QED BY <1>2, <1>3

LEMMA BlockWeakOK ==
  ASSUME NEW l, NEW Q, NEW W, NEW H, LockOK(l, Q, W, H),
         NEW m, m = fair_lock_block_weak_locks(l)
  PROVE  /\ LockOK(m, Q, W, H) /\ m.blockWeak
         /\ l.waiters \cap l.weak \subseteq Q \cap W
         /\ (l.waiters \cap l.weak) \cap l.abandoned = {}
         /\ m.abandoned = l.abandoned \cup (l.waiters \cap l.weak)
<1> DEFINE dropped == l.waiters \cap l.weak
           S == l.waiters \cup l.signalled
<1>1. /\ dropped \in SUBSET Threads /\ S \in SUBSET Threads /\ dropped \subseteq S
      /\ l.waiting = Cardinality(S) /\ l \in FairLockType
  BY DEF LockOK, FairLockType
<1>2. /\ IsFiniteSet(dropped) /\ IsFiniteSet(S) /\ Cardinality(dropped) \in Nat
      /\ Cardinality(S) \in Nat /\ Cardinality(S \ dropped) \in Nat
  BY <1>1, SetsAreFinite
<1>3. Cardinality(S \ dropped) = Cardinality(S) - Cardinality(dropped)
  <2>1. S \cap dropped = dropped BY <1>1
  <2>2. Cardinality(S \ dropped) = Cardinality(S) - Cardinality(S \cap dropped)
    BY <1>2, FS_Difference, Zenon
  <2> QED BY <2>1, <2>2
<1>4. l.waiting - Cardinality(dropped) \in Nat BY <1>1, <1>2, <1>3
<1>5. /\ dropped \cap l.signalled = {} /\ dropped \cap l.abandoned = {}
      /\ dropped \subseteq l.waiters /\ dropped \subseteq Q \cap W
  BY DEF LockOK, EntriesInUse
<1>6. dropped = l.waiters \cap l.weak OBVIOUS
<1>7. S = l.waiters \cup l.signalled OBVIOUS
<1> HIDE DEF dropped, S
<1>8. /\ m \in FairLockType
      /\ m.waiters = l.waiters \ dropped
      /\ m.acquired = l.acquired
      /\ m.waiting = l.waiting - Cardinality(dropped)
      /\ m.signalled = l.signalled
      /\ m.abandoned = l.abandoned \cup dropped
      /\ m.weak = l.weak /\ m.blockWeak
  BY <1>1, <1>4, <1>6, BlockWeakFields
<1>9. m.waiters \cup m.signalled = S \ dropped BY <1>5, <1>7, <1>8
<1>10. m.waiting = Cardinality(m.waiters \cup m.signalled) BY <1>1, <1>3, <1>8, <1>9
<1>11. EntriesInUse(m) = Q BY <1>5, <1>8 DEF LockOK, EntriesInUse
<1>12. LockOK(m, Q, W, H) BY <1>5, <1>8, <1>10, <1>11 DEF LockOK
<1> QED BY <1>5, <1>6, <1>8, <1>12

LEMMA AllowWeakOK ==
  ASSUME NEW l, NEW Q, NEW W, NEW H, LockOK(l, Q, W, H)
  PROVE  /\ LockOK(fair_lock_allow_weak_locks(l), Q, W, H)
         /\ fair_lock_allow_weak_locks(l).abandoned = l.abandoned
         /\ ~fair_lock_allow_weak_locks(l).blockWeak
<1> DEFINE m == fair_lock_allow_weak_locks(l)
<1>1. /\ m \in FairLockType /\ m.acquired = l.acquired
      /\ m.waiters = l.waiters /\ m.signalled = l.signalled /\ m.abandoned = l.abandoned
      /\ m.weak = l.weak /\ m.waiting = l.waiting /\ ~m.blockWeak
  BY DEF LockOK, fair_lock_allow_weak_locks, FairLockType
<1> HIDE DEF m
<1>2. LockOK(m, Q, W, H) BY <1>1 DEF LockOK, EntriesInUse
<1> QED BY <1>1, <1>2 DEF m

=============================================================================
