------------------------------- MODULE MCSync -------------------------------
(***************************************************************************)
(* The two means by which threads meet, for TLC: the fair lock, with three *)
(* threads, and the lock-free ring of a channel, with 4 slots and counters *)
(* that wrap at 8.  They share no variable and are explored one at a time: *)
(* `part` says which of them moves, and the other stays in its initial     *)
(* state, in which nobody waits and nothing was pushed.                    *)
(***************************************************************************)
EXTENDS FairLock, ChannelRing

VARIABLE part

syncVars == <<vars, lockVars, part>>

SyncInit == part \in {"lock", "ring"} /\ LockInit /\ Init

OnlyLock == part = "lock" /\ UNCHANGED <<vars, part>>
OnlyRing == part = "ring" /\ UNCHANGED <<lockVars, part>>

SyncNext ==
  \/ part = "lock" /\ LockNext /\ OnlyLock
  \/ part = "ring" /\ Next /\ OnlyRing

LockDoes(action) == part = "lock" /\ action /\ OnlyLock
RingDoes(action) == part = "ring" /\ action /\ OnlyRing

(* LockFairness, and the fairness of ChannelRing, of the part that moves.  *)
SyncFairness ==
  /\ \A t \in Threads : /\ WF_syncVars(LockDoes(Wake(t)))
                        /\ WF_syncVars(LockDoes(WakeToAbandon(t)))
                        /\ WF_syncVars(LockDoes(Unlock(t)))
  /\ WF_syncVars(RingDoes(Worker))
  /\ WF_syncVars(RingDoes(PushCopy \/ PushPublish))
  /\ WF_syncVars(RingDoes(JoinAndFree))

SyncSpec == SyncInit /\ [][SyncNext]_syncVars /\ SyncFairness

=============================================================================
