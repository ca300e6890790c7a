-------------------------- MODULE ChannelRingProofs -------------------------
(***************************************************************************)
(* The per-channel ring is safe for every ring size, batch size and        *)
(* counter width that is a multiple of at least two ring sizes.            *)
(*                                                                         *)
(* The argument: the wrapped counters are the unwrapped ones modulo        *)
(* CounterMod, so unsigned subtraction is exact; the samples between got   *)
(* and sent are in their slots; what the producer may write beyond sent    *)
(* was free when it looked, and only becomes freer.                        *)
(***************************************************************************)
EXTENDS ChannelRing, TLAPS

(* Division with remainder by a positive number. *)
LEMMA DivMod ==
  ASSUME NEW R \in Nat \ {0}, NEW a \in Nat
  PROVE  /\ a % R \in 0..(R - 1)
         /\ a \div R \in Nat
         /\ a = R * (a \div R) + (a % R)
  OBVIOUS

(* The remainder is the only one there is. *)
LEMMA ModUnique ==
  ASSUME NEW R \in Nat \ {0}, NEW q \in Nat, NEW r \in 0..(R - 1)
  PROVE  (R * q + r) % R = r
  OBVIOUS

(* An integer multiple of R strictly between -R and R is zero. *)
LEMMA SmallMultiple ==
  ASSUME NEW R \in Nat \ {0}, NEW k \in Int, -R < R * k, R * k < R
  PROVE  k = 0
<1>1. CASE k >= 1
  <2>1. R * k >= R BY <1>1
  <2> QED BY <2>1
<1>2. CASE k <= -1
  <2>1. R * k <= -R BY <1>2
  <2> QED BY <2>1
<1> QED BY <1>1, <1>2

(* Two numbers less than R apart with the same remainder are equal: slots  *)
(* of different samples within one ring length are different.              *)
LEMMA ModInjective ==
  ASSUME NEW R \in Nat \ {0}, NEW a \in Nat, NEW b \in Nat,
         a % R = b % R, a - b < R, b - a < R
  PROVE  a = b
<1> DEFINE k == (a \div R) - (b \div R)
<1>1. a - b = R * k
  <2>1. a = R * (a \div R) + (a % R) /\ a \div R \in Nat BY DivMod
  <2>2. b = R * (b \div R) + (b % R) /\ b \div R \in Nat BY DivMod
  <2> QED BY <2>1, <2>2
<1>2. k \in Int BY DivMod
<1> HIDE DEF k
<1>3. k = 0 BY <1>1, <1>2, SmallMultiple
<1> QED BY <1>1, <1>3

LEMMA MulExchange ==
  ASSUME NEW x \in Nat, NEW y \in Nat, NEW z \in Nat
  PROVE  (x * y) * z = y * (x * z)
  OBVIOUS

(* Reducing modulo a multiple of R first does not change the remainder.    *)
LEMMA ModOfMultiple ==
  ASSUME NEW R \in Nat \ {0}, NEW L \in Nat \ {0}, NEW a \in Nat, NEW i \in Nat
  PROVE  ((a % (L * R)) + i) % R = (a + i) % R
<1> DEFINE M == L * R
           c == (a % M) + i
           q == a \div M
<1>1. M \in Nat \ {0} OBVIOUS
<1>2. a % M \in 0..(M - 1) /\ q \in Nat /\ a = M * q + (a % M)
  BY <1>1, DivMod
<1>3. c \in Nat BY <1>1, <1>2
<1>4. a + i = M * q + c BY <1>2, <1>1
<1>5. M * q = R * (L * q) BY <1>2, MulExchange
<1>6. c % R \in 0..(R - 1) /\ c \div R \in Nat /\ c = R * (c \div R) + (c % R)
  BY <1>3, DivMod
<1>7. L * q \in Nat BY <1>2
<1> DEFINE d == c \div R
           r == c % R
           s == L * q
<1>8. a + i = R * s + (R * d + r) BY <1>4, <1>5, <1>6
<1>9. s \in Nat /\ d \in Nat /\ r \in 0..(R - 1) BY <1>6, <1>7
<1> HIDE DEF d, r, s
<1>10. a + i = R * (s + d) + r BY <1>8, <1>9
<1>11. (R * (s + d) + r) % R = r BY <1>9, ModUnique
<1> QED BY <1>10, <1>11 DEF r

-----------------------------------------------------------------------------
(* The counters. *)

LEMMA CounterModFacts ==
  /\ CounterMod \in Nat \ {0}
  /\ RingSize < CounterMod
<1>1. RingSize \in Nat \ {0} /\ Laps \in Nat /\ Laps >= 2 BY RingAssumption
<1>2. Laps * RingSize >= 2 * RingSize BY <1>1
<1> QED BY <1>1, <1>2 DEF CounterMod

(* Unsigned subtraction of two wrapped counters is exact as long as they   *)
(* are less than a full turn apart.                                        *)
LEMMA USubExact ==
  ASSUME NEW a \in Nat, NEW b \in Nat, b <= a, a - b < CounterMod
  PROVE  USub(a % CounterMod, b % CounterMod) = a - b
<1> DEFINE M == CounterMod
           k == (a \div M) - (b \div M)
           x == a % M
           y == b % M
<1>1. M \in Nat \ {0} BY CounterModFacts
<1>2. a = M * (a \div M) + x /\ a \div M \in Nat /\ x \in 0..(M - 1)
  BY <1>1, DivMod
<1>3. b = M * (b \div M) + y /\ b \div M \in Nat /\ y \in 0..(M - 1)
  BY <1>1, DivMod
<1>4. k \in Int BY <1>2, <1>3
<1>5. a - b = M * k + (x - y) BY <1>1, <1>2, <1>3
<1> SUFFICES USub(x, y) = a - b OBVIOUS
<1> USE DEF USub
<1> HIDE DEF M, k, x, y
<1>6. CASE x >= y
  <2>1. -M < M * k /\ M * k < M BY <1>1, <1>2, <1>3, <1>4, <1>5, <1>6 DEF M
  <2>2. k = 0 BY <1>1, <1>4, <2>1, SmallMultiple
  <2>3. a - b = x - y BY <1>1, <1>2, <1>3, <1>5, <2>2
  <2> QED BY <1>6, <2>3
<1>7. CASE ~(x >= y)
  <2> DEFINE j == k - 1
  <2>1. M * k = M * j + M BY <1>1, <1>4
  <2>2. a - b = M * j + (x - y + M) BY <1>1, <1>2, <1>3, <1>4, <1>5, <2>1
  <2>3. j \in Int BY <1>4
  <2> HIDE DEF j
  <2>4. -M < M * j /\ M * j < M BY <1>1, <1>2, <1>3, <1>7, <2>2, <2>3 DEF M
  <2>5. j = 0 BY <1>1, <2>3, <2>4, SmallMultiple
  <2>6. a - b = x - y + M BY <1>1, <1>2, <1>3, <2>2, <2>5
  <2> QED BY <1>7, <2>6 DEF M
<1> QED BY <1>6, <1>7, <1>2, <1>3

(* Advancing a wrapped counter by less than a turn. *)
LEMMA UAddExact ==
  ASSUME NEW a \in Nat, NEW n \in Nat, n < CounterMod
  PROVE  UAdd(a % CounterMod, n) = (a + n) % CounterMod
<1> DEFINE M == CounterMod
           q == a \div M
           x == a % M
<1>1. M \in Nat \ {0} BY CounterModFacts
<1>2. a = M * q + x /\ q \in Nat /\ x \in 0..(M - 1) BY <1>1, DivMod
<1> SUFFICES UAdd(x, n) = (a + n) % M OBVIOUS
<1> USE DEF UAdd
<1> HIDE DEF M, q, x
<1>3. CASE x + n < M
  <2>1. x + n \in 0..(M - 1) BY <1>1, <1>2, <1>3
  <2>2. a + n = M * q + (x + n) BY <1>1, <1>2
  <2>3. (M * q + (x + n)) % M = x + n BY <1>1, <1>2, <2>1, ModUnique
  <2> QED BY <1>3, <2>2, <2>3 DEF M
<1>4. CASE ~(x + n < M)
  <2>1. x + n - M \in 0..(M - 1) BY <1>1, <1>2, <1>4 DEF M
  <2>2. q + 1 \in Nat /\ M * (q + 1) = M * q + M BY <1>1, <1>2
  <2>3. a + n = M * (q + 1) + (x + n - M) BY <1>1, <1>2, <2>2
  <2>4. (M * (q + 1) + (x + n - M)) % M = x + n - M BY <1>1, <2>1, <2>2, ModUnique
  <2> QED BY <1>4, <2>3, <2>4 DEF M
<1> QED BY <1>3, <1>4, <1>1, <1>2

-----------------------------------------------------------------------------
(* The inductive invariant. *)

CountersInv ==
  /\ head = sent % CounterMod
  /\ tail = got % CounterMod
  /\ got <= sent
  /\ sent - got <= RingSize

(* What each thread took from its loads still holds when it uses it. *)
ProducerInv ==
  /\ ppc = "copy" => pi <= pn /\ pn <= RingSize - (sent - got)
  /\ ppc # "copy" => pn = 0 /\ pi = 0

WorkerInv ==
  /\ cpc = "copy" => ci <= ctake /\ ctake <= sent - got
  /\ cpc = "feed" => ctake <= got

(* The unread samples, and those copied but not yet published, are in the  *)
(* slots their numbers name.                                               *)
ContentInv ==
  \A k \in Nat : got <= k /\ k < sent + pi => ring[k % RingSize] = k

LossInv ==
  /\ offered >= sent + pn
  /\ (offered > sent + pn) <=> (drops > 0)

FreeInv ==
  /\ freed => cpc = "exit"
  /\ freed => ppc = "done"
  /\ ppc = "done" => cpc = "exit"
  /\ cpc = "exit" => ~thread_run

RingInv ==
  /\ TypeOK
  /\ CountersInv
  /\ ProducerInv
  /\ WorkerInv
  /\ ContentInv
  /\ BatchInOrder
  /\ LossInv
  /\ FreeInv

(* The counters' arithmetic, in a state that satisfies the invariant. *)
LEMMA RingArithmetic ==
  ASSUME TypeOK, CountersInv
  PROVE  /\ USub(head, tail) = sent - got
         /\ \A n \in Nat : n <= RingSize => UAdd(head, n) = (sent + n) % CounterMod
         /\ \A n \in Nat : n <= RingSize => UAdd(tail, n) = (got + n) % CounterMod
         /\ \A i \in Nat : Slot(head + i) = (sent + i) % RingSize
         /\ \A i \in Nat : Slot(tail + i) = (got + i) % RingSize
         /\ \A k \in Nat : k % RingSize \in Slots
<1>1. RingSize \in Nat \ {0} /\ Laps \in Nat \ {0} BY RingAssumption
<1>2. sent \in Nat /\ got \in Nat BY DEF TypeOK
<1>3. USub(head, tail) = sent - got
  <2>1. got <= sent /\ sent - got < CounterMod
    BY <1>1, <1>2, CounterModFacts DEF CountersInv
  <2>2. USub(sent % CounterMod, got % CounterMod) = sent - got
    BY <1>2, <2>1, USubExact
  <2> QED BY <2>2 DEF CountersInv
<1>4. ASSUME NEW n \in Nat, n <= RingSize
      PROVE  /\ UAdd(head, n) = (sent + n) % CounterMod
             /\ UAdd(tail, n) = (got + n) % CounterMod
  <2>1. n < CounterMod BY <1>1, <1>4, CounterModFacts
  <2>2. UAdd(sent % CounterMod, n) = (sent + n) % CounterMod
    BY <1>2, <2>1, UAddExact
  <2>3. UAdd(got % CounterMod, n) = (got + n) % CounterMod
    BY <1>2, <2>1, UAddExact
  <2> QED BY <2>2, <2>3 DEF CountersInv
<1>6. \A i \in Nat : Slot(head + i) = (sent + i) % RingSize
  BY <1>1, <1>2, ModOfMultiple, ZenonT(30) DEF CountersInv, CounterMod, Slot
<1>7. \A i \in Nat : Slot(tail + i) = (got + i) % RingSize
  BY <1>1, <1>2, ModOfMultiple, ZenonT(30) DEF CountersInv, CounterMod, Slot
<1>8. \A k \in Nat : k % RingSize \in Slots
  BY <1>1, DivMod DEF Slots
<1> QED BY <1>3, <1>4, <1>6, <1>7, <1>8

LEMMA InitRingInv == Init => RingInv
<1> SUFFICES ASSUME Init PROVE RingInv OBVIOUS
<1> USE RingAssumption DEF Init
<1>1. TypeOK
  <2>1. ring \in [Slots -> Nat \cup {NoSample}] OBVIOUS
  <2>2. batch \in [0..(Batch - 1) -> Nat \cup {NoSample}] OBVIOUS
  <2>3. 0 \in 0..(CounterMod - 1) BY CounterModFacts
  <2>4. 0 \in 0..Batch OBVIOUS
  <2> QED BY <2>1, <2>2, <2>3, <2>4 DEF TypeOK
<1>2. CountersInv
  <2>1. 0 % CounterMod = 0 BY CounterModFacts
  <2> QED BY <2>1 DEF CountersInv
<1>3. ContentInv BY DEF ContentInv
<1>4. ProducerInv /\ WorkerInv /\ BatchInOrder /\ LossInv /\ FreeInv
  BY DEF ProducerInv, WorkerInv, BatchInOrder, LossInv, FreeInv
<1> QED BY <1>1, <1>2, <1>3, <1>4 DEF RingInv

-----------------------------------------------------------------------------
(* Each action preserves the invariant. *)

LEMMA PushLoadInv ==
  ASSUME RingInv, NEW n \in 1..MaxPush, PushLoad(n)
  PROVE  RingInv'
<1> USE RingAssumption DEF RingInv, prodVars, consVars
<1>1. USub(head, tail) = sent - got BY RingArithmetic
<1> DEFINE free == RingSize - (sent - got)
<1>2. free \in Nat /\ n \in Nat /\ n >= 1 BY DEF TypeOK, CountersInv
<1>3. ppc = "idle" /\ pn = 0 /\ pi = 0 BY DEF PushLoad, ProducerInv
<1>4. /\ UNCHANGED <<ring, head, tail, thread_run, consVars, freed, sent, got, fed>>
      /\ offered' = offered + n
      /\ drops' = IF n > free THEN drops + 1 ELSE drops
      /\ thread_run
  BY <1>1 DEF PushLoad
<1>5. \/ n > free /\ free = 0 /\ UNCHANGED <<ppc, pn, pi>>
      \/ ~(n > free /\ free = 0) /\ ppc' = "copy" /\ pn' = Min2(n, free) /\ pi' = 0
  BY <1>1 DEF PushLoad
<1> HIDE DEF free
<1>6. pn' \in Nat /\ pi' = 0 /\ pn' <= free /\ (ppc' # "copy" => pn' = 0)
      /\ (n > free => pn' < n) /\ (~(n > free) => pn' = n)
  BY <1>2, <1>3, <1>5 DEF Min2
<1>7. TypeOK' BY <1>2, <1>3, <1>4, <1>5, <1>6 DEF TypeOK
<1>8. CountersInv' BY <1>4 DEF CountersInv
<1>9. ProducerInv' BY <1>3, <1>4, <1>5, <1>6 DEF ProducerInv, free
<1>10. WorkerInv' /\ BatchInOrder' BY <1>4 DEF WorkerInv, BatchInOrder
<1>11. ContentInv' BY <1>3, <1>4, <1>6 DEF ContentInv
<1>12. LossInv'
  <2>1. offered \in Nat /\ sent \in Nat /\ drops \in Nat BY DEF TypeOK
  <2>2. offered >= sent /\ ((offered > sent) <=> (drops > 0)) BY <1>3, <2>1 DEF LossInv
  <2>3. /\ offered' = offered + n /\ sent' = sent /\ pn' \in Nat
        /\ n > free => pn' < n /\ drops' = drops + 1
        /\ ~(n > free) => pn' = n /\ drops' = drops
    BY <1>4, <1>6
  <2> HIDE DEF RingInv
  <2>4. CASE n > free
    <3> DEFINE q == pn'
    <3>1. offered' = offered + n /\ sent' = sent /\ q < n /\ q \in Nat BY <2>3, <2>4
    <3> HIDE DEF q
    <3>2. offered + n > sent + q BY <1>2, <2>1, <2>2, <3>1
    <3>3. offered + n >= sent + q BY <1>2, <2>1, <3>1, <3>2
    <3>4. drops' > 0 BY <2>1, <2>3, <2>4
    <3> QED BY <3>1, <3>2, <3>3, <3>4 DEF LossInv, q
  <2>5. CASE ~(n > free) BY <1>2, <2>1, <2>2, <2>3, <2>5 DEF LossInv
  <2> QED BY <2>4, <2>5
<1>13. FreeInv' BY <1>3, <1>4, <1>5 DEF FreeInv
<1> QED BY <1>7, <1>8, <1>9, <1>10, <1>11, <1>12, <1>13

LEMMA PushCopyInv ==
  ASSUME RingInv, PushCopy
  PROVE  RingInv'
<1> USE RingAssumption DEF RingInv, PushCopy, consVars
<1>1. /\ sent \in Nat /\ got \in Nat /\ pi \in Nat /\ pn \in Nat
      /\ pi < pn /\ pn <= RingSize - (sent - got) /\ got <= sent
      /\ RingSize \in Nat \ {0}
  BY DEF TypeOK, ProducerInv, CountersInv
<1>2. Slot(head + pi) = (sent + pi) % RingSize /\ (sent + pi) % RingSize \in Slots
  <2>1. sent + pi \in Nat BY <1>1
  <2> HIDE DEF PushCopy
  <2> QED BY <1>1, <2>1, RingArithmetic
<1>3. ring' = [ring EXCEPT ![(sent + pi) % RingSize] = sent + pi] BY <1>2
<1>4. TypeOK'
  <2>1. ring' \in [Slots -> Nat \cup {NoSample}]
    <3>1. ring \in [Slots -> Nat \cup {NoSample}] /\ sent + pi \in Nat
      BY <1>1 DEF TypeOK
    <3> HIDE DEF PushCopy, RingInv
    <3> QED BY <1>2, <1>3, <3>1
  <2> QED BY <1>1, <2>1 DEF TypeOK
<1>5. CountersInv' /\ WorkerInv' /\ BatchInOrder' /\ LossInv' /\ FreeInv'
  BY DEF CountersInv, WorkerInv, BatchInOrder, LossInv, FreeInv
<1>6. ProducerInv' BY <1>1 DEF ProducerInv
<1>7. ContentInv'
  <2> SUFFICES ASSUME NEW k \in Nat, got <= k, k < sent + (pi + 1)
               PROVE  ring'[k % RingSize] = k
    BY DEF ContentInv
  <2>1. CASE k = sent + pi
    <3>1. ring \in [Slots -> Nat \cup {NoSample}] BY DEF TypeOK
    <3> HIDE DEF PushCopy, RingInv
    <3> QED BY <1>2, <1>3, <2>1, <3>1
  <2>2. CASE k < sent + pi
    <3>1. ring[k % RingSize] = k BY <2>2 DEF ContentInv
    <3>2. k % RingSize # (sent + pi) % RingSize
      <4>1. sent + pi \in Nat /\ k - (sent + pi) < RingSize
            /\ (sent + pi) - k < RingSize /\ k # sent + pi
        BY <1>1, <2>2
      <4> HIDE DEF PushCopy
      <4> QED BY <1>1, <4>1, ModInjective
    <3>3. k % RingSize \in Slots BY RingArithmetic
    <3> QED BY <1>2, <1>3, <3>1, <3>2, <3>3 DEF TypeOK
  <2> QED BY <1>1, <2>1, <2>2
<1> QED BY <1>4, <1>5, <1>6, <1>7

LEMMA PushPublishInv ==
  ASSUME RingInv, PushPublish
  PROVE  RingInv'
<1> USE RingAssumption DEF RingInv, PushPublish, consVars
<1>1. /\ sent \in Nat /\ got \in Nat /\ pn \in Nat /\ pi = pn
      /\ pn <= RingSize - (sent - got) /\ got <= sent /\ RingSize \in Nat \ {0}
  BY DEF TypeOK, ProducerInv, CountersInv
<1>2. head' = (sent + pn) % CounterMod BY <1>1, RingArithmetic
<1>3. (sent + pn) % CounterMod \in 0..(CounterMod - 1)
  BY <1>1, CounterModFacts, DivMod
<1>4. TypeOK' BY <1>1, <1>2, <1>3 DEF TypeOK
<1>5. CountersInv' BY <1>1, <1>2 DEF CountersInv
<1>6. ProducerInv' BY DEF ProducerInv
<1>7. WorkerInv' BY <1>1 DEF WorkerInv, TypeOK
<1>8. ContentInv'
  <2> SUFFICES ASSUME NEW k \in Nat, got <= k, k < (sent + pn) + 0
               PROVE  ring[k % RingSize] = k
    BY DEF ContentInv
  <2> QED BY <1>1 DEF ContentInv
<1>9. BatchInOrder' /\ FreeInv' BY DEF BatchInOrder, FreeInv
<1>10. LossInv' BY <1>1 DEF LossInv, TypeOK
<1> QED BY <1>4, <1>5, <1>6, <1>7, <1>8, <1>9, <1>10

LEMMA PopLoadInv ==
  ASSUME RingInv, PopLoad
  PROVE  RingInv'
<1> USE RingAssumption DEF RingInv, PopLoad, prodVars
<1>1. USub(head, tail) = sent - got BY RingArithmetic
<1>2. sent \in Nat /\ got \in Nat /\ sent - got > 0 /\ Batch \in Nat BY <1>1 DEF TypeOK
<1>3. ctake' \in 0..Batch /\ ctake' <= sent - got BY <1>1, <1>2 DEF Min2
<1>4. TypeOK' BY <1>3 DEF TypeOK
<1>5. WorkerInv' BY <1>2, <1>3 DEF WorkerInv
<1>6. BatchInOrder' BY DEF BatchInOrder
<1>7. CountersInv' /\ ProducerInv' /\ ContentInv' /\ LossInv'
  BY DEF CountersInv, ProducerInv, ContentInv, LossInv
<1>8. FreeInv' BY DEF FreeInv
<1> QED BY <1>4, <1>5, <1>6, <1>7, <1>8

LEMMA PopCopyInv ==
  ASSUME RingInv, PopCopy
  PROVE  RingInv'
<1> USE RingAssumption DEF RingInv, PopCopy, prodVars
<1>1. /\ sent \in Nat /\ got \in Nat /\ ci \in Nat /\ ctake \in Nat /\ pi \in Nat
      /\ ci < ctake /\ ctake <= sent - got /\ ctake <= Batch /\ Batch \in Nat
  BY DEF TypeOK, WorkerInv
<1>2. Slot(tail + ci) = (got + ci) % RingSize BY <1>1, RingArithmetic
<1>3. ring[(got + ci) % RingSize] = got + ci
  <2>1. got + ci \in Nat /\ got <= got + ci /\ got + ci < sent + pi BY <1>1
  <2> HIDE DEF PopCopy
  <2> QED BY <2>1 DEF ContentInv
<1>4. batch' = [batch EXCEPT ![ci] = got + ci] BY <1>2, <1>3
<1>5. ci \in 0..(Batch - 1) BY <1>1
<1>6. TypeOK' BY <1>1, <1>4, <1>5 DEF TypeOK
<1>7. WorkerInv' BY <1>1 DEF WorkerInv
<1>8. BatchInOrder'
  <2> SUFFICES ASSUME NEW i \in 0..((ci + 1) - 1) PROVE batch'[i] = got + i
    BY DEF BatchInOrder
  <2>1. CASE i = ci BY <1>4, <1>5, <2>1 DEF TypeOK
  <2>2. CASE i # ci
    <3>1. i \in 0..(ci - 1) /\ i \in 0..(Batch - 1) BY <1>1, <2>2
    <3> QED BY <1>4, <2>2, <3>1 DEF TypeOK, BatchInOrder
  <2> QED BY <2>1, <2>2
<1>9. CountersInv' /\ ProducerInv' /\ ContentInv' /\ LossInv' /\ FreeInv'
  BY DEF CountersInv, ProducerInv, ContentInv, LossInv, FreeInv
<1> QED BY <1>6, <1>7, <1>8, <1>9

LEMMA PopStoreInv ==
  ASSUME RingInv, PopStore
  PROVE  RingInv'
<1> USE RingAssumption DEF RingInv, PopStore, prodVars
<1>1. /\ sent \in Nat /\ got \in Nat /\ ctake \in Nat /\ ci = ctake /\ pi \in Nat
      /\ pn \in Nat /\ ctake <= sent - got /\ sent - got <= RingSize /\ RingSize \in Nat
  BY DEF TypeOK, WorkerInv, CountersInv
<1>2. tail' = (got + ctake) % CounterMod BY <1>1, RingArithmetic
<1>3. (got + ctake) % CounterMod \in 0..(CounterMod - 1)
  BY <1>1, CounterModFacts, DivMod
<1>4. TypeOK' BY <1>1, <1>2, <1>3 DEF TypeOK
<1>5. CountersInv' BY <1>1, <1>2 DEF CountersInv
<1>6. ProducerInv' BY <1>1 DEF ProducerInv
<1>7. WorkerInv' BY <1>1 DEF WorkerInv
<1>8. ContentInv' BY <1>1 DEF ContentInv
<1>9. BatchInOrder'
  <2>1. (got + ctake) - ctake = got BY <1>1
  <2> QED BY <1>1, <2>1 DEF BatchInOrder
<1>10. LossInv' /\ FreeInv' BY DEF LossInv, FreeInv
<1> QED BY <1>4, <1>5, <1>6, <1>7, <1>8, <1>9, <1>10

(* The actions that only move a thread along. *)
LEMMA OtherStepsInv ==
  ASSUME RingInv,
         Feed \/ WorkerExit \/ StopWorker \/ JoinAndFree \/ UNCHANGED vars
  PROVE  RingInv'
<1> USE RingAssumption DEF RingInv, prodVars, consVars,
        CountersInv, ProducerInv, WorkerInv, ContentInv, BatchInOrder, LossInv, FreeInv
<1>1. CASE Feed
  <2>1. TypeOK' BY <1>1 DEF Feed, TypeOK
  <2> QED BY <1>1, <2>1 DEF Feed
<1>2. CASE WorkerExit
  <2>1. TypeOK' BY <1>2 DEF WorkerExit, TypeOK
  <2> QED BY <1>2, <2>1 DEF WorkerExit
<1>3. CASE StopWorker
  <2>1. TypeOK' BY <1>3 DEF StopWorker, TypeOK
  <2> QED BY <1>3, <2>1 DEF StopWorker
<1>4. CASE JoinAndFree
  <2>1. TypeOK' BY <1>4 DEF JoinAndFree, TypeOK
  <2> QED BY <1>4, <2>1 DEF JoinAndFree
<1>5. CASE UNCHANGED vars
  BY <1>5 DEF vars, TypeOK
<1> QED BY <1>1, <1>2, <1>3, <1>4, <1>5

(* The invariant holds of every state the ring can be in. *)
THEOREM RingInvariant == Spec => []RingInv
<1>1. RingInv /\ [Next]_vars => RingInv'
  <2> SUFFICES ASSUME RingInv, [Next]_vars PROVE RingInv' OBVIOUS
  <2>1. CASE Producer
    BY <2>1, PushLoadInv, PushCopyInv, PushPublishInv DEF Producer
  <2>2. CASE Worker
    BY <2>2, PopLoadInv, PopCopyInv, PopStoreInv, OtherStepsInv DEF Worker
  <2>3. CASE Shutdown
    BY <2>3, OtherStepsInv DEF Shutdown
  <2>4. CASE Finished \/ UNCHANGED vars
    BY <2>4, OtherStepsInv DEF Finished
  <2> QED BY <2>1, <2>2, <2>3, <2>4 DEF Next
<1> QED BY <1>1, InitRingInv, PTL DEF Spec

-----------------------------------------------------------------------------
(* Every variable of the ring keeps its type: the counters stay below 2^32 *)
(* and every slot index stays inside the ring.                             *)
THEOREM RingTypeCorrect == Spec => []TypeOK
BY RingInvariant, PTL DEF RingInv

(* The worker feeds its demodulator the accepted stream, in order. *)
THEOREM RingDeliversInOrder == Spec => []BatchInOrder
BY RingInvariant, PTL DEF RingInv

(* head - tail, in wrapping 32-bit arithmetic, is the fill of the ring. *)
THEOREM RingFillExact == Spec => []FillExact
<1>1. RingInv => FillExact
  <2> SUFFICES ASSUME RingInv PROVE FillExact OBVIOUS
  <2>1. USub(head, tail) = sent - got BY RingArithmetic DEF RingInv
  <2> QED BY <2>1, RingAssumption DEF RingInv, TypeOK, CountersInv, FillExact
<1> QED BY <1>1, RingInvariant, PTL

(* chan_push and chan_worker_fn never copy to and from the same slot. *)
THEOREM RingHasNoSlotRace == Spec => []NoSlotRace
<1>1. RingInv => NoSlotRace
  <2> SUFFICES ASSUME RingInv, ppc = "copy", cpc = "copy",
                      NEW i \in 0..(pn - 1), NEW j \in 0..(ctake - 1),
                      Slot(head + i) = Slot(tail + j)
               PROVE  FALSE
    BY DEF NoSlotRace, Writing, Reading
  <2>1. /\ sent \in Nat /\ got \in Nat /\ pn \in Nat /\ ctake \in Nat
        /\ RingSize \in Nat \ {0} /\ i \in Nat /\ j \in Nat
    BY RingAssumption DEF RingInv, TypeOK
  <2>2. i < pn /\ j < ctake /\ pn <= RingSize - (sent - got) /\ ctake <= sent - got
    BY <2>1 DEF RingInv, ProducerInv, WorkerInv
  <2>3. (sent + i) % RingSize = (got + j) % RingSize
    BY <2>1, RingArithmetic DEF RingInv
  <2>4. /\ sent + i \in Nat /\ got + j \in Nat
        /\ (sent + i) - (got + j) < RingSize /\ (got + j) - (sent + i) < RingSize
        /\ sent + i # got + j
    BY <2>1, <2>2
  <2> QED BY <2>1, <2>3, <2>4, ModInjective
<1> QED BY <1>1, RingInvariant, PTL

(* Samples are lost exactly when jc->drops says so. *)
THEOREM RingDropsTellLoss == Spec => []DropsTellLoss
BY RingInvariant, PTL DEF RingInv, LossInv, DropsTellLoss

=============================================================================
