---------------------------- MODULE AeroDecoder -----------------------------
(***************************************************************************)
(* aerol.cpp and jaero_demod.cpp: AeroL on a continuous (P) channel, from  *)
(* the demodulator's bits to the messages.  Time is cut into slots: a      *)
(* frame is SUsPerFrame slots of one SU each and a slot that ends in the   *)
(* unique word.  cntr counts the slots as the decoder sees them; bits that *)
(* are lost on the way (a full ring, a symbol slip) shift it against the   *)
(* transmitter.  The SUs of a frame come out of the Viterbi decoder and of *)
(* the delay line dl2 one frame later, with OQPSK two (AeroBits).          *)
(*                                                                         *)
(* The transmitter sends the messages of a plan one after the other, then  *)
(* fill-in SUs.  A message is a 0x71 SU and two SSUs; an aircraft numbers  *)
(* its messages and its ACARS blocks consecutively.                        *)
(***************************************************************************)
EXTENDS Integers, AeroReassembly, FiniteSets

CONSTANTS
  Plans,       \* sequences of messages [aes, kind, more, fits] to send
  NRefs,       \* the reference numbers of an aircraft's messages
  SUsPerFrame, \* AERO_SPEC_NumberOfBits, in SUs
  MaxFaults    \* bound: slots received with errors; a slip and a loss of the
               \* signal count as two

Idle == 1000000000         \* cntr when there is no frame

ASSUME DecoderAssumption ==
  /\ NRefs \in Nat \ {0}
  /\ SUsPerFrame \in Nat \ {0} /\ SUsPerFrame < Idle
  /\ \A p \in Plans :
       p \in Seq([aes : {p[i].aes : i \in DOMAIN p}, kind : {"acars", "data", "badparity"},
                  more : BOOLEAN, fits : BOOLEAN])

UwSlot == SUsPerFrame      \* the slot of the unique word
TotalSlots == SUsPerFrame + 1
NSsu == 2                  \* the SSUs of a message

VARIABLES
  plan, useingOQPSK,  \* fixed: what is sent, and the modulation
  onair, sent,        \* the slot on the air, the SUs sent
  faults,             \* the bound used up
  cntr, block, held,  \* the decoder's slot; the frame it fills; those in dl2
  datacd, datacdcountdown,
  dec,                \* the reassembly
  heard71             \* the messages whose 0x71 SU was decoded

vars == <<plan, useingOQPSK, onair, sent, faults, cntr, block, held,
          datacd, datacdcountdown, dec, heard71>>

-----------------------------------------------------------------------------
(* The transmitter *)

Bad  == [type |-> "bad"]   \* an SU whose CRC fails
Fill == [type |-> "fill"]

(* The messages of m's aircraft before m that satisfy Test. *)
Earlier(m, Test(_)) ==
  {n \in 1..(m - 1) : plan[n].aes = plan[m].aes /\ Test(plan[n])}

RefOf(m) == Cardinality(Earlier(m, LAMBDA x : TRUE)) % NRefs
BlockIdOf(m) == Cardinality(Earlier(m, LAMBDA x : x.kind = "acars")) % NBlockIds

UserData(m) == [m |-> m, kind |-> plan[m].kind, more |-> plan[m].more,
               bi |-> BlockIdOf(m)]

(* The i-th SU sent, from 0. *)
Sent(i) ==
  LET m == i \div (NSsu + 1) + 1
      k == i % (NSsu + 1)
  IN  IF m > Len(plan) THEN Fill
      ELSE IF k = 0
      THEN [type |-> "71", aes |-> plan[m].aes, ref |-> RefOf(m), seq |-> NSsu,
            fits |-> plan[m].fits, data |-> UserData(m)]
      ELSE [type |-> "C0", ref |-> RefOf(m), seq |-> NSsu - k, data |-> UserData(m)]

(* The frames that the delay line holds. *)
Late == IF useingOQPSK THEN 2 ELSE 1

LastSU == Len(plan) * (NSsu + 1) + (Late + 1) * SUsPerFrame

-----------------------------------------------------------------------------
(* The decoder *)

Init ==
  /\ plan \in Plans
  /\ useingOQPSK \in BOOLEAN
  /\ onair = UwSlot /\ sent = 0
  /\ faults = 0
  /\ cntr = Idle
  /\ block = [s \in 0..(SUsPerFrame - 1) |-> Bad]
  /\ held = [f \in 1..Late |-> block]
  /\ datacd = FALSE /\ datacdcountdown = 0
  /\ dec = EmptyDecoder
  /\ heard71 = {}

(* datacdcountdown after an SU, and after the first SUs of frame f.        *)
Counted(c, su) ==
  IF su.type # "bad" THEN (IF c < 12 THEN c + 2 ELSE c)
  ELSE (IF c > 0 THEN c - 3 ELSE c)

Countdown(count, f) ==
  LET after[k \in 0..SUsPerFrame] ==
        IF k = 0 THEN count ELSE Counted(after[k - 1], f[k - 1])
  IN  after

(* The SUs of frame f, in order, through DecodeSU; after[k] has one        *)
(* element, the decoder after the first k of them.                         *)
DecodeFrame(d, f) ==
  LET after[k \in 0..SUsPerFrame] ==
        IF k = 0 THEN {d} ELSE {DecodeSU(x, f[k - 1]) : x \in after[k - 1]}
  IN  CHOOSE x \in after[SUsPerFrame] : TRUE

Heard71(f) ==
  {f[s].data.m : s \in {t \in DOMAIN f : f[t].type = "71"}}

(* Fault: with MSK as with OQPSK, only near its place. *)
Searched_Gated == cntr \in {UwSlot, Idle} \/ ~datacd

(* The unique word is looked for in every bit, in OQPSK only near its      *)
(* place while the data carrier is detected.                               *)
Searched == ~useingOQPSK \/ cntr \in {UwSlot, Idle} \/ ~datacd

(* The slot the decoder is in, and whether it agrees with the transmitter. *)
Aligned == cntr = onair

(* Decode, over the bits of one slot; ok: they have no errors.             *)
Slot(ok) ==
  LET su == IF ok /\ Aligned /\ onair # UwSlot THEN Sent(sent) ELSE Bad
      gotsync == ok /\ onair = UwSlot /\ Searched
      done == cntr = SUsPerFrame - 1
      received == IF cntr < SUsPerFrame THEN [block EXCEPT ![cntr] = su] ELSE block
      decoded == IF done THEN DecodeFrame(dec, Head(held)) ELSE dec
  IN  /\ block' = received
      /\ held' = IF done THEN Append(Tail(held), received) ELSE held
      /\ heard71' = IF done THEN heard71 \cup Heard71(Head(held)) ELSE heard71
      /\ dec' = IF gotsync /\ cntr + 1 # TotalSlots
                THEN [decoded EXCEPT !.isuitems = <<>>]
                ELSE decoded
      /\ datacd' = (datacd \/ gotsync
                 \/ (done /\ \E k \in 1..SUsPerFrame :
                                 Countdown(datacdcountdown, Head(held))[k] > 2))
      /\ datacdcountdown' = IF gotsync THEN 12
                            ELSE IF done THEN Countdown(datacdcountdown, Head(held))[SUsPerFrame]
                            ELSE datacdcountdown
      /\ cntr' = IF gotsync \/ cntr + 1 = TotalSlots THEN 0
                 ELSE IF cntr = Idle THEN Idle ELSE cntr + 1

Transmit ==
  /\ onair' = (onair + 1) % TotalSlots
  /\ sent' = IF onair = UwSlot \/ sent = LastSU THEN sent ELSE sent + 1
  /\ UNCHANGED <<plan, useingOQPSK>>

Receive == Transmit /\ Slot(TRUE) /\ UNCHANGED faults

ReceiveDamaged ==
  /\ faults < MaxFaults
  /\ faults' = faults + 1
  /\ Transmit /\ Slot(FALSE)

(* The bits of a slot do not reach the decoder. *)
Slip ==
  /\ faults + 2 <= MaxFaults
  /\ faults' = faults + 2
  /\ Transmit
  /\ UNCHANGED <<cntr, block, held, datacd, datacdcountdown, dec, heard71>>

(* The demodulator reports that it lost the signal. *)
LostSignal ==
  /\ faults + 2 <= MaxFaults
  /\ faults' = faults + 2
  /\ cntr' = Idle
  /\ datacdcountdown' = 0
  /\ datacd' = FALSE
  /\ UNCHANGED <<plan, useingOQPSK, onair, sent, block, held, dec, heard71>>

Next == Receive \/ ReceiveDamaged \/ Slip \/ LostSignal

Spec == Init /\ [][Next]_vars

(* The transmitter goes on, and errors and losses end. *)
FairSpec == Spec /\ WF_vars(Receive)

-----------------------------------------------------------------------------
(* What was lost so far: nothing at all. *)
Lossless == faults = 0

(* The first n messages, all SUs of which left the delay line. *)
Passed ==
  LET n == (sent - (Late * SUsPerFrame + (IF onair = UwSlot THEN 0 ELSE onair)))
             \div (NSsu + 1)
  IN  IF n < 0 THEN {} ELSE {m \in 1..n : m <= Len(plan)}

(* The messages whose text goes to the callback, and the messages that the *)
(* text that m ends is made of: back to where another one ended.           *)
EndsText(m) ==
  /\ plan[m].fits /\ plan[m].aes # NoAes
  /\ plan[m].kind = "data" \/ (plan[m].kind = "acars" /\ ~plan[m].more)

BlocksOf(m) ==
  {n \in 1..m : plan[n].aes = plan[m].aes /\ plan[n].kind = "acars" /\ plan[n].fits}

TextOf(m) ==
  IF plan[m].kind = "data" THEN {m}
  ELSE {b \in BlocksOf(m) : \A n \in BlocksOf(m) : b <= n /\ n < m => plan[n].more}

(* The place of m in the set T of messages, in the order they were sent.   *)
Rank(m, T) == Cardinality({k \in T : k <= m})

(* The user data of a message received whole. *)
Whole(m) == [k \in 1..(NSsu + 1) |-> UserData(m)]

(* The blocks that reach the defragmenter. *)
IsBlock(m) == plan[m].kind = "acars" /\ plan[m].fits /\ plan[m].aes # NoAes

(* Texts that the defragmenter can follow: between a block and the next    *)
(* one of its text no block of the aircraft is turned away, and so few of  *)
(* all aircraft come that the fragment is still there.                     *)
Orderly ==
  \A l, b \in DOMAIN plan :
    /\ l < b /\ IsBlock(l) /\ plan[l].more /\ IsBlock(b) /\ plan[b].aes = plan[l].aes
    /\ \A n \in (l + 1)..(b - 1) : IsBlock(n) => plan[n].aes # plan[l].aes
    => /\ \A n \in (l + 1)..(b - 1) : plan[n].kind = "acars" => plan[n].aes # plan[l].aes
       /\ Cardinality({n \in (l + 1)..b : IsBlock(n)}) <= KeepFrag

(* While nothing is lost the callback gets exactly the texts that were     *)
(* sent, in order, each from all its blocks and each block from all its    *)
(* SUs: the keys, the sequence numbers, the ageing of items and fragments  *)
(* and the one-frame delay lose, repeat and mix nothing (ISUData::update,  *)
(* ACARSDefragmenter::defragment).                                         *)
LosslessIsExact ==
  Lossless /\ Orderly =>
    LET ends == {m \in Passed : EndsText(m)}
    IN  /\ Len(dec.out) = Cardinality(ends)
        /\ \A m \in ends :
             LET text == dec.out[Rank(m, ends)].blocks
             IN  /\ Len(text) = Cardinality(TextOf(m))
                 /\ \A b \in TextOf(m) : text[Rank(b, TextOf(m))] = Whole(b)

(* The messages a list of user data is made of. *)
Origin(userdata) == {userdata[i].m : i \in DOMAIN userdata}

(* SUs of two messages only end up in one if the 0x71 SU of the later one  *)
(* was lost; and two of one aircraft only if many were, as a reference     *)
(* number comes back after NRefs messages and an item is deleted after     *)
(* KeepIsu messages that are heard (ISUData::deleteoldisuitems).  A 0x71   *)
(* SU that announces too long a last SSU is the exception: its item stands *)
(* beside that of the same key, and SSUs that this one does not wait for   *)
(* go to it (ISUData::findisuitem71).                                      *)
MixingNeedsLosses ==
  \A i \in DOMAIN dec.out : \A j \in DOMAIN dec.out[i].blocks :
    LET data == dec.out[i].blocks[j]
        lost(a, b) == {m \in (a + 1)..b : plan[m].aes = plan[a].aes} \ heard71
    IN  \A a, b \in Origin(data) : a < b =>
          /\ b \notin heard71 \/ ~plan[data[1].m].fits
          /\ plan[a].aes = plan[b].aes =>
               Cardinality(lost(a, b)) >= NRefs - KeepIsu

(* A decoder that is out of step with the frames finds them again, if the  *)
(* unique word is searched everywhere: always with MSK, and with OQPSK     *)
(* once the demodulator reported the loss of the signal (AeroL::Decode,    *)
(* AeroL::LostSignal).                                                     *)
SyncIsRegained == (~Aligned /\ (~useingOQPSK \/ ~datacd)) ~> Aligned

=============================================================================
