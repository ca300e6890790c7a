---------------------------- MODULE EgcReassembly ---------------------------
(***************************************************************************)
(* stdc_decode.c: reassembly of EGC messages from 0xB1 and 0xB2 packets.   *)
(* A message is sent as packets 1..n, each in two parts; packets are lost  *)
(* (a failed CRC drops them), messages are interleaved, repeated, and      *)
(* their 16-bit ids come back for other messages.  There are few slots: a  *)
(* slot is free, expired, or taken from the message heard longest ago.     *)
(*                                                                         *)
(* The payload of a part is the id it was sent with and whether there is   *)
(* text in it: a part's text is at most one unit, and TextCap units fit    *)
(* into a message.                                                         *)
(***************************************************************************)
EXTENDS Naturals, Sequences, FiniteSets

CONSTANTS
  NSlots,      \* EGC_MAX_REASSEMBLY
  Timeout,     \* EGC_TIMEOUT_SEC
  NParts,      \* entries of part_lens; parts beyond it share the last one
  TextCap,     \* the parts whose text fits into stdc_message_t.text
  Ids,         \* the message ids heard
  NoId,        \* the id of a slot that was never used
  MaxPacketNo, \* bound: the highest packet number sent; 0 is sent too
  MaxTime      \* bound: the clock

ASSUME EgcAssumption ==
  /\ NSlots \in Nat \ {0}
  /\ Timeout \in Nat /\ NParts \in Nat \ {0} /\ TextCap \in Nat \ {0}
  /\ NoId \notin Ids
  /\ MaxPacketNo \in Nat /\ MaxTime \in Nat

VARIABLES
  slots,   \* d->egc_slots
  now,     \* time(NULL)
  emitted  \* the messages the last packet handed to the callback, in order

egcVars == <<slots, now, emitted>>

SlotNos == 0..(NSlots - 1)
PartNos == 0..(NParts - 1)

NoPart == [id |-> NoId, len |-> 0]  \* part_lens[i] = 0

(* memset(slot, 0), then active, message_id and last_seen are set.         *)
FreshSlot(id) ==
  [active |-> TRUE, id |-> id, parts |-> [p \in PartNos |-> NoPart],
   max_pkt_no |-> 0, complete |-> FALSE, last_seen |-> now]

EmptySlot ==
  [active |-> FALSE, id |-> NoId, parts |-> [p \in PartNos |-> NoPart],
   max_pkt_no |-> 0, complete |-> FALSE, last_seen |-> 0]

EgcInit ==
  /\ slots = [i \in SlotNos |-> EmptySlot]
  /\ now = 0
  /\ emitted = <<>>

-----------------------------------------------------------------------------
(* find_egc_slot *)

Matches(i, id) == slots[i].active /\ slots[i].id = id

Expired(i) == now - slots[i].last_seen > Timeout

Usable(i) == ~slots[i].active \/ Expired(i)

(* Fault: the most recent message is evicted. *)
IsOldest_Newest(i) == \A j \in SlotNos : slots[j].last_seen <= slots[i].last_seen

IsOldest(i) == \A j \in SlotNos : slots[i].last_seen <= slots[j].last_seen

(* The first slot with a property. *)
First(S) == CHOOSE i \in S : \A j \in S : i <= j

FindSlot(id) ==
  LET own    == {i \in SlotNos : Matches(i, id)}
      usable == {i \in SlotNos : Usable(i)}
      oldest == {i \in SlotNos : IsOldest(i)}
  IN  IF own # {} THEN First(own)
      ELSE IF usable # {} THEN First(usable)
      ELSE First(oldest)

(* Fault: the slot keeps the parts of the message it was taken from. *)
find_egc_slot_NoClear(id) ==
  LET i == FindSlot(id)
  IN  [no |-> i,
       slot |-> [slots[i] EXCEPT !.active = TRUE, !.id = id, !.last_seen = now]]

find_egc_slot(id) ==
  LET i == FindSlot(id)
  IN  [no |-> i, slot |-> IF Matches(i, id) THEN slots[i] ELSE FreshSlot(id)]

(* (pkt_no - 1) * 2 + is_part2, kept within the arrays. *)
PartIndex(pkt_no, is_part2) ==
  LET raw == pkt_no * 2 + is_part2
      idx == IF raw < 2 THEN 0 ELSE raw - 2
  IN  IF idx >= NParts THEN NParts - 1 ELSE idx

(* What decode_egc writes into the slot. *)
StorePart(slot, idx, is_part2, continuation, len) ==
  [slot EXCEPT !.parts      = [@ EXCEPT ![idx] = [id |-> slot.id, len |-> len]],
               !.max_pkt_no = IF idx > @ THEN idx ELSE @,
               !.complete   = @ \/ (~continuation /\ is_part2 = 1),
               !.last_seen  = now]

(* The parts whose text a message has: those with something in them, up to *)
(* max_pkt_no, until the text is full.                                     *)
Assembled(slot) ==
  LET filled == {p \in 0..slot.max_pkt_no : slot.parts[p].len > 0}
  IN  {p \in filled : Cardinality({q \in filled : q < p}) < TextCap}

FullMessage(slot) ==
  [kind |-> "full", id |-> slot.id, parts |-> Assembled(slot),
   from |-> {slot.parts[p].id : p \in Assembled(slot)}, last |-> slot.max_pkt_no]

(* try_emit_egc, of a complete slot: the slot is given up even if there    *)
(* was nothing to emit.                                                    *)
try_emit_egc(slot) ==
  [calls |-> IF Assembled(slot) = {} THEN <<>> ELSE <<FullMessage(slot)>>,
   slot  |-> [slot EXCEPT !.active = FALSE]]

(* decode_egc: a packet of message id arrives and its CRC is good.  Its    *)
(* part is stored, shown by itself "for immediate display", and followed   *)
(* by the whole message if it completes it.                                *)
decode_egc(id, pkt_no, is_part2, continuation, len) ==
  LET found == find_egc_slot(id)
      idx   == PartIndex(pkt_no, is_part2)
      slot  == StorePart(found.slot, idx, is_part2, continuation, len)
      shown == IF len > 0
               THEN <<[kind |-> "part", id |-> id, parts |-> {idx},
                       from |-> {id}, last |-> idx]>>
               ELSE <<>>
      done  == IF slot.complete THEN try_emit_egc(slot)
               ELSE [calls |-> <<>>, slot |-> slot]
  IN  /\ slots' = [slots EXCEPT ![found.no] = done.slot]
      /\ emitted' = shown \o done.calls

EgcPacket ==
  /\ \E id \in Ids, pkt_no \in 0..MaxPacketNo, is_part2 \in {0, 1},
        continuation \in BOOLEAN, len \in {0, 1} :
       decode_egc(id, pkt_no, is_part2, continuation, len)
  /\ UNCHANGED now

Tick ==
  /\ now < MaxTime
  /\ now' = now + 1
  /\ emitted' = <<>>
  /\ UNCHANGED slots

EgcNext == EgcPacket \/ Tick

EgcSpec == EgcInit /\ [][EgcNext]_egcVars

-----------------------------------------------------------------------------
EgcTypeOK ==
  /\ slots \in [SlotNos -> [active : BOOLEAN, id : Ids \cup {NoId},
                            parts : [PartNos -> [id : Ids \cup {NoId}, len : {0, 1}]],
                            max_pkt_no : PartNos, complete : BOOLEAN,
                            last_seen : 0..MaxTime]]
  /\ now \in 0..MaxTime

(* Reusing a slot never mixes messages: every part in an active slot, and  *)
(* every part of an emitted message, was sent with that message_id.        *)
NoForeignParts ==
  /\ \A i \in SlotNos : slots[i].active =>
       \A p \in PartNos : slots[i].parts[p] # NoPart => slots[i].parts[p].id = slots[i].id
  /\ \A n \in 1..Len(emitted) : emitted[n].from = {emitted[n].id}

(* "Evict oldest": a message that is neither complete nor expired loses    *)
(* its slot only when every other slot holds a message heard no longer     *)
(* ago that has not expired either.                                        *)
EvictsOnlyOldest ==
  [][\A i \in SlotNos :
       slots[i].active /\ ~Expired(i) /\ slots'[i].id # slots[i].id
         => \A j \in SlotNos : /\ ~Usable(j)
                               /\ slots[i].last_seen <= slots[j].last_seen]_egcVars

=============================================================================
