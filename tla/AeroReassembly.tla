--------------------------- MODULE AeroReassembly ---------------------------
(***************************************************************************)
(* aerol.cpp: what AeroL does with the signal units (SUs) of a P channel.  *)
(* A user message is an initial SU (0x71) and SSUs (0xC0 + sequence        *)
(* number); ISUData puts them together, ParserISU recognises ACARS blocks, *)
(* ACARSDefragmenter joins the blocks of a text and the callback gets it.  *)
(*                                                                         *)
(* The state is a record d of the decoder's members, and update, parse and *)
(* defragment map it to its next value.  An SU carries, besides the fields *)
(* the code compares, the message `m` it belongs to, of which the code     *)
(* only sees the payload.  `aes` stands for AESID and GESID and, in the    *)
(* ACARS header, for PLANEREG, LABEL, MODE and TAK; `ref` for QNO and      *)
(* REFNO.                                                                  *)
(***************************************************************************)
EXTENDS Naturals, Sequences, SequencesExt

CONSTANTS
  KeepIsu,   \* items outlive this many later 0x71 SUs ("keep last 10")
  KeepFrag,  \* fragments outlive this many later blocks
  NBlockIds, \* the block identifiers, 'A' to 'Z'
  NoAes      \* AESID 0

ASSUME ReassemblyAssumption ==
  KeepIsu \in Nat /\ KeepFrag \in Nat /\ NBlockIds \in Nat \ {0}

(* A decoder that has heard nothing. `last` is anisuitem, whose AESID,     *)
(* GESID and NOOCTLESTINLASTSSU the SSUs reuse; `out` what the callback    *)
(* got.                                                                    *)
EmptyDecoder ==
  [isuitems |-> <<>>, last |-> [aes |-> NoAes, fits |-> TRUE],
   frags |-> <<>>, out |-> <<>>]

(* deleteoldisuitems, and the flush in defragment: every element is one    *)
(* step older, and those older than keep are erased.                       *)
Aged(s, keep) ==
  LET left[i \in 0..Len(s)] ==
        IF i = 0 THEN <<>>
        ELSE IF s[i].count + 1 > keep THEN left[i - 1]
        ELSE Append(left[i - 1], [s[i] EXCEPT !.count = @ + 1])
  IN  left[Len(s)]

-----------------------------------------------------------------------------
(* ACARSDefragmenter *)

findfragment(frags, b) ==
  SelectInSeq(frags, LAMBDA f : /\ f.aes = b.aes
                               /\ f.more
                               /\ (f.bi + 1) % NBlockIds = b.bi)

(* Fault: a block that continues nothing is always kept. *)
defragment_KeepsLast(d, b) ==
  LET frags == Aged(d.frags, KeepFrag)
      i == findfragment(frags, b)
  IN  IF i = 0
      THEN [d EXCEPT !.frags = Append(frags, b)]
      ELSE [d EXCEPT !.frags = RemoveAt(frags, i)]

(* A block b = [aes, bi, more, isu, blocks, count]: the last block of a    *)
(* text takes the fragment with it to the callback, the header and the     *)
(* isuitem being those of the first block.                                 *)
defragment(d, b) ==
  LET frags == Aged(d.frags, KeepFrag)
      i == findfragment(frags, b)
      joined == [frags[i] EXCEPT !.bi = b.bi, !.more = b.more, !.count = 0,
                                 !.blocks = @ \o b.blocks]
  IN  CASE i = 0 /\ b.more  -> [d EXCEPT !.frags = Append(frags, b)]
        [] i = 0 /\ ~b.more -> [d EXCEPT !.frags = frags, !.out = Append(@, b)]
        [] i # 0 /\ b.more  -> [d EXCEPT !.frags = ReplaceAt(frags, i, joined)]
        [] OTHER            -> [d EXCEPT !.frags = RemoveAt(frags, i),
                                         !.out = Append(@, joined)]

(* ParserISU::parse of a complete item: its header is in the first SUs, the*)
(* mark that more is to come in the last one.                              *)
parse(d, item) ==
  LET first == item.userdata[1]
      final == item.userdata[Len(item.userdata)]
      block == [aes |-> item.aes, bi |-> first.bi, more |-> final.more,
                isu |-> item.userdata, blocks |-> <<item.userdata>>, count |-> 0]
  IN  CASE item.aes = NoAes -> d
        [] item.aes # NoAes /\ first.kind = "badparity" -> d
        [] item.aes # NoAes /\ first.kind = "acars" -> defragment(d, block)
        [] OTHER -> [d EXCEPT !.out = Append(@, [block EXCEPT !.more = FALSE])]

-----------------------------------------------------------------------------
(* ISUData *)

SameMessage(item, su, aes) == item.aes = aes /\ item.ref = su.ref

findisuitem71(d, su) ==
  IF ~su.fits THEN 0
  ELSE SelectInSeq(d.isuitems, LAMBDA x : SameMessage(x, su, su.aes))

findisuitemC0(d, su) ==
  IF ~d.last.fits THEN 0
  ELSE SelectInSeq(d.isuitems, LAMBDA x : /\ SameMessage(x, su, d.last.aes)
                                         /\ su.seq + 1 = x.seq)

(* Fault: old items are never deleted. *)
update71_NoAging(d, su) ==
  LET item == [aes |-> su.aes, ref |-> su.ref, seq |-> su.seq,
               userdata |-> <<su.data>>, count |-> 0]
      i == findisuitem71(d, su)
      kept == [d EXCEPT !.last = [aes |-> su.aes, fits |-> su.fits]]
  IN  IF i = 0 THEN [kept EXCEPT !.isuitems = Append(@, item)]
      ELSE [kept EXCEPT !.isuitems[i] = item]

(* A 0x71 SU starts its message anew. *)
update71(d, su) ==
  LET aged == [d EXCEPT !.isuitems = Aged(@, KeepIsu),
                        !.last = [aes |-> su.aes, fits |-> su.fits]]
      item == [aes |-> su.aes, ref |-> su.ref, seq |-> su.seq,
               userdata |-> <<su.data>>, count |-> 0]
      i == findisuitem71(aged, su)
  IN  IF i = 0 THEN [aged EXCEPT !.isuitems = Append(@, item)]
      ELSE [aged EXCEPT !.isuitems[i] = item]

(* An SSU continues the item that waits for its number, or is dropped; the *)
(* one numbered 0 completes it, and the item stays until it is old.        *)
updateC0(d, su) ==
  LET i == findisuitemC0(d, su)
      item == [d.isuitems[i] EXCEPT !.seq = @ - 1, !.userdata = Append(@, su.data)]
      kept == [d EXCEPT !.isuitems[i] = item]
  IN  CASE i = 0 -> d
        [] i # 0 /\ item.seq = 0 -> parse(kept, item)
        [] OTHER -> kept

(* The message switch of AeroL::Decode for an SU whose CRC is right. The   *)
(* channel assignments and the other SUs leave the reassembly alone.       *)
DecodeSU(d, su) ==
  CASE su.type = "71" -> update71(d, su)
    [] su.type = "C0" -> updateC0(d, su)
    [] OTHER -> d

=============================================================================
