--------------------------- MODULE MCStdcDecoder ----------------------------
(***************************************************************************)
(* The STD-C decoder for TLC.  Of StdcDecoder, EgcReassembly learns only   *)
(* that a packet came, and it takes any packet at any time; the two share  *)
(* no variable.  One run explores them one at a time: `part` says which of *)
(* them moves, and the other stays in an initial state.                    *)
(***************************************************************************)
EXTENDS StdcDecoder, EgcReassembly

Bits == INSTANCE StdcBits

VARIABLE part

mcVars == <<stdcVars, egcVars, part>>

(* The decoder that stands still has a noisy signal for ever.              *)
MCInit ==
  /\ part \in {"frames", "egc"}
  /\ StdcInit
  /\ EgcInit
  /\ part = "egc" => noisy /\ phase = 0

MCNext ==
  \/ part = "frames" /\ StdcNext /\ UNCHANGED <<egcVars, part>>
  \/ part = "egc" /\ EgcNext /\ UNCHANGED <<stdcVars, part>>

MCFeed == part = "frames" /\ Feed /\ UNCHANGED <<egcVars, part>>
MCParse == part = "frames" /\ parse_packets /\ UNCHANGED <<egcVars, part>>

(* StdcFairness, of the part that moves. *)
MCSpec ==
  MCInit /\ [][MCNext]_mcVars /\ WF_mcVars(MCFeed) /\ WF_mcVars(MCParse)

-----------------------------------------------------------------------------
(* What StdcBits computes, against its references. *)

Messages == {<<1, 0, 1, 1, 0, 0, 1, 0, 1, 1>>, <<0, 0, 0, 0, 0, 0, 0, 0, 0, 0>>}

(* Sixteen soft symbols that follow no code word. *)
Scattered(seed) == [i \in 1..16 |-> ((i * i * seed * 31 + i * 57) % 255) - 127]

ASSUME FrameExact == Bits!SyncUnambiguous /\ Bits!DataTakenOnce /\ Bits!ReverseExact

ASSUME ChecksumExact == Bits!CrcExact({<<1, 2, 3>>, <<255, 254, 3, 200>>, <<7>>})

ASSUME DecodingExact ==
  /\ \A bits \in Messages, i \in 1..6 : Bits!ViterbiCorrects(bits, {i})
  /\ \A seed \in 1..8 : Bits!ViterbiExact(Scattered(seed), 8)

=============================================================================
