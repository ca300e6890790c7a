------------------------------- MODULE Vita49 -------------------------------
(***************************************************************************)
(* vita49.c: the thread that binds a UDP port, takes VRT packets from it,  *)
(* with or without a VRL wrapper, and pushes their samples.  A source      *)
(* numbers its data packets modulo 16; datagrams are lost, duplicated and  *)
(* overtaken by others before the thread receives them.                    *)
(*                                                                         *)
(* A datagram is what its header says: its length in bytes, whether it is  *)
(* wrapped, the packet type, the flags that lengthen the header, the size  *)
(* in words, and in a context packet the fields that are present.  What    *)
(* the samples are is left out; the sample count is kept.                  *)
(***************************************************************************)
EXTENDS Integers, Sequences, FiniteSets, FiniteSetsExt

CONSTANTS
    Endpoints,      \* what --vita49 may be given: [port, resolves, binds]
    DataShapes,     \* the datagrams a source sends as data ...
    ContextShapes,  \* ... and as context
    IqFormat,       \* iq_format: "cf32", "cs16" or "cs8"
    CountMod,       \* 16, the modulus of the packet counter
    MaxSent,        \* bound: data packets of a behaviour
    MaxDelay,       \* a datagram is not overtaken by this many later ones
    MaxFaults       \* bound: losses and duplications

ASSUME VitaAssumption ==
    /\ CountMod \in Nat \ {0, 1}
    /\ IqFormat \in {"cf32", "cs16", "cs8"}
    /\ MaxSent \in Nat /\ MaxDelay \in Nat \ {0} /\ MaxFaults \in Nat

VARIABLES
    v_state,        \* the thread: "starts", "receives" or "ended"
    v_running,      \* the program's flag `running`
    sent,           \* ghost: number of the next data packet, the first one not 0
    air,            \* ghost: datagrams on their way, <<number, shape, copy>>
    faults,         \* ghost: lost and duplicated datagrams
    last_count, have_count, ctx_logged, total_pkts, skipped_pkts, gap_pkts,
    heard,          \* ghost: numbers of the packets taken, in order
    pushed          \* buffers of samples pushed so far

linkVars == <<sent, air, faults>>
countVars == <<last_count, have_count, ctx_logged, total_pkts, skipped_pkts, gap_pkts,
               heard, pushed>>
vitaVars == <<v_state, v_running, linkVars, countVars>>

Flag(b) == IF b THEN 1 ELSE 0

-----------------------------------------------------------------------------
(* Packets *)

(* Types: 0 data, 1 data with a stream id, 4 and 5 context.  A datagram    *)
(* that begins with the letters VRLP and is too short for the wrapper is   *)
(* read as a VRT header: the letters give type 5 and a size of 0x4C50.     *)
vrl_strip(d) ==
    IF d.vrl /\ d.len >= 12 THEN [off |-> 8, len |-> d.len - 4] ELSE [off |-> 0, len |-> d.len]

HeaderAt(d) ==
    IF d.vrl /\ d.len < 12 THEN [d EXCEPT !.type = 5, !.size = 19536] ELSE d

vrt_parse_header(d) ==
    LET strip == vrl_strip(d)
        h == HeaderAt(d)
        hdr_words == 1 + Flag(h.type = 1) + 2 * Flag(h.class_id) + Flag(h.tsi) + 2 * Flag(h.tsf)
        trailer_words == Flag(h.trailer)
    IN  IF \/ d.len < 4
           \/ h.type \notin {0, 1}
           \/ h.size * 4 > strip.len - strip.off
           \/ h.size * 4 < 4
           \/ hdr_words + trailer_words >= h.size
        THEN [ok |-> FALSE]
        ELSE [ok |-> TRUE, off |-> strip.off + hdr_words * 4,
              bytes |-> (h.size - hdr_words - trailer_words) * 4]

\* Words of the context fields in their order; 5 is the RF frequency, 11 the rate.
cif_fields == <<1, 1, 2, 2, 2, 2, 2, 1, 1, 1, 2>>

IsContext(d) ==
    LET strip == vrl_strip(d)
    IN  strip.len > strip.off + 4 /\ HeaderAt(d).type \in {4, 5}

\* What a source sends as data is not taken for context, and the reverse.
ASSUME ShapesAssumption ==
    /\ \A d \in DataShapes : ~IsContext(d)
    /\ \A d \in ContextShapes : IsContext(d)

(* The fields that are present follow each other; the loop ends at the     *)
(* first one that does not fit, and the packet is then ignored as a whole. *)
vrt_handle_context(d) ==
    LET strip == vrl_strip(d)
        h == HeaderAt(d)
        bytes == strip.len - strip.off
        cif0 == 2 + 2 * Flag(h.class_id) + Flag(h.tsi) + 2 * Flag(h.tsf)
        After(i) == cif0 + 1 + MapThenSumSet(LAMBDA j : cif_fields[j], {j \in h.cif : j <= i})
        wellFormed == /\ bytes >= 8 /\ h.size * 4 <= bytes /\ h.size >= 2
                      /\ cif0 < h.size
                      /\ \A i \in h.cif : After(i) <= h.size
    IN  [used |-> wellFormed /\ h.cif \cap {5, 11} # {},
         at |-> [i \in h.cif |-> After(i) - cif_fields[i]]]

\* Samples of a payload: cf32, ci16 and ci8.
BytesPerSample(format) == CASE format = "cf32" -> 8 [] format = "cs16" -> 4 [] OTHER -> 2

-----------------------------------------------------------------------------
(* The source and the network (external) *)

SendData(d) ==
    /\ sent < MaxSent
    /\ \A p \in air : p[1] > sent - MaxDelay
    /\ air' = air \cup {<<sent, d, 0>>}
    /\ sent' = sent + 1
    /\ UNCHANGED <<v_state, v_running, faults, countVars>>

SendContext(d) ==
    /\ \A p \in air : p[2] # d
    /\ ~ctx_logged
    /\ air' = air \cup {<<sent, d, 0>>}
    /\ UNCHANGED <<v_state, v_running, sent, faults, countVars>>

Lose(p) ==
    /\ faults < MaxFaults
    /\ air' = air \ {p}
    /\ faults' = faults + 1
    /\ UNCHANGED <<v_state, v_running, sent, countVars>>

Duplicate(p) ==
    /\ faults < MaxFaults
    /\ p[3] = 0
    /\ air' = air \cup {<<p[1], p[2], 1>>}
    /\ faults' = faults + 1
    /\ UNCHANGED <<v_state, v_running, sent, countVars>>

-----------------------------------------------------------------------------
(* The thread *)

Ends == v_state' = "ended" /\ v_running' = FALSE

\* The port from the endpoint, and the calls that make and bind the socket.
Opens(ep) == ep.port \in 1..65535 /\ ep.resolves /\ ep.binds

\* A bad port, or a failing call, stops the program.
OpenSocket(ep) ==
    /\ v_state = "starts"
    /\ \/ Opens(ep) /\ v_state' = "receives" /\ UNCHANGED v_running
       \/ ~Opens(ep) /\ Ends
    /\ UNCHANGED <<linkVars, countVars>>

\* Datagrams that arrive before the port is bound go nowhere.
ArrivesUnbound(p) ==
    /\ v_state # "receives"
    /\ air' = air \ {p}
    /\ UNCHANGED <<v_state, v_running, sent, faults, countVars>>

Taking(p) == v_state = "receives" /\ v_running /\ p \in air /\ air' = air \ {p}

ReceiveContext(p) ==
    /\ Taking(p)
    /\ IsContext(p[2])
    /\ ctx_logged' = (ctx_logged \/ vrt_handle_context(p[2]).used)
    /\ UNCHANGED <<v_state, v_running, sent, faults, last_count, have_count, total_pkts,
                   skipped_pkts, gap_pkts, heard, pushed>>

ReceiveMalformed(p) ==
    /\ Taking(p)
    /\ ~IsContext(p[2]) /\ ~vrt_parse_header(p[2]).ok
    /\ skipped_pkts' = skipped_pkts + 1
    /\ UNCHANGED <<v_state, v_running, sent, faults, last_count, have_count, ctx_logged,
                   total_pkts, gap_pkts, heard, pushed>>

\* Counts from the first packet on, as if the stream began with packet 0.
IsGap_FromZero(count) == count # (last_count + 1) % CountMod

IsGap(count) == have_count /\ count # (last_count + 1) % CountMod

\* The packet is counted before its samples are; one without a whole sample is not pushed.
ReceiveData(p) ==
    LET count == p[1] % CountMod
    IN  /\ Taking(p)
        /\ ~IsContext(p[2]) /\ vrt_parse_header(p[2]).ok
        /\ gap_pkts' = gap_pkts + Flag(IsGap(count))
        /\ last_count' = count
        /\ have_count' = TRUE
        /\ total_pkts' = total_pkts + 1
        /\ heard' = Append(heard, p[1])
        /\ pushed' = pushed + Flag(vrt_parse_header(p[2]).bytes \div BytesPerSample(IqFormat) > 0)
        /\ UNCHANGED <<v_state, v_running, sent, faults, ctx_logged, skipped_pkts>>

RecvFails == v_state = "receives" /\ Ends /\ UNCHANGED <<linkVars, countVars>>

\* A signal stops the program; the thread sees it after its receive returns.
Stop == v_running /\ v_running' = FALSE /\ UNCHANGED <<v_state, linkVars, countVars>>
Leave == v_state = "receives" /\ ~v_running /\ Ends /\ UNCHANGED <<linkVars, countVars>>

VitaInit ==
    /\ v_state = "starts" /\ v_running = TRUE
    /\ sent = CountMod - 1 /\ air = {} /\ faults = 0
    /\ last_count = 0 /\ have_count = FALSE /\ ctx_logged = FALSE
    /\ total_pkts = 0 /\ skipped_pkts = 0 /\ gap_pkts = 0
    /\ heard = <<>> /\ pushed = 0

VitaNext ==
    \/ \E d \in DataShapes : SendData(d)
    \/ \E d \in ContextShapes : SendContext(d)
    \/ \E p \in air : \/ Lose(p) \/ Duplicate(p) \/ ArrivesUnbound(p)
                      \/ ReceiveContext(p) \/ ReceiveMalformed(p) \/ ReceiveData(p)
    \/ \E ep \in Endpoints : OpenSocket(ep)
    \/ RecvFails \/ Stop \/ Leave

VitaSpec == VitaInit /\ [][VitaNext]_vitaVars

-----------------------------------------------------------------------------
(* Properties *)

(* The gap count is the program's only sign that samples are missing or    *)
(* out of order (vita49.c:330).  As long as fewer packets than the counter *)
(* can tell apart were lost, skipped or overtaken, it is zero exactly when *)
(* the packets taken are consecutive, whatever packet the thread met       *)
(* first.  Those overtaken count twice: a late packet may be met first     *)
(* when others overtook it before the port was bound.                      *)
GapsTellLoss ==
    faults + skipped_pkts + 2 * (MaxDelay - 1) < CountMod =>
      (gap_pkts = 0 <=> \A i \in 2..Len(heard) : heard[i] = heard[i - 1] + 1)

(* Over all headers of some range: the payload begins behind the header,   *)
(* ends before the trailer, and lies inside what was received, the VRL     *)
(* wrapper excluded; the context fields that are read lie in the packet.   *)
HeadersExact(Shapes) ==
    \A d \in Shapes :
      LET r == vrt_parse_header(d)
          c == vrt_handle_context(d)
      IN  /\ r.ok => /\ r.bytes > 0 /\ r.bytes % 4 = 0
                     /\ r.off >= 4 + 8 * Flag(d.vrl)
                     /\ r.off + r.bytes + 4 * Flag(d.trailer) + 4 * Flag(d.vrl) <= d.len
          /\ IsContext(d) /\ c.used =>
               \A i \in DOMAIN c.at :
                 8 * Flag(d.vrl) + 4 * (c.at[i] + cif_fields[i]) <= d.len - 4 * Flag(d.vrl)
=============================================================================
