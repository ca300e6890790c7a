------------------------------- MODULE Acars -------------------------------
(***************************************************************************)
(* What becomes of an ACARS message: jaero_acars_data_cb in main.c, run by *)
(* each channel's worker thread, with the position extraction              *)
(* (acars_position.c), the waypoints (waypoint_db.c, learned_waypoints.c), *)
(* the aircraft database (aircraft_db.c), the speed and course derived for *)
(* the BaseStation output (basestation.c) and the tables behind the web    *)
(* dashboard (web.c).                                                      *)
(*                                                                         *)
(* Only the learned waypoints and the dashboard have a lock.  The cache of *)
(* last positions that speeds are derived from has none, so finding an     *)
(* entry and writing it are two steps, and the count that two workers may  *)
(* increment at once is a data race.                                       *)
(*                                                                         *)
(* A position is a natural number on a line, 0 for none; an altitude is a  *)
(* number of feet, 0 for none.  A text is what each format finds in it: a  *)
(* coordinate or altitude out of its range is -1.  A message is            *)
(*   [reg, label, complete, tags, coords, idents, alts, plan]              *)
(* with tags the [tag, pos, alt, valid] of its ADS-C payload, coords what  *)
(* the three text formats find, idents the five-letter names in it, alts   *)
(* what the four altitude formats find, and plan the [ident, len, pos]     *)
(* pairs of a flight plan (a text that starts with FPN), <<>> for any      *)
(* other text.                                                             *)
(***************************************************************************)
EXTENDS AircraftDb, FiniteSets, FiniteSetsExt

CONSTANTS
    Workers, AcarsMessages,
    WaypointLines,        \* the file of waypoints, [fields, len, ident, pos]
    AircraftLines,        \* the file of aircraft
    LEARNED_WP_MAX, BS_TRACK_MAX, MAX_AIRCRAFT, MAX_FIXES, MAX_STDC_MSGS,
    MinGap, MaxGap,       \* 10 s and 7200 s
    MaxSpeed,             \* 700 knots, in positions per clock unit
    MaxMessages           \* bound: ACARS messages received

ASSUME AcarsAssumption ==
    /\ {LEARNED_WP_MAX, BS_TRACK_MAX, MAX_AIRCRAFT, MAX_FIXES,
        MAX_STDC_MSGS} \subseteq Nat \ {0}
    /\ MinGap \in Nat /\ MaxGap \in Nat

VARIABLES
    now,            \* the clock
    work,           \* worker -> what it is doing
    bs_track,       \* sequence of [hex, pos, t]
    cache,          \* learned waypoints: sequence of [ident, pos]
    aircraft,       \* dashboard: sequence of [reg, last_seen, fixes]
    received,       \* messages received so far
    raced,          \* ghost: two workers were in bs_derive_track at once
    derived,        \* ghost: the last speed derived, [from, since, to, gap]
    lastfix,        \* ghost: hex -> the last [pos, t] sent for it
    shown           \* ghost: what the dashboard was told, [reg, fix]
acvars == <<now, work, bs_track, cache, aircraft,
            received, raced, derived, lastfix, shown>>

None == 0
NoMessage == [reg |-> "none"]
Idle == [at |-> "idle", msg |-> NoMessage, pos |-> None, alt |-> None,
         t |-> 0, idx |-> 0]
NoFix == [pos |-> None, t |-> 0]
NothingDerived == [from |-> NoFix, since |-> NoFix, to |-> NoFix]

aircraft_db == aircraft_db_load(AircraftLines)
HexOf(m) == aircraft_db_lookup(aircraft_db, m.reg)
Hexes == {HexOf(m) : m \in AcarsMessages}

AcInit ==
    /\ now = 1 /\ work = [w \in Workers |-> Idle]
    /\ bs_track = <<>> /\ cache = <<>> /\ aircraft = <<>>
    /\ received = 0 /\ raced = FALSE /\ derived = NothingDerived
    /\ lastfix = [h \in Hexes |-> NoFix]
    /\ shown = <<>>

-----------------------------------------------------------------------------
(* acars_position.c, waypoint_db.c, learned_waypoints.c *)

\* The first of the basic reports with a plausible position, and whether some
\* earth or air reference gives a valid heading and speed.
ReportTags == {7, 9, 10, 18, 19, 20}
ReferenceTags == {14, 15}
extract_adsc_position(m) ==
    LET ok == {i \in DOMAIN m.tags :
                 m.tags[i].tag \in ReportTags /\ m.tags[i].pos > 0}
        ref == {i \in DOMAIN m.tags :
                  m.tags[i].tag \in ReferenceTags /\ m.tags[i].valid}
    IN [pos |-> IF ok = {} THEN None ELSE m.tags[Min(ok)].pos,
        alt |-> IF ok = {} THEN None ELSE m.tags[Min(ok)].alt,
        velocity |-> ref # {}]

PositionLabels == {"H1", "20", "44", "4J", "15", "SA"}
IsPlan(m) == m.label = "H1" /\ m.plan # <<>>

\* The label gate: flight plans and other labels carry places to come.
HasOwnPosition(m) == m.label \in PositionLabels /\ ~IsPlan(m)

\* The first format that finds a value in its range.
FirstValid(found) ==
    LET ok == {i \in DOMAIN found : found[i] > 0}
    IN IF ok = {} THEN None ELSE found[Min(ok)]

acars_extract_text_position(m) ==
    IF HasOwnPosition(m) THEN FirstValid(m.coords) ELSE None

acars_extract_text_altitude(m) == FirstValid(m.alts)

\* Lines with three fields and a name of two to five letters.
waypoint_db_load(lines) ==
    SelectSeq(lines, LAMBDA l : l.fields >= 3 /\ l.len \in 2..5)
wpdb == waypoint_db_load(WaypointLines)

waypoint_db_lookup(ident) ==
    LET found == {i \in DOMAIN wpdb : wpdb[i].ident = ident}
    IN IF found = {} THEN None ELSE wpdb[CHOOSE i \in found : TRUE].pos

Known(c, ident) == {i \in DOMAIN c : c[i].ident = ident}

learned_wp_lookup(ident) ==
    IF Known(cache, ident) = {} THEN None ELSE cache[Min(Known(cache, ident))].pos

\* The database first, then what was learned, name by name.
WaypointAt(ident) ==
    IF waypoint_db_lookup(ident) # None THEN waypoint_db_lookup(ident)
    ELSE learned_wp_lookup(ident)

acars_extract_waypoint_position(m) ==
    IF HasOwnPosition(m)
    THEN FirstValid([i \in DOMAIN m.idents |-> WaypointAt(m.idents[i])])
    ELSE None

\* ADS-C, then coordinates in the text, then names in the text.
Position(m) ==
    FirstValid(<<extract_adsc_position(m).pos, acars_extract_text_position(m),
                 acars_extract_waypoint_position(m)>>)

\* The altitude of the report, else of the text.
Altitude(m) == FirstValid(<<extract_adsc_position(m).alt,
                            acars_extract_text_altitude(m)>>)

\* A pair of a flight plan that is learned: well formed, not (0, 0).
Harvested(p) == p.len \in 2..5 /\ p.pos > 0

\* The first sighting stays; a full cache learns nothing.
cache_add_locked(c, p) ==
    IF Known(c, p.ident) # {} \/ Len(c) >= LEARNED_WP_MAX THEN c ELSE Append(c, p)

-----------------------------------------------------------------------------
(* jaero_acars_data_cb, step by step *)

\* The message is parsed; libacars holds back a block of a message that is
\* not complete.  The position is looked up, and its time taken.
Receive(w, m) ==
    /\ work[w].at = "idle" /\ received < MaxMessages
    /\ received' = received + 1
    /\ LET pos == Position(m)
       IN work' = [work EXCEPT ![w] =
                IF ~m.complete THEN Idle
                ELSE [at |-> IF pos # None /\ HexOf(m) # NoHex
                             THEN "find" ELSE "learn",
                      msg |-> m, pos |-> pos, alt |-> Altitude(m),
                      t |-> now, idx |-> 0]]
    /\ UNCHANGED <<now, bs_track, cache, aircraft,
                   raced, derived, lastfix, shown>>

\* Far enough apart in time, a distance an aircraft can fly.  The time is
\* unsigned: a position older than the last one gives a gap beyond MaxGap.
PlausibleTrack(from, to) ==
    LET gap == to.t - from.t
    IN /\ gap > MinGap /\ gap < MaxGap
       /\ from.pos # to.pos
       /\ from.pos - to.pos < MaxSpeed * gap /\ to.pos - from.pos < MaxSpeed * gap

Blank == [hex |-> "", pos |-> None, t |-> 0]

OldestTrack == CHOOSE i \in DOMAIN bs_track :
                  \A j \in DOMAIN bs_track :
                     \/ bs_track[i].t < bs_track[j].t
                     \/ bs_track[i].t = bs_track[j].t /\ i <= j

\* A fault: a full cache hands out its oldest entry as the aircraft's own.
TrackOf_Reused(hex) ==
    LET own == {i \in DOMAIN bs_track : bs_track[i].hex = hex}
    IN IF own # {} THEN Min(own)
       ELSE IF Len(bs_track) >= BS_TRACK_MAX THEN OldestTrack ELSE 0

\* The entry of an aircraft in bs_track, 0 if it has none.
TrackOf(hex) == LET own == {i \in DOMAIN bs_track : bs_track[i].hex = hex}
                IN IF own = {} THEN 0 ELSE Min(own)

\* bs_derive_track up to the choice of the entry to write, from what the
\* caches hold now; ADS-C velocity is reported in place of what is derived.
FindTrack(w) ==
    /\ work[w].at = "find"
    /\ LET hex == HexOf(work[w].msg)
           own == TrackOf(hex)
           to == [pos |-> work[w].pos, t |-> work[w].t]
           from == [pos |-> bs_track[own].pos, t |-> bs_track[own].t]
       IN /\ work' = [work EXCEPT
                        ![w].at = IF own # 0 THEN "update"
                                  ELSE IF Len(bs_track) < BS_TRACK_MAX THEN "add"
                                  ELSE "evict",
                        ![w].idx = IF own # 0 THEN own
                                   ELSE IF Len(bs_track) < BS_TRACK_MAX
                                   THEN Len(bs_track) + 1
                                   ELSE OldestTrack]
          /\ derived' = IF /\ own # 0 /\ ~extract_adsc_position(work[w].msg).velocity
                           /\ PlausibleTrack(from, to)
                        THEN [from |-> from, since |-> lastfix[hex], to |-> to]
                        ELSE NothingDerived
          /\ lastfix' = [lastfix EXCEPT ![hex] = to]
    /\ raced' = (raced \/ \E v \in Workers \ {w} :
                            work[v].at \in {"update", "add", "evict"})
    /\ UNCHANGED <<now, bs_track, cache, aircraft,
                   received, shown>>

\* bs_derive_track from there.  An entry of its own keeps its name; a new one
\* is named.  An increment of the count may be lost to another worker's or
\* follow it, whatever the test of the limit said before.
WriteTrack(w) ==
    /\ LET fix == [pos |-> work[w].pos, t |-> work[w].t]
           e == [hex |-> HexOf(work[w].msg), pos |-> fix.pos, t |-> fix.t]
           Put(i) == [k \in 1..Max({i, Len(bs_track)}) |->
                        IF k = i THEN e
                        ELSE IF k <= Len(bs_track) THEN bs_track[k] ELSE Blank]
       IN \/ /\ work[w].at = "update"
             /\ bs_track' = [bs_track EXCEPT ![work[w].idx].pos = fix.pos,
                                             ![work[w].idx].t = fix.t]
          \/ /\ work[w].at = "add"
             /\ \E i \in {work[w].idx, Len(bs_track) + 1} : bs_track' = Put(i)
          \/ /\ work[w].at = "evict"
             /\ bs_track' = Put(work[w].idx)
    /\ work' = [work EXCEPT ![w].at = "learn"]
    /\ UNCHANGED <<now, cache, aircraft, received,
                   raced, derived, lastfix, shown>>

\* learned_wp_parse_fpn: one name at a time under the cache's lock.
Learn(w) ==
    /\ work[w].at = "learn"
    /\ \/ /\ ~IsPlan(work[w].msg)
          /\ work' = [work EXCEPT ![w].at = "show"]
          /\ UNCHANGED cache
       \/ /\ IsPlan(work[w].msg)
          /\ LET p == Head(work[w].msg.plan)
             IN cache' = IF Harvested(p) THEN cache_add_locked(cache, p)
                         ELSE cache
          /\ work' = [work EXCEPT
                        ![w].msg.plan = Tail(@),
                        ![w].at = IF Len(work[w].msg.plan) = 1 THEN "show"
                                  ELSE "learn"]
    /\ UNCHANGED <<now, bs_track, aircraft,
                   received, raced, derived, lastfix, shown>>

-----------------------------------------------------------------------------
(* web.c: the tables *)

\* A fault: the entry seen last gives way.
Evicted_Newest == CHOOSE i \in DOMAIN aircraft :
                     \A j \in DOMAIN aircraft :
                        aircraft[i].last_seen >= aircraft[j].last_seen

\* The entry that gives way: the first of those seen longest ago.
Evicted == CHOOSE i \in DOMAIN aircraft :
              \A j \in DOMAIN aircraft :
                 \/ aircraft[i].last_seen < aircraft[j].last_seen
                 \/ aircraft[i].last_seen = aircraft[j].last_seen /\ i <= j

\* The newest MAX_FIXES fixes.
AddFix(fixes, fix) ==
    LET kept == IF Len(fixes) >= MAX_FIXES THEN Tail(fixes) ELSE fixes
    IN IF fix.pos = None THEN fixes ELSE Append(kept, fix)

\* What the outputs are told of the position.
Fix(w) == [pos |-> work[w].pos, alt |-> work[w].alt]

\* web_add_aero, after the feed has been given the message.  The clock has
\* moved since the last call.
Show(w) ==
    /\ work[w].at = "show"
    /\ LET reg == work[w].msg.reg
           own == {i \in DOMAIN aircraft : aircraft[i].reg = reg}
           at == IF own # {} THEN Min(own)
                 ELSE IF Len(aircraft) < MAX_AIRCRAFT THEN Len(aircraft) + 1
                 ELSE Evicted
           before == IF own # {} THEN aircraft[at].fixes ELSE <<>>
           e == [reg |-> reg, last_seen |-> now + 1,
                 fixes |-> AddFix(before, Fix(w))]
       IN aircraft' = IF at > Len(aircraft) THEN Append(aircraft, e)
                      ELSE [aircraft EXCEPT ![at] = e]
    /\ now' = now + 1
    /\ shown' = Append(shown, [reg |-> work[w].msg.reg, fix |-> Fix(w)])
    /\ work' = [work EXCEPT ![w] = Idle]
    /\ UNCHANGED <<bs_track, cache, received,
                   raced, derived, lastfix>>

\* web_add_stdc: the ring of STD-C messages; it shares nothing with the
\* workers but the lock.
EmptyStdc == [stdc |-> [i \in 0..(MAX_STDC_MSGS - 1) |-> 0],
              stdc_head |-> 0, stdc_count |-> 0]
web_add_stdc(r, m) ==
    [stdc |-> [r.stdc EXCEPT ![r.stdc_head] = m],
     stdc_head |-> (r.stdc_head + 1) % MAX_STDC_MSGS,
     stdc_count |-> Min({r.stdc_count + 1, MAX_STDC_MSGS})]

\* build_json: the STD-C messages, oldest first.
StdcListed(r) ==
    [i \in 1..r.stdc_count |->
        r.stdc[(r.stdc_head - r.stdc_count + (i - 1) + MAX_STDC_MSGS)
               % MAX_STDC_MSGS]]

\* Whatever the number of messages, the list is the last of them in order.
StdcListExact(n) ==
    \A k \in 0..n :
       StdcListed(FoldLeft(web_add_stdc, EmptyStdc, [i \in 1..k |-> i]))
       = LET c == Min({k, MAX_STDC_MSGS}) IN [i \in 1..c |-> k - c + i]

AcNext ==
    \E w \in Workers :
       \/ \E m \in AcarsMessages : Receive(w, m)
       \/ FindTrack(w) \/ WriteTrack(w) \/ Learn(w) \/ Show(w)
AcSpec == AcInit /\ [][AcNext]_acvars

-----------------------------------------------------------------------------
(* Properties *)

\* A speed and course derived by bs_derive_track come from the last position
\* sent for that aircraft and the new one, whatever entries were evicted and
\* reused in between, unless two workers were once inside it together.
TrackFromOwnFixes ==
    derived # NothingDerived /\ ~raced => derived.from = derived.since

\* The table behind the dashboard holds the MAX_AIRCRAFT aircraft heard last,
\* whichever worker brought them, and the fixes of each are its own, its newest,
\* in the order they came.  (How many there are is not said: an aircraft that
\* had to give way starts again with none.  Of the table build_json sends what
\* was heard in the last ten minutes.)
LastShown(reg) == Max({i \in DOMAIN shown : shown[i].reg = reg})
FixesAfter(reg, j) ==
    {i \in DOMAIN shown : i > j /\ shown[i].reg = reg /\ shown[i].fix.pos # None}
NewestFixes(reg, fixes) ==
    \A k \in DOMAIN fixes :
       \E j \in FixesAfter(reg, 0) :
          /\ fixes[k] = shown[j].fix
          /\ Cardinality(FixesAfter(reg, j)) = Len(fixes) - k
DashboardKeepsRecent ==
    /\ \A s \in DOMAIN shown :
          (\E i \in DOMAIN aircraft : aircraft[i].reg = shown[s].reg)
          <=> Cardinality({shown[k].reg : k \in LastShown(shown[s].reg)..Len(shown)})
                 <= MAX_AIRCRAFT
    /\ \A i \in DOMAIN aircraft :
          NewestFixes(aircraft[i].reg, aircraft[i].fixes)
=============================================================================
