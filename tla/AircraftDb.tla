----------------------------- MODULE AircraftDb -----------------------------
(***************************************************************************)
(* The aircraft database of aircraft_db.c: loaded once from a CSV file,    *)
(* sorted by registration, with a second index sorted by ICAO address.     *)
(*                                                                         *)
(* A character is its code, a text a sequence of them.  A line of the file *)
(* is [hex, digits, reg]: the address field, whether it is six hexadecimal *)
(* digits, and the registration field.  An address is abstracted to a      *)
(* number, whose order is that of the addresses in capitals.               *)
(***************************************************************************)
EXTENDS Integers, Sequences, SequencesExt

RegLen == 11          \* characters that fit reg[12]
DOT == 46
DASH == 45
SPACE == 32

toupper(c) == IF c \in 97..122 THEN c - 32 ELSE c

\* Leading dots go, then every dash and space; capitals; cut to RegLen.
normalize_reg(s) ==
    LET dots == CHOOSE n \in 0..Len(s) :
                   /\ \A i \in 1..n : s[i] = DOT
                   /\ n < Len(s) => s[n + 1] # DOT
        kept == SelectSeq(SubSeq(s, dots + 1, Len(s)),
                          LAMBDA c : c \notin {DASH, SPACE})
    IN [i \in 1..(IF Len(kept) > RegLen THEN RegLen ELSE Len(kept)) |->
          toupper(kept[i])]

\* strcmp(a, b) < 0
TextLess(a, b) ==
    \/ \E i \in DOMAIN a \cap DOMAIN b :
          a[i] < b[i] /\ \A j \in 1..(i - 1) : a[j] = b[j]
    \/ Len(a) < Len(b) /\ \A j \in DOMAIN a : a[j] = b[j]

\* Lines without a usable address or registration are passed over.
Usable(line) == line.digits /\ normalize_reg(line.reg) # <<>>

aircraft_db_load(lines) ==
    LET entries == [i \in DOMAIN lines |->
                       [reg |-> normalize_reg(lines[i].reg), hex |-> lines[i].hex,
                        ok |-> Usable(lines[i])]]
        db == SortSeq(SelectSeq(entries, LAMBDA e : e.ok),
                      LAMBDA a, b : TextLess(a.reg, b.reg))
    IN [db |-> db,
        by_hex |-> SortSeq([i \in DOMAIN db |-> i],
                           LAMBDA i, j : db[i].hex < db[j].hex)]

NoHex == -1

\* The address of a registration however it is written (bsearch of the C
\* library: some entry with that key), NoHex if it is unknown.
aircraft_db_lookup(d, registration) ==
    LET key == normalize_reg(registration)
        found == {i \in DOMAIN d.db : key # <<>> /\ d.db[i].reg = key}
    IN IF found = {} THEN NoHex ELSE d.db[CHOOSE i \in found : TRUE].hex

\* The binary search over by_hex, positions counted from 0; the entry found
\* or 0.
aircraft_db_lookup_by_hex(d, hex) ==
    LET n == Len(d.by_hex)
        at(mid) == d.by_hex[mid + 1]
        search[b \in (0..n) \X ((0 - 1)..(n - 1))] ==
            LET lo == b[1]
                hi == b[2]
                mid == (lo + hi) \div 2
            IN IF lo > hi THEN 0
               ELSE IF d.db[at(mid)].hex = hex THEN at(mid)
               ELSE IF d.db[at(mid)].hex < hex THEN search[<<mid + 1, hi>>]
               ELSE search[<<lo, mid - 1>>]
    IN search[<<0, n - 1>>]

-----------------------------------------------------------------------------
(* Checks over bounded inputs *)

\* Every address in the database is found, and no other: for every file of up
\* to n lines over the given lines.
LookupByHexExact(Lines, hexes, n) ==
    \A k \in 0..n : \A file \in [1..k -> Lines] :
       LET d == aircraft_db_load(file)
       IN \A h \in hexes :
            LET found == aircraft_db_lookup_by_hex(d, h)
            IN IF \E i \in DOMAIN file : Usable(file[i]) /\ file[i].hex = h
               THEN found # 0 /\ d.db[found].hex = h
               ELSE found = 0

\* A registration is found however ACARS or the file punctuates it: reading
\* the database with what was written into it gives an address of that line's
\* registration.
LookupRoundTrips(Lines, n) ==
    \A k \in 0..n : \A file \in [1..k -> Lines] :
       LET d == aircraft_db_load(file)
       IN \A i \in DOMAIN file :
            Usable(file[i]) =>
               \E j \in DOMAIN file :
                  /\ Usable(file[j])
                  /\ normalize_reg(file[j].reg) = normalize_reg(file[i].reg)
                  /\ aircraft_db_lookup(d, <<DOT, DOT>> \o file[i].reg)
                       = file[j].hex
=============================================================================
