------------------------------ MODULE TimeText ------------------------------
(***************************************************************************)
(* Time as the program handles it.  A Go time.Time carries a wall clock    *)
(* and a zone; the domain compares the instants, but the database stores   *)
(* time.RFC3339Nano text in TEXT columns and its queries compare the       *)
(* text, byte by byte.  This module has both orders, and the overlap test  *)
(* built on each of them.                                                  *)
(***************************************************************************)
EXTENDS Integers, Sequences

\* A time stamp: wall-clock seconds in its own zone, the fraction of the
\* second in hundredths, and the zone's offset from UTC in minutes.
Stamp == [wall: Int, frac: 0..99, zone: Int]

Window == [start: Stamp, end: Stamp]

\* The instant a stamp denotes, in hundredths of a second of UTC.
Instant(t) == 100 * (t.wall - 60 * t.zone) + t.frac

\* time.Time.Before.
Before(t, u) == Instant(t) < Instant(u)

\* TimeWindow.Overlaps: the two half-open intervals share an instant.
Overlaps(v, w) == Before(v.start, w.end) /\ Before(w.start, v.end)

\* NewWindow accepts a window that is neither empty nor inverted.
ValidWindow(w) == Before(w.start, w.end)

-----------------------------------------------------------------------------
(* The text of a stamp.  The date and the time of day have a fixed width,  *)
(* so they sort like the wall clock; what follows them is the fraction     *)
(* with its trailing zeros cut (no fraction at all for a whole second) and *)
(* then "Z", or a sign, hours and minutes.  The characters are their       *)
(* codes; an offset is kept as one number after its sign, as its digits    *)
(* have a fixed width too.                                                 *)

Plus  == 43
Minus == 45
Point == 46
Zulu  == 90
Digit(d) == 48 + d

FracText(f) ==
  CASE f = 0                 -> << >>
    [] f # 0 /\ f % 10 = 0   -> << Point, Digit(f \div 10) >>
    [] f # 0 /\ f % 10 # 0   -> << Point, Digit(f \div 10), Digit(f % 10) >>

ZoneText(z) ==
  CASE z = 0 -> << Zulu >>
    [] z > 0 -> << Plus, z >>
    [] z < 0 -> << Minus, -z >>

Suffix(t) == FracText(t.frac) \o ZoneText(t.zone)

\* s comes strictly before t in byte order: at the first place where they
\* differ, s has ended or has the smaller character.
LexLess(s, t) ==
  \E i \in 1..Len(t) :
    /\ i <= Len(s) + 1
    /\ \A j \in 1..(i - 1) : s[j] = t[j]
    /\ i <= Len(s) => s[i] < t[i]

TextLess(t, u) ==
  \/ t.wall < u.wall
  \/ t.wall = u.wall /\ LexLess(Suffix(t), Suffix(u))

\* Faulty variant: the comparisons are not strict.
SqlOverlapsTouching(row, w) == ~ TextLess(w.end, row.start) /\ ~ TextLess(row.end, w.start)

\* overlapsSQL, "starts_at < ? AND ends_at > ?": the test every query uses.
SqlOverlaps(row, w) == TextLess(row.start, w.end) /\ TextLess(w.start, row.end)

\* Stamps on which the two orders agree: whole seconds of UTC.
Canonical(w) ==
  \A t \in {w.start, w.end} : t.frac = 0 /\ t.zone = 0

=============================================================================
