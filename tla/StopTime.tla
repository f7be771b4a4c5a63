------------------------------ MODULE StopTime ------------------------------
(***************************************************************************)
(* GTFS times: src/rust/transit-ingest/src/gtfs/time.rs, and the service   *)
(* periods of schedule.rs and of transit_cube's calendar.py.               *)
(*                                                                         *)
(* An instant is a number of seconds, a date a number of days, and a time  *)
(* of a service day a number of seconds that may pass 24 hours.  A         *)
(* timezone is known by its UTC offset before and after one change: no     *)
(* resolution of one time looks at more than two days of it.               *)
(***************************************************************************)
EXTENDS Integers

CONSTANTS
    Blank,     \* an empty time field
    Garbled    \* a field that is not three integers separated by colons

Hour == 3600
Day  == 24 * Hour

Zones == [change : Int, before : Int, after : Int]

-----------------------------------------------------------------------------
(* The timezone database *)

Offset(zone, u) == IF u < zone.change THEN zone.before ELSE zone.after

\* Wall-clock time at an instant, its date and its hour.
Local(zone, u)  == u + Offset(zone, u)
DateAt(zone, u) == Local(zone, u) \div Day
HourAt(zone, u) == (Local(zone, u) % Day) \div Hour

\* The instants at which the clock shows a given local time: one, or none or
\* two of them around a change.
InstantsOf(zone, local) ==
    {u \in {local - zone.before, local - zone.after} : Local(zone, u) = local}

-----------------------------------------------------------------------------
(* GtfsTime *)

Fields == {Blank, Garbled} \cup (Nat \X Nat \X Nat)

\* The fields <<hours, minutes, seconds>> that parse accepts.
InRange(f) == f # Garbled /\ f[1] \in 0..47 /\ f[2] \in 0..59 /\ f[3] \in 0..59

\* parse: an error, absence (Ok(None)), or a number of seconds.
Malformed(f) == f # Blank /\ ~InRange(f)
Seconds(f)   == f[1] * Hour + f[2] * 60 + f[3]

\* Mutant: midnight itself is not after midnight.
rolls_over_late(t) == t > Day

rolls_over(t) == t >= Day

\* Mutant: measured from the midnight of the wall clock.
FromMidnight(t, d, zone) ==
    (CHOOSE u \in {d * Day - zone.before, d * Day - zone.after} :
        Local(zone, u) = d * Day) + t

Noon(d) == d * Day + 12 * Hour

\* from_local_datetime(noon).single()
Resolvable(d, zone) ==
    \E u \in InstantsOf(zone, Noon(d)) : InstantsOf(zone, Noon(d)) = {u}

\* resolve: measured from noon minus twelve hours.
resolve(t, d, zone) ==
    (CHOOSE u \in InstantsOf(zone, Noon(d)) : TRUE) - 12 * Hour + t

-----------------------------------------------------------------------------
(* Service periods *)

\* service_period of schedule.rs: PERIOD_BOUNDS are half-open, and the remainder of
\* the day is Overnight.
service_period(local_hour) ==
    LET within(start, end) == start <= local_hour /\ local_hour < end IN
    CASE within(6, 10)  -> "AM Peak"
      [] within(10, 16) -> "Midday"
      [] within(16, 20) -> "PM Peak"
      [] within(20, 24) -> "Evening"
      [] OTHER          -> "Overnight"

\* classify_service_period of the cube, which takes GTFS hours up to 47.
classify_service_period(hour) ==
    LET normalized == hour % 24 IN
    CASE normalized \in 6..9   -> "AM Peak"
      [] normalized \in 10..15 -> "Midday"
      [] normalized \in 16..19 -> "PM Peak"
      [] normalized \in 20..23 -> "Evening"
      [] OTHER                 -> "Overnight"

=============================================================================
