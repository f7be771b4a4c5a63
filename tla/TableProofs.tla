----------------------------- MODULE TableProofs -----------------------------
(***************************************************************************)
(* Theorems about Schedule: what is written is what was walked.  No feed   *)
(* fails a batch on a null, every date has the partition the files call    *)
(* for, the keys join, and the summary adds up.                            *)
(***************************************************************************)
EXTENDS WalkProofs

USE DEF Before, Failed

(* Columns *)

\* A row that try_new takes.
Fits(r, schema) ==
    /\ r \in [DOMAIN schema -> Values \cup {None}]
    /\ \A c \in DOMAIN schema : schema[c] \/ r[c] # None

\* Rows that fit make a table.
LEMMA RowsFit ==
    ASSUME NEW schema \in {facts_schema, routes_schema, stops_schema},
           NEW s, NEW n \in Nat, DOMAIN s = 1..n, NEW rows, rows = [k \in DOMAIN s |-> rows[k]],
           \A k \in DOMAIN s : Fits(rows[k], schema)
    PROVE  /\ try_new(rows, schema) /\ rows # None
           /\ DOMAIN rows = DOMAIN s /\ Len(rows) = n
<1> DEFINE Row == [DOMAIN schema -> Values \cup {None}]
<1>1. \A k \in 1..n : rows[k] \in Row  BY DEF Fits
<1>2. DOMAIN rows = 1..n  OBVIOUS
<1>3. rows = [k \in 1..n |-> rows[k]]  OBVIOUS
<1>4. rows \in [1..n -> Row]
  <2> HIDE DEF Row
  <2> DEFINE f == [k \in 1..n |-> rows[k]]
  <2>1. f \in [1..n -> Row]  BY <1>1
  <2> QED  BY <1>3, <2>1
<1>5. rows \in Seq(Row) /\ Len(rows) = n
  <2> HIDE DEF Row
  <2> QED  BY <1>4, <1>2
<1>6. rows # None  BY <1>5, NullAssumption DEF Table
<1>7. try_new(rows, schema)  BY <1>2 DEF try_new, Fits
<1> QED  BY <1>2, <1>5, <1>6, <1>7

LEMMA DepartureIsSeconds ==
    ASSUME NEW c \in StopTimeRows, Timed(c)
    PROVE  Departure(c) \in Nat
<1>1. ASSUME NEW f \in Fields, f # Blank, ~Malformed(f)
      PROVE  Seconds(f) \in Nat
  BY <1>1 DEF Fields, Malformed, InRange, Seconds, Hour
<1>2. /\ c.arrival_time \in Fields /\ c.departure_time \in Fields
      /\ ~Malformed(c.arrival_time) /\ ~Malformed(c.departure_time)
      /\ c.arrival_time # Blank \/ c.departure_time # Blank
  BY DEF StopTimeRows, Timed, BadTimes, Untimed
<1> QED  BY <1>1, <1>2 DEF Departure

\* The instants of a call are numbers of seconds.
LEMMA ResolveIsInt ==
    ASSUME NEW z \in Zones, NEW d \in Int, Resolvable(d, z), NEW t \in Nat
    PROVE  /\ resolve(t, d, z) \in Int
           /\ HourAt(z, resolve(t, d, z)) \in Int
<1>1. resolve(t, d, z) \in Int
  <2>1. PICK noon \in Int : resolve(t, d, z) = noon - 12 * Hour + t  BY NoonAnchor
  <2> QED  BY <2>1 DEF Hour
<1>2. ASSUME NEW u \in Int PROVE HourAt(z, u) \in Int
  BY DEF HourAt, Local, Offset, Zones, Hour, Day
<1> QED  BY <1>1, <1>2

\* The fields of an event.
LEMMA EventTyped ==
    ASSUME Rows, NEW e \in EventSet
    PROVE  /\ e.event_id \in Seq(STRING \cup Int) /\ e.service_date \in Dates
           /\ e.event_id[2] = e.service_date
           /\ e.agency_id \in STRING /\ e.route_id \in STRING /\ e.trip_id \in STRING
           /\ e.stop_id \in STRING
           /\ e.route_key = key(e.route_id) /\ e.stop_key = key(e.stop_id)
           /\ e.stop_sequence \in 0..(2 * MaxInt + 1)
           /\ e.direction_id \in Int \cup {None}
           /\ e.scheduled_arrival \in Int /\ e.scheduled_departure \in Int
           /\ e.dwell_seconds \in Int /\ e.crosses_midnight \in BOOLEAN
           /\ e.local_hour \in Int /\ e.service_period \in STRING
           /\ \E n \in DOMAIN feed.trips : e.route_id = feed.trips[n].route_id
           /\ \E n \in DOMAIN feed.stop_times : e.stop_id = feed.stop_times[n].stop_id
<1>1. PICK t \in TripSet, c \in CallSet, d \in Dates :
         Timed(c) /\ Resolvable(d, zone) /\ e = EventOf(t, c, d)
  BY DEF EventSet
<1>2. t \in TripRows /\ c \in StopTimeRows /\ d \in Int
  BY ScheduleAssumption DEF Rows, TripSet, CallSet, Feeds, Dates
<1>3. Arrival(c) \in Nat /\ Departure(c) \in Nat
  BY <1>1, <1>2, ArrivalIsSeconds, DepartureIsSeconds
<1> DEFINE arrival == Arrival(c)
           departure == Departure(c)
           u == resolve(arrival, d, zone)
           h == HourAt(zone, u)
<1>4. u \in Int /\ h \in Int /\ resolve(departure, d, zone) \in Int
  BY <1>1, <1>2, <1>3, ResolveIsInt DEF Rows
<1>5. service_period(h) \in STRING
  <2> HIDE DEF h
  <2>1. h \in 6..9 \/ h \in 10..15 \/ h \in 16..19 \/ h \in 20..23 \/ (h < 6 \/ 24 <= h)
    BY <1>4
  <2>2. CASE h \in 6..9
    <3>1. service_period(h) = "AM Peak"  BY <2>2 DEF service_period
    <3> QED  BY <3>1, NamesAssumption
  <2>3. CASE h \in 10..15
    <3>1. service_period(h) = "Midday"  BY <2>3 DEF service_period
    <3> QED  BY <3>1, NamesAssumption
  <2>4. CASE h \in 16..19
    <3>1. service_period(h) = "PM Peak"  BY <2>4 DEF service_period
    <3> QED  BY <3>1, NamesAssumption
  <2>5. CASE h \in 20..23
    <3>1. service_period(h) = "Evening"  BY <2>5 DEF service_period
    <3> QED  BY <3>1, NamesAssumption
  <2>6. CASE h < 6 \/ 24 <= h
    <3>1. service_period(h) = "Overnight"  BY <1>4, <2>6 DEF service_period
    <3> QED  BY <3>1, NamesAssumption
  <2> QED  BY <2>1, <2>2, <2>3, <2>4, <2>5, <2>6
<1>6. /\ e.event_id = event_id(d, t, c) /\ e.service_date = d /\ e.agency_id = AgencyId
      /\ e.route_id = t.route_id /\ e.route_key = key(t.route_id) /\ e.trip_id = t.trip_id
      /\ e.stop_id = c.stop_id /\ e.stop_key = key(c.stop_id)
      /\ e.stop_sequence = c.stop_sequence /\ e.direction_id = t.direction_id
  BY <1>1 DEF EventOf
<1>7. /\ e.scheduled_arrival = u /\ e.scheduled_departure = resolve(departure, d, zone)
      /\ e.dwell_seconds = IF departure > arrival THEN departure - arrival ELSE 0
      /\ e.crosses_midnight = rolls_over(arrival)
      /\ e.local_hour = h /\ e.service_period = service_period(h)
  BY <1>1 DEF EventOf
<1>8. /\ t.trip_id \in STRING /\ t.route_id \in STRING /\ t.direction_id \in Int \cup {None}
      /\ c.stop_id \in STRING /\ c.stop_sequence \in 0..(2 * MaxInt + 1)
      /\ c.stop_sequence \in Int
  <2>1. t.trip_id \in Trips /\ t.route_id \in STRING /\ t.direction_id \in Int \cup {None}
    BY <1>2 DEF TripRows
  <2>2. c.stop_id \in STRING /\ c.stop_sequence \in 0..(2 * MaxInt + 1)
    BY <1>2 DEF StopTimeRows
  <2>3. c.stop_sequence \in Int  BY <2>2
  <2> QED  BY <2>1, <2>2, <2>3, ScheduleAssumption
<1>9. event_id(d, t, c) \in Seq(STRING \cup Int) /\ event_id(d, t, c)[2] = d
  <2>1. ASSUME NEW S, NEW x \in S, NEW y \in S, NEW v \in S, NEW w \in S
        PROVE  <<x, y, v, w>> \in Seq(S) /\ <<x, y, v, w>>[2] = y
    OBVIOUS
  <2>2. /\ AgencyId \in STRING \cup Int /\ d \in STRING \cup Int
        /\ t.trip_id \in STRING \cup Int /\ c.stop_sequence \in STRING \cup Int
    BY <1>2, <1>8, NullAssumption
  <2> QED  BY <2>1, <2>2 DEF event_id
<1>10. rolls_over(arrival) \in BOOLEAN  BY DEF rolls_over
<1>11. (IF departure > arrival THEN departure - arrival ELSE 0) \in Int  BY <1>3
<1>12. /\ \E n \in DOMAIN feed.trips : t.route_id = feed.trips[n].route_id
       /\ \E n \in DOMAIN feed.stop_times : c.stop_id = feed.stop_times[n].stop_id
  BY DEF TripSet, CallSet
<1> HIDE DEF arrival, departure, u, h
<1>13. AgencyId \in STRING  BY NullAssumption
<1>14. /\ e.event_id \in Seq(STRING \cup Int) /\ e.event_id[2] = e.service_date
       /\ e.service_date \in Dates
  BY <1>6, <1>9
<1>15. /\ e.agency_id \in STRING /\ e.route_id \in STRING /\ e.trip_id \in STRING
       /\ e.stop_id \in STRING
       /\ e.route_key = key(e.route_id) /\ e.stop_key = key(e.stop_id)
  BY <1>6, <1>8, <1>13
<1>16. e.stop_sequence \in 0..(2 * MaxInt + 1) /\ e.direction_id \in Int \cup {None}
  BY <1>6, <1>8
<1>17. /\ e.scheduled_arrival \in Int /\ e.scheduled_departure \in Int
       /\ e.dwell_seconds \in Int /\ e.crosses_midnight \in BOOLEAN
       /\ e.local_hour \in Int /\ e.service_period \in STRING
  BY <1>4, <1>5, <1>7, <1>10, <1>11
<1>18. /\ \E n \in DOMAIN feed.trips : e.route_id = feed.trips[n].route_id
       /\ \E n \in DOMAIN feed.stop_times : e.stop_id = feed.stop_times[n].stop_id
  BY <1>6, <1>12
<1> QED  BY <1>14, <1>15, <1>16, <1>17, <1>18

LEMMA KeyIsValue ==
    ASSUME NEW id \in STRING
    PROVE  key(id) \in Values /\ key(id) # None
<1>1. ASSUME NEW S, NEW x \in S, NEW y \in S PROVE <<x, y>> \in Seq(S)
  OBVIOUS
<1>2. AgencyId \in STRING \cup Int /\ id \in STRING \cup Int  BY NullAssumption
<1>3. key(id) \in Values  BY <1>1, <1>2 DEF key, Values
<1> QED  BY <1>3, NullAssumption

LEMMA KeysDiffer ==
    ASSUME NEW a, NEW b
    PROVE  key(a) = key(b) <=> a = b
BY DEF key

LEMMA NonEmpty ==
    ASSUME NEW text \in Text
    PROVE  /\ non_empty(text) \in Text
           /\ non_empty(text) # None => text \in STRING
BY DEF non_empty, Text

\* No event leaves a null where facts_schema has none.
LEMMA FactFits ==
    ASSUME Rows, NEW e \in EventSet
    PROVE  Fits(FactRecord(e), facts_schema)
<1> DEFINE required == {"event_id", "agency_id", "route_id", "route_key", "trip_id",
                        "stop_id", "stop_key", "stop_sequence", "scheduled_arrival",
                        "scheduled_departure", "dwell_seconds", "crosses_midnight",
                        "local_hour", "service_period", "overnight"}
           nullable == {"direction_id"} \cup Realtime
           r == FactRecord(e)
<1>1. /\ DOMAIN facts_schema = required \cup nullable
      /\ \A c \in DOMAIN facts_schema : facts_schema[c] <=> c \in nullable
  BY DEF facts_schema, Columns
<1>2. DOMAIN r = DOMAIN facts_schema  BY DEF FactRecord
<1>3. r = [c \in DOMAIN facts_schema |-> r[c]]  BY DEF FactRecord
<1>4. r["overnight"] \in Values /\ "overnight" \in required
  <2>1. "overnight" \in DOMAIN facts_schema  BY <1>1
  <2>2. r["overnight"] = IF e.crosses_midnight THEN 1 ELSE 0  BY <2>1 DEF FactRecord, Realtime
  <2>3. r["overnight"] \in Int  BY <2>2
  <2> QED  BY <2>3 DEF Values
<1>5. r["stop_sequence"] \in Values
  <2>0. "stop_sequence" \in DOMAIN facts_schema  BY <1>1
  <2>1. r["stop_sequence"] = as_i32(e.stop_sequence)  BY <2>0 DEF FactRecord, Realtime
  <2>2. as_i32(e.stop_sequence) \in Int
    BY EventTyped, MaxIntAssumption DEF as_i32
  <2> QED  BY <2>1, <2>2 DEF Values
<1>6. \A c \in Realtime : r[c] = None  BY <1>1 DEF FactRecord, Realtime
<1>7. \A c \in (required \ {"overnight", "stop_sequence"}) \cup {"direction_id"} : r[c] = e[c]
  BY <1>1 DEF FactRecord, Realtime
<1>8. r["direction_id"] \in Values \cup {None}
  <2>1. r["direction_id"] = e.direction_id  BY <1>7
  <2> QED  BY <2>1, EventTyped DEF Values
<1>9. e.route_key \in Values /\ e.stop_key \in Values
  BY EventTyped, KeyIsValue
<1>10. ASSUME NEW c \in required \ {"overnight", "stop_sequence"}
       PROVE  e[c] \in Values
  <2>1. /\ e.event_id \in Values /\ e.agency_id \in Values /\ e.route_id \in Values
        /\ e.trip_id \in Values /\ e.stop_id \in Values
    BY EventTyped DEF Values
  <2>2. /\ e.scheduled_arrival \in Values /\ e.scheduled_departure \in Values
        /\ e.dwell_seconds \in Values /\ e.crosses_midnight \in Values
        /\ e.local_hour \in Values /\ e.service_period \in Values
    BY EventTyped DEF Values
  <2> QED  BY <1>9, <2>1, <2>2
<1> HIDE DEF required, r
<1>11. \A c \in required : r[c] \in Values  BY <1>4, <1>5, <1>7, <1>10
<1>12. \A c \in nullable : r[c] \in Values \cup {None}  BY <1>6, <1>8
<1> HIDE DEF nullable
<1>13. \A c \in DOMAIN facts_schema : r[c] \in Values \cup {None}  BY <1>1, <1>11, <1>12
<1>14. r \in [DOMAIN facts_schema -> Values \cup {None}]  BY <1>3, <1>13
<1>15. \A c \in DOMAIN facts_schema : facts_schema[c] \/ r[c] # None
  BY <1>1, <1>11, NullAssumption
<1> QED  BY <1>14, <1>15 DEF Fits, r

LEMMA FactsFit ==
    ASSUME Rows, NEW ev \in Seq(EventSet)
    PROVE  /\ try_new(FactRecords(ev), facts_schema) /\ FactRecords(ev) # None
           /\ DOMAIN FactRecords(ev) = DOMAIN ev /\ Len(FactRecords(ev)) = Len(ev)
           /\ \A n \in DOMAIN ev : FactRecords(ev)[n] = FactRecord(ev[n])
<1> DEFINE n == Len(ev)
           rows == FactRecords(ev)
<1>1. n \in Nat /\ DOMAIN ev = 1..n /\ \A k \in DOMAIN ev : ev[k] \in EventSet
  OBVIOUS
<1>2. \A k \in DOMAIN ev : rows[k] = FactRecord(ev[k])  BY DEF FactRecords
<1>3. rows = [k \in DOMAIN ev |-> rows[k]]  BY DEF FactRecords
<1>4. \A k \in DOMAIN ev : Fits(rows[k], facts_schema)  BY <1>1, <1>2, FactFits
<1> HIDE DEF rows, n
<1>5. /\ try_new(rows, facts_schema) /\ rows # None /\ DOMAIN rows = DOMAIN ev
      /\ Len(rows) = n
  BY <1>1, <1>3, <1>4, RowsFit
<1> QED  BY <1>2, <1>5 DEF rows, n

LEMMA RouteFits ==
    ASSUME NEW route \in RouteRows
    PROVE  Fits(RouteRecord(route), routes_schema)
<1> DEFINE required == {"route_key", "route_id", "agency_id", "mode", "display_name"}
           nullable == {"route_short_name", "route_long_name"}
           r == RouteRecord(route)
<1>1. /\ DOMAIN routes_schema = required \cup nullable
      /\ \A c \in DOMAIN routes_schema : routes_schema[c] <=> c \in nullable
  BY DEF routes_schema, Columns
<1>2. DOMAIN r = DOMAIN routes_schema /\ r = [c \in DOMAIN r |-> r[c]]
  BY <1>1 DEF RouteRecord
<1>3. /\ route.route_id \in STRING /\ route.route_short_name \in Text
      /\ route.route_long_name \in Text
  BY DEF RouteRows
<1>4. display_name(route) \in STRING  BY <1>3, NonEmpty DEF display_name
<1>5. /\ r.route_key \in Values /\ r.route_id \in Values /\ r.agency_id \in Values
      /\ r.mode \in Values /\ r.display_name \in Values
  BY <1>3, <1>4, KeyIsValue, NullAssumption DEF RouteRecord, Values
<1>6. /\ r.route_short_name \in Values \cup {None} /\ r.route_long_name \in Values \cup {None}
  BY <1>3, NonEmpty DEF RouteRecord, Values, Text
<1> HIDE DEF r
<1>7. /\ \A c \in required : r[c] \in Values
      /\ \A c \in nullable : r[c] \in Values \cup {None}
  BY <1>5, <1>6
<1> HIDE DEF required, nullable
<1>8. r \in [DOMAIN routes_schema -> Values \cup {None}]  BY <1>1, <1>2, <1>7
<1>9. \A c \in DOMAIN routes_schema : routes_schema[c] \/ r[c] # None
  BY <1>1, <1>7, NullAssumption
<1> QED  BY <1>8, <1>9 DEF Fits, r

LEMMA StopFits ==
    ASSUME NEW stop \in StopRows
    PROVE  /\ Fits(StopRecord(stop), stops_schema)
           /\ station_key(stop) = IF non_empty(stop.parent_station) = None
                                  THEN key(stop.stop_id) ELSE key(stop.parent_station)
<1> DEFINE required == {"stop_key", "stop_id", "agency_id", "is_station", "station_key",
                        "borough", "municipality"}
           nullable == {"stop_name", "parent_station_key"}
           r == StopRecord(stop)
<1>1. /\ DOMAIN stops_schema = required \cup nullable
      /\ \A c \in DOMAIN stops_schema : stops_schema[c] <=> c \in nullable
  BY DEF stops_schema, Columns
<1>2. DOMAIN r = DOMAIN stops_schema /\ r = [c \in DOMAIN r |-> r[c]]
  BY <1>1 DEF StopRecord
<1>3. /\ stop.stop_id \in STRING /\ stop.stop_name \in Text /\ stop.parent_station \in Text
  BY DEF StopRows
<1>4. /\ parent_key(stop) \in Values \cup {None}
      /\ non_empty(stop.parent_station) # None => parent_key(stop) # None
      /\ station_key(stop) \in Values
      /\ station_key(stop) = IF non_empty(stop.parent_station) = None
                             THEN key(stop.stop_id) ELSE key(stop.parent_station)
  BY <1>3, KeyIsValue, NonEmpty DEF parent_key, station_key
<1>5. /\ r.stop_key \in Values /\ r.stop_id \in Values /\ r.agency_id \in Values
      /\ r.station_key \in Values
  BY <1>3, <1>4, KeyIsValue, NullAssumption DEF StopRecord, Values
<1>6. /\ r.is_station \in Values /\ r.borough \in Values /\ r.municipality \in Values
  BY NamesAssumption DEF StopRecord, is_station, Values
<1>7. r.stop_name \in Values \cup {None} /\ r.parent_station_key \in Values \cup {None}
  BY <1>3, <1>4, NonEmpty DEF StopRecord, Values, Text
<1> HIDE DEF r
<1>8. /\ \A c \in required : r[c] \in Values
      /\ \A c \in nullable : r[c] \in Values \cup {None}
  BY <1>5, <1>6, <1>7
<1> HIDE DEF required, nullable
<1>9. r \in [DOMAIN stops_schema -> Values \cup {None}]  BY <1>1, <1>2, <1>8
<1>10. \A c \in DOMAIN stops_schema : stops_schema[c] \/ r[c] # None
  BY <1>1, <1>8, NullAssumption
<1> QED  BY <1>4, <1>9, <1>10 DEF Fits, r

LEMMA DimensionsFit ==
    ASSUME feed \in Feeds
    PROVE  /\ try_new(RouteRecords(feed.routes), routes_schema)
           /\ RouteRecords(feed.routes) # None
           /\ try_new(StopRecords(feed.stops), stops_schema)
           /\ StopRecords(feed.stops) # None
<1>1. ASSUME NEW s \in Seq(RouteRows)
      PROVE  try_new(RouteRecords(s), routes_schema) /\ RouteRecords(s) # None
  <2> DEFINE n == Len(s)
             rows == RouteRecords(s)
  <2>1. n \in Nat /\ DOMAIN s = 1..n /\ \A k \in DOMAIN s : s[k] \in RouteRows
    OBVIOUS
  <2>2. \A k \in DOMAIN s : rows[k] = RouteRecord(s[k])  BY DEF RouteRecords
  <2>3. rows = [k \in DOMAIN s |-> rows[k]]  BY DEF RouteRecords
  <2>4. \A k \in DOMAIN s : Fits(rows[k], routes_schema)  BY <2>1, <2>2, RouteFits
  <2> HIDE DEF rows, n
  <2>5. try_new(rows, routes_schema) /\ rows # None  BY <2>1, <2>3, <2>4, RowsFit
  <2> QED  BY <2>5 DEF rows
<1>2. ASSUME NEW s \in Seq(StopRows)
      PROVE  try_new(StopRecords(s), stops_schema) /\ StopRecords(s) # None
  <2> DEFINE n == Len(s)
             rows == StopRecords(s)
  <2>1. n \in Nat /\ DOMAIN s = 1..n /\ \A k \in DOMAIN s : s[k] \in StopRows
    OBVIOUS
  <2>2. \A k \in DOMAIN s : rows[k] = StopRecord(s[k])  BY DEF StopRecords
  <2>3. rows = [k \in DOMAIN s |-> rows[k]]  BY DEF StopRecords
  <2>4. \A k \in DOMAIN s : Fits(rows[k], stops_schema)  BY <2>1, <2>2, StopFits
  <2> HIDE DEF rows, n
  <2>5. try_new(rows, stops_schema) /\ rows # None  BY <2>1, <2>3, <2>4, RowsFit
  <2> QED  BY <2>5 DEF rows
<1>3. feed.routes \in Seq(RouteRows) /\ feed.stops \in Seq(StopRows)  BY DEF Feeds
<1> QED  BY <1>1, <1>2, <1>3

-----------------------------------------------------------------------------
(* The dates *)

\* The dates that for_date was called for, up to the one being resolved.
DatesDone ==
    IF stage \in Before \cup {"trips", "stop_times"} THEN {}
    ELSE IF stage = "date" THEN active_dates \ (pending \cup {date})
    ELSE active_dates \ pending

DatesInv ==
    /\ pending \subseteq active_dates
    /\ stage = "date" => date \in active_dates \ pending
    /\ stage \in {"routes", "stops", "done"} => pending = {}

Counters == {"dates_written", "dates_empty", "events", "trips", "untimed", "malformed",
             "crossing", "routes", "stops"}

\* A step that ends no date.
NoDateEnds ==
    /\ partitions' = partitions
    /\ \A c \in Counters : summary'[c] = summary[c]
    /\ DOMAIN summary' = DOMAIN summary
    /\ stage \in Failed => stage' \in Failed
    /\ stage' \notin Failed => DatesDone' = DatesDone

\* A step that ends the date walked.
DateEnds ==
    /\ DateWalked /\ stage' = "dates" /\ summary' = Counted
    /\ partitions' = IF events = <<>> THEN partitions
                     ELSE [partitions EXCEPT ![date] = FactRecords(events)]
    /\ date \in Dates \ DatesDone
    /\ DatesDone' = DatesDone \cup {date}

\* What the rows call for is the same in every state.
LEMMA EventSetFixed ==
    ASSUME feed' = feed, zone' = zone
    PROVE  EventSet' = EventSet
<1>1. TripSet' = TripSet /\ CallSet' = CallSet /\ \A t : CallsOf(t)' = CallsOf(t)
  BY DEF TripSet, CallSet, CallsOf
<1> QED  BY <1>1 DEF EventSet, EventOf

LEMMA DatesStep ==
    Rows /\ DatesInv /\ [Next]_vars => DatesInv' /\ (NoDateEnds \/ DateEnds)
<1> SUFFICES ASSUME Rows, DatesInv, [Next]_vars
             PROVE  DatesInv' /\ (NoDateEnds \/ DateEnds)
  OBVIOUS
<1> USE DEF written
<1>1. active_dates' = active_dates  BY InputsFixed, SameCalls
<1>2. active_dates \subseteq Dates  BY DEF active_dates
<1>3. CASE SortCalls
  <2>1. /\ stage = "stop_times" /\ stage' = "dates" /\ pending' = active_dates
        /\ partitions' = partitions /\ ListDates
    BY <1>3 DEF SortCalls
  <2>2. DatesDone' = {} /\ DatesDone = {}  BY <1>1, <2>1 DEF DatesDone
  <2>3. /\ \A c \in Counters : summary'[c] = summary[c]
        /\ DOMAIN summary' = DOMAIN summary
    BY <2>1 DEF ListDates, Counters
  <2> QED  BY <1>1, <2>1, <2>2, <2>3 DEF DatesInv, NoDateEnds
<1>4. CASE StartDate
  <2>1. /\ stage = "dates" /\ stage' = "date" /\ UNCHANGED written
        /\ date' \in pending /\ pending' = pending \ {date'}
    BY <1>4 DEF StartDate
  <2>2. DatesDone' = DatesDone  BY <1>1, <2>1 DEF DatesDone
  <2> QED  BY <1>1, <2>1, <2>2 DEF DatesInv, NoDateEnds
<1>5. CASE EndDate
  <2>1. /\ DateWalked /\ stage = "date" /\ date' = date /\ pending' = pending
        /\ summary' = Counted
    BY <1>5 DEF EndDate, DateWalked
  <2>2. try_new(FactRecords(events), facts_schema)
    BY FactsFit DEF Rows, EventsFromRows
  <2>3. /\ stage' = "dates"
        /\ partitions' = IF events = <<>> THEN partitions
                         ELSE [partitions EXCEPT ![date] = FactRecords(events)]
    BY <1>5, <2>2 DEF EndDate
  <2>4. date \in active_dates \ pending  BY <2>1 DEF DatesInv
  <2>5. DatesDone' = DatesDone \cup {date} /\ date \in Dates \ DatesDone
    BY <1>1, <1>2, <2>1, <2>3, <2>4 DEF DatesDone
  <2> QED  BY <1>1, <2>1, <2>3, <2>5 DEF DatesInv, DateEnds
<1>6. CASE EndDates
  <2>1. /\ stage = "dates" /\ stage' = "routes" /\ pending = {} /\ UNCHANGED <<pending, date>>
        /\ UNCHANGED written
    BY <1>6 DEF EndDates
  <2>2. DatesDone' = DatesDone  BY <1>1, <2>1 DEF DatesDone
  <2> QED  BY <1>1, <2>1, <2>2 DEF DatesInv, NoDateEnds
<1>7. CASE WriteRoutes \/ WriteStops
  <2>1. /\ stage \in {"routes", "stops"} /\ stage' \in {"stops", "done", "null in column"}
        /\ UNCHANGED <<pending, date, partitions, summary>>
    BY <1>7 DEF WriteRoutes, WriteStops
  <2>2. DatesDone' = DatesDone  BY <1>1, <2>1 DEF DatesDone
  <2> QED  BY <1>1, <2>1, <2>2 DEF DatesInv, NoDateEnds
<1>8. CASE \/ Check \/ BuildCalendar \/ IndexTrip \/ EndTrips \/ IndexStopTime \/ NextService \/ NextTrip
           \/ DropMalformed \/ DropUntimed \/ Emit \/ Unresolvable \/ WriteFails
           \/ UNCHANGED vars
  <2>1. /\ UNCHANGED <<pending, date, partitions, summary>>
        /\ \/ stage' = stage \/ stage' \in Failed
           \/ /\ stage \in (Before \ Failed) \cup {"trips", "stop_times"}
              /\ stage' \in Before \cup {"trips", "stop_times"}
    BY <1>8 DEF Check, BuildCalendar, IndexTrip, EndTrips, IndexStopTime, NextService, NextTrip,
       DropMalformed, DropUntimed, Emit, Unresolvable, WriteFails, vars
  <2>2. stage' \notin Failed => DatesDone' = DatesDone  BY <1>1, <2>1 DEF DatesDone
  <2>3. DatesInv'  BY <1>1, <2>1 DEF DatesInv
  <2> QED  BY <2>1, <2>2, <2>3 DEF NoDateEnds
<1> QED  BY <1>3, <1>4, <1>5, <1>6, <1>7, <1>8 DEF Next

-----------------------------------------------------------------------------
(* The partitions *)

\* These are the rows of all the calls of a date, in an order that along each trip
\* is that of their positions.
PartitionOf(rows, d) ==
    \E ev \in Seq(EventSet) :
        /\ ev # <<>> /\ rows = FactRecords(ev)
        /\ Listed(ev, EventAt(d), TimedCalls(d))
        /\ ~Duplicated => AlongTrips(ev)

PartInv ==
    /\ DOMAIN partitions = Dates
    /\ \A d \in Dates : partitions[d] # None => PartitionOf(partitions[d], d)
    /\ stage \notin Failed =>
          \A d \in Dates :
              partitions[d] # None <=> d \in DatesDone /\ TimedCalls(d) # {}

LEMMA PartitionFixed ==
    ASSUME feed' = feed, zone' = zone, NEW d, NEW d2, d2 = d, NEW rows, NEW rows2, rows2 = rows
    PROVE  PartitionOf(rows, d) => PartitionOf(rows2, d2)'
<1>1. /\ EventSet' = EventSet /\ TimedCalls(d)' = TimedCalls(d) /\ EventAt(d)' = EventAt(d)
  BY EventSetFixed, SameCalls
<1>2. Duplicated' <=> Duplicated
  BY DEF Duplicated, RouteIds, StopIds, TripIds
<1> QED  BY <1>1, <1>2 DEF PartitionOf

LEMMA PartStep ==
    /\ Rows /\ WalkInv /\ OrderInv /\ DatesInv /\ PartInv /\ [Next]_vars
    => PartInv'
<1> SUFFICES ASSUME Rows, WalkInv, OrderInv, DatesInv, PartInv, [Next]_vars
             PROVE  PartInv'
  OBVIOUS
<1>1. feed' = feed /\ zone' = zone  BY InputsFixed
<1>2. \A d \in Dates : TimedCalls(d)' = TimedCalls(d)  BY <1>1, SameCalls
<1>3. CASE NoDateEnds
  <2>1. partitions' = partitions  BY <1>3 DEF NoDateEnds
  <2>2. ASSUME NEW d \in Dates, partitions'[d] # None
        PROVE  PartitionOf(partitions[d], d)'
    <3>1. PartitionOf(partitions[d], d)  BY <2>1, <2>2 DEF PartInv
    <3> QED  BY <1>1, <2>1, <3>1, PartitionFixed
  <2>3. ASSUME stage' \notin Failed, NEW d \in Dates
        PROVE  partitions'[d] # None <=> d \in DatesDone' /\ TimedCalls(d)' # {}
    <3>1. stage \notin Failed /\ DatesDone' = DatesDone  BY <1>3, <2>3 DEF NoDateEnds
    <3> QED  BY <1>2, <2>1, <3>1 DEF PartInv
  <2> QED  BY <2>1, <2>2, <2>3 DEF PartInv
<1>4. CASE DateEnds
  <2>1. /\ DateWalked /\ stage' = "dates" /\ stage \notin Failed
        /\ partitions' = IF events = <<>> THEN partitions
                         ELSE [partitions EXCEPT ![date] = FactRecords(events)]
        /\ date \in Dates \ DatesDone /\ DatesDone' = DatesDone \cup {date}
    BY <1>4 DEF DateEnds, DateWalked
  <2>2. Listed(events, EventAt(date), TimedCalls(date)) /\ events \in Seq(EventSet)
    BY <2>1, DateListed DEF Rows, EventsFromRows
  <2>3. partitions[date] = None  BY <2>1 DEF PartInv
  <2>4. events = <<>> <=> TimedCalls(date) = {}
    <3>1. CASE events = <<>>
      BY <2>2, <3>1, ListedEmpty
    <3>2. CASE events # <<>>
      <4>1. 1 \in DOMAIN events  BY <2>2, <3>2
      <4> QED  BY <2>2, <3>2, <4>1 DEF Listed
    <3> QED  BY <3>1, <3>2
  <2>5. events # <<>> => FactRecords(events) # None /\ PartitionOf(FactRecords(events), date)
    BY <2>2, FactsFit DEF PartitionOf, OrderInv
  <2>6. DOMAIN partitions' = Dates  BY <2>1 DEF PartInv
  <2>7. ASSUME NEW d \in Dates
        PROVE  partitions'[d] = IF d = date /\ events # <<>> THEN FactRecords(events)
                                ELSE partitions[d]
    BY <2>1 DEF PartInv
  <2>8. ASSUME NEW d \in Dates, partitions'[d] # None
        PROVE  PartitionOf(partitions[d], d)'
    <3>1. PartitionOf(partitions'[d], d)  BY <2>5, <2>7, <2>8 DEF PartInv
    <3>2. PICK rows : rows = partitions'[d]  OBVIOUS
    <3>3. PartitionOf(rows, d)  BY <3>1, <3>2
    <3>4. PartitionOf(rows, d)'  BY <1>1, <3>3, PartitionFixed
    <3> QED  BY <3>2, <3>4
  <2>9. ASSUME NEW d \in Dates
        PROVE  partitions'[d] # None <=> d \in DatesDone' /\ TimedCalls(d)' # {}
    BY <1>2, <2>1, <2>3, <2>4, <2>5, <2>7 DEF PartInv
  <2> QED  BY <2>6, <2>8, <2>9 DEF PartInv
<1> QED  BY <1>3, <1>4, DatesStep

\* The state of a build in which every partition is that of its date.
Walked == Rows /\ IndexInv /\ WalkInv /\ OrderInv

LEMMA PartInvariant == Spec => [](Walked /\ DatesInv /\ PartInv)
<1>1. Init => DatesInv /\ PartInv
  BY DEF Init, Start, DatesInv, PartInv, DatesDone
<1>2. Walked /\ DatesInv /\ PartInv /\ [Next]_vars => DatesInv' /\ PartInv'
  BY DatesStep, PartStep DEF Walked
<1>3. Spec => []Walked  BY OrderInvariant, PTL DEF Walked
<1> QED  BY <1>1, <1>2, <1>3, PTL DEF Spec

\* The rows of a partition are those of events of its date.
LEMMA PartitionRows ==
    ASSUME Rows, NEW d \in Dates, NEW rows, PartitionOf(rows, d)
    PROVE  \E ev \in Seq(EventSet) :
              /\ rows = FactRecords(ev) /\ DOMAIN rows = DOMAIN ev /\ Len(rows) = Len(ev)
              /\ Len(ev) = Cardinality(TimedCalls(d)) /\ Len(ev) > 0
              /\ \A n \in DOMAIN ev : /\ rows[n] = FactRecord(ev[n]) /\ ev[n] \in EventSet
                                      /\ ev[n].service_date = d
              /\ ~Duplicated => AlongTrips(ev)
<1>1. PICK ev \in Seq(EventSet) :
         /\ ev # <<>> /\ rows = FactRecords(ev)
         /\ Listed(ev, EventAt(d), TimedCalls(d))
         /\ ~Duplicated => AlongTrips(ev)
  BY DEF PartitionOf
<1>2. /\ DOMAIN rows = DOMAIN ev /\ Len(rows) = Len(ev)
      /\ \A n \in DOMAIN ev : rows[n] = FactRecord(ev[n])
  BY <1>1, FactsFit
<1>3. Len(ev) = Cardinality(TimedCalls(d))  BY <1>1, ListedLength
<1>4. Len(ev) > 0 /\ \A n \in DOMAIN ev : ev[n] \in EventSet  BY <1>1
<1>5. PICK P : Lists(P, ev, EventAt(d), TimedCalls(d))  BY <1>1 DEF Listed
<1>6. ASSUME NEW n \in DOMAIN ev PROVE ev[n].service_date = d
  <2>1. P[n] \in TimedCalls(d) /\ ev[n] = EventAt(d)[P[n]]  BY <1>5 DEF Lists
  <2>2. P[n] \in (DOMAIN feed.trips) \X (DOMAIN feed.stop_times)
    BY <2>1, JoinedFinite DEF Rows
  <2>3. ev[n] = EventOf(feed.trips[P[n][1]], feed.stop_times[P[n][2]], d)
    BY <2>1, <2>2 DEF EventAt
  <2> QED  BY <2>3 DEF EventOf
<1> QED  BY <1>1, <1>2, <1>3, <1>4, <1>6

\* The columns of a fact that later stages read.
LEMMA FactColumns ==
    ASSUME NEW e
    PROVE  /\ FactRecord(e).event_id = e.event_id /\ FactRecord(e).trip_id = e.trip_id
           /\ FactRecord(e).route_key = e.route_key /\ FactRecord(e).stop_key = e.stop_key
           /\ FactRecord(e).stop_sequence = as_i32(e.stop_sequence)
           /\ FactRecord(e).overnight = IF e.crosses_midnight THEN 1 ELSE 0
<1>1. {"event_id", "trip_id", "route_key", "stop_key", "stop_sequence", "overnight"}
      \subseteq DOMAIN facts_schema
  BY DEF facts_schema, Columns
<1>2. FactRecord(e)["overnight"] = IF e.crosses_midnight THEN 1 ELSE 0
  BY <1>1 DEF FactRecord, Realtime
<1>3. FactRecord(e)["stop_sequence"] = as_i32(e.stop_sequence)
  BY <1>1 DEF FactRecord, Realtime
<1> QED  BY <1>1, <1>2, <1>3 DEF FactRecord, Realtime

\* A date on which no service runs has no calls.
LEMMA IdleDates ==
    ASSUME feed \in Feeds, NEW d \in Dates, d \notin active_dates
    PROVE  Joined(d) = {}
<1> SUFFICES ASSUME NEW p \in Joined(d) PROVE FALSE
  OBVIOUS
<1>1. p[1] \in DOMAIN feed.trips /\ d \in feed.dates[feed.trips[p[1]].service_id]
  BY DEF Joined
<1>2. feed.trips[p[1]] \in TripRows  BY <1>1 DEF Feeds
<1>3. feed.trips[p[1]].service_id \in services_on(d)
  BY <1>1, <1>2 DEF services_on, TripRows
<1> QED  BY <1>3 DEF active_dates

\* When a build ends well the partitions are those of the dates on which the files
\* have a timed call, each with all of its calls and no call of another date: the
\* reset of for_date, the skip of an empty date and the last date included.
THEOREM DatesAreWritten == Spec => []PartitionsComplete
<1>1. Rows /\ DatesInv /\ PartInv => PartitionsComplete
  <2> SUFFICES ASSUME Rows, DatesInv, PartInv, stage = "done", NEW d \in Dates
               PROVE  /\ partitions[d] = None <=> TimedCalls(d) = {}
                      /\ partitions[d] # None =>
                            /\ Len(partitions[d]) = Cardinality(TimedCalls(d))
                            /\ \A n \in DOMAIN partitions[d] :
                                  partitions[d][n].event_id[2] = d
    BY DEF PartitionsComplete
  <2>1. DatesDone = active_dates  BY DEF DatesDone, DatesInv
  <2>2. d \notin active_dates => TimedCalls(d) = {}
    BY IdleDates, JoinedFinite DEF Rows
  <2>3. partitions[d] # None <=> TimedCalls(d) # {}  BY <2>1, <2>2 DEF PartInv
  <2>4. ASSUME partitions[d] # None
        PROVE  /\ Len(partitions[d]) = Cardinality(TimedCalls(d))
               /\ \A n \in DOMAIN partitions[d] : partitions[d][n].event_id[2] = d
    <3>1. PartitionOf(partitions[d], d)  BY <2>4 DEF PartInv
    <3>2. PICK ev \in Seq(EventSet) :
             /\ DOMAIN partitions[d] = DOMAIN ev /\ Len(partitions[d]) = Len(ev)
             /\ Len(ev) = Cardinality(TimedCalls(d))
             /\ \A n \in DOMAIN ev : /\ partitions[d][n] = FactRecord(ev[n])
                                     /\ ev[n] \in EventSet /\ ev[n].service_date = d
      BY <3>1, PartitionRows
    <3>3. \A n \in DOMAIN ev : ev[n].event_id[2] = d  BY <3>2, EventTyped
    <3> QED  BY <3>2, <3>3, FactColumns
  <2> QED  BY <2>3, <2>4
<1> QED  BY <1>1, PartInvariant, PTL DEF Walked

\* Along a trip the rows of a partition never go back, whatever the order of the
\* files: the calls of a trip are sorted once, and the trips are walked one by one.
THEOREM PartitionsKeepTheOrder == Spec => []CallsInOrder
<1> HIDE DEF Before, Failed
<1>1. Rows /\ PartInv => CallsInOrder
  <2> SUFFICES ASSUME Rows, PartInv, ~Duplicated,
                      \A n \in DOMAIN feed.stop_times :
                          feed.stop_times[n].stop_sequence <= MaxInt,
                      NEW d \in Dates, partitions[d] # None,
                      NEW k \in DOMAIN partitions[d], NEW l \in DOMAIN partitions[d],
                      k < l, partitions[d][k].trip_id = partitions[d][l].trip_id
               PROVE  partitions[d][k].stop_sequence <= partitions[d][l].stop_sequence
    BY DEF CallsInOrder
  <2>1. PICK ev \in Seq(EventSet) :
           /\ DOMAIN partitions[d] = DOMAIN ev /\ AlongTrips(ev)
           /\ \A n \in DOMAIN ev : /\ partitions[d][n] = FactRecord(ev[n])
                                   /\ ev[n] \in EventSet
    BY PartitionRows DEF PartInv
  <2>2. \A e \in EventSet : e.stop_sequence <= MaxInt
    <3> SUFFICES ASSUME NEW e \in EventSet PROVE e.stop_sequence <= MaxInt
      OBVIOUS
    <3>1. PICK t \in TripSet, c \in CallSet, x \in Dates : e = EventOf(t, c, x)
      BY DEF EventSet
    <3>2. e.stop_sequence = c.stop_sequence  BY <3>1 DEF EventOf
    <3> QED  BY <3>2 DEF CallSet
  <2>3. /\ partitions[d][k].stop_sequence = ev[k].stop_sequence
        /\ partitions[d][l].stop_sequence = ev[l].stop_sequence
    BY <2>1, <2>2, FactColumns DEF as_i32
  <2>4. ev[k].trip_id = ev[l].trip_id  BY <2>1, FactColumns
  <2> QED  BY <2>1, <2>3, <2>4 DEF AlongTrips
<1> QED  BY <1>1, PartInvariant, PTL DEF Walked

-----------------------------------------------------------------------------
(* The dimensions *)

\* The two dimensions are written whole, in their order, and no null is in their way.
TablesInv ==
    /\ stage \in Stages
    /\ row \in 0..(Len(feed.trips) + Len(feed.stop_times))
    /\ date \in Dates \cup {None}
    /\ DOMAIN tables = {"routes", "stops"}
    /\ tables.routes \in {RouteRecords(feed.routes), None}
    /\ stage \in {"stops", "done"} => tables.routes = RouteRecords(feed.routes)
    /\ stage \notin {"stops", "done", "write failed"} => tables.routes = None
    /\ tables.stops = IF stage = "done" THEN StopRecords(feed.stops) ELSE None
    /\ stage # "null in column"

LEMMA TablesStep == Rows /\ TablesInv /\ [Next]_vars => TablesInv'
<1> SUFFICES ASSUME Rows, TablesInv, [Next]_vars
             PROVE  TablesInv'
  OBVIOUS
<1>1. feed' = feed /\ zone' = zone  BY InputsFixed
<1>2. PICK m \in Nat, n \in Nat : m = Len(feed.trips) /\ n = Len(feed.stop_times)
  BY DEF Rows, Feeds
<1> DEFINE Plain == /\ stage' \in Stages \ {"stops", "done", "null in column", "write failed"}
                    /\ stage \in Stages \ {"stops", "done", "null in column", "write failed"}
                    /\ tables' = tables
                    /\ row' \in 0..(Len(feed.trips) + Len(feed.stop_times))
                    /\ date' \in Dates \cup {None}
<1>3. ASSUME Plain PROVE TablesInv'
  <2>1. RouteRecords(feed.routes)' = RouteRecords(feed.routes)
    BY <1>1 DEF RouteRecords
  <2>2. tables'.routes = None /\ tables'.stops = None /\ DOMAIN tables' = {"routes", "stops"}
    BY <1>3 DEF TablesInv
  <2> QED  BY <1>1, <1>3, <2>2 DEF TablesInv
<1> USE DEF Stages
<1>4. CASE Check \/ BuildCalendar \/ EndTrips \/ SortCalls \/ NextService \/ NextTrip \/ DropMalformed
           \/ DropUntimed \/ Emit \/ EndDates
  <2>1. /\ tables' = tables /\ date' = date /\ row' \in {row, 0}
        /\ stage' \in Stages \ {"stops", "done", "null in column", "write failed"}
        /\ stage \in Stages \ {"stops", "done", "null in column", "write failed"}
    BY <1>4 DEF written, Check, BuildCalendar, EndTrips, SortCalls, NextService, NextTrip, DropMalformed,
       DropUntimed, Emit, EndDates
  <2>2. row' \in 0..(m + n) /\ date' \in Dates \cup {None}
    <3>1. row \in 0..(m + n)  BY <1>2 DEF TablesInv
    <3>2. 0 \in 0..(m + n)  OBVIOUS
    <3> QED  BY <2>1, <3>1, <3>2 DEF TablesInv
  <2> QED  BY <1>2, <1>3, <2>1, <2>2
<1>5. CASE IndexTrip \/ IndexStopTime
  <2>1. /\ tables' = tables /\ date' = date /\ row' = row + 1 /\ stage' = stage
        /\ stage \in {"trips", "stop_times"}
        /\ row < Len(feed.trips) \/ row < Len(feed.stop_times)
    BY <1>5 DEF written, IndexTrip, IndexStopTime
  <2>2. row' \in 0..(m + n)
    <3>1. row \in 0..(m + n)  BY <1>2 DEF TablesInv
    <3>2. row < m \/ row < n  BY <1>2, <2>1
    <3> QED  BY <2>1, <3>1, <3>2
  <2>3. date' \in Dates \cup {None}  BY <2>1 DEF TablesInv
  <2> QED  BY <1>2, <1>3, <2>1, <2>2, <2>3
<1>6. CASE StartDate
  <2>1. /\ tables' = tables /\ date' \in pending /\ row' = row
        /\ stage = "dates" /\ stage' = "date"
    BY <1>6 DEF written, StartDate
  <2>2. date' \in Dates  BY <2>1 DEF Rows, EventsFromRows
  <2> QED  BY <1>3, <2>1, <2>2 DEF TablesInv
<1>7. CASE EndDate
  <2>1. try_new(FactRecords(events), facts_schema)
    BY FactsFit DEF Rows, EventsFromRows
  <2>2. /\ tables' = tables /\ date' = date /\ row' = row
        /\ stage = "date" /\ stage' = "dates"
    BY <1>7, <2>1 DEF EndDate, DateWalked
  <2> QED  BY <1>3, <2>2 DEF TablesInv
<1>8. CASE Unresolvable
  <2>1. /\ tables' = tables /\ date' = date /\ row' = row /\ ~Resolvable(date, zone)
        /\ stage = "date" /\ stage' = "bad noon"
    BY <1>8 DEF Unresolvable, written
  <2> QED  BY <1>1, <2>1 DEF TablesInv
<1>9. CASE WriteRoutes
  <2>1. /\ tables' = [tables EXCEPT !.routes = RouteRecords(feed.routes)]
        /\ date' = date /\ row' = row /\ stage = "routes" /\ stage' = "stops"
    BY <1>9, DimensionsFit DEF WriteRoutes, Rows
  <2>2. /\ DOMAIN tables' = {"routes", "stops"} /\ tables'.routes = RouteRecords(feed.routes)
        /\ tables'.stops = None
    BY <2>1 DEF TablesInv
  <2>3. RouteRecords(feed.routes)' = RouteRecords(feed.routes)
    BY <1>1 DEF RouteRecords
  <2> QED  BY <1>1, <2>1, <2>2, <2>3 DEF TablesInv
<1>10. CASE WriteStops
  <2>1. /\ tables' = [tables EXCEPT !.stops = StopRecords(feed.stops)]
        /\ date' = date /\ row' = row /\ stage = "stops" /\ stage' = "done"
    BY <1>10, DimensionsFit DEF WriteStops, Rows
  <2>2. /\ DOMAIN tables' = {"routes", "stops"} /\ tables'.stops = StopRecords(feed.stops)
        /\ tables'.routes = RouteRecords(feed.routes)
    BY <2>1 DEF TablesInv
  <2>3. /\ RouteRecords(feed.routes)' = RouteRecords(feed.routes)
        /\ StopRecords(feed.stops)' = StopRecords(feed.stops)
    BY <1>1 DEF RouteRecords, StopRecords
  <2> QED  BY <1>1, <2>1, <2>2, <2>3 DEF TablesInv
<1>11. CASE WriteFails
  <2>1. /\ tables' = tables /\ date' = date /\ row' = row /\ stage' = "write failed"
        /\ stage \in {"date", "routes", "stops"}
    BY <1>11 DEF WriteFails, DateWalked, written
  <2>2. /\ DOMAIN tables' = {"routes", "stops"} /\ tables'.stops = None
        /\ tables'.routes \in {RouteRecords(feed.routes), None}
    BY <2>1 DEF TablesInv
  <2>3. RouteRecords(feed.routes)' = RouteRecords(feed.routes)
    BY <1>1 DEF RouteRecords
  <2>4. row' \in 0..(Len(feed.trips) + Len(feed.stop_times))' /\ date' \in Dates \cup {None}
    BY <1>1, <2>1 DEF TablesInv
  <2> QED  BY <2>1, <2>2, <2>3, <2>4 DEF TablesInv
<1>12. CASE UNCHANGED vars
  <2>1. UNCHANGED <<stage, row, date, tables>>  BY <1>12 DEF vars, written
  <2>2. /\ RouteRecords(feed.routes)' = RouteRecords(feed.routes)
        /\ StopRecords(feed.stops)' = StopRecords(feed.stops)
    BY <1>1 DEF RouteRecords, StopRecords
  <2> QED  BY <1>1, <2>1, <2>2 DEF TablesInv
<1> QED  BY <1>4, <1>5, <1>6, <1>7, <1>8, <1>9, <1>10, <1>11, <1>12 DEF Next

LEMMA TablesInvariant == Spec => [](Walked /\ DatesInv /\ PartInv /\ TablesInv)
<1>1. Init => TablesInv
  <2> SUFFICES ASSUME Init PROVE TablesInv
    OBVIOUS
  <2>1. 0 \in 0..(Len(feed.trips) + Len(feed.stop_times))  BY DEF Init, Feeds
  <2>2. /\ stage = "check" /\ row = 0 /\ date = None
        /\ tables = [routes |-> None, stops |-> None]
    BY DEF Init, Start
  <2> QED  BY <2>1, <2>2 DEF TablesInv, Stages
<1>2. Walked /\ TablesInv /\ [Next]_vars => TablesInv'
  BY TablesStep DEF Walked
<1> QED  BY <1>1, <1>2, PartInvariant, PTL DEF Spec

\* The key of a row finds that row and no other.
LEMMA OneRow ==
    ASSUME feed \in Feeds, ~Duplicated
    PROVE  /\ \A id \in RouteIds :
                 Cardinality(With(RouteRecords(feed.routes), "route_key", key(id))) = 1
           /\ \A id \in StopIds :
                 Cardinality(With(StopRecords(feed.stops), "stop_key", key(id))) = 1
<1>1. ASSUME NEW id \in RouteIds
      PROVE  Cardinality(With(RouteRecords(feed.routes), "route_key", key(id))) = 1
  <2> DEFINE rows == RouteRecords(feed.routes)
  <2>1. PICK m \in DOMAIN feed.routes : feed.routes[m].route_id = id
    BY DEF RouteIds
  <2>2. /\ DOMAIN rows = DOMAIN feed.routes
        /\ \A n \in DOMAIN rows : rows[n]["route_key"] = key(feed.routes[n].route_id)
    BY DEF RouteRecords, RouteRecord
  <2> HIDE DEF rows
  <2>3. \A n \in DOMAIN rows : rows[n]["route_key"] = key(id) <=> n = m
    BY <2>1, <2>2, UniqueKeys, KeysDiffer
  <2>4. With(rows, "route_key", key(id)) = {m}  BY <2>1, <2>2, <2>3 DEF With
  <2> QED  BY <2>4, FS_Singleton DEF rows
<1>2. ASSUME NEW id \in StopIds
      PROVE  Cardinality(With(StopRecords(feed.stops), "stop_key", key(id))) = 1
  <2> DEFINE rows == StopRecords(feed.stops)
  <2>1. PICK m \in DOMAIN feed.stops : feed.stops[m].stop_id = id
    BY DEF StopIds
  <2>2. /\ DOMAIN rows = DOMAIN feed.stops
        /\ \A n \in DOMAIN rows : rows[n]["stop_key"] = key(feed.stops[n].stop_id)
    BY DEF StopRecords, StopRecord
  <2> HIDE DEF rows
  <2>3. \A n \in DOMAIN rows : rows[n]["stop_key"] = key(id) <=> n = m
    BY <2>1, <2>2, UniqueKeys, KeysDiffer
  <2>4. With(rows, "stop_key", key(id)) = {m}  BY <2>1, <2>2, <2>3 DEF With
  <2> QED  BY <2>4, FS_Singleton DEF rows
<1> QED  BY <1>1, <1>2

\* Every fact of a build that was not told to allow violations joins one route and
\* one stop: what validate::check refuses is all that could break the join.
THEOREM FactsJoin == Spec => []FactsJoinOnce
<1>1. Rows /\ PartInv /\ TablesInv => FactsJoinOnce
  <2> SUFFICES ASSUME Rows, PartInv, TablesInv, stage = "done", ~allow,
                      NEW d \in Dates, partitions[d] # None, NEW n \in DOMAIN partitions[d]
               PROVE  /\ Cardinality(With(tables.routes, "route_key",
                                          partitions[d][n].route_key)) = 1
                      /\ Cardinality(With(tables.stops, "stop_key",
                                          partitions[d][n].stop_key)) = 1
    BY DEF FactsJoinOnce
  <2>1. ~Dangling /\ ~Duplicated  BY DEF Rows, EventsFromRows, Violations
  <2>2. PICK e \in EventSet : partitions[d][n] = FactRecord(e)
    <3>1. PICK ev \in Seq(EventSet) :
             /\ DOMAIN partitions[d] = DOMAIN ev
             /\ \A k \in DOMAIN ev : partitions[d][k] = FactRecord(ev[k]) /\ ev[k] \in EventSet
      BY PartitionRows DEF PartInv
    <3> QED  BY <3>1
  <2>3. e.route_id \in RouteIds /\ e.stop_id \in StopIds
    BY <2>1, EventTyped DEF Dangling
  <2>4. /\ partitions[d][n].route_key = key(e.route_id)
        /\ partitions[d][n].stop_key = key(e.stop_id)
    BY <2>2, FactColumns, EventTyped
  <2>5. /\ tables.routes = RouteRecords(feed.routes)
        /\ tables.stops = StopRecords(feed.stops)
    BY DEF TablesInv
  <2> QED  BY <2>1, <2>3, <2>4, <2>5, OneRow DEF Rows
<1> QED  BY <1>1, TablesInvariant, PTL DEF Walked

\* The station of every stop is a row of the stops, so that the levels of the
\* geography can be walked from each of them; and a build fails on the noon of a
\* date and on nothing else, whatever the rows hold.
THEOREM HierarchyStands == Spec => []HierarchyIsWhole
<1>1. Rows /\ TablesInv => HierarchyIsWhole
  <2> SUFFICES ASSUME Rows, TablesInv, stage = "done", ~allow, NEW n \in DOMAIN tables.stops
               PROVE  Cardinality(With(tables.stops, "stop_key",
                                       tables.stops[n].station_key)) = 1
    BY DEF HierarchyIsWhole, TablesInv
  <2>1. ~Dangling /\ ~Duplicated  BY DEF Rows, EventsFromRows, Violations
  <2> DEFINE stop == feed.stops[n]
  <2>2. /\ tables.stops = StopRecords(feed.stops)
        /\ n \in DOMAIN feed.stops /\ tables.stops[n].station_key = station_key(stop)
    BY DEF TablesInv, StopRecords, StopRecord
  <2>3. stop \in StopRows /\ stop.stop_id \in StopIds
    BY <2>2 DEF Rows, Feeds, StopIds
  <2>4. non_empty(stop.parent_station) \in StopIds \cup {None}
    BY <2>1, <2>2 DEF Dangling
  <2>5. /\ stop.parent_station \in Text
        /\ non_empty(stop.parent_station) # None =>
              non_empty(stop.parent_station) = stop.parent_station
    BY <2>3 DEF StopRows, non_empty
  <2>6. \E id \in StopIds : station_key(stop) = key(id)
    <3>1. station_key(stop) = IF non_empty(stop.parent_station) = None
                              THEN key(stop.stop_id) ELSE key(stop.parent_station)
      BY <2>3, StopFits
    <3>2. CASE non_empty(stop.parent_station) = None  BY <2>3, <3>1, <3>2
    <3>3. CASE non_empty(stop.parent_station) # None  BY <2>4, <2>5, <3>1, <3>3
    <3> QED  BY <3>2, <3>3
  <2> HIDE DEF stop
  <2> QED  BY <2>1, <2>2, <2>6, OneRow DEF Rows
<1> QED  BY <1>1, TablesInvariant, PTL DEF Walked

\* The types of the build's state; each index holds rows under their own key.
THEOREM ScheduleTypes == Spec => []ScheduleTypeOK
<1>1. Rows /\ IndexInv /\ PartInv /\ TablesInv => ScheduleTypeOK
  <2> SUFFICES ASSUME Rows, IndexInv, PartInv, TablesInv
               PROVE  ScheduleTypeOK
    OBVIOUS
  <2>1. ASSUME NEW s \in DOMAIN trips_by_service, NEW n \in DOMAIN trips_by_service[s]
        PROVE  trips_by_service[s][n].service_id = s
    <3>1. s \in ServiceIds  BY DEF Rows, EventsFromRows
    <3>2. PICK P : Lists(P, trips_by_service[s], feed.trips, TripRowsOf(s, TripsRead))
      BY <3>1 DEF IndexInv, Listed
    <3> QED  BY <3>2 DEF Lists, TripRowsOf
  <2>2. ASSUME NEW d \in Dates, partitions[d] # None PROVE Len(partitions[d]) > 0
    BY <2>2, PartitionRows DEF PartInv
  <2>3. /\ stage \in {"stops", "done"} => tables.routes # None
        /\ tables.routes # None => stage \in {"stops", "done", "write failed"}
        /\ stage = "done" <=> tables.stops # None
    BY DimensionsFit DEF TablesInv, Rows
  <2>4. pending \subseteq Dates  BY DEF Rows, EventsFromRows
  <2>5. /\ stage \in Stages /\ date \in Dates \cup {None}
        /\ row \in 0..(Len(feed.trips) + Len(feed.stop_times))
    BY DEF TablesInv
  <2> QED  BY <2>1, <2>2, <2>3, <2>4, <2>5 DEF ScheduleTypeOK
<1> QED  BY <1>1, TablesInvariant, PTL DEF Walked

-----------------------------------------------------------------------------
(* The summary *)

Counts(S, n) == IsFiniteSet(S) /\ n \in Nat /\ Cardinality(S) = n

LEMMA CountUnion ==
    ASSUME NEW S, NEW T, NEW m, NEW n, Counts(S, m), Counts(T, n), S \cap T = {}
    PROVE  Counts(S \cup T, m + n)
<1>1. /\ IsFiniteSet(S \cup T) /\ Cardinality(S \cap T) = 0
      /\ Cardinality(S \cup T) = Cardinality(S) + Cardinality(T) - Cardinality(S \cap T)
  BY FS_Union, FS_EmptySet DEF Counts
<1> QED  BY <1>1 DEF Counts

LEMMA CountTagged ==
    ASSUME NEW d, NEW S, NEW n, Counts(S, n)
    PROVE  Counts({d} \X S, n)
<1>1. IsFiniteSet({d}) /\ Cardinality({d}) = 1  BY FS_Singleton
<1>2. /\ IsFiniteSet({d} \X S)
      /\ Cardinality({d} \X S) = Cardinality({d}) * Cardinality(S)
  BY <1>1, FS_Product DEF Counts
<1> QED  BY <1>1, <1>2 DEF Counts

LEMMA CountOne ==
    ASSUME NEW S, NEW x, x \notin S, NEW n, Counts(S, n)
    PROVE  Counts(S \cup {x}, n + 1)
BY FS_AddElement DEF Counts

\* The places of the rows that were written, those of rows after midnight, and the
\* dates that have rows.
FiledIn(parts) ==
    {p \in Dates \X Nat : parts[p[1]] # None /\ p[2] \in DOMAIN parts[p[1]]}
LateIn(parts) == {p \in FiledIn(parts) : parts[p[1]][p[2]].overnight = 1}
DatesIn(parts) == {d \in Dates : parts[d] # None}

\* The events after midnight.
Crossing(ev) == {n \in DOMAIN ev : ev[n].crosses_midnight}

\* The calls of these dates.
JoinedOn(dates) == UNION {{d} \X Joined(d) : d \in dates}

\* Every counter of the summary is the number of something.
SumInv ==
    /\ Counters \subseteq DOMAIN summary
    /\ \A c \in Counters : summary[c] \in Nat
    /\ stage \notin Failed =>
          /\ Counts(FiledIn(partitions), summary.events)
          /\ Counts(LateIn(partitions), summary.crossing)
          /\ Counts(JoinedOn(DatesDone), summary.events + summary.untimed + summary.malformed)
          /\ Counts(DatesIn(partitions), summary.dates_written)
          /\ Counts(DatesDone, summary.dates_written + summary.dates_empty)
    /\ stage = "date" => Counts(Crossing(events), stats.crossing)

\* What one more partition adds.
LEMMA FiledMore ==
    ASSUME NEW parts, NEW d \in Dates, parts[d] = None, NEW ev, DOMAIN ev \subseteq Nat,
           NEW rows, rows # None, DOMAIN rows = DOMAIN ev,
           \A n \in DOMAIN ev : rows[n].overnight = 1 <=> ev[n].crosses_midnight,
           NEW more, \A e \in Dates : more[e] = IF e = d THEN rows ELSE parts[e]
    PROVE  /\ FiledIn(more) = FiledIn(parts) \cup ({d} \X DOMAIN ev)
           /\ FiledIn(parts) \cap ({d} \X DOMAIN ev) = {}
           /\ LateIn(more) = LateIn(parts) \cup ({d} \X Crossing(ev))
           /\ LateIn(parts) \cap ({d} \X Crossing(ev)) = {}
           /\ DatesIn(more) = DatesIn(parts) \cup {d} /\ d \notin DatesIn(parts)
<1>1. more[d] = rows /\ \A e \in Dates : e # d => more[e] = parts[e]
  OBVIOUS
<1>2. DatesIn(more) = DatesIn(parts) \cup {d} /\ d \notin DatesIn(parts)
  BY <1>1 DEF DatesIn
<1>3. ASSUME NEW p \in Dates \X Nat
      PROVE  /\ p \in {d} \X DOMAIN ev <=> p[1] = d /\ p[2] \in DOMAIN ev
             /\ p \in {d} \X Crossing(ev) <=> p[1] = d /\ p[2] \in Crossing(ev)
             /\ p \in FiledIn(parts) <=> parts[p[1]] # None /\ p[2] \in DOMAIN parts[p[1]]
             /\ p \in FiledIn(more) <=> more[p[1]] # None /\ p[2] \in DOMAIN more[p[1]]
  BY DEF FiledIn
<1>4. /\ FiledIn(parts) \subseteq Dates \X Nat /\ FiledIn(more) \subseteq Dates \X Nat
      /\ {d} \X DOMAIN ev \subseteq Dates \X Nat
      /\ {d} \X Crossing(ev) \subseteq Dates \X Nat
  BY <1>1 DEF FiledIn, Crossing
<1>5. FiledIn(more) = FiledIn(parts) \cup ({d} \X DOMAIN ev)
  <2>1. ASSUME NEW p \in Dates \X Nat
        PROVE  p \in FiledIn(more) <=> p \in FiledIn(parts) \cup ({d} \X DOMAIN ev)
    BY <1>1, <1>3
  <2> QED  BY <1>4, <2>1
<1>6. FiledIn(parts) \cap ({d} \X DOMAIN ev) = {}  BY <1>3, <1>4
<1>8. LateIn(more) = LateIn(parts) \cup ({d} \X Crossing(ev))
  <2>1. ASSUME NEW p \in Dates \X Nat
        PROVE  p \in LateIn(more) <=> p \in LateIn(parts) \cup ({d} \X Crossing(ev))
    <3>1. CASE p[1] = d
      BY <1>1, <1>3, <3>1 DEF LateIn, Crossing
    <3>2. CASE p[1] # d
      <4>1. p[1] \in Dates  OBVIOUS
      <4> QED  BY <1>1, <1>3, <3>2, <4>1 DEF LateIn
    <3> QED  BY <3>1, <3>2
  <2>2. LateIn(more) \subseteq Dates \X Nat /\ LateIn(parts) \subseteq Dates \X Nat
    BY <1>4 DEF LateIn
  <2> QED  BY <1>4, <2>1, <2>2
<1>9. LateIn(parts) \cap ({d} \X Crossing(ev)) = {}  BY <1>3, <1>4 DEF LateIn
<1> QED  BY <1>2, <1>5, <1>6, <1>8, <1>9

\* What the walk of a date counts.
LEMMA CrossingStep ==
    /\ Rows /\ WalkInv /\ [Next]_vars /\ stage' = "date"
    /\ stage = "date" => Counts(Crossing(events), stats.crossing)
    => Counts(Crossing(events'), stats'.crossing)
<1> SUFFICES ASSUME Rows, WalkInv, [Next]_vars, stage' = "date",
                    stage = "date" => Counts(Crossing(events), stats.crossing)
             PROVE  Counts(Crossing(events'), stats'.crossing)
  OBVIOUS
<1> USE DEF found
<1>1. CASE StartDate
  <2>1. events' = <<>> /\ stats'.crossing = 0  BY <1>1 DEF StartDate, NoStats
  <2>2. Crossing(events') = {}  BY <2>1 DEF Crossing
  <2>3. Counts({}, 0)  BY FS_EmptySet DEF Counts
  <2> QED  BY <2>1, <2>2, <2>3
<1>2. CASE NextTrip \/ DropMalformed \/ DropUntimed
  <2>1. stage = "date" /\ events' = events
    BY <1>2 DEF NextTrip, DropMalformed, DropUntimed
  <2>2. PICK A \in SUBSET DOMAIN feed.trips, i \in Nat, B \in SUBSET DOMAIN feed.stop_times :
           WalkAt(A, i, B)
    BY <2>1 DEF WalkInv
  <2>3. stats \in [trips : Nat, untimed : Nat, malformed : Nat, crossing : Nat]
    BY <2>2 DEF WalkAt
  <2>4. stats'.crossing = stats.crossing
    BY <1>2, <2>3 DEF NextTrip, DropMalformed, DropUntimed
  <2> QED  BY <2>1, <2>4
<1>3. CASE Emit
  <2> DEFINE e == EventOf(trip, Head(calls), date)
             n == Len(events) + 1
  <2>1. /\ stage = "date" /\ events' = Append(events, e)
        /\ stats' = [stats EXCEPT !.crossing = IF e.crosses_midnight THEN stats.crossing + 1
                                               ELSE stats.crossing]
    BY <1>3 DEF Emit
  <2> HIDE DEF e
  <2>2. PICK A \in SUBSET DOMAIN feed.trips, i \in Nat, B \in SUBSET DOMAIN feed.stop_times :
           WalkAt(A, i, B)
    BY <2>1 DEF WalkInv
  <2>3. stats'.crossing = IF e.crosses_midnight THEN stats.crossing + 1 ELSE stats.crossing
    <3>1. stats \in [trips : Nat, untimed : Nat, malformed : Nat, crossing : Nat]
      BY <2>2 DEF WalkAt
    <3> QED  BY <2>1, <3>1
  <2>4. /\ DOMAIN events' = (DOMAIN events) \cup {n} /\ events'[n] = e
        /\ \A k \in DOMAIN events : events'[k] = events[k] /\ k # n
    <3>1. events \in Seq(EventSet)  BY DEF Rows, EventsFromRows
    <3>2. Len(events) \in Nat /\ DOMAIN events = 1..Len(events)  BY <3>1
    <3>3. /\ DOMAIN Append(events, e) = 1..n /\ Append(events, e)[n] = e
          /\ \A k \in 1..Len(events) : Append(events, e)[k] = events[k]
      BY <3>1
    <3> QED  BY <2>1, <3>2, <3>3
  <2> HIDE DEF n
  <2>5. n \notin Crossing(events)  BY <2>4 DEF Crossing
  <2>6. Crossing(events') = IF e.crosses_midnight THEN Crossing(events) \cup {n}
                            ELSE Crossing(events)
    BY <2>4 DEF Crossing
  <2> QED  BY <2>1, <2>3, <2>5, <2>6, CountOne
<1>4. CASE \/ Check \/ BuildCalendar \/ IndexTrip \/ EndTrips \/ IndexStopTime \/ SortCalls \/ NextService
           \/ Unresolvable \/ EndDate \/ EndDates \/ WriteRoutes \/ WriteStops
           \/ WriteFails \/ UNCHANGED vars
  <2>1. stage = "date" /\ events' = events /\ stats' = stats
    BY <1>4 DEF Check, BuildCalendar, IndexTrip, EndTrips, IndexStopTime, SortCalls, NextService,
       Unresolvable, EndDate, EndDates, WriteRoutes, WriteStops, WriteFails, vars
  <2> QED  BY <2>1
<1> QED  BY <1>1, <1>2, <1>3, <1>4 DEF Next

LEMMA SumStep ==
    /\ Rows /\ WalkInv /\ DatesInv /\ PartInv /\ SumInv /\ [Next]_vars
    => SumInv'
<1> SUFFICES ASSUME Rows, WalkInv, DatesInv, PartInv, SumInv, [Next]_vars
             PROVE  SumInv'
  OBVIOUS
<1>1. \A d : Joined(d)' = Joined(d)  BY InputsFixed, SameCalls
<1>2. stage' = "date" => Counts(Crossing(events'), stats'.crossing)
  BY CrossingStep DEF SumInv
<1>3. CASE NoDateEnds
  <2>1. /\ partitions' = partitions /\ DOMAIN summary' = DOMAIN summary
        /\ \A c \in Counters : summary'[c] = summary[c]
        /\ stage' \notin Failed => stage \notin Failed /\ DatesDone' = DatesDone
    BY <1>3 DEF NoDateEnds
  <2>2. stage' \notin Failed => JoinedOn(DatesDone)' = JoinedOn(DatesDone)
    BY <1>1, <2>1 DEF JoinedOn
  <2>3. /\ FiledIn(partitions)' = FiledIn(partitions) /\ LateIn(partitions)' = LateIn(partitions)
        /\ DatesIn(partitions)' = DatesIn(partitions)
    BY <2>1 DEF FiledIn, LateIn, DatesIn
  <2>4. Counters \subseteq DOMAIN summary' /\ \A c \in Counters : summary'[c] \in Nat
    BY <2>1 DEF SumInv
  <2>5. /\ summary'.events = summary.events /\ summary'.crossing = summary.crossing
        /\ summary'.untimed = summary.untimed /\ summary'.malformed = summary.malformed
        /\ summary'.dates_written = summary.dates_written
        /\ summary'.dates_empty = summary.dates_empty
    BY <2>1 DEF Counters
  <2>6. ASSUME stage' \notin Failed
        PROVE  /\ Counts(FiledIn(partitions)', summary'.events)
               /\ Counts(LateIn(partitions)', summary'.crossing)
               /\ Counts(JoinedOn(DatesDone)',
                         summary'.events + summary'.untimed + summary'.malformed)
               /\ Counts(DatesIn(partitions)', summary'.dates_written)
               /\ Counts(DatesDone', summary'.dates_written + summary'.dates_empty)
    BY <2>1, <2>2, <2>3, <2>5, <2>6 DEF SumInv
  <2>7. stage' = "date" => Counts(Crossing(events)', stats'.crossing)
    <3>1. Crossing(events)' = Crossing(events')  BY DEF Crossing
    <3> QED  BY <1>2, <3>1
  <2> QED  BY <2>4, <2>6, <2>7 DEF SumInv
<1>4. CASE DateEnds
  <2>1. /\ DateWalked /\ stage = "date" /\ stage' = "dates" /\ summary' = Counted
        /\ partitions' = IF events = <<>> THEN partitions
                         ELSE [partitions EXCEPT ![date] = FactRecords(events)]
        /\ date \in Dates \ DatesDone /\ DatesDone' = DatesDone \cup {date}
    BY <1>4 DEF DateEnds, DateWalked
  <2>0. PICK n \in Nat : n = Len(events)  BY DEF Rows, EventsFromRows
  <2>2. /\ Cardinality(Joined(date)) = n + stats.untimed + stats.malformed
        /\ stats \in [trips : Nat, untimed : Nat, malformed : Nat, crossing : Nat]
        /\ events \in Seq(EventSet) /\ DOMAIN events = 1..n
    BY <2>0, <2>1, DateListed DEF Rows, EventsFromRows
  <2>3. /\ stats.trips \in Nat /\ stats.untimed \in Nat /\ stats.malformed \in Nat
        /\ stats.crossing \in Nat
    BY <2>2
  <2>4. Counts(DOMAIN events, n)
    <3>1. IsFiniteSet(1..n) /\ Cardinality(1..n) = n  BY FS_Interval
    <3> QED  BY <2>2, <3>1 DEF Counts
  <2>5. Counts(Joined(date), n + stats.untimed + stats.malformed)
    BY <2>2, <2>3, JoinedFinite DEF Counts, Rows
  <2>6. Counts(Crossing(events), stats.crossing)  BY <2>1 DEF SumInv
  <2>7. /\ Counts(FiledIn(partitions), summary.events)
        /\ Counts(LateIn(partitions), summary.crossing)
        /\ Counts(JoinedOn(DatesDone), summary.events + summary.untimed + summary.malformed)
        /\ Counts(DatesIn(partitions), summary.dates_written)
        /\ Counts(DatesDone, summary.dates_written + summary.dates_empty)
    BY <2>1 DEF SumInv
  <2> DEFINE one == IF events = <<>> THEN 0 ELSE 1
  <2>8. /\ Counters \subseteq DOMAIN summary'
        /\ summary'.events = summary.events + n
        /\ summary'.trips = summary.trips + stats.trips
        /\ summary'.untimed = summary.untimed + stats.untimed
        /\ summary'.malformed = summary.malformed + stats.malformed
        /\ summary'.crossing = summary.crossing + stats.crossing
        /\ summary'.dates_written = summary.dates_written + one
        /\ summary'.dates_empty = summary.dates_empty + (1 - one)
        /\ summary'.routes = summary.routes /\ summary'.stops = summary.stops
    BY <2>0, <2>1 DEF Counted, SumInv, Counters
  <2>9. \A c \in Counters : summary[c] \in Nat  BY DEF SumInv
  <2>10. one \in 0..1  OBVIOUS
  <2>11. \A c \in Counters : summary'[c] \in Nat
    <3>1. /\ summary.events \in Nat /\ summary.trips \in Nat /\ summary.untimed \in Nat
          /\ summary.malformed \in Nat /\ summary.crossing \in Nat
          /\ summary.dates_written \in Nat /\ summary.dates_empty \in Nat
          /\ summary.routes \in Nat /\ summary.stops \in Nat
      BY <2>9 DEF Counters
    <3> HIDE DEF one
    <3>2. one \in Nat /\ 1 - one \in Nat  BY <2>10
    <3>3. summary'.events \in Nat  BY <2>8, <3>1
    <3>4. summary'.trips \in Nat /\ summary'.untimed \in Nat  BY <2>3, <2>8, <3>1
    <3>5. summary'.malformed \in Nat /\ summary'.crossing \in Nat  BY <2>3, <2>8, <3>1
    <3>6. summary'.dates_written \in Nat /\ summary'.dates_empty \in Nat
      BY <2>8, <3>1, <3>2
    <3>7. summary'.routes \in Nat /\ summary'.stops \in Nat  BY <2>8, <3>1
    <3> QED  BY <3>3, <3>4, <3>5, <3>6, <3>7 DEF Counters
  <2>12. /\ Counts(FiledIn(partitions'), summary.events + n)
         /\ Counts(LateIn(partitions'), summary.crossing + stats.crossing)
         /\ Counts(DatesIn(partitions'), summary.dates_written + one)
    <3>1. CASE events = <<>>
      <4>1. n = 0 /\ Crossing(events) = {}  BY <2>0, <3>1 DEF Crossing
      <4>2. stats.crossing = 0  BY <2>6, <4>1, FS_EmptySet DEF Counts
      <4>3. /\ summary.events + n = summary.events /\ one = 0
            /\ summary.crossing + stats.crossing = summary.crossing
            /\ summary.dates_written + one = summary.dates_written
        BY <2>7, <3>1, <4>1, <4>2 DEF Counts
      <4>4. partitions' = partitions  BY <2>1, <3>1
      <4> QED  BY <2>7, <4>3, <4>4
    <3>2. CASE events # <<>>
      <4>1. PICK rows : rows = FactRecords(events)  OBVIOUS
      <4>2. /\ rows # None /\ DOMAIN rows = DOMAIN events
            /\ \A k \in DOMAIN events : rows[k] = FactRecord(events[k])
        BY <2>2, <4>1, FactsFit
      <4>3. \A k \in DOMAIN events : rows[k].overnight = 1 <=> events[k].crosses_midnight
        <5> SUFFICES ASSUME NEW k \in DOMAIN events
                     PROVE  rows[k].overnight = 1 <=> events[k].crosses_midnight
          OBVIOUS
        <5>1. events[k].crosses_midnight \in BOOLEAN  BY <2>2, EventTyped
        <5>2. rows[k].overnight = IF events[k].crosses_midnight THEN 1 ELSE 0
          BY <4>2, FactColumns
        <5> QED  BY <5>1, <5>2
      <4>4. DOMAIN partitions = Dates /\ partitions[date] = None /\ date \in Dates
        BY <2>1 DEF PartInv
      <4>5. PICK more : /\ more = partitions'
                        /\ \A d \in Dates : more[d] = IF d = date THEN rows ELSE partitions[d]
        <5>1. \A d \in Dates : partitions'[d] = IF d = date THEN rows ELSE partitions[d]
          BY <2>1, <3>2, <4>1, <4>4
        <5> QED  BY <5>1
      <4>6. /\ FiledIn(more) = FiledIn(partitions) \cup ({date} \X DOMAIN events)
            /\ FiledIn(partitions) \cap ({date} \X DOMAIN events) = {}
            /\ LateIn(more) = LateIn(partitions) \cup ({date} \X Crossing(events))
            /\ LateIn(partitions) \cap ({date} \X Crossing(events)) = {}
            /\ DatesIn(more) = DatesIn(partitions) \cup {date} /\ date \notin DatesIn(partitions)
        <5>1. DOMAIN events \subseteq Nat  BY <2>2
        <5> HIDE DEF Dates
        <5> QED  BY <4>2, <4>3, <4>4, <4>5, <5>1, FiledMore
      <4>7. Counts(FiledIn(more), summary.events + n)
        <5>1. Counts({date} \X DOMAIN events, n)  BY <2>4, CountTagged
        <5> QED  BY <2>7, <4>6, <5>1, CountUnion
      <4>8. Counts(LateIn(more), summary.crossing + stats.crossing)
        <5>1. Counts({date} \X Crossing(events), stats.crossing)  BY <2>6, CountTagged
        <5> QED  BY <2>7, <4>6, <5>1, CountUnion
      <4>9. Counts(DatesIn(more), summary.dates_written + 1)
        BY <2>7, <4>6, CountOne
      <4>10. one = 1  BY <3>2
      <4> QED  BY <4>5, <4>7, <4>8, <4>9, <4>10
    <3> QED  BY <3>1, <3>2
  <2>13. Counts(JoinedOn(DatesDone)', (summary.events + summary.untimed + summary.malformed)
                                       + (n + stats.untimed + stats.malformed))
    <3>1. JoinedOn(DatesDone)' = JoinedOn(DatesDone) \cup ({date} \X Joined(date))
      <4>1. JoinedOn(DatesDone)' = JoinedOn(DatesDone')
        BY <1>1 DEF JoinedOn
      <4>2. JoinedOn(DatesDone \cup {date}) = JoinedOn(DatesDone) \cup ({date} \X Joined(date))
        BY DEF JoinedOn
      <4> QED  BY <2>1, <4>1, <4>2
    <3>2. JoinedOn(DatesDone) \cap ({date} \X Joined(date)) = {}
      <4> SUFFICES ASSUME NEW p \in JoinedOn(DatesDone), p \in {date} \X Joined(date)
                   PROVE  FALSE
        OBVIOUS
      <4>1. PICK d \in DatesDone : p \in {d} \X Joined(d)  BY DEF JoinedOn
      <4>2. p[1] = d /\ p[1] = date  BY <4>1
      <4> QED  BY <2>1, <4>1, <4>2
    <3>3. Counts({date} \X Joined(date), n + stats.untimed + stats.malformed)
      BY <2>5, CountTagged
    <3> QED  BY <2>7, <3>1, <3>2, <3>3, CountUnion
  <2>14. Counts(DatesDone', (summary.dates_written + summary.dates_empty) + 1)
    BY <2>1, <2>7, CountOne
  <2>15. /\ summary'.events + summary'.untimed + summary'.malformed
            = (summary.events + summary.untimed + summary.malformed)
              + (n + stats.untimed + stats.malformed)
         /\ summary'.dates_written + summary'.dates_empty
            = (summary.dates_written + summary.dates_empty) + 1
    <3>1. /\ summary.events \in Nat /\ summary.untimed \in Nat /\ summary.malformed \in Nat
          /\ summary.dates_written \in Nat /\ summary.dates_empty \in Nat
      BY <2>9 DEF Counters
    <3> HIDE DEF one
    <3>2. \A a, b, c, x, y, z \in Nat :
             (a + x) + (b + y) + (c + z) = (a + b + c) + (x + y + z)
      OBVIOUS
    <3>3. \A a, b \in Nat, o \in 0..1 : (a + o) + (b + (1 - o)) = (a + b) + 1
      OBVIOUS
    <3> QED  BY <2>3, <2>8, <2>10, <3>1, <3>2, <3>3
  <2>16. /\ FiledIn(partitions)' = FiledIn(partitions') /\ LateIn(partitions)' = LateIn(partitions')
         /\ DatesIn(partitions)' = DatesIn(partitions')
    BY DEF FiledIn, LateIn, DatesIn
  <2> HIDE DEF one
  <2>17. /\ Counts(FiledIn(partitions)', summary'.events)
         /\ Counts(LateIn(partitions)', summary'.crossing)
         /\ Counts(DatesIn(partitions)', summary'.dates_written)
    BY <2>8, <2>12, <2>16
  <2>18. /\ Counts(JoinedOn(DatesDone)',
                   summary'.events + summary'.untimed + summary'.malformed)
         /\ Counts(DatesDone', summary'.dates_written + summary'.dates_empty)
    BY <2>13, <2>14, <2>15
  <2> QED  BY <2>1, <2>8, <2>11, <2>17, <2>18 DEF SumInv
<1> QED  BY <1>3, <1>4, DatesStep

LEMMA SumInvariant == Spec => [](Walked /\ DatesInv /\ PartInv /\ SumInv)
<1>1. Init => SumInv
  <2> SUFFICES ASSUME Init PROVE SumInv
    OBVIOUS
  <2>1. /\ stage = "check" /\ summary = NoSummary /\ \A d \in Dates : partitions[d] = None
    BY DEF Init, Start
  <2>2. Len(feed.routes) \in Nat /\ Len(feed.stops) \in Nat  BY DEF Init, Feeds
  <2>3. Counters \subseteq DOMAIN summary /\ \A c \in Counters : summary[c] \in Nat
    <3>1. Counters \subseteq DOMAIN summary  BY <2>1 DEF NoSummary, Counters
    <3>2. /\ summary.events = 0 /\ summary.trips = 0 /\ summary.untimed = 0
          /\ summary.malformed = 0 /\ summary.crossing = 0 /\ summary.dates_written = 0
          /\ summary.dates_empty = 0
          /\ summary.routes = Len(feed.routes) /\ summary.stops = Len(feed.stops)
      BY <2>1 DEF NoSummary
    <3>3. \A c \in Counters : summary[c] \in {0, Len(feed.routes), Len(feed.stops)}
      BY <3>2 DEF Counters
    <3> QED  BY <2>2, <3>1, <3>3
  <2>4. DatesDone = {}  BY <2>1 DEF DatesDone
  <2>5. /\ FiledIn(partitions) = {} /\ LateIn(partitions) = {} /\ DatesIn(partitions) = {}
        /\ JoinedOn(DatesDone) = {}
    BY <2>1, <2>4 DEF FiledIn, LateIn, DatesIn, JoinedOn
  <2>6. Counts({}, 0)  BY FS_EmptySet DEF Counts
  <2>7. /\ summary.events = 0 /\ summary.crossing = 0 /\ summary.dates_written = 0
        /\ summary.events + summary.untimed + summary.malformed = 0
        /\ summary.dates_written + summary.dates_empty = 0
    BY <2>1 DEF NoSummary
  <2>8. /\ Counts(FiledIn(partitions), summary.events)
        /\ Counts(LateIn(partitions), summary.crossing)
        /\ Counts(DatesIn(partitions), summary.dates_written)
        /\ Counts(DatesDone, summary.dates_written + summary.dates_empty)
        /\ Counts(JoinedOn(DatesDone), summary.events + summary.untimed + summary.malformed)
    BY <2>4, <2>5, <2>6, <2>7
  <2> QED  BY <2>1, <2>3, <2>8 DEF SumInv
<1>2. Walked /\ DatesInv /\ PartInv /\ SumInv /\ [Next]_vars => SumInv'
  BY SumStep DEF Walked
<1> QED  BY <1>1, <1>2, PartInvariant, PTL DEF Spec

\* The summary of a build that ends well accounts for every row and every date, on
\* any feed: what is in no partition was counted as dropped, and what is counted is
\* there.
THEOREM TheSummaryAccounts == Spec => []SummaryAccounts
<1>1. Rows /\ DatesInv /\ PartInv /\ SumInv => SummaryAccounts
  <2> SUFFICES ASSUME Rows, DatesInv, PartInv, SumInv, stage = "done"
               PROVE  SummaryAccounts
    BY DEF SummaryAccounts
  <2>1. /\ Counts(FiledIn(partitions), summary.events)
        /\ Counts(LateIn(partitions), summary.crossing)
        /\ Counts(JoinedOn(DatesDone), summary.events + summary.untimed + summary.malformed)
        /\ Counts(DatesIn(partitions), summary.dates_written)
        /\ Counts(DatesDone, summary.dates_written + summary.dates_empty)
    BY DEF SumInv
  <2>2. DatesDone = active_dates  BY DEF DatesDone, DatesInv
  <2>3. JoinedOn(DatesDone) = UNION {{d} \X Joined(d) : d \in Dates}
    <3>1. \A d \in Dates : d \notin active_dates => Joined(d) = {}
      BY IdleDates DEF Rows
    <3>2. active_dates \subseteq Dates  BY DEF active_dates
    <3> QED  BY <2>2, <3>1, <3>2 DEF JoinedOn
  <2> DEFINE facts == {p \in Dates \X (1..summary.events) :
                         partitions[p[1]] # None /\ p[2] \in DOMAIN partitions[p[1]]}
  <2>4. ASSUME NEW d \in Dates, partitions[d] # None, NEW k \in DOMAIN partitions[d]
        PROVE  k \in 1..summary.events
    <3>1. PICK n \in Nat : DOMAIN partitions[d] = 1..n
      <4>1. PICK ev \in Seq(EventSet) : DOMAIN partitions[d] = DOMAIN ev
        BY <2>4, PartitionRows DEF PartInv
      <4>2. DOMAIN ev = 1..Len(ev) /\ Len(ev) \in Nat  OBVIOUS
      <4> QED  BY <4>1, <4>2
    <3>2. IsFiniteSet(1..n) /\ Cardinality(1..n) = n  BY FS_Interval
    <3>3. Counts({d} \X (1..n), n)
      <4>1. Counts(1..n, n)  BY <3>2 DEF Counts
      <4> QED  BY <4>1, CountTagged
    <3>4. {d} \X (1..n) \subseteq FiledIn(partitions)  BY <2>4, <3>1 DEF FiledIn
    <3>5. n <= summary.events  BY <2>1, <3>3, <3>4, FS_Subset DEF Counts
    <3> QED  BY <2>1, <3>1, <3>5 DEF Counts
  <2>5. facts = FiledIn(partitions)
    <3>1. summary.events \in Nat  BY <2>1 DEF Counts
    <3>2. facts \subseteq FiledIn(partitions)  BY DEF FiledIn
    <3>3. FiledIn(partitions) \subseteq facts  BY <2>4 DEF FiledIn
    <3> QED  BY <3>2, <3>3
  <2>6. LateIn(partitions) = {p \in facts : partitions[p[1]][p[2]].overnight = 1}
    BY <2>5 DEF LateIn
  <2>7. DatesIn(partitions) = {d \in Dates : partitions[d] # None}  BY DEF DatesIn
  <2> HIDE DEF facts
  <2>8. summary.events = Cardinality(facts)  BY <2>1, <2>5 DEF Counts
  <2>9. summary.crossing = Cardinality({p \in facts : partitions[p[1]][p[2]].overnight = 1})
    BY <2>1, <2>6 DEF Counts
  <2>10. summary.events + summary.untimed + summary.malformed
         = Cardinality(UNION {{d} \X Joined(d) : d \in Dates})
    BY <2>1, <2>3 DEF Counts
  <2>11. /\ summary.dates_written = Cardinality({d \in Dates : partitions[d] # None})
         /\ summary.dates_written + summary.dates_empty = Cardinality(active_dates)
    BY <2>1, <2>2, <2>7 DEF Counts
  <2> QED  BY <2>8, <2>9, <2>10, <2>11 DEF SummaryAccounts, facts
<1> QED  BY <1>1, SumInvariant, PTL DEF Walked

=============================================================================
