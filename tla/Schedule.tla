------------------------------ MODULE Schedule ------------------------------
(***************************************************************************)
(* From the rows of a feed to its tables: validate::check, and then        *)
(* dataset::build with Schedule::index and Schedule::for_date              *)
(* (src/rust/transit-ingest/src: gtfs/validate.rs, schedule.rs,            *)
(* dataset/write.rs), for one feed and all of its dates.                   *)
(*                                                                         *)
(* The service calendar is what ServiceCalendar.tla computes: the dates of *)
(* each service.  Row by row the indexes are built; then, for each date,   *)
(* the services, their trips and the trips' calls are walked, and each     *)
(* call becomes an event or is counted as dropped.  The events of a date   *)
(* are its partition; routes and stops are written after the last of them. *)
(***************************************************************************)
EXTENDS StopTime, Tables, FiniteSets

CONSTANTS
    Services,   \* the service ids, in their order as strings
    Trips,      \* the trip ids that rows may hold
    MaxDate     \* bound: the dates are 1..MaxDate

ASSUME ScheduleAssumption == MaxDate \in Nat /\ Trips \subseteq STRING

\* The names the code writes are texts (so they are in TLA+, but not to the provers).
ASSUME NamesAssumption ==
    {"AM Peak", "Midday", "PM Peak", "Evening", "Overnight", "Unknown"} \subseteq STRING

Dates == 1..MaxDate

ServiceIds == {Services[n] : n \in DOMAIN Services}

\* Rows of trips.txt and stop_times.txt.
TripRows     == [trip_id : Trips, route_id : STRING, service_id : ServiceIds,
                 direction_id : Int \cup {None}]
StopTimeRows == [trip_id : Trips, stop_id : STRING, stop_sequence : 0..(2 * MaxInt + 1),
                 arrival_time : Fields, departure_time : Fields]

\* A feed: the agencies that agency.txt names, the rows of four files, the
\* services its calendar files name, whether ServiceCalendar::build accepts these
\* files, and the dates it then gives the services.
Feeds == [agencies : SUBSET STRING, routes : Seq(RouteRows), stops : Seq(StopRows),
          trips : Seq(TripRows), stop_times : Seq(StopTimeRows),
          services : SUBSET ServiceIds, valid : BOOLEAN,
          dates : [ServiceIds -> SUBSET Dates]]

VARIABLES
    feed,        \* the rows of the archive and the dates of its services
    zone,        \* the timezone of the agency
    allow,       \* --allow-violations
    stage,       \* what comes next: "check", "index", "trips", "stop_times", "dates",
                 \* "date", "routes" or "stops"; or how it ended: "done", "refused" or
                 \* one of Failed
    row,         \* the rows of the file being indexed that were read
    trips_by_service, stop_times_by_trip,   \* the indexes
    pending,     \* the service dates still to be resolved
    date,        \* the date being resolved
    services, trips, calls,   \* what is left of the three nested loops
    trip,        \* the trip whose calls they are
    events, stats,   \* what for_date has so far
    partitions,  \* the rows written for each date
    tables,      \* the rows written of the two dimensions
    summary      \* the Summary of the build

input == <<feed, zone, allow>>
index == <<trips_by_service, stop_times_by_trip>>
loops == <<services, trips, calls, trip>>
found == <<events, stats>>
written == <<partitions, tables, summary>>
vars  == <<input, stage, row, index, pending, date, loops, found, written>>

-----------------------------------------------------------------------------
(* validate::check *)

RouteIds == {feed.routes[n].route_id : n \in DOMAIN feed.routes}
StopIds  == {feed.stops[n].stop_id : n \in DOMAIN feed.stops}
TripIds  == {feed.trips[n].trip_id : n \in DOMAIN feed.trips}

\* Mutant: the keys of stop_times.txt are trusted.
DanglingTrips ==
    \E n \in DOMAIN feed.trips :
        \/ feed.trips[n].route_id \notin RouteIds
        \/ feed.trips[n].service_id \notin feed.services

\* A key that names no row of the file it refers to.  A service is defined by a
\* row of either calendar file, even one that leaves it without dates.
Dangling ==
    \/ \E n \in DOMAIN feed.trips :
          \/ feed.trips[n].route_id \notin RouteIds
          \/ feed.trips[n].service_id \notin feed.services
    \/ \E n \in DOMAIN feed.stop_times :
          \/ feed.stop_times[n].trip_id \notin TripIds
          \/ feed.stop_times[n].stop_id \notin StopIds
    \/ \E n \in DOMAIN feed.stops :
          non_empty(feed.stops[n].parent_station) \notin StopIds \cup {None}
    \/ /\ feed.agencies # {}      \* a feed need not name its agency
       /\ \E n \in DOMAIN feed.routes :
             non_empty(feed.routes[n].agency_id) \notin feed.agencies \cup {None}

\* Mutant: only trips are looked at.
DuplicatedTrips == Cardinality(TripIds) < Len(feed.trips)

\* duplicate_ids: a primary key that stands in two rows.
Duplicated ==
    \/ Cardinality(RouteIds) < Len(feed.routes)
    \/ Cardinality(StopIds) < Len(feed.stops)
    \/ Cardinality(TripIds) < Len(feed.trips)

\* Mutant: duplicates are not looked for.
OnlyDangling == Dangling

Violations == Dangling \/ Duplicated

-----------------------------------------------------------------------------
(* Helpers *)

NoStats == [trips |-> 0, untimed |-> 0, malformed |-> 0, crossing |-> 0]

\* calendar.services_on(date), and the order in which it lists them.
services_on(d) == {s \in ServiceIds : d \in feed.dates[s]}

Precedes(s, r) ==
    \E m, n \in DOMAIN Services : m <= n /\ Services[m] = s /\ Services[n] = r

\* calendar.active_dates()
active_dates == {d \in Dates : services_on(d) # {}}

Least(dates)    == CHOOSE d \in dates : \A e \in dates : d <= e
Greatest(dates) == CHOOSE d \in dates : \A e \in dates : e <= d

\* What sort_unstable_by_key may make of the calls of a trip: any order in which
\* stop_sequence does not fall.
Sorted(s) ==
    {[k \in DOMAIN s |-> s[p[k]]] : p \in
        {p \in [DOMAIN s -> DOMAIN s] :
            \A k, l \in DOMAIN s :
                k < l => p[k] # p[l] /\ s[p[k]].stop_sequence <= s[p[l]].stop_sequence}}

\* One time stands in for the other.
Arrival(c) ==
    Seconds(IF c.arrival_time # Blank THEN c.arrival_time ELSE c.departure_time)
Departure(c) ==
    Seconds(IF c.departure_time # Blank THEN c.departure_time ELSE c.arrival_time)

BadTimes(c) == Malformed(c.arrival_time) \/ Malformed(c.departure_time)
Untimed(c)  == c.arrival_time = Blank /\ c.departure_time = Blank

\* The hash of these fields.
event_id(d, t, c) == <<AgencyId, d, t.trip_id, c.stop_sequence>>

\* The event of a call.
EventOf(t, c, d) ==
    LET local_hour == HourAt(zone, resolve(Arrival(c), d, zone)) IN
    [event_id |-> event_id(d, t, c), service_date |-> d, agency_id |-> AgencyId,
     route_id |-> t.route_id, route_key |-> key(t.route_id), trip_id |-> t.trip_id,
     stop_id |-> c.stop_id, stop_key |-> key(c.stop_id),
     stop_sequence |-> c.stop_sequence, direction_id |-> t.direction_id,
     scheduled_arrival |-> resolve(Arrival(c), d, zone),
     scheduled_departure |-> resolve(Departure(c), d, zone),
     dwell_seconds |-> IF Departure(c) > Arrival(c) THEN Departure(c) - Arrival(c) ELSE 0,
     crosses_midnight |-> rolls_over(Arrival(c)),
     local_hour |-> local_hour,
     service_period |-> service_period(local_hour)]

\* A Summary before the first date.
NoSummary ==
    [dates_written |-> 0, dates_empty |-> 0, events |-> 0, trips |-> 0,
     untimed |-> 0, malformed |-> 0, crossing |-> 0, routes |-> Len(feed.routes),
     stops |-> Len(feed.stops), first_date |-> None, last_date |-> None]

\* The records of a sequence of rows.
FactRecords(s)  == [n \in DOMAIN s |-> FactRecord(s[n])]
RouteRecords(s) == [n \in DOMAIN s |-> RouteRecord(s[n])]
StopRecords(s)  == [n \in DOMAIN s |-> StopRecord(s[n])]

-----------------------------------------------------------------------------
(* Command::Build, as far as one feed is concerned *)

\* An archive was read: what every build starts from.
Start ==
    /\ stage = "check"
    /\ row = 0
    /\ trips_by_service = [s \in ServiceIds |-> <<>>]
    /\ stop_times_by_trip = [t \in Trips |-> <<>>]
    /\ pending = {} /\ date = None
    /\ services = {} /\ trips = <<>> /\ calls = <<>> /\ trip = None
    /\ events = <<>> /\ stats = NoStats
    /\ partitions = [d \in Dates |-> None]
    /\ tables = [routes |-> None, stops |-> None]
    /\ summary = NoSummary

\* A feed with violations is only built with --allow-violations.
Check ==
    /\ stage = "check"
    /\ stage' = IF Violations /\ ~allow THEN "refused" ELSE "index"
    /\ UNCHANGED <<input, row, index, pending, date, loops, found, written>>

\* How Command::Build fails once the feed was accepted.
Failed == {"bad calendar", "bad noon", "null in column", "write failed"}

-----------------------------------------------------------------------------
(* Schedule::index *)

\* The calendar is built first; a bad row in it, which the check does not look for,
\* ends the build.  The timezone was resolved when the registry was read.
BuildCalendar ==
    /\ stage = "index"
    /\ stage' = IF feed.valid THEN "trips" ELSE "bad calendar"
    /\ UNCHANGED <<input, row, index, pending, date, loops, found, written>>

IndexTrip ==
    /\ stage = "trips" /\ row < Len(feed.trips)
    /\ LET t == feed.trips[row + 1] IN
       trips_by_service' = [trips_by_service EXCEPT ![t.service_id] = Append(@, t)]
    /\ row' = row + 1
    /\ UNCHANGED <<input, stage, stop_times_by_trip, pending, date, loops, found,
                   written>>

EndTrips ==
    /\ stage = "trips" /\ row = Len(feed.trips)
    /\ stage' = "stop_times" /\ row' = 0
    /\ UNCHANGED <<input, index, pending, date, loops, found, written>>

IndexStopTime ==
    /\ stage = "stop_times" /\ row < Len(feed.stop_times)
    /\ LET c == feed.stop_times[row + 1] IN
       stop_times_by_trip' = [stop_times_by_trip EXCEPT ![c.trip_id] = Append(@, c)]
    /\ row' = row + 1
    /\ UNCHANGED <<input, stage, trips_by_service, pending, date, loops, found,
                   written>>

\* The dates of the build, as its summary shows them.
ListDates ==
    summary' = IF active_dates = {} THEN summary
               ELSE [summary EXCEPT !.first_date = Least(active_dates),
                                    !.last_date = Greatest(active_dates)]

\* Mutant: the calls stay in the order of the file.
KeepFileOrder ==
    /\ stage = "stop_times" /\ row = Len(feed.stop_times)
    /\ pending' = active_dates
    /\ stage' = "dates"
    /\ ListDates
    /\ UNCHANGED <<input, row, index, date, loops, found, partitions, tables>>

\* The calls of every trip are sorted once, and the dates are listed.
SortCalls ==
    /\ stage = "stop_times" /\ row = Len(feed.stop_times)
    /\ stop_times_by_trip' \in
          {f \in [Trips -> UNION {Sorted(stop_times_by_trip[t]) : t \in Trips}] :
              \A t \in Trips : f[t] \in Sorted(stop_times_by_trip[t])}
    /\ pending' = active_dates
    /\ stage' = "dates"
    /\ ListDates
    /\ UNCHANGED <<input, row, trips_by_service, date, loops, found, partitions, tables>>

-----------------------------------------------------------------------------
(* Schedule::for_date *)

\* Mutant: the events of the date before stay.
StartDateNoReset ==
    /\ stage = "dates"
    /\ \E d \in pending :
          /\ \A e \in pending : d <= e
          /\ date' = d /\ pending' = pending \ {d}
          /\ services' = services_on(d)
    /\ stage' = "date"
    /\ UNCHANGED <<input, row, index, trips, calls, trip, found, written>>

StartDate ==
    /\ stage = "dates"
    /\ \E d \in pending :
          /\ \A e \in pending : d <= e
          /\ date' = d /\ pending' = pending \ {d}
          /\ services' = services_on(d)
    /\ events' = <<>> /\ stats' = NoStats
    /\ stage' = "date"
    /\ UNCHANGED <<input, row, index, trips, calls, trip, written>>

\* The trips of the next service, none where no trip names it.
NextService ==
    /\ stage = "date" /\ calls = <<>> /\ trips = <<>>
    /\ \E s \in services :
          /\ \A other \in services : Precedes(s, other)
          /\ trips' = trips_by_service[s]
          /\ services' = services \ {s}
    /\ UNCHANGED <<input, stage, row, index, pending, date, calls, trip, found,
                   written>>

\* The calls of the next trip; one that has none is not counted.
NextTrip ==
    /\ stage = "date" /\ calls = <<>> /\ trips # <<>>
    /\ trip' = Head(trips) /\ trips' = Tail(trips)
    /\ calls' = stop_times_by_trip[Head(trips).trip_id]
    /\ stats' = IF calls' = <<>> THEN stats ELSE [stats EXCEPT !.trips = @ + 1]
    /\ UNCHANGED <<input, stage, row, index, pending, date, services, events,
                   written>>

\* Mutant: it is not counted.
SkipMalformed ==
    /\ stage = "date" /\ calls # <<>>
    /\ BadTimes(Head(calls))
    /\ calls' = Tail(calls)
    /\ UNCHANGED <<input, stage, row, index, pending, date, services, trips, trip,
                   found, written>>

\* A call whose times cannot be parsed is counted and dropped ...
DropMalformed ==
    /\ stage = "date" /\ calls # <<>>
    /\ BadTimes(Head(calls))
    /\ stats' = [stats EXCEPT !.malformed = @ + 1]
    /\ calls' = Tail(calls)
    /\ UNCHANGED <<input, stage, row, index, pending, date, services, trips, trip,
                   events, written>>

\* Mutant: the rest of the trip is dropped with it.
DropTrip ==
    /\ stage = "date" /\ calls # <<>>
    /\ ~BadTimes(Head(calls)) /\ Untimed(Head(calls))
    /\ stats' = [stats EXCEPT !.untimed = @ + 1]
    /\ calls' = <<>>
    /\ UNCHANGED <<input, stage, row, index, pending, date, services, trips, trip,
                   events, written>>

\* ... and so is one without times.
DropUntimed ==
    /\ stage = "date" /\ calls # <<>>
    /\ ~BadTimes(Head(calls)) /\ Untimed(Head(calls))
    /\ stats' = [stats EXCEPT !.untimed = @ + 1]
    /\ calls' = Tail(calls)
    /\ UNCHANGED <<input, stage, row, index, pending, date, services, trips, trip,
                   events, written>>

Timed(c) == ~BadTimes(c) /\ ~Untimed(c)

Emit ==
    /\ stage = "date" /\ calls # <<>>
    /\ Timed(Head(calls)) /\ Resolvable(date, zone)
    /\ LET e == EventOf(trip, Head(calls), date) IN
       /\ events' = Append(events, e)
       /\ stats' = [stats EXCEPT !.crossing = IF e.crosses_midnight THEN @ + 1 ELSE @]
    /\ calls' = Tail(calls)
    /\ UNCHANGED <<input, stage, row, index, pending, date, services, trips, trip,
                   written>>

\* The noon of the date does not exist, or exists twice: the build fails.
Unresolvable ==
    /\ stage = "date" /\ calls # <<>>
    /\ Timed(Head(calls)) /\ ~Resolvable(date, zone)
    /\ stage' = "bad noon"
    /\ UNCHANGED <<input, row, index, pending, date, loops, found, written>>

DateWalked == stage = "date" /\ calls = <<>> /\ trips = <<>> /\ services = {}

\* What a date adds to the summary.
Counted ==
    [summary EXCEPT
        !.events = @ + Len(events), !.trips = @ + stats.trips,
        !.untimed = @ + stats.untimed, !.malformed = @ + stats.malformed,
        !.crossing = @ + stats.crossing,
        !.dates_written = @ + IF events = <<>> THEN 0 ELSE 1,
        !.dates_empty = @ + IF events = <<>> THEN 1 ELSE 0]

\* Mutant: a date without events gets a partition too.
WriteEmpty ==
    /\ DateWalked
    /\ partitions' = [partitions EXCEPT ![date] = FactRecords(events)]
    /\ stage' = "dates" /\ summary' = Counted
    /\ UNCHANGED <<input, row, index, pending, date, loops, found, tables>>

\* dataset::build writes the partition, unless there is nothing in it.
EndDate ==
    /\ DateWalked
    /\ summary' = Counted
    /\ IF events = <<>> THEN stage' = "dates" /\ UNCHANGED partitions
       ELSE IF try_new(FactRecords(events), facts_schema)
       THEN /\ partitions' = [partitions EXCEPT ![date] = FactRecords(events)]
            /\ stage' = "dates"
       ELSE stage' = "null in column" /\ UNCHANGED partitions
    /\ UNCHANGED <<input, row, index, pending, date, loops, found, tables>>

EndDates ==
    /\ stage = "dates" /\ pending = {}
    /\ stage' = "routes"
    /\ UNCHANGED <<input, row, index, pending, date, loops, found, written>>

WriteRoutes ==
    /\ stage = "routes"
    /\ IF try_new(RouteRecords(feed.routes), routes_schema)
       THEN /\ tables' = [tables EXCEPT !.routes = RouteRecords(feed.routes)]
            /\ stage' = "stops"
       ELSE stage' = "null in column" /\ UNCHANGED tables
    /\ UNCHANGED <<input, row, index, pending, date, loops, found, partitions, summary>>

WriteStops ==
    /\ stage = "stops"
    /\ IF try_new(StopRecords(feed.stops), stops_schema)
       THEN /\ tables' = [tables EXCEPT !.stops = StopRecords(feed.stops)]
            /\ stage' = "done"
       ELSE stage' = "null in column" /\ UNCHANGED tables
    /\ UNCHANGED <<input, row, index, pending, date, loops, found, partitions, summary>>

\* A file cannot be created or written: there is no table, or a torn one (Build.tla).
WriteFails ==
    /\ (DateWalked /\ events # <<>>) \/ stage \in {"routes", "stops"}
    /\ stage' = "write failed"
    /\ UNCHANGED <<input, row, index, pending, date, loops, found, written>>

Next ==
    \/ Check \/ BuildCalendar
    \/ IndexTrip \/ EndTrips \/ IndexStopTime \/ SortCalls
    \/ StartDate \/ NextService \/ NextTrip
    \/ DropMalformed \/ DropUntimed \/ Emit \/ Unresolvable
    \/ EndDate \/ EndDates \/ WriteRoutes \/ WriteStops \/ WriteFails

Init == feed \in Feeds /\ zone \in Zones /\ allow \in BOOLEAN /\ Start

Spec == Init /\ [][Next]_vars

-----------------------------------------------------------------------------
(* Properties *)

Stages == {"check", "index", "trips", "stop_times", "dates", "date", "routes", "stops",
           "done", "refused"} \cup Failed

ScheduleTypeOK ==
    /\ stage \in Stages
    /\ row \in 0..(Len(feed.trips) + Len(feed.stop_times))
    /\ pending \subseteq Dates /\ date \in Dates \cup {None}
    /\ \A s \in DOMAIN trips_by_service, n \in 1..Len(feed.trips) :
          n \in DOMAIN trips_by_service[s] => trips_by_service[s][n].service_id = s
    /\ \A d \in Dates : partitions[d] = None \/ Len(partitions[d]) > 0
    /\ stage \in {"stops", "done"} => tables.routes # None
    /\ tables.routes # None => stage \in {"stops", "done", "write failed"}
    /\ stage = "done" <=> tables.stops # None

\* The calls a date has by the files alone: every row of trips.txt whose service
\* runs on it, joined with every row of stop_times.txt that names the trip.
Joined(d) ==
    {p \in (DOMAIN feed.trips) \X (DOMAIN feed.stop_times) :
        /\ d \in feed.dates[feed.trips[p[1]].service_id]
        /\ feed.stop_times[p[2]].trip_id = feed.trips[p[1]].trip_id}

TimedCalls(d) == {p \in Joined(d) : Timed(feed.stop_times[p[2]])}

\* Every timed call is one event of its date, as often as the files have it and
\* no more: the indexes and the three loops lose and repeat nothing.
EveryCallOnce ==
    DateWalked =>
        /\ Len(events) = Cardinality(TimedCalls(date))
        /\ \A e \in {events[n] : n \in DOMAIN events} :
              Cardinality({n \in DOMAIN events : events[n] = e})
              = Cardinality({p \in TimedCalls(date) :
                    EventOf(feed.trips[p[1]], feed.stop_times[p[2]], date) = e})

\* The summary of a finished build accounts for every row and every date: a call
\* that is in no partition was counted as untimed or malformed, and a date that
\* has none was counted as empty ("the two counts that explain a row total coming
\* in lower than expected", main.rs).
SummaryAccounts ==
    stage = "done" =>
        LET facts == {p \in Dates \X (1..summary.events) :
                        partitions[p[1]] # None /\ p[2] \in DOMAIN partitions[p[1]]} IN
        /\ summary.events = Cardinality(facts)
        /\ summary.events + summary.untimed + summary.malformed
           = Cardinality(UNION {{d} \X Joined(d) : d \in Dates})
        /\ summary.crossing
           = Cardinality({p \in facts : partitions[p[1]][p[2]].overnight = 1})
        /\ summary.dates_written = Cardinality({d \in Dates : partitions[d] # None})
        /\ summary.dates_written + summary.dates_empty = Cardinality(active_dates)

\* Along a trip the rows of a partition never go back (headway and dwell rely on
\* it), whatever the order of the file, as long as its positions fit the column.
CallsInOrder ==
    (~Duplicated /\ \A n \in DOMAIN feed.stop_times :
        feed.stop_times[n].stop_sequence <= MaxInt)
    => \A d \in Dates : partitions[d] # None =>
        \A k, l \in DOMAIN partitions[d] :
            k < l /\ partitions[d][k].trip_id = partitions[d][l].trip_id =>
                partitions[d][k].stop_sequence <= partitions[d][l].stop_sequence

\* Events of a feed that passed the check refer to routes and stops it defines.
KeysDefined ==
    ~allow => \A n \in DOMAIN events :
        events[n].route_id \in RouteIds /\ events[n].stop_id \in StopIds

\* An id names one call, also of a trip that calls twice at a stop, as long as
\* the positions along each trip differ; --allow-violations apart.
IdsAreUnique ==
    (~allow /\ \A i, j \in DOMAIN feed.stop_times :
        feed.stop_times[i].trip_id = feed.stop_times[j].trip_id
        /\ feed.stop_times[i].stop_sequence = feed.stop_times[j].stop_sequence => i = j)
    => \A k, l \in DOMAIN events : events[k].event_id = events[l].event_id => k = l

\* crosses_midnight means that the call is on the calendar day after its service
\* date (time.rs, rolls_over), also next to a change of the clock.
MidnightIsCrossed ==
    \A n \in DOMAIN events :
        events[n].crosses_midnight
        <=> DateAt(zone, events[n].scheduled_arrival) = events[n].service_date + 1

\* On the side of a change where noon is, a call happens when the timetable says,
\* and both implementations of the service periods agree on it.
TimetableKept ==
    \A n \in DOMAIN events :
        LET u == events[n].scheduled_arrival
            noon == resolve(12 * Hour, events[n].service_date, zone) IN
        Offset(zone, u) = Offset(zone, noon) =>
            \E c \in {feed.stop_times[j] : j \in DOMAIN feed.stop_times} :
                /\ c.trip_id = events[n].trip_id
                /\ c.stop_sequence = events[n].stop_sequence
                /\ Local(zone, u) = events[n].service_date * Day + Arrival(c)
                /\ events[n].service_period
                   = classify_service_period(Arrival(c) \div Hour)

\* When the build ends well there is a partition for exactly the dates that have
\* a call, and it holds the events of that date.
PartitionsComplete ==
    stage = "done" => \A d \in Dates :
        /\ partitions[d] = None <=> TimedCalls(d) = {}
        /\ partitions[d] # None =>
              /\ Len(partitions[d]) = Cardinality(TimedCalls(d))
              /\ \A n \in DOMAIN partitions[d] : partitions[d][n].event_id[2] = d

\* The rows of a table with this value in this column.
With(rows, column, value) == {n \in DOMAIN rows : rows[n][column] = value}

\* After a build without --allow-violations every fact joins exactly one route and
\* one stop, also where routes.txt or stops.txt repeat a row: the cube neither
\* loses a fact from a slice nor counts it twice.
FactsJoinOnce ==
    stage = "done" /\ ~allow =>
        \A d \in Dates : partitions[d] # None => \A n \in DOMAIN partitions[d] :
            /\ Cardinality(With(tables.routes, "route_key", partitions[d][n].route_key)) = 1
            /\ Cardinality(With(tables.stops, "stop_key", partitions[d][n].stop_key)) = 1

\* borough - station - platform can be walked for every stop, parented or flat:
\* its station is a row of the table ("the geography hierarchy is ragged and must
\* not be", dimensions.rs).  And no feed, checked or not, leaves a null in a column
\* that may hold none, which would fail the build.
HierarchyIsWhole ==
    /\ stage # "null in column"
    /\ stage = "done" /\ ~allow => \A n \in DOMAIN tables.stops :
          Cardinality(With(tables.stops, "stop_key", tables.stops[n].station_key)) = 1

-----------------------------------------------------------------------------
(* Why events are what the rows say *)

TripSet == {feed.trips[n] : n \in DOMAIN feed.trips}
CallSet == {feed.stop_times[n] : n \in DOMAIN feed.stop_times}

\* The calls filed under a trip are rows that name it.
CallsOf(t) == {c \in CallSet : c.trip_id = t}

\* The events the rows call for: the timed calls of a trip, on every date whose
\* noon is one instant.
EventSet ==
    {EventOf(p[1], p[2], p[3]) : p \in
        {q \in TripSet \X CallSet \X Dates :
            q[2] \in CallsOf(q[1].trip_id) /\ Timed(q[2]) /\ Resolvable(q[3], zone)}}

\* What the indexes and the loops hold are rows of the feed, each under its key,
\* and past the check the feed is clean unless it need not be.
EventsFromRows ==
    /\ trips_by_service \in [ServiceIds -> Seq(TripSet)]
    /\ stop_times_by_trip \in [Trips -> Seq(CallSet)]
    /\ \A t \in Trips : stop_times_by_trip[t] \in Seq(CallsOf(t))
    /\ trips \in Seq(TripSet)
    /\ calls # <<>> => trip \in TripSet /\ calls \in Seq(CallsOf(trip.trip_id))
    /\ services \subseteq ServiceIds /\ pending \subseteq Dates /\ row \in Nat
    /\ stage = "date" => date \in Dates
    /\ stage \in {"check", "refused"} => events = <<>>
    /\ stage \notin {"check", "refused"} => allow \/ ~Violations
    /\ events \in Seq(EventSet)

=============================================================================
