--------------------------- MODULE ScheduleProofs ---------------------------
(***************************************************************************)
(* Theorems about Schedule, for feeds of any length, any timezone (with    *)
(* the restrictions a theorem states) and any number of dates.             *)
(***************************************************************************)
EXTENDS Schedule, TLAPS

(* Types *)

LEMMA SortedIsSame ==
    ASSUME NEW S, NEW s \in Seq(S), NEW r \in Sorted(s)
    PROVE  r \in Seq(S)
<1>1. PICK p \in [DOMAIN s -> DOMAIN s] : r = [k \in DOMAIN s |-> s[p[k]]]
  BY DEF Sorted
<1>2. DOMAIN s = 1..Len(s) /\ Len(s) \in Nat /\ \A k \in 1..Len(s) : s[k] \in S
  OBVIOUS
<1>3. \A k \in 1..Len(s) : s[p[k]] \in S  BY <1>2
<1> QED  BY <1>1, <1>2, <1>3

LEMMA EventsStep == EventsFromRows /\ feed \in Feeds /\ [Next]_vars => EventsFromRows'
<1> SUFFICES ASSUME EventsFromRows, feed \in Feeds, [Next]_vars
             PROVE  EventsFromRows'
  OBVIOUS
<1> USE DEF input, index, loops, found
<1>1. UNCHANGED input
  BY DEF Next, vars, Check, BuildCalendar, IndexTrip, EndTrips, IndexStopTime, SortCalls, StartDate,
     NextService, NextTrip, DropMalformed, DropUntimed, Emit, Unresolvable, EndDate, EndDates, WriteRoutes,
     WriteStops, WriteFails
<1>2. /\ TripSet' = TripSet /\ CallSet' = CallSet /\ (Violations' <=> Violations)
      /\ \A t : CallsOf(t)' = CallsOf(t)
  BY <1>1 DEF TripSet, CallSet, CallsOf, Violations, Dangling, Duplicated, RouteIds, StopIds, TripIds
<1>3. EventSet' = EventSet
  BY <1>1, <1>2 DEF EventSet, EventOf
<1>4. TripSet \subseteq TripRows /\ CallSet \subseteq StopTimeRows
  BY DEF Feeds, TripSet, CallSet
<1> HIDE DEF input
<1> DEFINE Rest == /\ stage' = "date" => date' \in Dates
                   /\ stage' \in {"check", "refused"} => events' = <<>>
                   /\ stage' \notin {"check", "refused"} => allow \/ ~Violations
<1>5. SUFFICES /\ trips_by_service' \in [ServiceIds -> Seq(TripSet)]
               /\ stop_times_by_trip' \in [Trips -> Seq(CallSet)]
               /\ \A t \in Trips : stop_times_by_trip'[t] \in Seq(CallsOf(t))
               /\ trips' \in Seq(TripSet)
               /\ calls' # <<>> => trip' \in TripSet /\ calls' \in Seq(CallsOf(trip'.trip_id))
               /\ services' \subseteq ServiceIds /\ pending' \subseteq Dates /\ row' \in Nat
               /\ Rest
               /\ events' \in Seq(EventSet)
  BY <1>1, <1>2, <1>3 DEF EventsFromRows, input
<1> USE DEF EventsFromRows
<1>6. CASE Check \/ BuildCalendar  BY <1>6 DEF Check, BuildCalendar
<1>7. CASE IndexTrip
  <2>1. feed.trips[row + 1] \in TripSet /\ feed.trips[row + 1].service_id \in ServiceIds
    <3>1. row + 1 \in DOMAIN feed.trips  BY <1>7 DEF IndexTrip, Feeds
    <3> QED  BY <3>1, <1>4 DEF TripSet, TripRows
  <2> QED  BY <1>7, <2>1 DEF IndexTrip
<1>8. CASE EndTrips  BY <1>8 DEF EndTrips
<1>9. CASE IndexStopTime
  <2> DEFINE c == feed.stop_times[row + 1]
  <2>1. c \in CallSet /\ c.trip_id \in Trips /\ c \in CallsOf(c.trip_id)
    <3>1. row + 1 \in DOMAIN feed.stop_times  BY <1>9 DEF IndexStopTime, Feeds
    <3> QED  BY <3>1, <1>4 DEF CallSet, CallsOf, StopTimeRows
  <2>2. stop_times_by_trip'
        = [stop_times_by_trip EXCEPT ![c.trip_id] = Append(stop_times_by_trip[c.trip_id], c)]
    BY <1>9 DEF IndexStopTime
  <2> HIDE DEF c
  <2>3. Append(stop_times_by_trip[c.trip_id], c) \in Seq(CallsOf(c.trip_id))
    BY <2>1
  <2>4. Append(stop_times_by_trip[c.trip_id], c) \in Seq(CallSet)
    BY <2>1
  <2>5. /\ stop_times_by_trip' \in [Trips -> Seq(CallSet)]
        /\ \A t \in Trips : stop_times_by_trip'[t] \in Seq(CallsOf(t))
    BY <2>1, <2>2, <2>3, <2>4
  <2> QED  BY <1>9, <2>5 DEF IndexStopTime
<1>10. CASE SortCalls
  <2>1. \A t \in Trips : /\ stop_times_by_trip'[t] \in Seq(CallsOf(t))
                         /\ stop_times_by_trip'[t] \in Seq(CallSet)
    BY <1>10, SortedIsSame DEF SortCalls
  <2>2. stop_times_by_trip' \in [Trips -> Seq(CallSet)]
    BY <1>10, <2>1 DEF SortCalls
  <2> QED  BY <1>10, <2>1, <2>2 DEF SortCalls, active_dates
<1>11. CASE StartDate
  BY <1>11 DEF StartDate, services_on
<1>12. CASE NextService  BY <1>12 DEF NextService
<1>13. CASE NextTrip
  <2>1. trip' \in TripSet /\ trips' \in Seq(TripSet) /\ trip'.trip_id \in Trips
    BY <1>13, <1>4 DEF NextTrip, TripRows
  <2>2. calls' \in Seq(CallsOf(trip'.trip_id))
    BY <1>13, <2>1 DEF NextTrip
  <2> QED  BY <1>13, <2>1, <2>2 DEF NextTrip
<1>14. CASE DropMalformed  BY <1>14 DEF DropMalformed
<1>15. CASE DropUntimed  BY <1>15 DEF DropUntimed
<1>16. CASE Emit
  <2>1. /\ trip \in TripSet /\ Head(calls) \in CallsOf(trip.trip_id)
        /\ Head(calls) \in CallSet /\ date \in Dates
        /\ Tail(calls) \in Seq(CallsOf(trip.trip_id))
    BY <1>16 DEF Emit, CallsOf
  <2>2. EventOf(trip, Head(calls), date) \in EventSet
    <3> DEFINE p == <<trip, Head(calls), date>>
    <3>1. p \in {q \in TripSet \X CallSet \X Dates :
                   q[2] \in CallsOf(q[1].trip_id) /\ Timed(q[2]) /\ Resolvable(q[3], zone)}
      BY <1>16, <2>1 DEF Emit
    <3> QED  BY <3>1 DEF EventSet
  <2>3. events' = Append(events, EventOf(trip, Head(calls), date))
    BY <1>16 DEF Emit
  <2>4. events' \in Seq(EventSet)  BY <2>2, <2>3
  <2> QED  BY <1>16, <2>1, <2>4 DEF Emit
<1>17. CASE Unresolvable  BY <1>17 DEF Unresolvable
<1>18. CASE EndDate  BY <1>18 DEF EndDate, DateWalked
<1>19. CASE EndDates  BY <1>19 DEF EndDates
<1>20. CASE WriteRoutes  BY <1>20 DEF WriteRoutes
<1>21. CASE WriteStops  BY <1>21 DEF WriteStops
<1>22. CASE UNCHANGED vars  BY <1>22 DEF vars
<1>23. CASE WriteFails  BY <1>23 DEF WriteFails, DateWalked, Failed
<1> QED
  BY <1>6, <1>7, <1>8, <1>9, <1>10, <1>11, <1>12, <1>13, <1>14, <1>15, <1>16, <1>17,
     <1>18, <1>19, <1>20, <1>21, <1>22, <1>23 DEF Next

LEMMA RowsInvariant == Spec => [](EventsFromRows /\ feed \in Feeds /\ zone \in Zones)
<1>1. Init => EventsFromRows /\ feed \in Feeds /\ zone \in Zones
  BY DEF Init, Start, EventsFromRows
<1>2. [Next]_vars => UNCHANGED input
  BY DEF Next, vars, Check, BuildCalendar, IndexTrip, EndTrips, IndexStopTime, SortCalls, StartDate,
     NextService, NextTrip, DropMalformed, DropUntimed, Emit, Unresolvable, EndDate, EndDates, WriteRoutes,
     WriteStops, WriteFails
<1>3. /\ EventsFromRows /\ feed \in Feeds /\ zone \in Zones
      /\ [Next]_vars
      => (EventsFromRows /\ feed \in Feeds /\ zone \in Zones)'
  BY <1>2, EventsStep DEF input
<1> QED  BY <1>1, <1>3, PTL DEF Spec

\* Every event is a timed call of the feed, on a date whose noon is one instant.
LEMMA EventExplained ==
    ASSUME EventsFromRows, feed \in Feeds, NEW n \in DOMAIN events
    PROVE  \E t \in TripSet, c \in CallSet, d \in Dates :
              /\ c.trip_id = t.trip_id /\ Timed(c) /\ Resolvable(d, zone)
              /\ events[n] = EventOf(t, c, d)
<1>1. events[n] \in EventSet  BY DEF EventsFromRows
<1> QED  BY <1>1 DEF EventSet, CallsOf

\* Events of a feed that was built without --allow-violations refer to routes and
\* stops that it defines: validate::check leaves the cube no dangling key.
THEOREM EventKeysAreDefined == Spec => []KeysDefined
<1>1. EventsFromRows /\ feed \in Feeds => KeysDefined
  <2> SUFFICES ASSUME EventsFromRows, feed \in Feeds, ~allow, NEW n \in DOMAIN events
               PROVE  events[n].route_id \in RouteIds /\ events[n].stop_id \in StopIds
    BY DEF KeysDefined
  <2>1. ~Dangling
    <3>1. events # <<>>  OBVIOUS
    <3> QED  BY <3>1 DEF EventsFromRows, Violations
  <2>2. PICK t \in TripSet, c \in CallSet, d \in Dates : events[n] = EventOf(t, c, d)
    BY EventExplained
  <2>3. t.route_id \in RouteIds /\ c.stop_id \in StopIds
    BY <2>1 DEF Dangling, TripSet, CallSet
  <2> QED  BY <2>2, <2>3 DEF EventOf
<1> QED  BY <1>1, RowsInvariant, PTL

-----------------------------------------------------------------------------
(* Times *)

LEMMA ArrivalIsSeconds ==
    ASSUME NEW c \in StopTimeRows, Timed(c)
    PROVE  Arrival(c) \in Nat
<1>1. ASSUME NEW f \in Fields, f # Blank, ~Malformed(f)
      PROVE  Seconds(f) \in Nat
  BY <1>1 DEF Fields, Malformed, InRange, Seconds, Hour
<1>2. /\ c.arrival_time \in Fields /\ c.departure_time \in Fields
      /\ ~Malformed(c.arrival_time) /\ ~Malformed(c.departure_time)
      /\ c.arrival_time # Blank \/ c.departure_time # Blank
  BY DEF StopTimeRows, Timed, BadTimes, Untimed
<1> QED  BY <1>1, <1>2 DEF Arrival

\* What resolve is anchored on.
LEMMA NoonAnchor ==
    ASSUME NEW z \in Zones, NEW d \in Int, Resolvable(d, z)
    PROVE  \E noon \in Int :
              /\ Local(z, noon) = Noon(d)
              /\ \A t \in Int : resolve(t, d, z) = noon - 12 * Hour + t
<1>1. PICK noon \in InstantsOf(z, Noon(d)) : InstantsOf(z, Noon(d)) = {noon}
  BY DEF Resolvable
<1>2. noon \in Int /\ Local(z, noon) = Noon(d)
  BY <1>1 DEF InstantsOf, Zones, Noon, Day, Hour
<1>3. (CHOOSE u \in InstantsOf(z, Noon(d)) : TRUE) = noon
  BY <1>1
<1> QED  BY <1>2, <1>3 DEF resolve

\* A clock that changes by at most an hour, between one and three at night, as the
\* clock of New York does.
NightChange(z) ==
    /\ (z.change + z.before) % Day \in Hour..(3 * Hour)
    /\ z.after - z.before <= Hour /\ z.before - z.after <= Hour

LEMMA MidnightLemma ==
    ASSUME NEW z \in Zones, NightChange(z), NEW d \in Int, Resolvable(d, z),
           NEW t \in Nat, t < 47 * Hour
    PROVE  rolls_over(t) <=> DateAt(z, resolve(t, d, z)) = d + 1
<1>1. PICK noon \in Int : /\ Local(z, noon) = Noon(d)
                          /\ resolve(t, d, z) = noon - 12 * Hour + t
  BY NoonAnchor
<1> DEFINE u == noon - 12 * Hour + t
           l == Local(z, u)
           night == (z.change + z.before) \div Day
<1>2. l \in Int /\ u \in Int /\ night \in Int
  BY DEF Local, Offset, Zones, Hour, Day
<1>3. l \div Day = d + 1 <=> (d + 1) * Day <= l /\ l < (d + 2) * Day
  BY <1>2 DEF Day, Hour
<1>4. /\ night * Day + Hour <= z.change + z.before
      /\ z.change + z.before <= night * Day + 3 * Hour
      /\ z.after - z.before <= Hour /\ z.before - z.after <= Hour
  <2>1. ASSUME NEW x \in Int PROVE x = (x \div Day) * Day + (x % Day)
    BY DEF Day, Hour
  <2> DEFINE rest == (z.change + z.before) % Day
  <2>2. z.change + z.before = night * Day + rest  BY <2>1 DEF Zones
  <2>3. rest \in Hour..(3 * Hour)  BY DEF NightChange
  <2> HIDE DEF rest, night
  <2>4. z.before \in Int /\ z.after \in Int /\ z.change \in Int  BY DEF Zones
  <2>5. rest \in Int /\ Hour <= rest /\ rest <= 3 * Hour
    BY <2>3 DEF Hour
  <2>6. z.after - z.before <= Hour /\ z.before - z.after <= Hour
    BY DEF NightChange
  <2> QED  BY <1>2, <2>2, <2>4, <2>5, <2>6 DEF Hour, Day
<1>5. rolls_over(t) <=> (d + 1) * Day <= l /\ l < (d + 2) * Day
  BY <1>1, <1>2, <1>4 DEF rolls_over, Local, Offset, Noon, Zones, Day, Hour
<1> QED  BY <1>1, <1>3, <1>5 DEF DateAt

\* The rows of the feed have their times before the 47th hour of the service day
\* (the feeds reach the 28th, time.rs).
EarlyRows == \A c \in CallSet : Timed(c) => Arrival(c) < 47 * Hour

\* crosses_midnight is right in every zone whose clock changes at night, on the
\* day of the change and on the days around it.
THEOREM MidnightIsKnown ==
    Spec /\ NightChange(zone) /\ EarlyRows => []MidnightIsCrossed
<1> DEFINE Given == NightChange(zone) /\ EarlyRows
<1>1. Given /\ [Next]_vars => Given'
  BY DEF Next, vars, input, Check, BuildCalendar, IndexTrip, EndTrips, IndexStopTime, SortCalls, StartDate,
     NextService, NextTrip, DropMalformed, DropUntimed, Emit, Unresolvable, EndDate, EndDates, WriteRoutes,
     WriteStops, WriteFails,
     NightChange, EarlyRows, CallSet
<1>2. EventsFromRows /\ feed \in Feeds /\ zone \in Zones /\ Given => MidnightIsCrossed
  <2> SUFFICES ASSUME EventsFromRows, feed \in Feeds, zone \in Zones, Given,
                      NEW n \in DOMAIN events
               PROVE  events[n].crosses_midnight
                      <=> DateAt(zone, events[n].scheduled_arrival)
                          = events[n].service_date + 1
    BY DEF MidnightIsCrossed
  <2>1. PICK t \in TripSet, c \in CallSet, d \in Dates :
           Timed(c) /\ Resolvable(d, zone) /\ events[n] = EventOf(t, c, d)
    BY EventExplained
  <2>2. c \in StopTimeRows /\ d \in Int
    BY ScheduleAssumption DEF CallSet, Feeds, Dates
  <2>3. Arrival(c) \in Nat /\ Arrival(c) < 47 * Hour
    BY <2>1, <2>2, ArrivalIsSeconds DEF EarlyRows
  <2>4. rolls_over(Arrival(c)) <=> DateAt(zone, resolve(Arrival(c), d, zone)) = d + 1
    BY <2>1, <2>2, <2>3, MidnightLemma
  <2> QED  BY <2>1, <2>4 DEF EventOf
<1>3. Spec /\ Given => []Given
  BY <1>1, PTL DEF Spec
<1> QED  BY <1>2, <1>3, RowsInvariant, PTL

-----------------------------------------------------------------------------
(* Service periods *)

\* The two tables give an hour of the day the same period.
LEMMA PeriodsAgree ==
    ASSUME NEW h \in 0..23
    PROVE  service_period(h) = classify_service_period(h)
<1>1. h % 24 = h  OBVIOUS
<1>2. CASE h \in 0..5
  <2>1. service_period(h) = "Overnight"  BY <1>2 DEF service_period
  <2>2. classify_service_period(h) = "Overnight"  BY <1>1, <1>2 DEF classify_service_period
  <2> QED  BY <2>1, <2>2
<1>3. CASE h \in 6..9
  <2>1. service_period(h) = "AM Peak"  BY <1>3 DEF service_period
  <2>2. classify_service_period(h) = "AM Peak"  BY <1>1, <1>3 DEF classify_service_period
  <2> QED  BY <2>1, <2>2
<1>4. CASE h \in 10..15
  <2>1. service_period(h) = "Midday"  BY <1>4 DEF service_period
  <2>2. classify_service_period(h) = "Midday"  BY <1>1, <1>4 DEF classify_service_period
  <2> QED  BY <2>1, <2>2
<1>5. CASE h \in 16..19
  <2>1. service_period(h) = "PM Peak"  BY <1>5 DEF service_period
  <2>2. classify_service_period(h) = "PM Peak"  BY <1>1, <1>5 DEF classify_service_period
  <2> QED  BY <2>1, <2>2
<1>6. CASE h \in 20..23
  <2>1. service_period(h) = "Evening"  BY <1>6 DEF service_period
  <2>2. classify_service_period(h) = "Evening"  BY <1>1, <1>6 DEF classify_service_period
  <2> QED  BY <2>1, <2>2
<1> QED  BY <1>2, <1>3, <1>4, <1>5, <1>6

\* On noon's side of a change of the clock, the wall clock shows the time of the
\* timetable, and the period of its hour is the one the cube would compute.
LEMMA TimetableLemma ==
    ASSUME NEW z \in Zones, NEW d \in Int, Resolvable(d, z), NEW t \in Nat,
           Offset(z, resolve(t, d, z)) = Offset(z, resolve(12 * Hour, d, z))
    PROVE  /\ Local(z, resolve(t, d, z)) = d * Day + t
           /\ service_period(HourAt(z, resolve(t, d, z))) = classify_service_period(t \div Hour)
<1>1. PICK noon \in Int : /\ Local(z, noon) = Noon(d)
                          /\ resolve(t, d, z) = noon - 12 * Hour + t
                          /\ resolve(12 * Hour, d, z) = noon - 12 * Hour + 12 * Hour
  BY NoonAnchor DEF Hour
<1>2. Offset(z, noon) \in Int  BY DEF Offset, Zones
<1>3. Local(z, resolve(t, d, z)) = d * Day + t
  BY <1>1, <1>2 DEF Local, Noon, Hour, Day
<1> DEFINE h == HourAt(z, resolve(t, d, z))
<1>4. h = ((d * Day + t) % Day) \div Hour  BY <1>3 DEF HourAt
<1>5. (d * Day + t) % Day = t % Day  BY DEF Day, Hour
<1>6. h = (t \div Hour) % 24 /\ h \in 0..23
  BY <1>4, <1>5 DEF Day, Hour
<1>7. classify_service_period(t \div Hour) = classify_service_period(h)
  <2>1. h % 24 = h  BY <1>6
  <2> QED  BY <1>6, <2>1 DEF classify_service_period
<1> QED  BY <1>3, <1>6, <1>7, PeriodsAgree

\* Away from a change of the clock a passenger finds the vehicle at the time and in
\* the service period of the timetable, in every timezone.
THEOREM TimetableIsKept == Spec => []TimetableKept
<1>1. EventsFromRows /\ feed \in Feeds /\ zone \in Zones => TimetableKept
  <2> SUFFICES ASSUME EventsFromRows, feed \in Feeds, zone \in Zones,
                      NEW n \in DOMAIN events,
                      Offset(zone, events[n].scheduled_arrival)
                      = Offset(zone, resolve(12 * Hour, events[n].service_date, zone))
               PROVE  \E c \in CallSet :
                         /\ c.trip_id = events[n].trip_id
                         /\ c.stop_sequence = events[n].stop_sequence
                         /\ Local(zone, events[n].scheduled_arrival)
                            = events[n].service_date * Day + Arrival(c)
                         /\ events[n].service_period
                            = classify_service_period(Arrival(c) \div Hour)
    BY DEF TimetableKept, CallSet
  <2>1. PICK t \in TripSet, c \in CallSet, d \in Dates :
           /\ c.trip_id = t.trip_id /\ Timed(c) /\ Resolvable(d, zone)
           /\ events[n] = EventOf(t, c, d)
    BY EventExplained
  <2>2. Arrival(c) \in Nat /\ d \in Int
    BY <2>1, ArrivalIsSeconds, ScheduleAssumption DEF CallSet, Feeds, Dates
  <2> DEFINE u == resolve(Arrival(c), d, zone)
  <2>3. /\ events[n].scheduled_arrival = u /\ events[n].service_date = d
        /\ events[n].trip_id = c.trip_id /\ events[n].stop_sequence = c.stop_sequence
        /\ events[n].service_period = service_period(HourAt(zone, u))
    BY <2>1 DEF EventOf
  <2>4. /\ Local(zone, u) = d * Day + Arrival(c)
        /\ service_period(HourAt(zone, u)) = classify_service_period(Arrival(c) \div Hour)
    BY <2>1, <2>2, <2>3, TimetableLemma
  <2> QED  BY <2>3, <2>4
<1> QED  BY <1>1, RowsInvariant, PTL
=============================================================================
