----------------------------- MODULE WalkProofs -----------------------------
(***************************************************************************)
(* Theorems about Schedule: the indexes and the three loops lose no call   *)
(* and repeat none, for feeds of any length and any number of dates.       *)
(***************************************************************************)
EXTENDS ScheduleProofs, FunctionTheorems, FiniteSetTheorems

(* Lists of rows *)

\* P tells which row of the file stands at each place of the list: each of these
\* rows stands at one place.
Lists(P, list, file, rows) ==
    /\ P \in [DOMAIN list -> rows]
    /\ \A k \in DOMAIN list : list[k] = file[P[k]]
    /\ \A k, l \in DOMAIN list : P[k] = P[l] => k = l
    /\ \A r \in rows : \E k \in DOMAIN list : P[k] = r

\* The list has these rows of the file, in some order, each of them once.
Listed(list, file, rows) == \E P \in [DOMAIN list -> rows] : Lists(P, list, file, rows)

LEMMA ListedEmpty ==
    ASSUME NEW file, NEW rows
    PROVE  Listed(<<>>, file, rows) <=> rows = {}
<1>1. DOMAIN <<>> = {}  OBVIOUS
<1>2. ASSUME rows = {} PROVE Listed(<<>>, file, rows)
  <2> DEFINE P == [k \in {} |-> k]
  <2>1. P \in [DOMAIN <<>> -> rows] /\ Lists(P, <<>>, file, rows)
    BY <1>1, <1>2 DEF Lists
  <2> QED  BY <2>1 DEF Listed
<1> QED  BY <1>1, <1>2 DEF Listed, Lists

\* Append puts one more row on the list.
LEMMA ListedAppend ==
    ASSUME NEW S, NEW list \in Seq(S), NEW file, NEW rows, Listed(list, file, rows),
           NEW r, r \notin rows, NEW x \in S, x = file[r]
    PROVE  Listed(Append(list, x), file, rows \cup {r})
<1> DEFINE n == Len(list) + 1
           longer == Append(list, x)
<1>1. PICK P : Lists(P, list, file, rows)  BY DEF Listed
<1> DEFINE Q == [k \in 1..n |-> IF k = n THEN r ELSE P[k]]
<1>2. /\ Len(list) \in Nat /\ DOMAIN list = 1..Len(list)
      /\ DOMAIN longer = 1..n /\ longer[n] = x
      /\ \A k \in 1..Len(list) : longer[k] = list[k]
      /\ 1..n = (1..Len(list)) \cup {n} /\ n \notin 1..Len(list)
  OBVIOUS
<1> HIDE DEF n, longer
<1>3. \A k \in 1..Len(list) : Q[k] = P[k] /\ P[k] \in rows
  BY <1>1, <1>2 DEF Lists
<1>4. Q[n] = r  BY <1>2
<1>5. Q \in [DOMAIN longer -> rows \cup {r}]
  BY <1>2, <1>3, <1>4
<1>6. \A k \in DOMAIN longer : longer[k] = file[Q[k]]
  BY <1>1, <1>2, <1>3, <1>4 DEF Lists
<1> HIDE DEF Q
<1>7. \A k, l \in DOMAIN longer : Q[k] = Q[l] => k = l
  BY <1>1, <1>2, <1>3, <1>4 DEF Lists
<1>8. \A s \in rows \cup {r} : \E k \in DOMAIN longer : Q[k] = s
  BY <1>1, <1>2, <1>3, <1>4 DEF Lists
<1>9. Lists(Q, longer, file, rows \cup {r})  BY <1>5, <1>6, <1>7, <1>8 DEF Lists
<1> QED  BY <1>5, <1>9 DEF Listed, longer

\* Head is one of the rows, and Tail lists the others.
LEMMA ListedTail ==
    ASSUME NEW S, NEW list \in Seq(S), list # <<>>, NEW file, NEW rows,
           Listed(list, file, rows)
    PROVE  \E r \in rows : /\ Head(list) = file[r]
                           /\ Listed(Tail(list), file, rows \ {r})
<1> DEFINE rest == Tail(list)
<1>1. PICK P : Lists(P, list, file, rows)  BY DEF Listed
<1> DEFINE Q == [k \in 1..(Len(list) - 1) |-> P[k + 1]]
<1>2. /\ Len(list) \in Nat \ {0} /\ DOMAIN list = 1..Len(list)
      /\ DOMAIN rest = 1..(Len(list) - 1) /\ Head(list) = list[1]
      /\ \A k \in 1..(Len(list) - 1) : rest[k] = list[k + 1]
      /\ 1 \in 1..Len(list) /\ \A k \in 1..(Len(list) - 1) : k + 1 \in 1..Len(list) /\ k + 1 # 1
      /\ \A l \in 1..Len(list) : l # 1 => l - 1 \in 1..(Len(list) - 1) /\ (l - 1) + 1 = l
      /\ \A k, l \in 1..(Len(list) - 1) : k + 1 = l + 1 => k = l
  OBVIOUS
<1> HIDE DEF rest
<1>3. P[1] \in rows /\ Head(list) = file[P[1]]  BY <1>1, <1>2 DEF Lists
<1>4. \A k \in 1..(Len(list) - 1) : Q[k] = P[k + 1] /\ P[k + 1] \in rows \ {P[1]}
  BY <1>1, <1>2 DEF Lists
<1>5. Q \in [DOMAIN rest -> rows \ {P[1]}]  BY <1>2, <1>4
<1> HIDE DEF Q
<1>6. ASSUME NEW k \in DOMAIN rest PROVE rest[k] = file[Q[k]]
  <2>1. k + 1 \in DOMAIN list /\ rest[k] = list[k + 1] /\ Q[k] = P[k + 1]
    BY <1>2, <1>4
  <2> QED  BY <1>1, <2>1 DEF Lists
<1>7. ASSUME NEW k \in DOMAIN rest, NEW l \in DOMAIN rest, Q[k] = Q[l] PROVE k = l
  <2>1. /\ k + 1 \in DOMAIN list /\ l + 1 \in DOMAIN list
        /\ P[k + 1] = P[l + 1]
    BY <1>2, <1>4, <1>7
  <2>2. k + 1 = l + 1  BY <1>1, <2>1 DEF Lists
  <2> QED  BY <1>2, <2>2
<1>8. ASSUME NEW s \in rows \ {P[1]} PROVE \E k \in DOMAIN rest : Q[k] = s
  <2>1. PICK l \in DOMAIN list : P[l] = s  BY <1>1 DEF Lists
  <2>2. l # 1  BY <2>1
  <2>3. l - 1 \in DOMAIN rest /\ Q[l - 1] = s  BY <1>2, <1>4, <2>1, <2>2
  <2> QED  BY <2>3
<1>9. Lists(Q, rest, file, rows \ {P[1]})  BY <1>5, <1>6, <1>7, <1>8 DEF Lists
<1>10. Listed(rest, file, rows \ {P[1]})  BY <1>5, <1>9 DEF Listed
<1> QED  BY <1>3, <1>10 DEF rest

\* A function from 1..n to itself that takes no value twice leaves none out.
LEMMA Permutation ==
    ASSUME NEW n \in Nat, NEW p \in [1..n -> 1..n],
           \A k, l \in 1..n : k < l => p[k] # p[l]
    PROVE  /\ \A k, l \in 1..n : p[k] = p[l] => k = l
           /\ \A m \in 1..n : \E k \in 1..n : p[k] = m
<1>1. \A k, l \in 1..n : p[k] = p[l] => k = l
  <2> SUFFICES ASSUME NEW k \in 1..n, NEW l \in 1..n, p[k] = p[l] PROVE k = l
    OBVIOUS
  <2>1. ~(k < l) /\ ~(l < k)  OBVIOUS
  <2> QED  BY <2>1
<1>2. p \in Injection(1..n, 1..n)  BY <1>1, Fun_IsInj
<1>3. IsFiniteSet(1..n)  BY FS_Interval
<1>4. p \in Surjection(1..n, 1..n)  BY <1>2, <1>3, FS_Injection
<1>5. \A m \in 1..n : \E k \in 1..n : p[k] = m  BY <1>4 DEF Surjection
<1> QED  BY <1>1, <1>5

\* Sorting keeps the rows.
LEMMA ListedSorted ==
    ASSUME NEW S, NEW list \in Seq(S), NEW file, NEW rows, Listed(list, file, rows),
           NEW r \in Sorted(list)
    PROVE  Listed(r, file, rows)
<1> DEFINE Orders == {p \in [DOMAIN list -> DOMAIN list] :
                        \A k, l \in DOMAIN list :
                            k < l => /\ p[k] # p[l]
                                     /\ list[p[k]].stop_sequence <= list[p[l]].stop_sequence}
<1>1. PICK p \in Orders : r = [k \in DOMAIN list |-> list[p[k]]]
  BY DEF Sorted
<1>2. PICK P : Lists(P, list, file, rows)  BY DEF Listed
<1>3. Len(list) \in Nat /\ DOMAIN list = 1..Len(list)  OBVIOUS
<1>4. DOMAIN r = DOMAIN list  BY <1>1
<1>5. /\ p \in [DOMAIN list -> DOMAIN list]
      /\ \A k, l \in DOMAIN list : k < l => p[k] # p[l]
  BY <1>1
<1> HIDE DEF Orders
<1>6. /\ p \in [1..Len(list) -> 1..Len(list)]
      /\ \A k, l \in 1..Len(list) : k < l => p[k] # p[l]
  BY <1>3, <1>5
<1>7. /\ Len(list) \in Nat /\ DOMAIN list = 1..Len(list) /\ DOMAIN r = DOMAIN list
      /\ \A k \in DOMAIN list : p[k] \in DOMAIN list
  BY <1>3, <1>4, <1>5
<1>8. /\ \A k, l \in DOMAIN list : p[k] = p[l] => k = l
      /\ \A m \in DOMAIN list : \E k \in DOMAIN list : p[k] = m
  <2>1. /\ \A k, l \in 1..Len(list) : p[k] = p[l] => k = l
        /\ \A m \in 1..Len(list) : \E k \in 1..Len(list) : p[k] = m
    BY <1>3, <1>6, Permutation
  <2> QED  BY <1>3, <2>1
<1> DEFINE Q == [k \in DOMAIN list |-> P[p[k]]]
<1>9. Q \in [DOMAIN r -> rows]  BY <1>2, <1>7 DEF Lists
<1>10. \A k \in DOMAIN r : r[k] = file[Q[k]]  BY <1>1, <1>2, <1>7 DEF Lists
<1>11. ASSUME NEW k \in DOMAIN r, NEW l \in DOMAIN r, Q[k] = Q[l] PROVE k = l
  <2>1. k \in DOMAIN list /\ l \in DOMAIN list /\ P[p[k]] = P[p[l]]  BY <1>7, <1>11
  <2>2. p[k] = p[l]  BY <1>2, <1>7, <2>1 DEF Lists
  <2> QED  BY <1>8, <2>1, <2>2
<1>12. ASSUME NEW s \in rows PROVE \E k \in DOMAIN r : Q[k] = s
  <2>1. PICK m \in DOMAIN list : P[m] = s  BY <1>2 DEF Lists
  <2>2. PICK k \in DOMAIN list : p[k] = m  BY <1>8, <2>1
  <2> QED  BY <1>7, <2>1, <2>2
<1>13. Lists(Q, r, file, rows)  BY <1>9, <1>10, <1>11, <1>12 DEF Lists
<1> QED  BY <1>9, <1>13 DEF Listed

\* The list is as long as there are rows ...
LEMMA ListedLength ==
    ASSUME NEW S, NEW list \in Seq(S), NEW file, NEW rows, Listed(list, file, rows)
    PROVE  IsFiniteSet(rows) /\ Cardinality(rows) = Len(list)
<1>1. PICK P : Lists(P, list, file, rows)  BY DEF Listed
<1>2. DOMAIN list = 1..Len(list) /\ Len(list) \in Nat  OBVIOUS
<1>3. IsFiniteSet(DOMAIN list) /\ Cardinality(DOMAIN list) = Len(list)
  BY <1>2, FS_Interval
<1>4. P \in [DOMAIN list -> rows] /\ \A k, l \in DOMAIN list : P[k] = P[l] => k = l
  BY <1>1 DEF Lists
<1>5. P \in Surjection(DOMAIN list, rows)  BY <1>1, Fun_IsSurj DEF Lists
<1>6. P \in Bijection(DOMAIN list, rows)  BY <1>4, <1>5, Fun_IsBij
<1>7. ExistsBijection(DOMAIN list, rows)  BY <1>6 DEF ExistsBijection
<1> QED  BY <1>3, <1>7, FS_Bijection

\* The places with a value.
Having(f, places, e) == {r \in places : f[r] = e}

\* ... and has any value at as many places as the file has it in these rows.
LEMMA ListedAlike ==
    ASSUME NEW S, NEW list \in Seq(S), NEW file, NEW rows, Listed(list, file, rows), NEW e
    PROVE  Cardinality(Having(list, DOMAIN list, e)) = Cardinality(Having(file, rows, e))
<1> DEFINE A == Having(list, DOMAIN list, e)
           B == Having(file, rows, e)
<1> USE DEF Having
<1>1. PICK P : Lists(P, list, file, rows)  BY DEF Listed
<1> DEFINE Q == [n \in A |-> P[n]]
<1>2. IsFiniteSet(A)
  <2>1. DOMAIN list = 1..Len(list) /\ Len(list) \in Nat  OBVIOUS
  <2>2. IsFiniteSet(DOMAIN list)  BY <2>1, FS_Interval
  <2> QED  BY <2>2, FS_Subset
<1>3. Q \in [A -> B] /\ \A k, l \in A : Q[k] = Q[l] => k = l  BY <1>1 DEF Lists
<1>4. ASSUME NEW r \in B PROVE \E k \in A : Q[k] = r
  <2>1. PICK k \in DOMAIN list : P[k] = r  BY <1>1 DEF Lists
  <2>2. k \in A  BY <1>1, <2>1 DEF Lists
  <2> QED  BY <2>1, <2>2
<1>5. Q \in Surjection(A, B)  BY <1>3, <1>4, Fun_IsSurj
<1>6. Q \in Bijection(A, B)  BY <1>3, <1>5, Fun_IsBij
<1>7. ExistsBijection(A, B)  BY <1>6 DEF ExistsBijection
<1> QED  BY <1>2, <1>7, FS_Bijection

-----------------------------------------------------------------------------
(* What no step changes *)

LEMMA InputsFixed == [Next]_vars => feed' = feed /\ zone' = zone /\ allow' = allow
BY DEF Next, vars, input, Check, BuildCalendar, IndexTrip, EndTrips, IndexStopTime, SortCalls, StartDate,
   NextService, NextTrip, DropMalformed, DropUntimed, Emit, Unresolvable, EndDate, EndDates,
   WriteRoutes, WriteStops, WriteFails

-----------------------------------------------------------------------------
(* Schedule::index *)

\* The rows among the first n that the index files under a key.
TripRowsOf(s, n) == {r \in 1..n : feed.trips[r].service_id = s}
CallRowsOf(t, n) == {r \in 1..n : feed.stop_times[r].trip_id = t}

\* The stages before the first row is read.
Before == {"check", "refused", "index", "bad calendar"}

USE DEF Before, Failed

\* The rows of the two files that were read.
TripsRead ==
    IF stage \in Before THEN 0
    ELSE IF stage = "trips" THEN row ELSE Len(feed.trips)

CallsRead ==
    IF stage \in Before \cup {"trips"} THEN 0
    ELSE IF stage = "stop_times" THEN row ELSE Len(feed.stop_times)

InOrder(list) ==
    \A k, l \in DOMAIN list : k < l => list[k].stop_sequence <= list[l].stop_sequence

\* Every row that was read stands under its key, once, and at last the calls of
\* each trip are in order.
IndexInv ==
    /\ \A s \in ServiceIds :
          Listed(trips_by_service[s], feed.trips, TripRowsOf(s, TripsRead))
    /\ \A t \in Trips :
          Listed(stop_times_by_trip[t], feed.stop_times, CallRowsOf(t, CallsRead))
    /\ stage \in {"check", "index"} => row = 0
    /\ stage = "trips" => row <= Len(feed.trips)
    /\ stage = "stop_times" => row <= Len(feed.stop_times)
    /\ stage \notin Before \cup {"trips", "stop_times"} =>
          \A t \in Trips : InOrder(stop_times_by_trip[t])

LEMMA SortedInOrder ==
    ASSUME NEW S, NEW list \in Seq(S), NEW r \in Sorted(list)
    PROVE  InOrder(r)
<1> DEFINE Orders == {p \in [DOMAIN list -> DOMAIN list] :
                        \A k, l \in DOMAIN list :
                            k < l => /\ p[k] # p[l]
                                     /\ list[p[k]].stop_sequence <= list[p[l]].stop_sequence}
<1>1. PICK p \in Orders : r = [k \in DOMAIN list |-> list[p[k]]]
  BY DEF Sorted
<1>2. \A k, l \in DOMAIN list :
         k < l => list[p[k]].stop_sequence <= list[p[l]].stop_sequence
  BY <1>1
<1> QED  BY <1>1, <1>2 DEF InOrder

LEMMA IndexStep ==
    EventsFromRows /\ feed \in Feeds /\ IndexInv /\ [Next]_vars => IndexInv'
<1> SUFFICES ASSUME EventsFromRows, feed \in Feeds, IndexInv, [Next]_vars
             PROVE  IndexInv'
  OBVIOUS
<1> USE DEF index
<1>1. feed' = feed  BY InputsFixed
<1>2. /\ feed.trips \in Seq(TripRows) /\ feed.stop_times \in Seq(StopTimeRows)
      /\ Len(feed.trips) \in Nat /\ Len(feed.stop_times) \in Nat
      /\ row \in Nat
  BY DEF Feeds, EventsFromRows
<1>3. ASSUME UNCHANGED index, TripsRead' = TripsRead, CallsRead' = CallsRead,
             stage' # "check", stage' \notin {"index", "trips", "stop_times"} \/ row' = 0,
             \/ stage' \in Before \cup {"trips", "stop_times"}
             \/ stage \notin Before \cup {"trips", "stop_times"}
      PROVE  IndexInv'
  <2> HIDE DEF Before
  <2>1. \A s \in ServiceIds :
           Listed(trips_by_service'[s], feed'.trips, TripRowsOf(s, TripsRead)')
    BY <1>1, <1>3 DEF TripRowsOf, IndexInv
  <2>2. \A t \in Trips :
           Listed(stop_times_by_trip'[t], feed'.stop_times, CallRowsOf(t, CallsRead)')
    BY <1>1, <1>3 DEF CallRowsOf, IndexInv
  <2>3. /\ stage' # "check" /\ (stage' = "index" => row' = 0)
        /\ stage' = "trips" => row' <= Len(feed'.trips)
        /\ stage' = "stop_times" => row' <= Len(feed'.stop_times)
    <3>1. stage' \in {"index", "trips", "stop_times"} => row' = 0
      BY <1>3
    <3>2. 0 <= Len(feed'.trips) /\ 0 <= Len(feed'.stop_times)
      BY <1>1, <1>2
    <3> QED  BY <1>3, <3>1, <3>2
  <2>4. stage' \notin Before \cup {"trips", "stop_times"} =>
           \A t \in Trips : InOrder(stop_times_by_trip[t])'
    BY <1>3 DEF IndexInv, InOrder
  <2> QED  BY <2>1, <2>2, <2>3, <2>4 DEF IndexInv
<1>4. CASE Check \/ BuildCalendar
  <2>1. /\ row' = 0 /\ UNCHANGED index /\ stage \in Before
        /\ stage' \in (Before \cup {"trips"}) \ {"check"}
    BY <1>4 DEF Check, BuildCalendar, IndexInv
  <2>2. TripsRead' = 0 /\ TripsRead = 0 /\ CallsRead' = 0 /\ CallsRead = 0
    BY <2>1 DEF TripsRead, CallsRead
  <2> QED  BY <1>3, <2>1, <2>2
<1>5. CASE IndexTrip
  <2> DEFINE n == row + 1
             t == feed.trips[n]
  <2>1. n \in DOMAIN feed.trips /\ n \in 1..Len(feed.trips) /\ n \notin 1..row
        /\ 1..n = (1..row) \cup {n}
    BY <1>2, <1>5 DEF IndexTrip
  <2> HIDE DEF n
  <2>2. t \in TripSet /\ t.service_id \in ServiceIds
    <3>1. t \in TripRows  BY <1>2, <2>1
    <3> QED  BY <2>1, <3>1 DEF TripSet, TripRows
  <2>3. /\ trips_by_service' = [trips_by_service EXCEPT ![t.service_id] =
                                   Append(trips_by_service[t.service_id], t)]
        /\ stop_times_by_trip' = stop_times_by_trip /\ row' = n
        /\ stage = "trips" /\ stage' = "trips"
    BY <1>5 DEF IndexTrip, n
  <2>4. TripsRead = row /\ TripsRead' = n /\ CallsRead = 0 /\ CallsRead' = 0
    BY <2>3 DEF TripsRead, CallsRead
  <2>5. ASSUME NEW s \in ServiceIds
        PROVE  Listed(trips_by_service'[s], feed.trips, TripRowsOf(s, n))
    <3>1. trips_by_service[s] \in Seq(TripSet) /\ s \in DOMAIN trips_by_service
      BY DEF EventsFromRows
    <3>2. Listed(trips_by_service[s], feed.trips, TripRowsOf(s, row))
      BY <2>4 DEF IndexInv
    <3>3. CASE s = t.service_id
      <4>1. TripRowsOf(s, n) = TripRowsOf(s, row) \cup {n} /\ n \notin TripRowsOf(s, row)
        BY <2>1, <3>3 DEF TripRowsOf
      <4>2. Listed(Append(trips_by_service[s], t), feed.trips, TripRowsOf(s, row) \cup {n})
        BY <2>2, <3>1, <3>2, <4>1, ListedAppend
      <4> QED  BY <2>3, <3>1, <3>3, <4>1, <4>2
    <3>4. CASE s # t.service_id
      <4>1. TripRowsOf(s, n) = TripRowsOf(s, row)  BY <2>1, <3>4 DEF TripRowsOf
      <4> QED  BY <2>3, <3>1, <3>2, <3>4, <4>1
    <3> QED  BY <3>3, <3>4
  <2>6. \A s \in ServiceIds :
           Listed(trips_by_service'[s], feed'.trips, TripRowsOf(s, TripsRead)')
    BY <1>1, <2>4, <2>5 DEF TripRowsOf
  <2>7. \A s \in Trips :
           Listed(stop_times_by_trip'[s], feed'.stop_times, CallRowsOf(s, CallsRead)')
    BY <1>1, <2>3, <2>4 DEF CallRowsOf, IndexInv
  <2>8. row' <= Len(feed'.trips)  BY <1>1, <1>2, <2>1, <2>3
  <2> QED  BY <2>3, <2>6, <2>7, <2>8 DEF IndexInv
<1>6. CASE EndTrips
  <2>1. /\ row = Len(feed.trips) /\ row' = 0 /\ UNCHANGED index
        /\ stage = "trips" /\ stage' = "stop_times"
    BY <1>6 DEF EndTrips
  <2>2. TripsRead' = TripsRead /\ CallsRead' = CallsRead
    BY <1>1, <2>1 DEF TripsRead, CallsRead
  <2> QED  BY <1>3, <2>1, <2>2
<1>7. CASE IndexStopTime
  <2> DEFINE n == row + 1
             c == feed.stop_times[n]
  <2>1. n \in DOMAIN feed.stop_times /\ n \in 1..Len(feed.stop_times) /\ n \notin 1..row
        /\ 1..n = (1..row) \cup {n}
    BY <1>2, <1>7 DEF IndexStopTime
  <2> HIDE DEF n
  <2>2. c \in CallSet /\ c.trip_id \in Trips
    <3>1. c \in StopTimeRows  BY <1>2, <2>1
    <3> QED  BY <2>1, <3>1 DEF CallSet, StopTimeRows
  <2>3. /\ stop_times_by_trip' = [stop_times_by_trip EXCEPT ![c.trip_id] =
                                     Append(stop_times_by_trip[c.trip_id], c)]
        /\ trips_by_service' = trips_by_service /\ row' = n
        /\ stage = "stop_times" /\ stage' = "stop_times"
    BY <1>7 DEF IndexStopTime, n
  <2>4. /\ TripsRead = Len(feed.trips) /\ TripsRead' = TripsRead
        /\ CallsRead = row /\ CallsRead' = n
    BY <1>1, <2>3 DEF TripsRead, CallsRead
  <2>5. ASSUME NEW t \in Trips
        PROVE  Listed(stop_times_by_trip'[t], feed.stop_times, CallRowsOf(t, n))
    <3>1. stop_times_by_trip[t] \in Seq(CallSet) /\ t \in DOMAIN stop_times_by_trip
      BY DEF EventsFromRows
    <3>2. Listed(stop_times_by_trip[t], feed.stop_times, CallRowsOf(t, row))
      BY <2>4 DEF IndexInv
    <3>3. CASE t = c.trip_id
      <4>1. CallRowsOf(t, n) = CallRowsOf(t, row) \cup {n} /\ n \notin CallRowsOf(t, row)
        BY <2>1, <3>3 DEF CallRowsOf
      <4>2. Listed(Append(stop_times_by_trip[t], c), feed.stop_times,
                   CallRowsOf(t, row) \cup {n})
        BY <2>2, <3>1, <3>2, <4>1, ListedAppend
      <4> QED  BY <2>3, <3>1, <3>3, <4>1, <4>2
    <3>4. CASE t # c.trip_id
      <4>1. CallRowsOf(t, n) = CallRowsOf(t, row)  BY <2>1, <3>4 DEF CallRowsOf
      <4> QED  BY <2>3, <3>1, <3>2, <3>4, <4>1
    <3> QED  BY <3>3, <3>4
  <2>6. \A t \in Trips :
           Listed(stop_times_by_trip'[t], feed'.stop_times, CallRowsOf(t, CallsRead)')
    BY <1>1, <2>4, <2>5 DEF CallRowsOf
  <2>7. \A s \in ServiceIds :
           Listed(trips_by_service'[s], feed'.trips, TripRowsOf(s, TripsRead)')
    BY <1>1, <2>3, <2>4 DEF TripRowsOf, IndexInv
  <2>8. row' <= Len(feed'.stop_times)  BY <1>1, <1>2, <2>1, <2>3
  <2> QED  BY <2>3, <2>6, <2>7, <2>8 DEF IndexInv
<1>8. CASE SortCalls
  <2>1. /\ stage = "stop_times" /\ row = Len(feed.stop_times) /\ stage' = "dates"
        /\ trips_by_service' = trips_by_service
        /\ \A t \in Trips : stop_times_by_trip'[t] \in Sorted(stop_times_by_trip[t])
    BY <1>8 DEF SortCalls
  <2>2. TripsRead' = TripsRead /\ CallsRead' = CallsRead
    BY <1>1, <2>1 DEF TripsRead, CallsRead
  <2>3. ASSUME NEW t \in Trips
        PROVE  /\ Listed(stop_times_by_trip'[t], feed.stop_times, CallRowsOf(t, CallsRead))
               /\ InOrder(stop_times_by_trip'[t])
    <3>1. stop_times_by_trip[t] \in Seq(CallSet)  BY DEF EventsFromRows
    <3>2. Listed(stop_times_by_trip[t], feed.stop_times, CallRowsOf(t, CallsRead))
      BY DEF IndexInv
    <3> QED  BY <2>1, <3>1, <3>2, ListedSorted, SortedInOrder
  <2>4. \A t \in Trips :
           Listed(stop_times_by_trip'[t], feed'.stop_times, CallRowsOf(t, CallsRead)')
    BY <1>1, <2>2, <2>3 DEF CallRowsOf
  <2>5. \A s \in ServiceIds :
           Listed(trips_by_service'[s], feed'.trips, TripRowsOf(s, TripsRead)')
    BY <1>1, <2>1, <2>2 DEF TripRowsOf, IndexInv
  <2>6. \A t \in Trips : InOrder(stop_times_by_trip[t])'
    BY <2>3 DEF InOrder
  <2> QED  BY <2>1, <2>4, <2>5, <2>6 DEF IndexInv
<1>9. CASE \/ StartDate \/ NextService \/ NextTrip \/ DropMalformed \/ DropUntimed \/ Emit
           \/ Unresolvable \/ EndDate \/ EndDates \/ WriteRoutes \/ WriteStops \/ WriteFails
  <2> DEFINE Late == {"dates", "date", "routes", "stops", "done"} \cup (Failed \ {"bad calendar"})
  <2>1. UNCHANGED index /\ stage \in Late /\ stage' \in Late
    BY <1>9 DEF StartDate, NextService, NextTrip, DropMalformed, DropUntimed, Emit,
       Unresolvable, EndDate, DateWalked, EndDates, WriteRoutes, WriteStops,
       WriteFails
  <2>2. TripsRead' = TripsRead /\ CallsRead' = CallsRead
    BY <1>1, <2>1 DEF TripsRead, CallsRead
  <2> QED  BY <1>3, <2>1, <2>2
<1>10. CASE UNCHANGED vars
  <2>1. UNCHANGED <<index, stage, row>>  BY <1>10 DEF vars
  <2>2. TripsRead' = TripsRead /\ CallsRead' = CallsRead
    BY <1>1, <2>1 DEF TripsRead, CallsRead
  <2> QED  BY <1>1, <2>1, <2>2 DEF IndexInv, TripRowsOf, CallRowsOf
<1> QED  BY <1>4, <1>5, <1>6, <1>7, <1>8, <1>9, <1>10 DEF Next

-----------------------------------------------------------------------------
(* Schedule::for_date *)

\* The event of every pair of rows, on a date.
EventAt(d) ==
    [p \in (DOMAIN feed.trips) \X (DOMAIN feed.stop_times) |->
        EventOf(feed.trips[p[1]], feed.stop_times[p[2]], d)]

\* The calls of the date that the loops have not come to, where they hold the trips
\* of the rows A and, of the trip of row i, the calls of the rows B.
Left(A, i, B) ==
    {p \in Joined(date) :
        \/ feed.trips[p[1]].service_id \in services
        \/ p[1] \in A
        \/ p[1] = i /\ p[2] \in B}

\* Row i is the trip whose calls are walked.
OnTrip(A, i, B) ==
    /\ i \in (DOMAIN feed.trips) \ A /\ trip = feed.trips[i]
    /\ feed.trips[i].service_id \in services_on(date) \ services
    /\ \A b \in B : feed.stop_times[b].trip_id = trip.trip_id

\* The events are the timed calls the loops have come to, and the others of these
\* calls are counted.
WalkAt(A, i, B) ==
    /\ Listed(trips, feed.trips, A)
    /\ Listed(calls, feed.stop_times, B)
    /\ \A a \in A : feed.trips[a].service_id \in services_on(date) \ services
    /\ B # {} => OnTrip(A, i, B)
    /\ Listed(events, EventAt(date), TimedCalls(date) \ Left(A, i, B))
    /\ stats \in [trips : Nat, untimed : Nat, malformed : Nat, crossing : Nat]
    /\ Cardinality(Joined(date) \ Left(A, i, B))
       = Len(events) + stats.untimed + stats.malformed

\* The events, of the date that is or was walked, are different calls of it.
EventsListed ==
    \/ events = <<>>
    \/ \E d \in Dates : \E rows \in SUBSET Joined(d) : Listed(events, EventAt(d), rows)

WalkInv ==
    /\ stage = "date" =>
          /\ services \subseteq services_on(date)
          /\ \E A \in SUBSET DOMAIN feed.trips, i \in Nat, B \in SUBSET DOMAIN feed.stop_times :
                WalkAt(A, i, B)
    /\ stage \notin {"date"} \cup Failed => trips = <<>> /\ calls = <<>>
    /\ EventsListed

LEMMA SameCalls ==
    ASSUME feed' = feed, zone' = zone
    PROVE  /\ \A d : Joined(d)' = Joined(d) /\ TimedCalls(d)' = TimedCalls(d)
           /\ \A d : EventAt(d)' = EventAt(d) /\ services_on(d)' = services_on(d)
           /\ active_dates' = active_dates
BY DEF Joined, TimedCalls, EventAt, EventOf, services_on, active_dates

\* What is joined is finite.
LEMMA JoinedFinite ==
    ASSUME feed \in Feeds, NEW d
    PROVE  /\ IsFiniteSet(Joined(d))
           /\ Joined(d) \subseteq (DOMAIN feed.trips) \X (DOMAIN feed.stop_times)
           /\ TimedCalls(d) \subseteq Joined(d)
<1> DEFINE pairs == (DOMAIN feed.trips) \X (DOMAIN feed.stop_times)
<1>1. /\ DOMAIN feed.trips = 1..Len(feed.trips) /\ Len(feed.trips) \in Nat
      /\ DOMAIN feed.stop_times = 1..Len(feed.stop_times) /\ Len(feed.stop_times) \in Nat
  BY DEF Feeds
<1>2. IsFiniteSet(pairs)
  <2>1. IsFiniteSet(DOMAIN feed.trips) /\ IsFiniteSet(DOMAIN feed.stop_times)
    BY <1>1, FS_Interval
  <2> QED  BY <2>1, FS_Product
<1>3. Joined(d) \in SUBSET pairs /\ TimedCalls(d) \subseteq Joined(d)
  BY DEF Joined, TimedCalls
<1> QED  BY <1>2, <1>3, FS_Subset

\* With the call of row b, the pair <<i, b>> leaves what is left, and no other.
PairLeaves(A, i, B, b) ==
    /\ <<i, b>> \in Joined(date)
    /\ <<i, b>> \notin Joined(date) \ Left(A, i, B)
    /\ Joined(date) \ Left(A, i, B \ {b}) = (Joined(date) \ Left(A, i, B)) \cup {<<i, b>>}

LEMMA CallLeaves ==
    ASSUME feed \in Feeds, NEW A \in SUBSET DOMAIN feed.trips, NEW i \in Nat,
           NEW B \in SUBSET DOMAIN feed.stop_times, NEW b \in B, OnTrip(A, i, B)
    PROVE  PairLeaves(A, i, B, b)
<1> DEFINE q == <<i, b>>
<1>1. /\ i \in (DOMAIN feed.trips) \ A /\ b \in DOMAIN feed.stop_times
      /\ feed.trips[i].service_id \notin services
      /\ date \in feed.dates[feed.trips[i].service_id]
      /\ feed.stop_times[b].trip_id = feed.trips[i].trip_id
  BY DEF OnTrip, services_on
<1>2. q \in Joined(date)  BY <1>1 DEF Joined
<1>3. q \in Left(A, i, B) /\ q \notin Left(A, i, B \ {b})
  BY <1>1, <1>2 DEF Left
<1>4. ASSUME NEW p \in Joined(date), p # q
      PROVE  p \in Left(A, i, B) <=> p \in Left(A, i, B \ {b})
  <2>1. p = <<p[1], p[2]>>  BY DEF Joined
  <2>2. ~(p[1] = i /\ p[2] = b)  BY <1>4, <2>1
  <2>3. (p[1] = i /\ p[2] \in B) <=> (p[1] = i /\ p[2] \in B \ {b})  BY <2>2
  <2>4. /\ p \in Left(A, i, B) <=> \/ feed.trips[p[1]].service_id \in services
                                   \/ p[1] \in A
                                   \/ p[1] = i /\ p[2] \in B
        /\ p \in Left(A, i, B \ {b}) <=> \/ feed.trips[p[1]].service_id \in services
                                         \/ p[1] \in A
                                         \/ p[1] = i /\ p[2] \in B \ {b}
    BY DEF Left
  <2> QED  BY <2>3, <2>4
<1> HIDE DEF q
<1>5. Joined(date) \ Left(A, i, B \ {b}) = (Joined(date) \ Left(A, i, B)) \cup {q}
  BY <1>2, <1>3, <1>4
<1> QED  BY <1>2, <1>3, <1>5 DEF q, PairLeaves

\* Drop* and Emit take the first of the calls.
LEMMA TakeCall ==
    ASSUME EventsFromRows, feed \in Feeds, NEW A \in SUBSET DOMAIN feed.trips, NEW i \in Nat,
           NEW B \in SUBSET DOMAIN feed.stop_times, WalkAt(A, i, B), calls # <<>>
    PROVE  \E b \in B :
              /\ Head(calls) = feed.stop_times[b] /\ trip = feed.trips[i]
              /\ OnTrip(A, i, B)
              /\ Listed(Tail(calls), feed.stop_times, B \ {b})
              /\ PairLeaves(A, i, B, b)
<1>1. calls \in Seq(CallSet)
  <2>1. CallsOf(trip.trip_id) \subseteq CallSet  BY DEF CallsOf
  <2> QED  BY <2>1 DEF EventsFromRows
<1>2. PICK b \in B : /\ Head(calls) = feed.stop_times[b]
                     /\ Listed(Tail(calls), feed.stop_times, B \ {b})
  BY <1>1, ListedTail DEF WalkAt
<1>3. OnTrip(A, i, B) /\ trip = feed.trips[i]  BY <1>2 DEF WalkAt, OnTrip
<1>4. PairLeaves(A, i, B, b)  BY <1>3, CallLeaves
<1> QED  BY <1>2, <1>3, <1>4

LEMMA WalkStep ==
    /\ EventsFromRows /\ feed \in Feeds /\ IndexInv /\ WalkInv /\ [Next]_vars
    => WalkInv'
<1> SUFFICES ASSUME EventsFromRows, feed \in Feeds, IndexInv, WalkInv, [Next]_vars
             PROVE  WalkInv'
  OBVIOUS
<1> USE DEF found, loops
<1>1. feed' = feed /\ zone' = zone  BY InputsFixed
<1>0. /\ DOMAIN feed.trips = 1..Len(feed.trips) /\ Len(feed.trips) \in Nat
      /\ DOMAIN feed.stop_times = 1..Len(feed.stop_times) /\ Len(feed.stop_times) \in Nat
      /\ \A n \in DOMAIN feed.trips : /\ feed.trips[n].trip_id \in Trips
                                       /\ feed.trips[n].service_id \in ServiceIds
  <2>1. feed.trips \in Seq(TripRows) /\ feed.stop_times \in Seq(StopTimeRows)
    BY DEF Feeds
  <2>2. \A n \in DOMAIN feed.trips : feed.trips[n] \in TripRows  BY <2>1
  <2>3. \A n \in DOMAIN feed.trips : /\ feed.trips[n].trip_id \in Trips
                                     /\ feed.trips[n].service_id \in ServiceIds
    BY <2>2 DEF TripRows
  <2> QED  BY <2>1, <2>3
<1> DEFINE Walking == \E A \in SUBSET DOMAIN feed.trips, i \in Nat,
                         B \in SUBSET DOMAIN feed.stop_times : WalkAt(A, i, B)'
<1>2. /\ \A d : Joined(d)' = Joined(d) /\ TimedCalls(d)' = TimedCalls(d)
      /\ \A d : EventAt(d)' = EventAt(d) /\ services_on(d)' = services_on(d)
      /\ active_dates' = active_dates
  BY <1>1, SameCalls
<1>3. ASSUME stage' # "date", UNCHANGED found,
             stage' \notin Failed => trips' = <<>> /\ calls' = <<>>
      PROVE  WalkInv'
  <2>1. EventsListed'  BY <1>2, <1>3 DEF WalkInv, EventsListed
  <2> QED  BY <1>3, <2>1 DEF WalkInv
<1>4. ASSUME stage' = "date", services' \subseteq services_on(date'), Walking, EventsListed'
      PROVE  WalkInv'
  BY <1>1, <1>2, <1>4 DEF WalkInv
<1>5. CASE Check \/ BuildCalendar \/ IndexTrip \/ EndTrips \/ IndexStopTime \/ SortCalls
  BY <1>3, <1>5 DEF WalkInv, Check, BuildCalendar, IndexTrip, EndTrips, IndexStopTime, SortCalls
<1>6. CASE EndDate \/ EndDates \/ WriteRoutes \/ WriteStops \/ WriteFails \/ Unresolvable
  BY <1>3, <1>6
  DEF WalkInv, Unresolvable, EndDate, DateWalked, EndDates, WriteRoutes, WriteStops,
       WriteFails
<1>7. CASE StartDate
  <2>1. /\ stage = "dates" /\ stage' = "date" /\ date' \in Dates
        /\ services' = services_on(date') /\ events' = <<>> /\ stats' = NoStats
        /\ trips' = <<>> /\ calls' = <<>>
    BY <1>7 DEF StartDate, WalkInv, EventsFromRows
  <2>2. Left({}, 0, {})' = Joined(date')
    <3>1. ASSUME NEW p \in Joined(date')
          PROVE  feed.trips[p[1]].service_id \in services'
      <4>1. p[1] \in DOMAIN feed.trips /\ date' \in feed.dates[feed.trips[p[1]].service_id]
        BY DEF Joined
      <4> QED  BY <1>0, <2>1, <4>1 DEF services_on
    <3>2. Joined(date)' = Joined(date')  BY <1>2
    <3> QED  BY <1>1, <3>1, <3>2 DEF Left
  <2>3. /\ (TimedCalls(date) \ Left({}, 0, {}))' = {}
        /\ (Joined(date) \ Left({}, 0, {}))' = {}
    <3>1. Joined(date)' = Joined(date') /\ TimedCalls(date)' = TimedCalls(date')
      BY <1>2
    <3> QED  BY <2>2, <3>1, JoinedFinite
  <2>4. WalkAt({}, 0, {})'
    <3>1. /\ Listed(trips', feed'.trips, {}) /\ Listed(calls', feed'.stop_times, {})
          /\ Listed(events', EventAt(date)', {})
      BY <2>1, ListedEmpty
    <3>2. /\ stats' \in [trips : Nat, untimed : Nat, malformed : Nat, crossing : Nat]
          /\ 0 = Len(events') + stats'.untimed + stats'.malformed
      BY <2>1 DEF NoStats
    <3>3. Cardinality((Joined(date) \ Left({}, 0, {}))') = 0  BY <2>3, FS_EmptySet
    <3> QED  BY <2>3, <3>1, <3>2, <3>3 DEF WalkAt
  <2>5. EventsListed'  BY <2>1 DEF EventsListed
  <2>6. {} \in SUBSET DOMAIN feed.trips /\ 0 \in Nat /\ {} \in SUBSET DOMAIN feed.stop_times
    OBVIOUS
  <2> QED  BY <1>1, <1>4, <2>1, <2>4, <2>5, <2>6
<1>8. CASE NextService
  <2>1. PICK s \in services : /\ trips' = trips_by_service[s]
                              /\ services' = services \ {s}
    BY <1>8 DEF NextService
  <2>2. /\ stage = "date" /\ stage' = "date" /\ date' = date /\ UNCHANGED found
        /\ calls = <<>> /\ calls' = <<>> /\ trips = <<>>
        /\ services \subseteq services_on(date) /\ s \in ServiceIds
    BY <1>8, <2>1 DEF NextService, WalkInv, EventsFromRows
  <2>3. PICK A \in SUBSET DOMAIN feed.trips, i \in Nat, B \in SUBSET DOMAIN feed.stop_times :
           WalkAt(A, i, B)
    BY <2>2 DEF WalkInv
  <2>4. A = {} /\ B = {}  BY <2>2, <2>3, ListedEmpty DEF WalkAt
  <2>5. PICK T \in SUBSET DOMAIN feed.trips : /\ T = TripRowsOf(s, Len(feed.trips))
                                             /\ Listed(trips', feed.trips, T)
    <3>1. TripsRead = Len(feed.trips)  BY <2>2 DEF TripsRead
    <3>2. TripRowsOf(s, Len(feed.trips)) \in SUBSET DOMAIN feed.trips
      BY <1>0 DEF TripRowsOf
    <3> QED  BY <2>1, <2>2, <3>1, <3>2 DEF IndexInv
  <2>6. Left(T, 0, {})' = Left(A, i, B)
    <3>1. ASSUME NEW p \in Joined(date)
          PROVE  p[1] \in T <=> feed.trips[p[1]].service_id = s
      BY <1>0, <2>5 DEF Joined, TripRowsOf
    <3>2. /\ Joined(date)' = Joined(date) /\ services' = services \ {s} /\ s \in services
          /\ feed' = feed
      BY <1>1, <1>2, <2>1, <2>2
    <3>3. ASSUME NEW p \in Joined(date)
          PROVE  p \in Left(T, 0, {})' <=> p \in Left(A, i, B)
      <4>1. p \in Left(T, 0, {})' <=>
              \/ feed.trips[p[1]].service_id \in services'
              \/ p[1] \in T
        BY <3>2 DEF Left
      <4>2. p \in Left(A, i, B) <=> feed.trips[p[1]].service_id \in services
        BY <2>4 DEF Left
      <4> QED  BY <3>1, <3>2, <4>1, <4>2
    <3> QED  BY <3>2, <3>3 DEF Left
  <2>7. \A a \in T : feed.trips[a].service_id \in services_on(date) \ services'
    BY <2>1, <2>2, <2>5 DEF TripRowsOf
  <2>8. WalkAt(T, 0, {})'
    <3>1. /\ Listed(events, EventAt(date), TimedCalls(date) \ Left(A, i, B))
          /\ stats \in [trips : Nat, untimed : Nat, malformed : Nat, crossing : Nat]
          /\ Cardinality(Joined(date) \ Left(A, i, B))
             = Len(events) + stats.untimed + stats.malformed
      BY <2>3 DEF WalkAt
    <3>2. Listed(calls', feed.stop_times, {})  BY <2>2, ListedEmpty
    <3>3. /\ services_on(date)' = services_on(date) /\ EventAt(date)' = EventAt(date)
          /\ TimedCalls(date)' = TimedCalls(date) /\ Joined(date)' = Joined(date)
          /\ events' = events /\ stats' = stats
      BY <1>2, <2>2
    <3> QED  BY <1>1, <2>5, <2>6, <2>7, <3>1, <3>2, <3>3 DEF WalkAt
  <2>9. EventsListed'  BY <1>2, <2>2 DEF WalkInv, EventsListed
  <2> QED  BY <1>2, <1>4, <2>1, <2>2, <2>5, <2>8, <2>9
<1>9. CASE NextTrip
  <2>1. /\ stage = "date" /\ stage' = "date" /\ UNCHANGED <<date, services, events>>
        /\ calls = <<>> /\ trips # <<>> /\ trip' = Head(trips) /\ trips' = Tail(trips)
        /\ calls' = stop_times_by_trip[Head(trips).trip_id]
        /\ stats'.untimed = stats.untimed /\ stats'.malformed = stats.malformed
        /\ services \subseteq services_on(date)
    <3>1. stats' = IF calls' = <<>> THEN stats ELSE [stats EXCEPT !.trips = stats.trips + 1]
      BY <1>9 DEF NextTrip
    <3>2. stats'.untimed = stats.untimed /\ stats'.malformed = stats.malformed
      BY <3>1
    <3> QED  BY <1>9, <3>2 DEF NextTrip, WalkInv
  <2>2. PICK A \in SUBSET DOMAIN feed.trips, i \in Nat, B \in SUBSET DOMAIN feed.stop_times :
           WalkAt(A, i, B)
    BY <2>1 DEF WalkInv
  <2>3. B = {}  BY <2>1, <2>2, ListedEmpty DEF WalkAt
  <2>4. PICK r \in A : Head(trips) = feed.trips[r] /\ Listed(Tail(trips), feed.trips, A \ {r})
    BY <2>1, <2>2, ListedTail DEF WalkAt, EventsFromRows
  <2>5. r \in DOMAIN feed.trips /\ r \in Nat /\ feed.trips[r].trip_id \in Trips
    BY <1>0
  <2> DEFINE rows == CallRowsOf(feed.trips[r].trip_id, Len(feed.stop_times))
  <2>6. PICK C \in SUBSET DOMAIN feed.stop_times : /\ C = rows
                                                  /\ Listed(calls', feed.stop_times, C)
    <3>1. calls' = stop_times_by_trip[feed.trips[r].trip_id]  BY <2>1, <2>4
    <3>2. CallsRead = Len(feed.stop_times)  BY <2>1 DEF CallsRead
    <3>3. rows \in SUBSET DOMAIN feed.stop_times  BY <1>0 DEF CallRowsOf
    <3> QED  BY <2>5, <3>1, <3>2, <3>3 DEF IndexInv
  <2>7. \A c \in C : feed.stop_times[c].trip_id = feed.trips[r].trip_id
    BY <2>6 DEF CallRowsOf
  <2>8. Left(A \ {r}, r, C)' = Left(A, i, B)
    <3>1. ASSUME NEW p \in Joined(date), p[1] = r PROVE p[2] \in C
      BY <1>0, <2>6, <3>1 DEF Joined, CallRowsOf
    <3>2. ASSUME NEW p \in Joined(date)
          PROVE  p[1] \in A <=> (p[1] \in A \ {r} \/ (p[1] = r /\ p[2] \in C))
      BY <2>4, <3>1
    <3>3. /\ Joined(date)' = Joined(date) /\ services' = services /\ feed' = feed
      BY <1>1, <1>2, <2>1
    <3>4. ASSUME NEW p \in Joined(date)
          PROVE  p \in Left(A \ {r}, r, C)' <=> p \in Left(A, i, B)
      <4>1. p \in Left(A \ {r}, r, C)' <=>
              \/ feed.trips[p[1]].service_id \in services
              \/ p[1] \in A \ {r}
              \/ p[1] = r /\ p[2] \in C
        BY <3>3 DEF Left
      <4>2. p \in Left(A, i, B) <=>
              \/ feed.trips[p[1]].service_id \in services
              \/ p[1] \in A
        BY <2>3 DEF Left
      <4> QED  BY <3>2, <4>1, <4>2
    <3> QED  BY <3>3, <3>4 DEF Left
  <2>9. OnTrip(A \ {r}, r, C)'
    <3>1. trip' = feed.trips[r] /\ r \in (DOMAIN feed.trips) \ (A \ {r})
      BY <2>1, <2>4, <2>5
    <3>2. feed.trips[r].service_id \in services_on(date) \ services
      BY <2>2, <2>4 DEF WalkAt
    <3>3. services_on(date)' = services_on(date) /\ services' = services
      BY <1>2, <2>1
    <3> QED  BY <1>1, <2>7, <3>1, <3>2, <3>3 DEF OnTrip
  <2>10. WalkAt(A \ {r}, r, C)'
    <3>1. /\ \A a \in A \ {r} : feed.trips[a].service_id \in services_on(date) \ services
          /\ Listed(events, EventAt(date), TimedCalls(date) \ Left(A, i, B))
          /\ stats \in [trips : Nat, untimed : Nat, malformed : Nat, crossing : Nat]
          /\ Cardinality(Joined(date) \ Left(A, i, B))
             = Len(events) + stats.untimed + stats.malformed
      BY <2>2 DEF WalkAt
    <3>2. stats' \in [trips : Nat, untimed : Nat, malformed : Nat, crossing : Nat]
      BY <1>9, <3>1 DEF NextTrip
    <3>3. trips' = Tail(trips) /\ Listed(Tail(trips), feed.trips, A \ {r})
      BY <2>1, <2>4
    <3>4. /\ services_on(date)' = services_on(date) /\ services' = services
          /\ events' = events /\ EventAt(date)' = EventAt(date)
          /\ TimedCalls(date)' = TimedCalls(date) /\ Joined(date)' = Joined(date)
          /\ stats'.untimed = stats.untimed /\ stats'.malformed = stats.malformed
      BY <1>2, <2>1
    <3> QED  BY <1>1, <2>6, <2>8, <2>9, <3>1, <3>2, <3>3, <3>4 DEF WalkAt
  <2>11. EventsListed'  BY <1>2, <2>1 DEF WalkInv, EventsListed
  <2>12. A \ {r} \in SUBSET DOMAIN feed.trips  OBVIOUS
  <2> QED  BY <1>2, <1>4, <2>1, <2>5, <2>6, <2>10, <2>11, <2>12
<1>10. CASE DropMalformed \/ DropUntimed
  <2>1. /\ stage = "date" /\ stage' = "date"
        /\ UNCHANGED <<date, services, trips, trip, events>>
        /\ calls # <<>> /\ calls' = Tail(calls) /\ ~Timed(Head(calls))
        /\ services \subseteq services_on(date)
    BY <1>10 DEF DropMalformed, DropUntimed, Timed, WalkInv
  <2>2. PICK A \in SUBSET DOMAIN feed.trips, i \in Nat, B \in SUBSET DOMAIN feed.stop_times :
           WalkAt(A, i, B)
    BY <2>1 DEF WalkInv
  <2>3. PICK b \in B :
           /\ Head(calls) = feed.stop_times[b] /\ OnTrip(A, i, B)
           /\ Listed(Tail(calls), feed.stop_times, B \ {b})
           /\ PairLeaves(A, i, B, b)
    BY <2>1, <2>2, TakeCall
  <2> DEFINE q == <<i, b>>
             seen == Joined(date) \ Left(A, i, B)
             now == Joined(date) \ Left(A, i, B \ {b})
  <2>4. q \in Joined(date) /\ q \notin seen /\ now = seen \cup {q}
    BY <2>3 DEF PairLeaves
  <2>5. Left(A, i, B \ {b})' = Left(A, i, B \ {b})
    BY <1>1, <1>2, <2>1 DEF Left
  <2>6. q \notin TimedCalls(date)  BY <2>1, <2>3 DEF TimedCalls
  <2>7. TimedCalls(date) \ Left(A, i, B \ {b}) = TimedCalls(date) \ Left(A, i, B)
    BY <2>4, <2>6, JoinedFinite
  <2>8. /\ stats' \in [trips : Nat, untimed : Nat, malformed : Nat, crossing : Nat]
        /\ stats'.untimed + stats'.malformed = stats.untimed + stats.malformed + 1
    <3>1. stats \in [trips : Nat, untimed : Nat, malformed : Nat, crossing : Nat]
      BY <2>2 DEF WalkAt
    <3>2. CASE DropMalformed
      <4>1. stats' = [stats EXCEPT !.malformed = stats.malformed + 1]
        BY <3>2 DEF DropMalformed
      <4> QED  BY <3>1, <4>1
    <3>3. CASE DropUntimed
      <4>1. stats' = [stats EXCEPT !.untimed = stats.untimed + 1]
        BY <3>3 DEF DropUntimed
      <4> QED  BY <3>1, <4>1
    <3> QED  BY <1>10, <3>2, <3>3
  <2>9. Cardinality(now) = Len(events) + stats'.untimed + stats'.malformed
    <3>1. IsFiniteSet(seen)  BY JoinedFinite, FS_Difference
    <3>2. Cardinality(now) = Cardinality(seen) + 1  BY <2>4, <3>1, FS_AddElement
    <3>3. Len(events) \in Nat  BY DEF EventsFromRows
    <3>4. /\ Cardinality(seen) = Len(events) + stats.untimed + stats.malformed
          /\ stats.untimed \in Nat /\ stats.malformed \in Nat
      BY <2>2 DEF WalkAt
    <3>5. /\ stats'.untimed \in Nat /\ stats'.malformed \in Nat
          /\ stats'.untimed + stats'.malformed = stats.untimed + stats.malformed + 1
      BY <2>8
    <3> DEFINE u == stats.untimed     m == stats.malformed    n == Len(events)
               v == stats'.untimed    o == stats'.malformed
    <3> HIDE DEF seen, now, u, m, n, v, o
    <3>6. Cardinality(seen) = n + u + m /\ u \in Nat /\ m \in Nat /\ n \in Nat
      BY <3>3, <3>4 DEF u, m, n
    <3>7. v \in Nat /\ o \in Nat /\ v + o = u + m + 1  BY <3>5 DEF u, m, v, o
    <3>8. Cardinality(now) = n + v + o  BY <3>2, <3>6, <3>7
    <3> QED  BY <3>8 DEF n, v, o
  <2>10. OnTrip(A, i, B \ {b})'  BY <1>1, <1>2, <2>1, <2>3 DEF OnTrip
  <2>11. WalkAt(A, i, B \ {b})'
    BY <1>1, <1>2, <2>1, <2>2, <2>3, <2>5, <2>7, <2>8, <2>9, <2>10 DEF WalkAt
  <2>12. EventsListed'  BY <1>2, <2>1 DEF WalkInv, EventsListed
  <2>13. B \ {b} \in SUBSET DOMAIN feed.stop_times  OBVIOUS
  <2> QED  BY <1>2, <1>4, <2>1, <2>11, <2>12, <2>13
<1>11. CASE Emit
  <2>1. /\ stage = "date" /\ stage' = "date"
        /\ UNCHANGED <<date, services, trips, trip>>
        /\ calls # <<>> /\ calls' = Tail(calls) /\ Timed(Head(calls))
        /\ Resolvable(date, zone)
        /\ events' = Append(events, EventOf(trip, Head(calls), date))
        /\ services \subseteq services_on(date) /\ date \in Dates
    BY <1>11 DEF Emit, WalkInv, EventsFromRows
  <2>2. stats'.untimed = stats.untimed /\ stats'.malformed = stats.malformed
    <3>1. \E n : stats' = [stats EXCEPT !.crossing = n]  BY <1>11 DEF Emit
    <3> QED  BY <3>1
  <2>3. PICK A \in SUBSET DOMAIN feed.trips, i \in Nat, B \in SUBSET DOMAIN feed.stop_times :
           WalkAt(A, i, B)
    BY <2>1 DEF WalkInv
  <2>4. PICK b \in B :
           /\ Head(calls) = feed.stop_times[b] /\ trip = feed.trips[i]
           /\ OnTrip(A, i, B)
           /\ Listed(Tail(calls), feed.stop_times, B \ {b})
           /\ PairLeaves(A, i, B, b)
    BY <2>1, <2>3, TakeCall
  <2> DEFINE q == <<i, b>>
             seen == Joined(date) \ Left(A, i, B)
             now == Joined(date) \ Left(A, i, B \ {b})
             e == EventOf(trip, Head(calls), date)
  <2>5. q \in Joined(date) /\ q \notin seen /\ now = seen \cup {q}
    BY <2>4 DEF PairLeaves
  <2>6. Left(A, i, B \ {b})' = Left(A, i, B \ {b})
    BY <1>1, <1>2, <2>1 DEF Left
  <2>7. q \in TimedCalls(date)  BY <2>1, <2>4, <2>5 DEF TimedCalls
  <2>8. /\ TimedCalls(date) \ Left(A, i, B \ {b})
           = (TimedCalls(date) \ Left(A, i, B)) \cup {q}
        /\ q \notin TimedCalls(date) \ Left(A, i, B)
    BY <2>5, <2>7, JoinedFinite
  <2>9. e = EventAt(date)[q]
    <3>1. q \in (DOMAIN feed.trips) \X (DOMAIN feed.stop_times)  BY <2>5, JoinedFinite
    <3> QED  BY <2>4, <3>1 DEF EventAt
  <2>10. events \in Seq(EventSet) /\ e \in EventSet
    <3>1. /\ trip \in TripSet /\ Head(calls) \in CallsOf(trip.trip_id)
          /\ Head(calls) \in CallSet
      BY <2>1 DEF EventsFromRows, CallsOf
    <3> DEFINE w == <<trip, Head(calls), date>>
               W == {x \in TripSet \X CallSet \X Dates :
                       x[2] \in CallsOf(x[1].trip_id) /\ Timed(x[2]) /\ Resolvable(x[3], zone)}
    <3>2. w \in W  BY <2>1, <3>1
    <3>3. EventSet = {EventOf(x[1], x[2], x[3]) : x \in W}  BY DEF EventSet
    <3> HIDE DEF W
    <3>4. e \in EventSet  BY <3>2, <3>3
    <3> QED  BY <3>4 DEF EventsFromRows
  <2> HIDE DEF e, q
  <2>11. Listed(events', EventAt(date), TimedCalls(date) \ Left(A, i, B \ {b}))
    <3>1. Listed(events, EventAt(date), TimedCalls(date) \ Left(A, i, B))
      BY <2>3 DEF WalkAt
    <3>2. Listed(Append(events, e), EventAt(date), (TimedCalls(date) \ Left(A, i, B)) \cup {q})
      BY <2>8, <2>9, <2>10, <3>1, ListedAppend
    <3> QED  BY <2>1, <2>8, <3>2 DEF e
  <2>12. Cardinality(now) = Len(events') + stats'.untimed + stats'.malformed
    <3>1. IsFiniteSet(seen)  BY JoinedFinite, FS_Difference
    <3>2. Cardinality(now) = Cardinality(seen) + 1  BY <2>5, <3>1, FS_AddElement
    <3>3. Len(events) \in Nat /\ Len(events') = Len(events) + 1
      BY <2>1, <2>10 DEF e
    <3>4. /\ Cardinality(seen) = Len(events) + stats.untimed + stats.malformed
          /\ stats.untimed \in Nat /\ stats.malformed \in Nat
      BY <2>3 DEF WalkAt
    <3> DEFINE u == stats.untimed     m == stats.malformed    n == Len(events)
    <3> HIDE DEF seen, now, u, m, n
    <3>5. Cardinality(seen) = n + u + m /\ u \in Nat /\ m \in Nat /\ n \in Nat
      BY <3>3, <3>4 DEF u, m, n
    <3>6. Cardinality(now) = (n + 1) + u + m  BY <3>2, <3>5
    <3> QED  BY <2>2, <3>3, <3>6 DEF u, m, n
  <2>13. OnTrip(A, i, B \ {b})'  BY <1>1, <1>2, <2>1, <2>4 DEF OnTrip
  <2>14. WalkAt(A, i, B \ {b})'
    <3>1. /\ Listed(trips, feed.trips, A)
          /\ \A a \in A : feed.trips[a].service_id \in services_on(date) \ services
          /\ stats \in [trips : Nat, untimed : Nat, malformed : Nat, crossing : Nat]
      BY <2>3 DEF WalkAt
    <3>2. stats' \in [trips : Nat, untimed : Nat, malformed : Nat, crossing : Nat]
      <4> DEFINE crossing == IF e.crosses_midnight THEN stats.crossing + 1 ELSE stats.crossing
      <4>1. stats' = [stats EXCEPT !.crossing = crossing]  BY <1>11 DEF Emit, e
      <4>2. crossing \in Nat  BY <3>1
      <4> HIDE DEF crossing
      <4> QED  BY <3>1, <4>1, <4>2
    <3>3. /\ services_on(date)' = services_on(date) /\ EventAt(date)' = EventAt(date)
          /\ TimedCalls(date)' = TimedCalls(date) /\ Joined(date)' = Joined(date)
          /\ services' = services /\ trips' = trips /\ calls' = Tail(calls)
      BY <1>2, <2>1
    <3> QED  BY <1>1, <2>4, <2>6, <2>11, <2>12, <2>13, <3>1, <3>2, <3>3 DEF WalkAt
  <2>15. EventsListed'
    <3>1. TimedCalls(date) \ Left(A, i, B \ {b}) \in SUBSET Joined(date)  BY JoinedFinite
    <3> QED  BY <1>2, <2>1, <2>11, <3>1 DEF EventsListed
  <2>16. B \ {b} \in SUBSET DOMAIN feed.stop_times  OBVIOUS
  <2> QED  BY <1>2, <1>4, <2>1, <2>14, <2>15, <2>16
<1>12. CASE UNCHANGED vars
  <2>1. UNCHANGED <<stage, date, loops, found>>  BY <1>12 DEF vars
  <2>2. \A A, i, B : Left(A, i, B)' = Left(A, i, B)  BY <1>1, <1>2, <2>1 DEF Left
  <2>3. ASSUME NEW A, NEW i, NEW B PROVE WalkAt(A, i, B)' <=> WalkAt(A, i, B)
    <3>1. OnTrip(A, i, B)' <=> OnTrip(A, i, B)  BY <1>1, <1>2, <2>1 DEF OnTrip
    <3> QED  BY <1>1, <1>2, <2>1, <2>2, <3>1 DEF WalkAt
  <2>4. EventsListed'  BY <1>2, <2>1 DEF WalkInv, EventsListed
  <2> QED  BY <1>1, <1>2, <2>1, <2>3, <2>4 DEF WalkInv
<1> QED  BY <1>5, <1>6, <1>7, <1>8, <1>9, <1>10, <1>11, <1>12 DEF Next

Rows == EventsFromRows /\ feed \in Feeds /\ zone \in Zones

LEMMA WalkInvariant == Spec => [](Rows /\ IndexInv /\ WalkInv)
<1>1. Init => IndexInv /\ WalkInv
  <2> SUFFICES ASSUME Init PROVE IndexInv /\ WalkInv
    OBVIOUS
  <2> USE DEF Init, Start
  <2>1. \A s : TripRowsOf(s, TripsRead) = {} /\ CallRowsOf(s, CallsRead) = {}
    BY DEF TripRowsOf, TripsRead, CallRowsOf, CallsRead
  <2>2. IndexInv  BY <2>1, ListedEmpty DEF IndexInv
  <2> QED  BY <2>2 DEF WalkInv, EventsListed
<1>2. Rows /\ IndexInv /\ WalkInv /\ Rows' /\ [Next]_vars => (IndexInv /\ WalkInv)'
  BY IndexStep, WalkStep DEF Rows
<1>3. Spec => []Rows  BY RowsInvariant, PTL DEF Rows
<1> QED  BY <1>1, <1>2, <1>3, PTL DEF Spec

\* When the loops are through, nothing is left.
LEMMA DateListed ==
    ASSUME WalkInv, DateWalked
    PROVE  /\ Listed(events, EventAt(date), TimedCalls(date))
           /\ Cardinality(Joined(date)) = Len(events) + stats.untimed + stats.malformed
           /\ stats \in [trips : Nat, untimed : Nat, malformed : Nat, crossing : Nat]
<1>1. PICK A \in SUBSET DOMAIN feed.trips, i \in Nat, B \in SUBSET DOMAIN feed.stop_times :
         WalkAt(A, i, B)
  BY DEF WalkInv, DateWalked
<1>2. A = {} /\ B = {}  BY <1>1, ListedEmpty DEF WalkAt, DateWalked
<1>3. Left(A, i, B) = {}  BY <1>2 DEF Left, DateWalked
<1>4. /\ TimedCalls(date) \ Left(A, i, B) = TimedCalls(date)
      /\ Joined(date) \ Left(A, i, B) = Joined(date)
  BY <1>3
<1> QED  BY <1>1, <1>4 DEF WalkAt

\* Every timed call of the two files, on a date its service runs, is one event of
\* that date, as often as the files have it and no more: the indexes, the sort and
\* the three loops lose no call and repeat none.
THEOREM EveryCallBecomesAnEvent == Spec => []EveryCallOnce
<1>1. Rows /\ WalkInv => EveryCallOnce
  <2> SUFFICES ASSUME Rows, WalkInv, DateWalked
               PROVE  /\ Len(events) = Cardinality(TimedCalls(date))
                      /\ \A e \in {events[n] : n \in DOMAIN events} :
                            Cardinality({n \in DOMAIN events : events[n] = e})
                            = Cardinality({p \in TimedCalls(date) :
                                EventOf(feed.trips[p[1]], feed.stop_times[p[2]], date) = e})
    BY DEF EveryCallOnce
  <2>1. Listed(events, EventAt(date), TimedCalls(date))  BY DateListed
  <2>2. events \in Seq(EventSet)  BY DEF Rows, EventsFromRows
  <2>3. Cardinality(TimedCalls(date)) = Len(events)  BY <2>1, <2>2, ListedLength
  <2>4. \A p \in TimedCalls(date) :
           EventAt(date)[p] = EventOf(feed.trips[p[1]], feed.stop_times[p[2]], date)
    BY JoinedFinite DEF EventAt, Rows
  <2>5. ASSUME NEW e
        PROVE  Cardinality({n \in DOMAIN events : events[n] = e})
               = Cardinality({p \in TimedCalls(date) :
                   EventOf(feed.trips[p[1]], feed.stop_times[p[2]], date) = e})
    <3>1. Cardinality(Having(events, DOMAIN events, e))
          = Cardinality(Having(EventAt(date), TimedCalls(date), e))
      BY <2>1, <2>2, ListedAlike
    <3>2. Having(EventAt(date), TimedCalls(date), e)
          = {p \in TimedCalls(date) :
               EventOf(feed.trips[p[1]], feed.stop_times[p[2]], date) = e}
      BY <2>4 DEF Having
    <3>3. Having(events, DOMAIN events, e) = {n \in DOMAIN events : events[n] = e}
      BY DEF Having
    <3> QED  BY <3>1, <3>2, <3>3
  <2> QED  BY <2>3, <2>5
<1> QED  BY <1>1, WalkInvariant, PTL

-----------------------------------------------------------------------------
(* Keys *)

\* Where there are as many keys as rows, no key stands in two of them.
LEMMA NoDuplicates ==
    ASSUME NEW n \in Nat, NEW keys,
           NEW f \in [1..n -> keys], \A k \in keys : \E m \in 1..n : f[m] = k,
           ~(Cardinality(keys) < n)
    PROVE  \A k, m \in 1..n : f[k] = f[m] => k = m
<1>1. IsFiniteSet(1..n) /\ Cardinality(1..n) = n  BY FS_Interval
<1>2. f \in Surjection(1..n, keys)  BY Fun_IsSurj
<1>3. /\ IsFiniteSet(keys) /\ Cardinality(keys) <= n
      /\ Cardinality(keys) = n => f \in Injection(1..n, keys)
  BY <1>1, <1>2, FS_Surjection
<1>4. Cardinality(keys) \in Nat  BY <1>3, FS_CardinalityType
<1>5. f \in Injection(1..n, keys)  BY <1>3, <1>4
<1> QED  BY <1>5, Fun_InjectionProperties

LEMMA UniqueKeys ==
    ASSUME feed \in Feeds, ~Duplicated
    PROVE  /\ \A k, m \in DOMAIN feed.trips :
                 feed.trips[k].trip_id = feed.trips[m].trip_id => k = m
           /\ \A k, m \in DOMAIN feed.routes :
                 feed.routes[k].route_id = feed.routes[m].route_id => k = m
           /\ \A k, m \in DOMAIN feed.stops :
                 feed.stops[k].stop_id = feed.stops[m].stop_id => k = m
<1>1. /\ DOMAIN feed.trips = 1..Len(feed.trips) /\ Len(feed.trips) \in Nat
      /\ DOMAIN feed.routes = 1..Len(feed.routes) /\ Len(feed.routes) \in Nat
      /\ DOMAIN feed.stops = 1..Len(feed.stops) /\ Len(feed.stops) \in Nat
  BY DEF Feeds
<1>2. \A k, m \in DOMAIN feed.trips : feed.trips[k].trip_id = feed.trips[m].trip_id => k = m
  <2> DEFINE f == [k \in DOMAIN feed.trips |-> feed.trips[k].trip_id]
  <2>1. f \in [1..Len(feed.trips) -> TripIds]  BY <1>1 DEF TripIds
  <2>2. \A id \in TripIds : \E m \in 1..Len(feed.trips) : f[m] = id  BY <1>1 DEF TripIds
  <2>3. ~(Cardinality(TripIds) < Len(feed.trips))  BY DEF Duplicated
  <2> HIDE DEF f
  <2>4. Len(feed.trips) \in Nat  BY <1>1
  <2>5. \A k, m \in 1..Len(feed.trips) : f[k] = f[m] => k = m
    BY <2>1, <2>2, <2>3, <2>4, NoDuplicates
  <2> QED  BY <1>1, <2>5 DEF f
<1>3. \A k, m \in DOMAIN feed.routes :
         feed.routes[k].route_id = feed.routes[m].route_id => k = m
  <2> DEFINE f == [k \in DOMAIN feed.routes |-> feed.routes[k].route_id]
  <2>1. f \in [1..Len(feed.routes) -> RouteIds]  BY <1>1 DEF RouteIds
  <2>2. \A id \in RouteIds : \E m \in 1..Len(feed.routes) : f[m] = id  BY <1>1 DEF RouteIds
  <2>3. ~(Cardinality(RouteIds) < Len(feed.routes))  BY DEF Duplicated
  <2> HIDE DEF f
  <2>4. Len(feed.routes) \in Nat  BY <1>1
  <2>5. \A k, m \in 1..Len(feed.routes) : f[k] = f[m] => k = m
    BY <2>1, <2>2, <2>3, <2>4, NoDuplicates
  <2> QED  BY <1>1, <2>5 DEF f
<1>4. \A k, m \in DOMAIN feed.stops : feed.stops[k].stop_id = feed.stops[m].stop_id => k = m
  <2> DEFINE f == [k \in DOMAIN feed.stops |-> feed.stops[k].stop_id]
  <2>1. f \in [1..Len(feed.stops) -> StopIds]  BY <1>1 DEF StopIds
  <2>2. \A id \in StopIds : \E m \in 1..Len(feed.stops) : f[m] = id  BY <1>1 DEF StopIds
  <2>3. ~(Cardinality(StopIds) < Len(feed.stops))  BY DEF Duplicated
  <2> HIDE DEF f
  <2>4. Len(feed.stops) \in Nat  BY <1>1
  <2>5. \A k, m \in 1..Len(feed.stops) : f[k] = f[m] => k = m
    BY <2>1, <2>2, <2>3, <2>4, NoDuplicates
  <2> QED  BY <1>1, <2>5 DEF f
<1> QED  BY <1>2, <1>3, <1>4

\* Each event stands for another call of one date.
LEMMA EventsApart ==
    ASSUME EventsListed, events # <<>>
    PROVE  \E d \in Dates : \E P \in [DOMAIN events -> Joined(d)] :
              /\ \A k, l \in DOMAIN events : P[k] = P[l] => k = l
              /\ \A k \in DOMAIN events :
                    events[k] = EventOf(feed.trips[P[k][1]], feed.stop_times[P[k][2]], d)
<1>1. PICK d \in Dates : \E rows \in SUBSET Joined(d) : Listed(events, EventAt(d), rows)
  BY DEF EventsListed
<1>2. PICK rows \in SUBSET Joined(d) : Listed(events, EventAt(d), rows)  BY <1>1
<1>3. PICK P : Lists(P, events, EventAt(d), rows)  BY <1>2 DEF Listed
<1>4. P \in [DOMAIN events -> Joined(d)]  BY <1>3 DEF Lists
<1>5. ASSUME NEW k \in DOMAIN events
      PROVE  events[k] = EventOf(feed.trips[P[k][1]], feed.stop_times[P[k][2]], d)
  <2>1. P[k] \in (DOMAIN feed.trips) \X (DOMAIN feed.stop_times)  BY <1>4 DEF Joined
  <2>2. events[k] = EventAt(d)[P[k]]  BY <1>3 DEF Lists
  <2> QED  BY <2>1, <2>2 DEF EventAt
<1> QED  BY <1>3, <1>4, <1>5 DEF Lists

\* The id of an event, a hash of four of its fields, names one call of the feed:
\* whatever the rows, as long as no two calls of a trip have one position and the
\* feed passed the check.
THEOREM IdsNameOneCall == Spec => []IdsAreUnique
<1>1. Rows /\ WalkInv => IdsAreUnique
  <2> SUFFICES ASSUME Rows, WalkInv, ~allow,
                      \A i, j \in DOMAIN feed.stop_times :
                        /\ feed.stop_times[i].trip_id = feed.stop_times[j].trip_id
                        /\ feed.stop_times[i].stop_sequence = feed.stop_times[j].stop_sequence
                        => i = j,
                      NEW k \in DOMAIN events, NEW l \in DOMAIN events,
                      events[k].event_id = events[l].event_id
               PROVE  k = l
    BY DEF IdsAreUnique
  <2>1. events # <<>>  OBVIOUS
  <2>2. ~Duplicated  BY <2>1 DEF Rows, EventsFromRows, Violations
  <2>3. PICK d \in Dates : \E P \in [DOMAIN events -> Joined(d)] :
           /\ \A m, n \in DOMAIN events : P[m] = P[n] => m = n
           /\ \A m \in DOMAIN events :
                 events[m] = EventOf(feed.trips[P[m][1]], feed.stop_times[P[m][2]], d)
    BY <2>1, EventsApart DEF WalkInv
  <2>4. PICK P \in [DOMAIN events -> Joined(d)] :
           /\ \A m, n \in DOMAIN events : P[m] = P[n] => m = n
           /\ \A m \in DOMAIN events :
                 events[m] = EventOf(feed.trips[P[m][1]], feed.stop_times[P[m][2]], d)
    BY <2>3
  <2> DEFINE p == P[k]
             q == P[l]
  <2>5. p \in Joined(d) /\ q \in Joined(d)  BY <2>4
  <2>6. /\ feed.trips[p[1]].trip_id = feed.trips[q[1]].trip_id
        /\ feed.stop_times[p[2]].stop_sequence = feed.stop_times[q[2]].stop_sequence
    <3>1. /\ events[k].event_id = event_id(d, feed.trips[p[1]], feed.stop_times[p[2]])
          /\ events[l].event_id = event_id(d, feed.trips[q[1]], feed.stop_times[q[2]])
      BY <2>4 DEF EventOf
    <3>2. \A t, c : event_id(d, t, c)[3] = t.trip_id /\ event_id(d, t, c)[4] = c.stop_sequence
      BY DEF event_id
    <3>3. event_id(d, feed.trips[p[1]], feed.stop_times[p[2]])
          = event_id(d, feed.trips[q[1]], feed.stop_times[q[2]])
      BY <3>1
    <3> HIDE DEF p, q
    <3> QED  BY <3>2, <3>3
  <2> HIDE DEF p, q
  <2>7. /\ p = <<p[1], p[2]>> /\ q = <<q[1], q[2]>>
        /\ p[1] \in DOMAIN feed.trips /\ q[1] \in DOMAIN feed.trips
        /\ p[2] \in DOMAIN feed.stop_times /\ q[2] \in DOMAIN feed.stop_times
        /\ feed.stop_times[p[2]].trip_id = feed.trips[p[1]].trip_id
        /\ feed.stop_times[q[2]].trip_id = feed.trips[q[1]].trip_id
    BY <2>5 DEF Joined
  <2>8. p[1] = q[1]  BY <2>2, <2>6, <2>7, UniqueKeys DEF Rows
  <2>9. p[2] = q[2]  BY <2>6, <2>7
  <2>10. p = q  BY <2>7, <2>8, <2>9
  <2> QED  BY <2>4, <2>10 DEF p, q
<1> QED  BY <1>1, WalkInvariant, PTL

-----------------------------------------------------------------------------
(* The order of the calls *)

\* Along each trip the positions of the events never fall.
AlongTrips(list) ==
    \A k, l \in DOMAIN list :
        k < l /\ list[k].trip_id = list[l].trip_id =>
            list[k].stop_sequence <= list[l].stop_sequence

\* ... and what is left of a trip comes after what it has.
OrderInv ==
    ~Duplicated =>
        /\ AlongTrips(events)
        /\ stage = "date" =>
              /\ InOrder(calls)
              /\ \A n \in DOMAIN events, m \in DOMAIN calls :
                    events[n].trip_id = trip.trip_id =>
                        events[n].stop_sequence <= calls[m].stop_sequence

\* A trip the loops still hold has no event yet.
LEMMA TripIsNew ==
    ASSUME Rows, WalkInv, ~Duplicated, stage = "date", trips # <<>>,
           NEW n \in DOMAIN events
    PROVE  events[n].trip_id # Head(trips).trip_id
<1> SUFFICES ASSUME events[n].trip_id = Head(trips).trip_id PROVE FALSE
  OBVIOUS
<1>1. PICK A \in SUBSET DOMAIN feed.trips, i \in Nat, B \in SUBSET DOMAIN feed.stop_times :
         WalkAt(A, i, B)
  BY DEF WalkInv
<1>2. PICK r \in A : Head(trips) = feed.trips[r]
  BY <1>1, ListedTail DEF WalkAt, Rows, EventsFromRows
<1>3. PICK P : Lists(P, events, EventAt(date), TimedCalls(date) \ Left(A, i, B))
  BY <1>1 DEF WalkAt, Listed
<1> DEFINE p == P[n]
<1>4. p \in TimedCalls(date) /\ p \notin Left(A, i, B) /\ events[n] = EventAt(date)[p]
  BY <1>3 DEF Lists
<1> HIDE DEF p
<1>5. /\ p \in Joined(date) /\ p \in (DOMAIN feed.trips) \X (DOMAIN feed.stop_times)
      /\ p[1] \in DOMAIN feed.trips
  BY <1>4, JoinedFinite DEF Rows
<1>6. events[n].trip_id = feed.trips[p[1]].trip_id
  <2>1. events[n] = EventOf(feed.trips[p[1]], feed.stop_times[p[2]], date)
    BY <1>4, <1>5 DEF EventAt
  <2> QED  BY <2>1 DEF EventOf
<1>7. p[1] = r  BY <1>2, <1>5, <1>6, UniqueKeys DEF Rows
<1>8. p \in Left(A, i, B)  BY <1>5, <1>7 DEF Left
<1> QED  BY <1>4, <1>8

LEMMA OrderStep ==
    Rows /\ IndexInv /\ WalkInv /\ OrderInv /\ [Next]_vars => OrderInv'
<1> SUFFICES ASSUME Rows, IndexInv, WalkInv, OrderInv, [Next]_vars
             PROVE  OrderInv'
  OBVIOUS
<1>0. feed' = feed /\ (Duplicated' <=> Duplicated)
  <2>1. feed' = feed  BY InputsFixed
  <2> QED  BY <2>1 DEF Duplicated, RouteIds, StopIds, TripIds
<1> SUFFICES ASSUME ~Duplicated
             PROVE  /\ AlongTrips(events)'
                    /\ stage' = "date" =>
                          /\ InOrder(calls)'
                          /\ \A n \in DOMAIN events', m \in DOMAIN calls' :
                                events'[n].trip_id = trip'.trip_id =>
                                    events'[n].stop_sequence <= calls'[m].stop_sequence
  BY <1>0 DEF OrderInv
<1> USE DEF found, loops
<1>1. /\ AlongTrips(events)
      /\ stage = "date" =>
            /\ InOrder(calls)
            /\ \A n \in DOMAIN events, m \in DOMAIN calls :
                  events[n].trip_id = trip.trip_id =>
                      events[n].stop_sequence <= calls[m].stop_sequence
  BY DEF OrderInv
<1>2. ASSUME UNCHANGED events, stage' # "date"
      PROVE  AlongTrips(events)'
  BY <1>1, <1>2 DEF AlongTrips
<1>3. CASE Check \/ BuildCalendar \/ IndexTrip \/ EndTrips \/ IndexStopTime \/ SortCalls
  BY <1>2, <1>3 DEF Check, BuildCalendar, IndexTrip, EndTrips, IndexStopTime, SortCalls
<1>4. CASE EndDate \/ EndDates \/ WriteRoutes \/ WriteStops \/ WriteFails \/ Unresolvable
  BY <1>2, <1>4 DEF Unresolvable, EndDate, DateWalked, EndDates, WriteRoutes, WriteStops,
       WriteFails
<1>5. CASE StartDate
  <2>1. events' = <<>> /\ calls' = <<>>  BY <1>5 DEF StartDate, WalkInv
  <2> QED  BY <2>1 DEF AlongTrips, InOrder
<1>6. CASE NextService
  <2>1. events' = events /\ calls' = <<>>  BY <1>6 DEF NextService
  <2> QED  BY <1>1, <2>1 DEF AlongTrips, InOrder
<1>7. CASE NextTrip
  <2>1. /\ stage = "date" /\ trips # <<>> /\ trip' = Head(trips) /\ events' = events
        /\ calls' = stop_times_by_trip[Head(trips).trip_id]
    BY <1>7 DEF NextTrip
  <2>2. Head(trips) \in TripRows  BY <2>1 DEF Rows, EventsFromRows, TripSet, Feeds
  <2>3. InOrder(calls')  BY <2>1, <2>2 DEF IndexInv, TripRows
  <2>4. \A n \in DOMAIN events : events[n].trip_id # Head(trips).trip_id
    BY <2>1, TripIsNew
  <2> QED  BY <1>1, <2>1, <2>3, <2>4 DEF AlongTrips, InOrder
<1>8. ASSUME stage = "date", calls # <<>>, calls' = Tail(calls), trip' = trip
      PROVE  /\ InOrder(calls)' /\ 1 \in DOMAIN calls /\ Head(calls) = calls[1]
             /\ \A m \in DOMAIN calls' :
                   /\ m + 1 \in DOMAIN calls /\ calls'[m] = calls[m + 1]
                   /\ Head(calls).stop_sequence <= calls'[m].stop_sequence
  <2>1. calls \in Seq(CallsOf(trip.trip_id))  BY <1>8 DEF Rows, EventsFromRows
  <2>2. /\ DOMAIN calls = 1..Len(calls) /\ Len(calls) \in Nat \ {0}
        /\ DOMAIN calls' = 1..(Len(calls) - 1) /\ Head(calls) = calls[1]
        /\ \A m \in 1..(Len(calls) - 1) : calls'[m] = calls[m + 1]
    BY <1>8, <2>1
  <2>3. /\ 1 \in DOMAIN calls
        /\ \A m \in DOMAIN calls' :
              m \in Int /\ m + 1 \in DOMAIN calls /\ 1 < m + 1 /\ calls'[m] = calls[m + 1]
    BY <2>2
  <2>4. \A k, l \in DOMAIN calls :
           k < l => calls[k].stop_sequence <= calls[l].stop_sequence
    BY <1>1, <1>8 DEF InOrder
  <2>5. \A m \in DOMAIN calls' : Head(calls).stop_sequence <= calls'[m].stop_sequence
    BY <2>2, <2>3, <2>4
  <2>6. ASSUME NEW k \in DOMAIN calls', NEW l \in DOMAIN calls', k < l
        PROVE  calls'[k].stop_sequence <= calls'[l].stop_sequence
    <3>1. k + 1 < l + 1  BY <2>3, <2>6
    <3> QED  BY <2>3, <2>4, <3>1
  <2> QED  BY <2>2, <2>3, <2>5, <2>6 DEF InOrder
<1>9. CASE DropMalformed \/ DropUntimed
  <2>1. /\ stage = "date" /\ calls # <<>> /\ calls' = Tail(calls) /\ trip' = trip
        /\ events' = events
    BY <1>9 DEF DropMalformed, DropUntimed
  <2>2. ASSUME NEW n \in DOMAIN events', NEW m \in DOMAIN calls',
               events'[n].trip_id = trip'.trip_id
        PROVE  events'[n].stop_sequence <= calls'[m].stop_sequence
    BY <1>1, <1>8, <2>1, <2>2
  <2>3. AlongTrips(events)'  BY <1>1, <2>1 DEF AlongTrips
  <2> QED  BY <1>8, <2>1, <2>2, <2>3
<1>10. CASE Emit
  <2> DEFINE e == EventOf(trip, Head(calls), date)
             n == Len(events) + 1
  <2>1. /\ stage = "date" /\ calls # <<>> /\ calls' = Tail(calls) /\ trip' = trip
        /\ events' = Append(events, e)
    BY <1>10 DEF Emit
  <2>2. e.trip_id = trip.trip_id /\ e.stop_sequence = Head(calls).stop_sequence
    BY DEF EventOf
  <2> HIDE DEF e
  <2>3. /\ DOMAIN events' = (DOMAIN events) \cup {n} /\ events'[n] = e
        /\ \A k \in DOMAIN events : events'[k] = events[k] /\ k \in Int /\ k < n
    <3>1. events \in Seq(EventSet)  BY DEF Rows, EventsFromRows
    <3>2. Len(events) \in Nat /\ DOMAIN events = 1..Len(events)  BY <3>1
    <3>3. /\ DOMAIN Append(events, e) = 1..n /\ Append(events, e)[n] = e
          /\ \A k \in 1..Len(events) : Append(events, e)[k] = events[k]
      BY <3>1
    <3> QED  BY <2>1, <3>2, <3>3
  <2>4. n \in Int /\ ~(n < n) /\ \A k \in DOMAIN events : ~(n < k)
    <3>1. Len(events) \in Nat  BY DEF Rows, EventsFromRows
    <3>2. n \in Int  BY <3>1
    <3> QED  BY <2>3, <3>2
  <2> HIDE DEF n
  <2>5. \A k \in DOMAIN events, m \in DOMAIN calls :
           events[k].trip_id = trip.trip_id =>
               events[k].stop_sequence <= calls[m].stop_sequence
    BY <1>1, <2>1
  <2>6. /\ 1 \in DOMAIN calls /\ Head(calls) = calls[1] /\ InOrder(calls)'
        /\ \A m \in DOMAIN calls' :
              /\ m + 1 \in DOMAIN calls /\ calls'[m] = calls[m + 1]
              /\ Head(calls).stop_sequence <= calls'[m].stop_sequence
    BY <1>8, <2>1
  <2>7. ASSUME NEW k \in DOMAIN events', NEW l \in DOMAIN events',
               k < l, events'[k].trip_id = events'[l].trip_id
        PROVE  events'[k].stop_sequence <= events'[l].stop_sequence
    <3>1. k \in DOMAIN events /\ (l \in DOMAIN events \/ l = n)  BY <2>3, <2>4, <2>7
    <3>2. CASE l \in DOMAIN events  BY <1>1, <2>3, <2>7, <3>1, <3>2 DEF AlongTrips
    <3>3. CASE l = n
      <4>1. events[k].trip_id = trip.trip_id  BY <2>2, <2>3, <2>7, <3>1, <3>3
      <4> QED  BY <2>2, <2>3, <2>5, <2>6, <3>1, <3>3, <4>1
    <3> QED  BY <3>1, <3>2, <3>3
  <2>8. ASSUME NEW k \in DOMAIN events', NEW m \in DOMAIN calls',
               events'[k].trip_id = trip'.trip_id
        PROVE  events'[k].stop_sequence <= calls'[m].stop_sequence
    <3>1. CASE k \in DOMAIN events
      <4>1. events[k].trip_id = trip.trip_id  BY <2>1, <2>3, <2>8, <3>1
      <4> QED  BY <2>3, <2>5, <2>6, <3>1, <4>1
    <3>2. CASE k = n  BY <2>2, <2>3, <2>6, <3>2
    <3> QED  BY <2>3, <3>1, <3>2
  <2> QED  BY <2>6, <2>7, <2>8 DEF AlongTrips
<1>11. CASE UNCHANGED vars
  <2>1. UNCHANGED <<events, stage, calls, trip>>  BY <1>11 DEF vars
  <2> QED  BY <1>1, <2>1 DEF AlongTrips, InOrder
<1> QED  BY <1>3, <1>4, <1>5, <1>6, <1>7, <1>9, <1>10, <1>11 DEF Next

\* No step leaves the inductive invariant of the walk.
LEMMA OrderInvariant == Spec => [](Rows /\ IndexInv /\ WalkInv /\ OrderInv)
<1>1. Init => OrderInv
  BY DEF Init, Start, OrderInv, AlongTrips
<1>2. Rows /\ IndexInv /\ WalkInv /\ OrderInv /\ [Next]_vars => OrderInv'
  BY OrderStep
<1> QED  BY <1>1, <1>2, WalkInvariant, PTL DEF Spec

=============================================================================
