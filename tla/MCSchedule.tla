----------------------------- MODULE MCSchedule -----------------------------
(***************************************************************************)
(* Schedule over short files.  "wk" and "we" are the services, "ox" one no *)
(* calendar row defines; t1 calls twice at stop a; "z" and "r9" are keys   *)
(* no row defines.  The zones change in the night before date 2, forward   *)
(* or back, at its noon, or not at all.                                    *)
(***************************************************************************)
EXTENDS Schedule, TLC

CONSTANT MaxRows   \* bound: the rows of stop_times.txt

MCServices == <<"ox", "we", "wk">>

TripRow(t, r, s) ==
    [trip_id |-> t, route_id |-> r, service_id |-> s,
     direction_id |-> IF t = "t1" THEN None ELSE 0]

TripFiles ==
    {<<TripRow("t1", "r1", "wk")>>,
     <<TripRow("t2", "r1", "wk"), TripRow("t1", "r1", "we")>>,
     <<TripRow("t1", "r1", "wk"), TripRow("t1", "r1", "we")>>,
     <<TripRow("t1", "r9", "wk")>>,
     <<TripRow("t1", "r1", "ox"), TripRow("t2", "r1", "we")>>}

Call(t, s, n, arr, dep) ==
    [trip_id |-> t, stop_id |-> s, stop_sequence |-> n,
     arrival_time |-> arr, departure_time |-> dep]

Calls ==
    {Call("t1", "a", 1, <<23, 50, 0>>, Blank),
     Call("t1", "b", 2, <<24, 0, 0>>, <<24, 10, 0>>),
     Call("t1", "a", 3, Blank, <<26, 30, 0>>),
     Call("t1", "b", 1, <<7, 0, 0>>, <<6, 59, 0>>),
     Call("t1", "b", 0, Blank, Blank),
     Call("t1", "b", 5, <<25, 60, 0>>, <<26, 0, 0>>),
     Call("t1", "b", 5, <<25, 0, 0>>, Garbled),
     Call("t2", "a", 1, <<0, 30, 0>>, <<0, 30, 0>>),
     Call("t2", "z", 2, <<2, 30, 0>>, Blank),
     Call("t9", "a", 1, <<20, 0, 0>>, Blank)}

CallFiles == UNION {[1..n -> Calls] : n \in 0..MaxRows}

\* The dates of the services.
Calendars ==
    {[wk |-> {1, 2}, we |-> {2}, ox |-> {}], [wk |-> {1}, we |-> {}, ox |-> {}],
     [wk |-> {2}, we |-> {2}, ox |-> {}]}

Route(id, agency, short, long) ==
    [route_id |-> id, agency_id |-> agency, route_short_name |-> short,
     route_long_name |-> long]

Stop(id, type, parent) ==
    [stop_id |-> id, stop_name |-> None, location_type |-> type, parent_station |-> parent]

Flat == <<Stop("a", None, None), Stop("b", None, None)>>

\* Any calls, over flat stops of which one may stand in the file twice.
FeedsByCalls ==
    [agencies : {{}}, routes : {<<Route("r1", None, None, None)>>},
     stops : {Flat, Append(Flat, Stop("a", None, None))},
     services : {{"wk", "we"}}, valid : {TRUE}, dates : Calendars,
     trips : TripFiles, stop_times : CallFiles]

\* Any routes and stops under a trip: a platform with its station, with one no row
\* defines, or with an empty field; a route twice, or of an agency unheard of.
RouteFiles ==
    {<<Route("r1", a, "", "Branch")>> : a \in {None, "", "A", "B"}}
    \cup {<<Route("r1", None, s, None), Route("r1", None, None, "Line")>> : s \in {None, "1"}}
    \cup {<<Route("r2", None, None, None)>>}

StopFiles ==
    {<<Stop("a", 0, p), Stop("b", t, q)>> : p \in {None, "", "b", "z"}, t \in {None, 1},
                                            q \in {None, "a"}}
    \cup {<<Stop("a", 0, "b"), Stop("b", 1, None), Stop("a", 0, None)>>}

FeedsByRows ==
    [agencies : {{}, {"A"}}, routes : RouteFiles, stops : StopFiles,
     services : {{"wk", "we"}}, valid : BOOLEAN, dates : {[wk |-> {1, 2}, we |-> {2}, ox |-> {}]},
     trips : {<<TripRow("t2", "r1", "wk"), TripRow("t1", "r1", "we")>>},
     stop_times : {<<Call("t1", "b", 1, <<7, 0, 0>>, Blank),
                     Call("t2", "a", 1, <<0, 30, 0>>, <<0, 30, 0>>)>>}]

MCFeeds == FeedsByCalls \cup FeedsByRows

\* The night before date 2, at two in the morning, in New York.
MCZones ==
    {[change |-> 2 * Day + 7 * Hour, before |-> -5 * Hour, after |-> -4 * Hour],
     [change |-> 2 * Day + 6 * Hour, before |-> -4 * Hour, after |-> -5 * Hour],
     [change |-> 2 * Day + 16 * Hour, before |-> -4 * Hour, after |-> -3 * Hour],
     [change |-> 9 * Day, before |-> -5 * Hour, after |-> -4 * Hour]}

MCStart == feed \in MCFeeds /\ zone \in MCZones /\ allow \in BOOLEAN /\ Start

MCSpec == MCStart /\ [][Next]_vars

=============================================================================
