------------------------------- MODULE Tables -------------------------------
(***************************************************************************)
(* What the rows of a feed become in the three Parquet tables: the columns *)
(* of src/rust/transit-ingest/src/dataset (facts.rs, dimensions.rs), with  *)
(* the keys of config.rs and the names of gtfs/records.rs.                 *)
(*                                                                         *)
(* An optional field is a text or None; coordinates, colours and types of  *)
(* routes, which are only copied, are left out.  The prefix of a key is    *)
(* the same for every row of one agency, so a key is a pair.               *)
(***************************************************************************)
EXTENDS Integers, Sequences

CONSTANTS
    AgencyId,   \* the id of the agency in the registry
    Mode,       \* its mode
    MaxInt,     \* the largest value of a 32-bit column, 2^31 - 1 in the code
    None        \* an absent field, a null

ASSUME MaxIntAssumption == MaxInt \in Nat

Text == STRING \cup {None}

\* Rows of routes.txt and stops.txt.
RouteRows == [route_id : STRING, agency_id : Text, route_short_name : Text,
              route_long_name : Text]
StopRows  == [stop_id : STRING, stop_name : Text, location_type : Int \cup {None},
              parent_station : Text]

\* A field that is there and empty is absent.
non_empty(text) == IF text = "" THEN None ELSE text

\* route_key, stop_key
key(id) == <<AgencyId, id>>

\* The columns of a table, and whether each may be null.
Columns(required, nullable) == [c \in required \cup nullable |-> c \in nullable]

\* RecordBatch::try_new: every row has the columns of the schema, without a null
\* in one that may not be null.
try_new(rows, schema) ==
    \A n \in DOMAIN rows :
        /\ DOMAIN rows[n] = DOMAIN schema
        /\ \A c \in DOMAIN schema : schema[c] \/ rows[n][c] # None

-----------------------------------------------------------------------------
(* routes *)

routes_schema ==
    Columns({"route_key", "route_id", "agency_id", "mode", "display_name"},
            {"route_short_name", "route_long_name"})

\* What a rider would call the route.
display_name(r) ==
    IF non_empty(r.route_short_name) # None THEN r.route_short_name
    ELSE IF non_empty(r.route_long_name) # None THEN r.route_long_name
    ELSE r.route_id

RouteRecord(r) ==
    [route_key |-> key(r.route_id), route_id |-> r.route_id,
     agency_id |-> AgencyId, mode |-> Mode, display_name |-> display_name(r),
     route_short_name |-> non_empty(r.route_short_name),
     route_long_name |-> non_empty(r.route_long_name)]

-----------------------------------------------------------------------------
(* stops *)

stops_schema ==
    Columns({"stop_key", "stop_id", "agency_id", "is_station", "station_key",
             "borough", "municipality"},
            {"stop_name", "parent_station_key"})

parent_key(s) ==
    IF non_empty(s.parent_station) = None THEN None ELSE key(s.parent_station)

is_station(s) == s.location_type = 1

\* Mutant: a stop without a parent has no station.
parent_or_null(s) == parent_key(s)

\* The station of a stop: its parent, or the stop itself where there is none.
station_key(s) == IF parent_key(s) = None THEN key(s.stop_id) ELSE parent_key(s)

StopRecord(s) ==
    [stop_key |-> key(s.stop_id), stop_id |-> s.stop_id, agency_id |-> AgencyId,
     stop_name |-> non_empty(s.stop_name), is_station |-> is_station(s),
     parent_station_key |-> parent_key(s), station_key |-> station_key(s),
     borough |-> "Unknown", municipality |-> "Unknown"]

-----------------------------------------------------------------------------
(* scheduled_events *)

Realtime == {"actual_arrival", "delay_seconds", "headway_seconds", "is_cancelled",
             "schedule_relationship", "vehicle_id"}

facts_schema ==
    Columns({"event_id", "agency_id", "route_id", "route_key", "trip_id", "stop_id",
             "stop_key", "stop_sequence", "scheduled_arrival", "scheduled_departure",
             "dwell_seconds", "crosses_midnight", "local_hour", "service_period",
             "overnight"},
            {"direction_id"} \cup Realtime)

\* A stop_sequence is a u32, and its column an i32.
as_i32(n) == IF n <= MaxInt THEN n ELSE n - 2 * (MaxInt + 1)

\* The row of an event.  Its service date is the name of the partition, and the
\* realtime columns are null.
FactRecord(e) ==
    [c \in DOMAIN facts_schema |->
        CASE c = "overnight"     -> IF e.crosses_midnight THEN 1 ELSE 0
          [] c = "stop_sequence" -> as_i32(e.stop_sequence)
          [] c \in Realtime      -> None
          [] OTHER               -> e[c]]

-----------------------------------------------------------------------------
(* Nulls *)

\* What a column holds where it is not null: a text, a number, a truth value, or a
\* key or an id made of texts and numbers.
Values == STRING \cup Int \cup BOOLEAN \cup Seq(STRING \cup Int)

Table(schema) == Seq([DOMAIN schema -> Values \cup {None}])

\* A null is none of these, and neither is the absence of a table.
ASSUME NullAssumption ==
    /\ AgencyId \in STRING /\ Mode \in STRING
    /\ None \notin Values
    /\ \A schema \in {facts_schema, routes_schema, stops_schema} : None \notin Table(schema)

=============================================================================
