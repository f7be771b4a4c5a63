-------------------------------- MODULE Cube --------------------------------
(***************************************************************************)
(* The cube loads a dataset that builds may be writing                     *)
(* (src/python/transit-cube/src/transit_cube: load_tables of cube.py,      *)
(* dataset.py, main of serve.py), composed with Build.                     *)
(*                                                                         *)
(* A load lists the partitions and reads them, then the files of the       *)
(* routes, then those of the stops, and joins what it read.  It takes no   *)
(* lock: between any two reads a build may go on, or be killed.  A file    *)
(* that is torn cannot be read, and ends the load.  So does a fact of an   *)
(* agency that the cube's own registry lacks, a fact of a year without a   *)
(* holiday calendar, and a table without rows.                             *)
(***************************************************************************)
EXTENDS Build

CONSTANTS
    Filters,      \* the dates TDE_CUBE_DATES may ask for
    Registries,   \* the agencies the cube's registry may define, None if it is refused
    CoveredDates, \* the dates of the years in US_HOLIDAYS
    MaxLoads      \* bound: the loads of a behaviour

VARIABLES
    cube,        \* "down", "facts", "routes", "stops", "serving" or "failed"
    known,       \* the agencies of the registry this load reads
    wanted,      \* the dates this load asks for
    queue,       \* the files of the table being read that were listed and not read
    events,      \* events[a][d]: the partition that was read
    joined,      \* joined[t][a]: the dimension file that was read
    loads,
    succeeded,   \* history: a build without flags (NoCommand) has succeeded
    settled,     \* history: ... before this load began
    calm         \* history: the last build before it was such a one, and none ran since

load  == <<cube, known, wanted, queue, events, joined, loads>>
cvars == <<vars, load, succeeded, settled, calm>>

CubeInit ==
    /\ Init
    /\ cube = "down" /\ known = None /\ wanted = {} /\ queue = {} /\ loads = 0
    /\ events = [a \in Agencies |-> [d \in 1..MaxDate |-> None]]
    /\ joined = [t \in Tables |-> [a \in Agencies |-> None]]
    /\ succeeded = FALSE /\ settled = FALSE /\ calm = FALSE

-----------------------------------------------------------------------------

Partitions == {f \in Agencies \X (1..MaxDate) : facts[f[1]][f[2]] # None}

\* _check_agencies, over the facts that were read.
AgenciesAreKnown ==
    \A a \in Agencies, d \in 1..MaxDate : events[a][d] # None => a \in known

\* build_calendar: the year of every date that was read has its holidays.
DatesAreCovered ==
    \A a \in Agencies, d \in 1..MaxDate : events[a][d] # None => d \in CoveredDates

\* The table has no rows, in all the files together.
IsEmpty(table) ==
    \A a \in Agencies : joined[table][a] # None => Defines[joined[table][a]] = {}

\* serve.main, up to the reading of the facts: the registry is read, the partitions
\* are listed, one of them is opened for its schema, and those of the dates asked for
\* are to be read.  With nothing to read the load ends (DatasetError).
StartLoad ==
    /\ cube \in {"down", "failed"}
    /\ loads < MaxLoads /\ loads' = loads + 1
    /\ known' \in Registries
    /\ wanted' \in Filters
    /\ queue' = {f \in Partitions : f[2] \in wanted'}
    /\ \/ /\ \E f \in Partitions : facts[f[1]][f[2]] # Torn
          /\ cube' = IF known' = None \/ queue' = {} THEN "failed" ELSE "facts"
       \/ /\ Partitions = {} \/ \E f \in Partitions : facts[f[1]][f[2]] = Torn
          /\ cube' = "failed"
    /\ events' = [a \in Agencies |-> [d \in 1..MaxDate |-> None]]
    /\ joined' = [t \in Tables |-> [a \in Agencies |-> None]]
    /\ calm' = (status = "done" /\ command = NoCommand /\ changes = 0)
    /\ settled' = succeeded
    /\ UNCHANGED <<vars, succeeded>>

\* A partition is read, in the order the threads of the scanner happen to take.
ReadPartition ==
    /\ cube = "facts"
    /\ \E f \in queue :
          LET content == facts[f[1]][f[2]] IN
          IF content = Torn THEN cube' = "failed" /\ UNCHANGED <<queue, events>>
          ELSE /\ events' = [events EXCEPT ![f[1]][f[2]] = content]
               /\ queue' = queue \ {f}
               /\ UNCHANGED cube
    /\ UNCHANGED <<vars, known, wanted, joined, loads, succeeded, settled, calm>>

\* _load_dimension: the files of the next table are listed; there must be one.
ListDimension(table) ==
    /\ queue = {}
    /\ \/ cube = "facts" /\ table = "routes" /\ AgenciesAreKnown
       \/ cube = "routes" /\ table = "stops" /\ ~IsEmpty("routes")
    /\ queue' = {a \in Agencies : dims[table][a] # None}
    /\ cube' = IF queue' = {} THEN "failed" ELSE table
    /\ UNCHANGED <<vars, known, wanted, events, joined, loads, succeeded, settled, calm>>

ReadDimension ==
    /\ cube \in Tables
    /\ \E a \in queue :
          IF dims[cube][a] = Torn THEN cube' = "failed" /\ UNCHANGED <<queue, joined>>
          ELSE /\ joined' = [joined EXCEPT ![cube][a] = dims[cube][a]]
               /\ queue' = queue \ {a}
               /\ UNCHANGED cube
    /\ UNCHANGED <<vars, known, wanted, events, loads, succeeded, settled, calm>>

\* A table that was read whole is refused (ConfigError, DatasetError), or the calendar
\* of the facts' dates is (UncoveredYearError).
RefuseTable ==
    /\ queue = {}
    /\ \/ cube = "facts" /\ ~AgenciesAreKnown
       \/ cube = "routes" /\ IsEmpty("routes")
       \/ cube = "stops" /\ (IsEmpty("stops") \/ ~DatesAreCovered)
    /\ cube' = "failed"
    /\ UNCHANGED <<vars, known, wanted, queue, events, joined, loads, succeeded, settled, calm>>

\* The tables are joined and the cube is defined on them.
Serve ==
    /\ cube = "stops" /\ queue = {} /\ ~IsEmpty("stops") /\ DatesAreCovered
    /\ cube' = "serving"
    /\ UNCHANGED <<vars, known, wanted, queue, events, joined, loads, succeeded, settled, calm>>

\* A build, a fetch or a fault goes on meanwhile.
BuildGoesOn ==
    /\ Next
    /\ succeeded' = (succeeded \/ (status' = "done" /\ command' = NoCommand))
    /\ calm' = FALSE
    /\ UNCHANGED <<load, settled>>

Load ==
    \/ StartLoad
    \/ ReadPartition
    \/ \E t \in Tables : ListDimension(t)
    \/ ReadDimension
    \/ RefuseTable
    \/ Serve

CubeNext == BuildGoesOn \/ Load

\* The build waits for nothing; nothing makes a cube start.
CubeSpec == CubeInit /\ [][CubeNext]_cvars /\ WF_vars(Step)

-----------------------------------------------------------------------------
(* Properties *)

\* After a build without flags has succeeded, and as long as the archives stay as
\* they are, a cube that is started shows no fact as Unknown (cube.py:52-57), whatever
\* builds were running, or were killed, while it loaded.
ServedTablesAgree ==
    cube = "serving" /\ settled /\ changes = 0 =>
        \A a \in Agencies, d \in 1..MaxDate : events[a][d] # None =>
            \A t \in Tables : /\ joined[t][a] # None
                              /\ Uses[events[a][d]][d] \subseteq Defines[joined[t][a]]

\* The load holds what the archives hold, as long as they stay as they are; after a
\* default build all of them are clean and no dimension is missing any more, so that
\* every agency is in what was joined or in what is still to be read.
CubeInv ==
    /\ cube = "facts" => queue \subseteq Agencies \X (1..MaxDate)
    /\ cube \in Tables => queue \subseteq Agencies
    /\ cube \in {"down", "facts", "routes", "stops", "serving", "failed"}
    /\ events \in [Agencies -> [1..MaxDate -> Contents]]
    /\ joined \in [Tables -> [Agencies -> Contents]]
    /\ settled => succeeded
    /\ changes = 0 => \A a \in Agencies :
          /\ \A d \in 1..MaxDate : events[a][d] \in {None, archive[a]}
          /\ \A t \in Tables : joined[t][a] \in {None, archive[a]}
          /\ succeeded => Clean(archive[a]) /\ \A t \in Tables : dims[t][a] # None
          /\ settled =>
                /\ cube \in {"stops", "serving"} => joined["routes"][a] # None
                /\ cube = "serving" => joined["stops"][a] # None
                /\ cube \in Tables /\ a \notin queue => joined[cube][a] # None

\* A load that no build disturbs, of the dataset a default build has just completed,
\* fails only where the cube's own configuration makes it: its registry cannot be read
\* or lacks an agency of the facts asked for, a date of theirs is in a year without
\* holidays, or no fact is of a date that was asked for.  Nothing the build writes, and
\* nothing an earlier build left behind, is in its way.
QuietLoadServes ==
    cube = "failed" /\ calm =>
        \/ known = None
        \/ \A f \in Partitions : f[2] \notin wanted
        \/ \E f \in Partitions : f[2] \in wanted /\ ~(f[1] \in known /\ f[2] \in CoveredDates)

\* What a quiet load goes through: the dataset of a default build that just succeeded,
\* of which it holds facts of the dates asked for, and what it has read of the table.
CalmInv ==
    calm =>
        /\ status = "done" /\ command = NoCommand /\ changes = 0
        /\ cube \in {"facts", "routes", "stops"} =>
              /\ \A a \in Agencies, d \in 1..MaxDate : events[a][d] # None =>
                    <<a, d>> \in Partitions /\ d \in wanted
              /\ \/ \E a \in Agencies, d \in 1..MaxDate : events[a][d] # None
                 \/ cube = "facts" /\ queue # {}
        /\ cube = "facts" => \A f \in queue : f \in Partitions /\ f[2] \in wanted
        /\ cube \in Tables => \A a \in Agencies \ queue : joined[cube][a] = dims[cube][a]
        /\ QuietLoadServes

=============================================================================
