------------------------------- MODULE Build -------------------------------
(***************************************************************************)
(* `transit-ingest build`: the Parquet dataset made from the archives      *)
(* (Command::Build of src/rust/transit-ingest/src/main.rs and              *)
(* dataset::build of src/rust/transit-ingest/src/dataset/write.rs).        *)
(*                                                                         *)
(* A build resolves one window for the agencies selected (Window.tla), and *)
(* then, agency by agency in the order of the registry, reads the archive, *)
(* checks it, writes one fact file per service date of the window and the  *)
(* two dimension files.  Files are created in place: between its creation  *)
(* and its close a file is torn.                                           *)
(*                                                                         *)
(* The content of a file is the feed it was written from.  A feed is known *)
(* by the dates it serves, the route and stop keys its events of a date    *)
(* refer to, and the keys its dimensions define.                           *)
(***************************************************************************)
EXTENDS Integers, Sequences, FiniteSets

CONSTANTS
    Registry,    \* the configured agencies, in order
    Feeds,       \* what an archive may hold
    Serves,      \* Serves[f]: the dates on which feed f has service
    Uses,        \* Uses[f][d]: the keys the events of date d refer to
    Defines,     \* Defines[f]: the keys its routes and stops define
    Commands,    \* the command lines builds are run with
    MaxDate,     \* bound: the last date
    MaxRuns,     \* bound: the builds started in a behaviour, None for no bound
    MaxChanges,  \* bound: the archives fetched in a behaviour
    MaxFaults,   \* bound: the builds killed or failed by the file system
    Overlap,     \* TRUE: archives are also fetched while a build is running
    None, Torn   \* no file, a file cut short

Agencies == {Registry[n] : n \in DOMAIN Registry}
Tables   == {"routes", "stops"}

\* The registry was validated (Ingest.tla): an agency, and none twice.
ASSUME RegistryAssumption ==
    /\ Registry \in Seq(Agencies) /\ Registry # <<>>
    /\ \A m, n \in DOMAIN Registry : Registry[m] = Registry[n] => m = n
    /\ None \notin Agencies
ASSUME FeedsAssumption ==
    /\ None \notin Feeds
    /\ \A f \in Feeds : Serves[f] \subseteq 1..MaxDate
ASSUME FilesAssumption == Torn \notin Feeds \cup {None}
ASSUME DatesAssumption == MaxDate \in Nat \ {0} /\ None \notin Int
\* The options of a command line, where they are given: dates, and a number of days.
ASSUME CommandsAssumption == \A c \in Commands :
    /\ c.agency \in Agencies \cup {None}
    /\ c.from \in 1..MaxDate \cup {None} /\ c.to \in 1..MaxDate \cup {None}
    /\ c.days \in Nat \cup {None}

VARIABLES
    archive,     \* the feed in each agency's archive (written by Fetch.tla)
    facts,       \* facts[a][d]: scheduled_events/service_date=d/a.parquet
    dims,        \* dims[t][a]: <table t>/a.parquet
    command,     \* the command line of the running or the last build
    from, to, days, reader, shared, window,   \* its window: see Window.tla
    pc,          \* what the build does next
    turn,        \* the position among the selected agencies
    feed,        \* the feed read for that agency
    todo,        \* the service dates still to be written
    tables,      \* the dimension tables still to be written
    open,        \* a file was created and is not closed yet
    built,       \* history: the feed each agency was completed with in this run
    status,      \* how the last build ended: "none", "running", "done", "failed"
    runs, changes, faults   \* counters for the bounds

store   == <<archive, facts, dims>>
windowV == <<from, to, days, reader, shared, window>>
work    == <<turn, feed, todo, tables, open>>
bounds  == <<runs, changes, faults>>
vars    == <<store, command, windowV, pc, work, built, status, bounds>>

-----------------------------------------------------------------------------
(* Helpers *)

\* select: the agency named, or the whole registry.
Selected == IF command.agency # None THEN <<command.agency>> ELSE Registry

\* The dates whose partition is written: those with service and with an event.
EventDates(f) == {d \in Serves[f] : Uses[f][d] # {}}

\* Mutant: the feed is not checked.
Unchecked(f) == TRUE

\* validate::check finds no violation: every key used is defined.
Clean(f) == \A d \in 1..MaxDate : Uses[f][d] \subseteq Defines[f]

\* ServiceCalendar::read(archive).coverage()
CoverageOf(f) ==
    IF f = None THEN [kind |-> "unreadable"]
    ELSE IF Serves[f] = {} THEN [kind |-> "no service"]
    ELSE [kind  |-> "span",
          first |-> CHOOSE d \in Serves[f] : \A e \in Serves[f] : d <= e,
          last  |-> CHOOSE d \in Serves[f] : \A e \in Serves[f] : e <= d]

SelectedCoverage == [n \in DOMAIN Selected |-> CoverageOf(archive[Selected[n]])]

W == INSTANCE Window WITH coverages <- SelectedCoverage

InWindow(d) == window.start <= d /\ d <= window.end

Agency == Selected[turn]

\* Mutant: each agency writes its own full coverage.
FullCoverage(f) == EventDates(f)

\* Mutant: a partition that is already there is kept.
MissingDates(f) == {d \in EventDates(f) : InWindow(d) /\ facts[Agency][d] = None}

\* The partitions a build writes for the next agency.
DatesToWrite(f) == {d \in EventDates(f) : InWindow(d)}

\* Mutant: the stops are forgotten.
RoutesOnly == <<"routes">>

\* The dimensions it writes after them, in this order.
DimensionTables == <<"routes", "stops">>

End(result) == pc' = "idle" /\ status' = result /\ open' = FALSE

NoCommand == [agency |-> None, from |-> None, to |-> None, days |-> None,
              allow |-> FALSE]

Init ==
    /\ archive \in [Agencies -> Feeds]
    /\ facts = [a \in Agencies |-> [d \in 1..MaxDate |-> None]]
    /\ dims  = [t \in Tables |-> [a \in Agencies |-> None]]
    /\ command = NoCommand
    /\ from = None /\ to = None /\ days = None
    /\ reader = 0 /\ shared = W!NoSpan /\ window = W!Pending
    /\ pc = "idle"
    /\ turn = 1 /\ feed = None /\ todo = {} /\ tables = <<>> /\ open = FALSE
    /\ built = [a \in Agencies |-> None]
    /\ status = "none"
    /\ runs = 0 /\ changes = 0 /\ faults = 0

-----------------------------------------------------------------------------
(* Command::Build *)

Start(c) ==
    /\ pc = "idle"
    /\ IF MaxRuns = None THEN UNCHANGED runs
       ELSE runs < MaxRuns /\ runs' = runs + 1
    /\ command' = c
    /\ from' = c.from /\ to' = c.to /\ days' = c.days
    /\ reader' = 0 /\ shared' = W!NoSpan /\ window' = W!Pending
    /\ pc' = "window"
    /\ turn' = 1 /\ feed' = None /\ todo' = {} /\ tables' = <<>> /\ open' = FALSE
    /\ built' = [a \in Agencies |-> None]
    /\ status' = "running"
    /\ UNCHANGED <<store, changes, faults>>

\* A step of resolve_window; the archives are opened one at a time.
ResolveWindow ==
    /\ pc = "window"
    /\ UNCHANGED <<store, command>>
    /\ W!Next
    /\ UNCHANGED <<pc, work, built, status, bounds>>

\* The outcome of resolve_window: go on with the first agency, or end.
UseWindow ==
    /\ pc = "window"
    /\ \/ window.kind = "ok" /\ pc' = "read" /\ UNCHANGED <<status, open>>
       \/ window.kind \in {"failed", "panicked"} /\ End("failed")
    /\ UNCHANGED <<store, command, windowV, turn, feed, todo, tables, built, bounds>>

\* StaticFeed::read and validate::check for the next agency, whose archive is
\* opened again; then Schedule::index, and the dates of the window.
ReadFeed ==
    /\ pc = "read"
    /\ LET f == archive[Agency] IN
       IF f = None \/ (~Clean(f) /\ ~command.allow)
       THEN End("failed") /\ UNCHANGED <<feed, todo, tables>>
       ELSE /\ feed' = f
            /\ todo' = DatesToWrite(f)
            /\ tables' = DimensionTables
            /\ pc' = "facts"
            /\ UNCHANGED <<status, open>>
    /\ UNCHANGED <<store, command, windowV, turn, built, bounds>>

\* write_parquet for the earliest date left: the file is created, truncating
\* the one it replaces ...
CreatePartition ==
    /\ pc = "facts" /\ ~open
    /\ \E d \in todo :
          /\ \A e \in todo : d <= e
          /\ facts' = [facts EXCEPT ![Agency][d] = Torn]
    /\ open' = TRUE
    /\ UNCHANGED <<archive, dims, command, windowV, pc, turn, feed, todo, tables,
                   built, status, bounds>>

\* ... and closed, when its footer is written and it can be read.
ClosePartition ==
    /\ pc = "facts" /\ open
    /\ \E d \in todo :
          /\ \A e \in todo : d <= e
          /\ facts' = [facts EXCEPT ![Agency][d] = feed]
          /\ todo' = todo \ {d}
    /\ open' = FALSE
    /\ UNCHANGED <<archive, dims, command, windowV, pc, turn, feed, tables,
                   built, status, bounds>>

\* Mutant: the old file is removed first, as a fetch does with an archive.
RemoveDimension ==
    /\ pc = "facts" /\ ~open
    /\ todo = {} /\ tables # <<>>
    /\ dims' = [dims EXCEPT ![Head(tables)][Agency] = None]
    /\ pc' = "dimension"
    /\ open' = TRUE
    /\ UNCHANGED <<archive, facts, command, windowV, turn, feed, todo, tables,
                   built, status, bounds>>

\* write_batch for the next dimension, once the facts are written.
CreateDimension ==
    /\ pc = "facts" /\ ~open
    /\ todo = {} /\ tables # <<>>
    /\ dims' = [dims EXCEPT ![Head(tables)][Agency] = Torn]
    /\ pc' = "dimension"
    /\ open' = TRUE
    /\ UNCHANGED <<archive, facts, command, windowV, turn, feed, todo, tables,
                   built, status, bounds>>

CloseDimension ==
    /\ pc = "dimension"
    /\ dims' = [dims EXCEPT ![Head(tables)][Agency] = feed]
    /\ tables' = Tail(tables)
    /\ pc' = "facts"
    /\ open' = FALSE
    /\ UNCHANGED <<archive, facts, command, windowV, turn, feed, todo,
                   built, status, bounds>>

\* Mutant: one agency too many.
PastLastAgency ==
    /\ pc = "facts" /\ ~open
    /\ todo = {} /\ tables = <<>>
    /\ built' = [built EXCEPT ![Agency] = feed]
    /\ IF turn <= Len(Selected)
       THEN turn' = turn + 1 /\ pc' = "read" /\ UNCHANGED <<status, open>>
       ELSE End("done") /\ UNCHANGED turn
    /\ UNCHANGED <<store, command, windowV, feed, todo, tables, bounds>>

\* The agency is complete: the next one, or the end of the build.
NextAgency ==
    /\ pc = "facts" /\ ~open
    /\ todo = {} /\ tables = <<>>
    /\ built' = [built EXCEPT ![Agency] = feed]
    /\ IF turn < Len(Selected)
       THEN turn' = turn + 1 /\ pc' = "read" /\ UNCHANGED <<status, open>>
       ELSE End("done") /\ UNCHANGED turn
    /\ UNCHANGED <<store, command, windowV, feed, todo, tables, bounds>>

\* A file cannot be written, or the process is killed: the file being written
\* stays torn, and the agencies after this one are not built.
Interrupt ==
    /\ pc # "idle"
    /\ faults < MaxFaults
    /\ faults' = faults + 1
    /\ End("failed")
    /\ UNCHANGED <<store, command, windowV, turn, feed, todo, tables, built,
                   runs, changes>>

\* A fetch replaces an archive, through a moment when there is none.
FetchArchive ==
    /\ changes < MaxChanges
    /\ Overlap \/ pc = "idle"
    /\ \E a \in Agencies, f \in Feeds \cup {None} :
          /\ f # archive[a]
          /\ archive' = [archive EXCEPT ![a] = f]
    /\ changes' = changes + 1
    /\ UNCHANGED <<facts, dims, command, windowV, pc, work, built, status,
                   runs, faults>>

Step ==
    \/ ResolveWindow \/ UseWindow \/ ReadFeed
    \/ CreatePartition \/ ClosePartition
    \/ CreateDimension \/ CloseDimension \/ NextAgency

Next ==
    \/ \E c \in Commands : Start(c)
    \/ Step
    \/ Interrupt
    \/ FetchArchive

Spec == Init /\ [][Next]_vars

\* A build that is running goes on to its end: it waits for nothing.
FairSpec == Spec /\ WF_vars(Step)

-----------------------------------------------------------------------------
(* Properties *)

Contents == Feeds \cup {None, Torn}

BuildTypeOK ==
    /\ archive \in [Agencies -> Feeds \cup {None}]
    /\ facts \in [Agencies -> [1..MaxDate -> Contents]]
    /\ dims \in [Tables -> [Agencies -> Contents]]
    /\ command \in Commands \cup {NoCommand}
    /\ pc \in {"idle", "window", "read", "facts", "dimension"}
    /\ turn \in 1..Len(Selected)
    /\ feed \in Feeds \cup {None}
    /\ todo \subseteq 1..MaxDate
    /\ tables \in {<<>>, <<"stops">>, <<"routes", "stops">>}
    /\ open \in BOOLEAN
    /\ built \in [Agencies -> Feeds \cup {None}]
    /\ status \in {"none", "running", "done", "failed"}

SelectedAgencies == {Selected[n] : n \in DOMAIN Selected}

\* What it takes for the dataset of an agency to be complete.
Complete(a) ==
    /\ built[a] # None
    /\ \A t \in Tables : dims[t][a] = built[a]
    /\ \A d \in EventDates(built[a]) : InWindow(d) => facts[a][d] = built[a]

\* A build that reports success has written, for every agency it was asked for,
\* both dimensions and every event date of the window, from one and the same
\* feed, whatever was fetched meanwhile and whatever was on disk before.
SuccessIsComplete ==
    status = "done" => \A a \in SelectedAgencies : Complete(a)

\* What the loops keep: the agencies before the turn are complete, and of the one
\* being written everything that is not left to do.
BuildInv ==
    /\ BuildTypeOK
    /\ status = "running" <=> pc # "idle"
    /\ pc = "window" => turn = 1
    /\ pc # "idle" => \A n \in 1..(turn - 1) : Complete(Selected[n])
    /\ pc \in {"facts", "dimension"} =>
          /\ feed \in Feeds /\ todo \subseteq DatesToWrite(feed)
          /\ \A d \in DatesToWrite(feed) \ todo : facts[Agency][d] = feed
          /\ \A t \in Tables : (\A n \in DOMAIN tables : tables[n] # t) => dims[t][Agency] = feed
    /\ pc = "dimension" => tables # <<>> /\ todo = {}
    /\ SuccessIsComplete

\* What holds as long as no archive is replaced: files are cut short or come from
\* the agency's archive, the build that is running read that archive and, unless
\* told otherwise, found it clean, and its window is the one its options and the
\* archives determine.
SteadyInv ==
    /\ changes \in Nat
    /\ from = command.from /\ to = command.to /\ days = command.days
    /\ pc \in {"read", "facts", "dimension"} \/ status = "done" => window.kind = "ok"
    /\ changes = 0 =>
          /\ W!WindowInv
          /\ \A a \in Agencies :
                /\ archive[a] \in Feeds
                /\ \A d \in 1..MaxDate : facts[a][d] \in {None, Torn, archive[a]}
                /\ \A t \in Tables : dims[t][a] \in {None, Torn, archive[a]}
                /\ built[a] \in {None, archive[a]}
                /\ built[a] # None /\ ~command.allow => Clean(archive[a])
          /\ pc \in {"facts", "dimension"} =>
                feed = archive[Agency] /\ (command.allow \/ Clean(feed))

\* Where all builds are default ones, of the same archives: a partition, whole or cut
\* short, is of a date that all of them go on to write again.
RepairInv ==
    changes = 0 => \A a \in Agencies, d \in 1..MaxDate : facts[a][d] # None =>
        /\ d \in EventDates(archive[a])
        /\ \A b \in Agencies :
              LET span == CoverageOf(archive[b]) IN
              span.kind = "span" /\ span.first <= d /\ d <= span.last

\* Re-ingesting one agency never rewrites another's rows (write.rs:18-20), nor a
\* date outside the window.
OthersUntouched ==
    [][\A a \in Agencies :
          /\ \A t \in Tables : dims'[t][a] # dims[t][a] => a = Agency
          /\ \A d \in 1..MaxDate :
                facts'[a][d] # facts[a][d] => a = Agency /\ InWindow(d)]_vars

\* After a build that succeeded without --allow-violations every key of every fact
\* row of the agencies built is one their dimensions define, whatever earlier builds
\* were told or were interrupted: no fact shows as Unknown in the cube (cube.py:54-57).
KeysResolve ==
    status = "done" /\ ~command.allow => \A a \in SelectedAgencies, d \in 1..MaxDate :
        facts[a][d] \in Feeds =>
            \A t \in Tables : Uses[facts[a][d]][d] \subseteq Defines[dims[t][a]]

\* After a build of the whole default window nothing an interrupted one left
\* torn is still there: every partition can be read again.
SuccessRepairs ==
    status = "done" => \A a \in SelectedAgencies :
        /\ \A d \in 1..MaxDate : facts[a][d] # Torn
        /\ \A t \in Tables : dims[t][a] # Torn

\* A window resolved without --from and --to is one that the feeds built with it
\* actually cover (main.rs:263): the archives are read once for the window and once
\* more to be built.
BuiltFeedsCoverWindow ==
    status = "done" /\ from = None /\ to = None =>
        \A a \in SelectedAgencies :
            LET span == CoverageOf(built[a]) IN
            span.first <= window.start /\ window.end <= span.last

\* A date that every archive covers.
SharedDate(d) ==
    \A a \in Agencies : LET span == CoverageOf(archive[a]) IN
        span.kind = "span" /\ span.first <= d /\ d <= span.last

\* What a default build needs of the archives: they pass validation and share a window.
Buildable ==
    /\ \A a \in Agencies : Clean(archive[a])
    /\ \E d \in 1..MaxDate : SharedDate(d)

\* An interrupted build is repaired by running it again: if the default build of
\* feeds that pass validation and share a window is repeated while the archives stay
\* as they are, in the end every file that is there between builds can be read, and
\* both dimensions are there.
Recovers ==
    []<>(pc = "window" /\ Buildable) =>
        <>[](pc = "idle" => \A a \in Agencies :
                /\ \A d \in 1..MaxDate : facts[a][d] # Torn
                /\ \A t \in Tables : dims[t][a] \in Feeds)

=============================================================================
