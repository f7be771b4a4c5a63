# Verification of transit-delay-explorer

TLA+ models of the ingest (`src/rust/transit-ingest`) and of the load of its dataset by the
cube, the configurations that check them with TLC on small instances, and theorems about them
checked by TLAPS. Every definition follows the source; the comment above it names the code it
stands for, and `PROJECT.json` maps it to its lines.

## 1. The system

`transit-ingest` keeps one static GTFS archive per agency and turns the archives into a
Parquet dataset. `transit-cube` (Python) loads that dataset into an Atoti session. A Java
stream service and a Kafka topology are scaffolds for later phases.

| Component | State it keeps | Operations | What makes it correct |
|---|---|---|---|
| **command line** (`main.rs`) | none between invocations | `agencies`, `fetch`, `inspect`, `build`, over one agency or all | an invocation that fails leaves the agencies before done and those after untouched; a build ends for no flaw that inspect looks for and passed over |
| **registry** (`config.rs`, `agencies.toml`) | the agencies in order | load, validate, select | ids are distinct and timezones known before anything uses them |
| **static archive fetch** (`fetch.rs`) | per agency `<a>.zip`, `<a>.zip.part`, `<a>.zip.cache.json` | `static_archive`: stat, read validators, conditional request, validate, install (write part, remove old, rename), record validators | the destination is absent or one whole feed; a 304 never hides an update; a refused or interrupted download changes nothing; an update is picked up in the end |
| **archive reader** (`gtfs/archive.rs`, `records.rs`) | none | open, look up by basename, read required and optional files | the reader finds every required file that the check of a download found |
| **build window** (`main.rs` `resolve_window`, `narrow_window`) | the span shared so far | fold the coverage of the selected archives, apply `--from`, `--to`, `--days` | the default window is one every agency covers, and is found whenever there is one; days are counted right |
| **service calendar** (`gtfs/calendar.rs`) | days per service, services per day | `from_rows`: patterns, additions, removals, inversion; `runs_on`, `services_on`, `active_dates`, `coverage` | a removal wins wherever its row stands; both views agree; a bad row is refused wherever it stands |
| **schedule resolution** (`schedule.rs`) | trips by service, stop times by trip | `index`, `for_date` | every timed call of an active trip is one event of its date, none twice, none lost unaccounted |
| **GTFS times** (`gtfs/time.rs`) | none | `parse`, `resolve`, `rolls_over` | elapsed time and order survive clock changes; away from a change the wall clock shows the time of the timetable |
| **validation** (`gtfs/validate.rs`) | none | `check`, `duplicate_ids` | what passes has no dangling key and no repeated one |
| **tables** (`dataset/facts.rs`, `dimensions.rs`) | none | rows to the columns of `scheduled_events`, `routes`, `stops` | each fact joins one route and one stop; every stop has a station; no null where the schema has none |
| **dataset build** (`dataset/write.rs`, `main.rs`) | `scheduled_events/service_date=D/<a>.parquet`, `routes/<a>.parquet`, `stops/<a>.parquet` | for each agency: read, check, write the partitions of the window, write the dimensions | success means complete and of one feed; no other agency or date is touched; an interrupted build is repaired by running it again; the summary accounts for every row |
| **cube** (`dataset.py`, `cube.py`, `serve.py`, `calendar.py`) | an Atoti session | load the dataset, build the cube, serve | facts join dimensions also when a build runs meanwhile; with no build running, it fails only for the cube's own configuration |
| **stream scaffold** (`java/`), **infrastructure** (`infra/`) | topics | one predicate; a topic script | - |

How they interact: `fetch`, `inspect` and `build` are separate invocations of one binary,
usually from a scheduler, that share only the files in the data directory. There is no lock.
Inside one invocation everything is sequential (no threads, no async), so the hard behaviours
are at the files: two invocations overlapping, one killed between two file-system calls, a disk
or network error in the middle, a retry afterwards, and what a long series of builds with
different feeds and windows leaves in one directory. `build` calls the window resolution,
then, per agency, the reader, the validation, the calendar, the schedule and the writer.
The cube reads the directory at a time of its own choosing.

The hazards this exposes the code to are listed, with their lines and the properties that
watch them, under `hazards` in `PROJECT.json`.

## 2. Modules

| Module | Models | Notes |
|---|---|---|
| `Fetch` | `static_archive` and everything it calls, one action per file-system call or request | any number of processes on one archive; crashes, I/O errors, error pages, a server that does or does not go back to an earlier feed |
| `FetchContract` | what the data directory promises its readers | abstract specification |
| `FetchRefines` | the mapping from `Fetch` to `FetchContract` | `KeepsContract` |
| `Window` | `resolve_window`, `narrow_window` | one action per archive opened |
| `FeedArchive` | `Archive`, the readers of required and optional files, the check of a download | operators only: what an archive reads as |
| `Ingest` | `main`, `Config::load` and `validate`, `select` and the four subcommands, one invocation after another in one data directory | extends `Window` and `FeedArchive`; a fetch and a build of one agency are one step each, with their ways to fail |
| `ServiceCalendar` | `ServiceCalendar::from_rows` and its queries | one action per row of each pass |
| `Build` | `Command::Build` and `dataset::build` | uses `Window` by `INSTANCE`; creating and closing a file are two steps; archives may be replaced meanwhile |
| `Cube` | `serve.main` and `load_tables` file by file, while builds run | extends `Build` |
| `StopTime` | `GtfsTime` (parse, `rolls_over`, `resolve`) over an explicit timezone, and both implementations of the service periods | operators only |
| `Tables` | the columns of the three tables, their keys and which may be null | operators only |
| `Schedule` | `validate::check`, `Schedule::index`, `Schedule::for_date`, the tables written from it and the summary, for one feed | one action per row, service, trip, call and table; extends `StopTime` and `Tables`; the dates of a service are what `ServiceCalendar` computes |
| `MC*` | the instances TLC checks | values of the constants only |
| `FetchProofs`, `WindowProofs`, `CalendarProofs` | the theorems about the module they are named for | |
| `IngestProofs` | theorems about `Ingest` and `FeedArchive` | extends `WindowProofs` |
| `BuildProofs` | theorems about `Build` and `Cube` | instantiates `WindowProofs` for the archives of the agencies selected |
| `ScheduleProofs`, `WalkProofs`, `TableProofs` | theorems about `Schedule`: what an event is, which events there are, what is written | each extends the one before |

### How state and actions correspond to the code

**Fetch.** A feed is its version number; a validator (ETag, Last-Modified) is the version of
the body it came with; version 0 is an HTML page answered with status 200. A file is an inode
whose content is the *set* of versions whose bytes it holds, so that truncation (`{}`), a
whole feed (`{v}`) and two writers overwriting one another (`{v, w}`) can be told apart;
`dest` and `part` are directory entries. `pc[p]` names the call a process makes next:
`Stat` (fetch.rs:137-165, the early return without `--force` included), `ReadSidecar`,
`NotModified`/`GetFeed`/`GetErrorPage`/`DownloadError` (the answers to the request),
`Reject`/`OpenPart`/`WritePart` (validate, then the part file), `CheckDest`, `RemoveDest`,
`Rename`, `Record`. `exists()` followed by `remove_file()` is two actions because another
process may come between. `IoError` is any of the `?` in `install`, `RecordError` the ignored
failure of the sidecar, `Crash` a kill at any step. The history variable `installed` records
the feeds whose bytes, whole, were ever renamed into place: what the shared part file held, whoever
wrote it.

**Window.** `coverages` is what each selected archive would answer: unreadable, no service, or
a span. `CheckOptions` is the checks before any archive is opened, `OpenArchive` one turn of
the loop, `Narrow` the cut by the options. Dates are `1..MaxDate`; `start + days` past the last
date panics in chrono, and here ends in `Panicked`.

**FeedArchive and Ingest.** An archive is the list of its zip entries (directory, basename, and
whether its rows are good, objectionable, missing or do not parse, or the entry does not open or
cannot be read to its end) with the dates it serves; a feed without a row in either calendar file
is the reader's `MissingFile` too;
`index_of` is the lookup, `read_required`, `read_optional`, `StaticFeed` and `ServiceCalendar`
give the first error the reader raises, `validate_archive` is what a fetch accepts. In `Ingest`
`script` holds the command lines to come and `pc` is where `main` is: `Run` loads the registry,
`Validate` is a turn of the loop of `Config::validate`, `Dispatch` is `select` and the checks of
the arguments, and `turn` is the loop over the agencies. `Keep`, `Download` and `FetchFails` are
the outcomes of one `static_archive`; `Inspect` is the whole subcommand; `ResolveWindow` is a
step of `Window`, `UseWindow` its outcome (`NoService` where an archive has no service date), `Write`
and `WriteFails` one agency of a build, `BadNoon` being a noon that `Schedule` cannot resolve.
`Dispatch` fixes what the archives cover, since nothing else runs meanwhile (in `Build` archives
do change under a build). The history variables `before`, `written`, `installed` and `passed`
say what an invocation found and did, for the properties.

**ServiceCalendar.** The rows are variables that never change; `pass` and `row` are the loops.
`ExpandPattern`, `Add`, `Remove` are the loop bodies with their refusals, `NextPass` moves on,
`Invert` builds `by_date`. `Insert` is `entry().or_default()` (it creates the service),
`Delete` is `get_mut` (it does not).

**Build.** A feed is a value with the dates it serves, the keys its events of a date use and
the keys its dimensions define; an output file holds the feed it was written from, `None`, or
`Torn` between `File::create` and the close that writes the Parquet footer. `Start` takes a
command line, `ResolveWindow` is a step of `Window`, `ReadFeed` is read + check + index,
`CreatePartition`/`ClosePartition` and `CreateDimension`/`CloseDimension` are the writes in the
order of write.rs, `NextAgency` ends one agency, `Interrupt` is a kill or a failing write at any
point, `FetchArchive` is a fetch of `Fetch` seen from here: an archive is replaced, through a
moment without one.

**Cube.** `StartLoad` lists the partitions and opens one for its schema, `ReadPartition` reads
them in any order (the scanner has threads), `ListDimension` and `ReadDimension` do the routes
and then the stops, `Serve` joins them. Each is a step, and a step of `Build` may come between
any two. A torn file ends the load. So does what the cube checks by itself: `Registries` are the
registries it may read (or fail to), and `RefuseTable` refuses facts of an agency that is not in it,
a dimension without rows, and, once everything is read, a date in a year whose holidays nobody
entered (`CoveredDates`). The routes and the stops a feed defines are one set of keys here, so a feed
has rows in both dimensions or in neither.

**StopTime, Tables and Schedule.** An instant is a number of seconds and a timezone its offset before and
after one change, since no time resolves further than 48 hours from the noon it is measured from.
`InstantsOf` is `from_local_datetime`: one instant, or none or two next to a change. A time field
is blank, garbled or three integers, and `Malformed`, `Seconds` say what `parse` makes of it.
`Check` is the refusal of a feed with violations (main.rs:227-239); `BuildCalendar` is where
`Schedule::index` ends at a bad calendar (`feed.valid`), which `check` does not look at; the `tz()`
before it cannot fail any more, since `Config::validate` resolved every timezone (`RegistryIsSound`);
`IndexTrip`, `IndexStopTime` and `SortCalls` build the two indexes, the sort leaving ties in any order because it is unstable;
`StartDate`, `NextService`, `NextTrip` are the heads of the loops of `for_date`; a call ends in
`DropMalformed`, `DropUntimed`, `Emit`, or `Unresolvable` (the `?` on `resolve`); `EndDate` is
`dataset::build` writing the partition unless it is empty and adding the date to the summary, and
`WriteRoutes` and `WriteStops` write the dimensions; a table is written unless `try_new` finds a
null the schema does not allow, or a column it does not have, or unless a file operation of
`write_batch` fails (`WriteFails`). `Failed` lists the ways a build
ends short of its summary. A trip or service that an index does not hold has the empty sequence there. The hash of `event_id` stands for its fields, a key is a
pair, and a `stop_sequence` is cast to 32 bits as the code casts it, with `MaxInt` for 2^31-1.

## 3. Runs

| Run | Question | Bounds and why they are enough |
|---|---|---|
| `FetchSequential` | one fetch at a time: the archive opens, the validators are those of a feed that was at the destination, the contract is implemented, every run ends, updates are picked up | 3 feeds (a 304 about the feed before last needs three), 2 inodes (one process has at most two files), 2 faults (a crash and a failed retry); a server that compares dates |
| `FetchRollback` | same, with an agency that republishes an earlier feed and entity tags, but a sound disk: a 304 is truthful, an archive is never lost | 3 feeds, 2 faults |
| `FetchTorn`, `FetchStaleSidecar`, `FetchInterrupted` | disagreements, see section 6 | the smallest instance that shows each |
| `Ingest` | whole command lines: the registry is sound before it is used, a failure leaves a prefix of the agencies done, the reader finds what the check of a download found, a build ends at an archive that inspect accepted for two reasons only, and the window of a build is right | three families of initial states. Windows: every combination of options over every pair of spans of a 4-day calendar (disjoint, touching, nested, overlapping), `--days` up to 5, past the last date. Flaws: two commands in a row over archives with each kind of flaw on disk and on the servers, a fault anywhere. Registries: each kind of mistake, and the remaining command lines. Two agencies give a loop a first and a last turn; two commands, a cause and an effect |
| `Calendar` | every `calendar.txt` of up to one row with every `calendar_dates.txt` of up to two, with both exception types, unknown types and bad dates | two exceptions are what their order can depend on, one pattern what they can win over |
| `BuildAnytime` | builds of one agency or all, archives replaced at any time, builds killed at any time: success is complete, nothing else is touched | 2 agencies, 3 dates, 2 builds, 1 replacement, 1 fault: the second build runs over what the first left, of another feed |
| `CubeLoad` | whole builds, with or without `--allow-violations`, repeated over archives that stay: no torn file or dangling key after success, and repetition repairs what was killed where a build can succeed at all. A cube that loads at any moment shows no Unknown after a success, and where no build disturbs it, it fails for its own configuration only | unbounded builds (the state space is finite), 1 fault, 1 load: what a load before it read is forgotten. Five pairs of archives: windows that overlap, no shared window (no build ever succeeds, which is why `Recovers` starts from `Buildable`), one archive that does not pass validation, two of them, which also define nothing, and one whose dates have no holidays. The cube asks for all dates or those with holidays; its registry has both agencies, lacks one, or cannot be read |
| `BuildStaleWindow` | a disagreement, see section 6 | 1 build, 1 fetch while it runs |
| `BuildDangling` | a disagreement, see section 6 | |
| `Schedule` | every timed call is one event, of the right date, instant, hour and period, in order and with its own id; the rest is counted; each fact joins one route and one stop, and each stop has a station | every `stop_times.txt` of at most 2 of 10 rows (past midnight, at 24:00:00, untimed, malformed, dangling, a second call at one stop, a position past `MaxInt` = 4) with 5 trip files (two services, a repeated trip, dangling keys), 3 calendars, 2 dates, and 4 zones: forward and back in the night between the dates, at noon, never; and every routes.txt and stops.txt of a few rows with parents, dangling parents, empty fields, repeated keys and foreign agencies, under fixed trips. Two rows are what a sort, a repetition or a lost successor needs; each date is resolved after the other so that a leftover shows |

Each property has a mutant: an operator placed before the definition it would replace, with
the change a plausible bug would make. Under the mutant the property fails, which shows that
the instance is large enough for it to matter.

**Fairness.** Only `FetchSequential` and `CubeLoad` check liveness. `Fetch` assumes weak
fairness of each running process's next step: the code never waits for anything but the
server, and the HTTP client has a timeout. Nothing makes a fetch start: `Converges` says that
*if* the server is asked again and again, the archive becomes and stays the published feed.
No fairness is assumed of faults, of `Publish`, or of `Start`. `Build` assumes weak fairness
of the running build (it waits for nothing), and `Recovers` is again conditional on builds
being started again and again while the archives pass validation and share a window.
`Cube` adds none: nothing makes a cube start or go on.

`CHECK_DEADLOCK FALSE` stands where the system stops by design: after the last command line, an
expanded calendar, a resolved feed, and builds whose number is bounded.

## 4. Proofs

TLAPS checks these for every value of the constants that the modules' assumptions allow
(any number of processes, inodes, feeds, faults, agencies, dates, rows).

| Theorem | States | Argument |
|---|---|---|
| `FetchProofs!TypeCorrect` | `TypeOK` | with `SharedInv` |
| `FetchProofs!ValidatorsSafe` | if runs do not overlap, the validators on disk are of a feed that was at the destination, whatever the server, the disk and crashes do | `SequentialInv`: from its validation to the rename the part file holds the body in hand (`FilesWhole`), so by the time its validators are recorded it is in `installed`; before, the validators are those of an earlier one |
| `FetchProofs!ArchiveAlwaysOpens` | `ArchiveOpens`, likewise | `SequentialInv`: where the two paths and the open file point (`FilesApart`), what they hold at each step (`FilesWhole`) |
| `FetchProofs!NoUpdateMissed` | ... and if the agency never goes back, a 304 is truthful | adds `RequestCurrent` (the condition is about what is still on disk) and `NewestInstalled` (nothing on disk is newer than the server's feed or older than what was installed): a stale sidecar can only be older, and an older one is not confirmed |
| `FetchProofs!FetchKeepsContract` | under the same assumptions `Fetch` implements `FetchContract` | every action is mapped: `Rename` is `Install`, `RemoveDest` is `Withdraw`, `Record` is `Describe`, `Publish` is `Publish`, the rest change nothing a reader sees |
| `FetchProofs!ArchiveIsNeverLost` | under `Sequential`, and with a sound disk, an archive is not lost | adds `Replacing`: after the first install the destination is only missing while the one run there is has removed it and is about to rename |
| `WindowProofs!DefaultWindowShared`, `SharedDatesBuilt` | the default window is inside every coverage; failing means there is no shared day | `WindowInv`: the span kept is the intersection of the archives opened so far |
| `WindowProofs!DaysAlwaysCounted` | `DaysAreCounted` | arithmetic on the one step that resolves the window, over the types of `WindowInv` |
| `IngestProofs!RegistrySound` | past validation no id stands twice, every timezone is known and some agency is selected, for a registry of any length | `LoopInv`: what was validated so far holds of the agencies before the turn (`ReadSoFar`) |
| `IngestProofs!PrefixKept` | a fetch or build that ends in the middle has done the agencies before and not touched those after | `LoopInv`: before the turn `Done`, from it on `Untouched`; that a step touches one agency only needs ids to be distinct, which is why `RegistryIsSound` is part of the invariant |
| `IngestProofs!InstalledAreComplete` | the reader finds every required file of an archive that a fetch installed; where it still refuses it as no archive an entry does not open, and where it misses a file neither calendar file has a row | `ArchivesInv`: an archive in `installed` passed `validate_archive` as it is on disk now, and a later command that ends at it ends for what it reads there (`ReadingEnds`); `FeedReads` and `CalendarReads` say what each error of a reader means, `FileIsFound` and `FirstOfErrors` (what `?` raises is the first error) being what they rest on |
| `IngestProofs!InspectGuardsBuilds` | a build ends at an archive that inspect accepted only where it has no service date, or a noon that does not resolve | `ArchivesInv`: an archive in `passed` reads without an error and without violations; `CalendarReads` relates the calendar that resolves a window to the whole feed that inspect read |
| `IngestProofs!IngestTypes` | `IngestTypeOK` | `LoopInv` and `ArchivesInv` |
| `CalendarProofs!RemovalsAlwaysWin` | `RemovalsWin` for files of any length and order | `CalendarInv`: the days so far are given by the rows read so far, pass by pass |
| `CalendarProofs!ViewsAlwaysAgree` | `services_on` is the inverse of `runs_on`, and the coverage its first and last day | `Indexed` (in `CalendarInv`) for the index; `FirstAndLast`: a set of dates with a member has a least and a greatest, by well-founded induction of the library |
| `CalendarProofs!RefusedForACause` | a calendar becomes ready only without a bad row, and is refused only for one | `RowsAccepted`: the rows that each pass has gone over are acceptable |
| `CalendarProofs!CalendarTypes` | `CalendarTypeOK` | `CalendarInv` |
| `BuildProofs!BuildTypeCorrect`, `SuccessAlwaysComplete` | a build that succeeds is complete, whatever was fetched or killed before and meanwhile | `BuildInv`: the agencies before the turn are complete, and of the one being written all that is not left to do; only its own files are written, and agencies are distinct (`RegistryAssumption`, which `RegistrySound` justifies) |
| `BuildProofs!OthersAlwaysUntouched` | no step writes a file of another agency or a date outside the window | the dates left to write lie in the window (`BuildInv`) |
| `BuildProofs!KeysAlwaysResolve` | `KeysResolve`, as long as no archive is replaced; earlier builds may have run with any options and been killed | `SteadyInv`: each file is absent, cut short or of its agency's archive; what the running build read is that archive, and clean unless it was told not to care |
| `BuildProofs!SuccessAlwaysRepairs` | `SuccessRepairs`, where every build is of the whole registry and default window (`WholeBuilds`) and no archive is replaced | `RepairInv`: a partition, whole or cut short, is only of an event date that every agency covers; `SteadyInv` holds `WindowInv` for the archives selected (by `WindowProofs!WindowStep`), and so `DefaultWindow` has each such date in the window of the next build |
| `BuildProofs!ServedTablesAlwaysAgree` | `ServedTablesAgree`, with builds of any options going on meanwhile | `CubeInv`: what was loaded is of the archives, no dimension file goes away (`DimensionsStay`), so after a default build every agency is in what was joined or in what is still to be read |
| `BuildProofs!QuietLoadAlwaysServes` | `QuietLoadServes` under `WholeBuilds`: an undisturbed load after a success fails only for the cube's registry, its holiday years, or dates without events | `CalmInv`: what was read is of the dates asked for, and of each table what is on disk; `CalmStore` says what a default build leaves there: nothing torn, every dimension with the keys of the facts, so that none that is read is empty |
| `ScheduleProofs!EventKeysAreDefined` | without `--allow-violations`, the route and stop of every event are defined, for feeds of any length | `EventsFromRows`: what the indexes and loops hold are rows of the feed under their own key, so every event is `EventOf` a trip and one of its calls; past `Check` the feed is clean |
| `ScheduleProofs!MidnightIsKnown` | `crosses_midnight` tells the calendar day, in every zone whose clock changes by at most an hour between 1:00 and 3:00 (`NightChange`), for times before 47:00:00 (`EarlyRows`) | `EventsFromRows`, then arithmetic on the noon anchor (`NoonAnchor`, `MidnightLemma`) |
| `ScheduleProofs!TimetableIsKept` | in every zone, an event on noon's side of a change happens at the local time of its row, in the period the cube's table gives its GTFS hour | `EventsFromRows`, `TimetableLemma`, and `PeriodsAgree`: the two tables agree on each hour |
| `WalkProofs!EveryCallBecomesAnEvent` | `EveryCallOnce`, for feeds of any length | `WalkInv`: a list that the code builds *lists* the positions of the files it stands for, once each (`Lists`): the indexes those under each key, the loops those of the calls gone past; the sort permutes, an append adds one, and a list of a set is as long as the set |
| `WalkProofs!IdsNameOneCall` | `IdsAreUnique` | two events of one id are of one trip position, hence of one row, and a row is emitted once (`WalkInv`) |
| `TableProofs!DatesAreWritten` | `PartitionsComplete` | `DatesInv` and `PartInv`: `WalkInv` at the end of each date is kept in its partition |
| `TableProofs!PartitionsKeepTheOrder` | `CallsInOrder` | `OrderInv` and `PartInv`: the calls of a trip are emitted in their sorted order, and each trip is walked once on a date |
| `TableProofs!FactsJoin`, `HierarchyStands` | `FactsJoinOnce`, `HierarchyIsWhole` | `TablesInv`: the rows of each dimension are those of its file; past `Check` keys stand once (`OneRow`) and every parent is a row; `FactsFit` and `DimensionsFit`: what the code puts in a column that may hold no null is never one |
| `TableProofs!TheSummaryAccounts` | `SummaryAccounts` | `SumInv`: each counter is the cardinality of what was gone past so far; only written dates are added |
| `TableProofs!ScheduleTypes` | `ScheduleTypeOK` | the invariants above |

The assumptions `Sequential` (no two fetches of one archive), `~Rollback` and `~DiskFaults` (no
crash or error between two calls) stand in the statements of the theorems that need them; the
violation runs show that they cannot be dropped. That the archives stay as they are, in three of the
theorems about `Build` and `Cube`, is `changes = 0`: `BuildDangling` shows that `KeysResolve` needs
it. `WholeBuilds` is what a
scheduler runs; a build of one agency or of a few dates repairs only those.

What is assumed of the constants is named in the modules, and TLC evaluates it on every run: `None`
and `Torn` are not among the values they are told apart from (`NullAssumption`, `CalendarNone`,
`CalendarNoSpan`, `FilesAssumption`, `DatesAssumption`), the options of a command line are dates and
a number of days
(`CommandsAssumption`), the registry was validated (`RegistryAssumption`, which `RegistrySound`
justifies), ids and the names the code writes are texts (`ScheduleAssumption`, `NamesAssumption`).
The inductive invariants of `Fetch`, `Window`, `Ingest`, `ServiceCalendar`, `Build` and `Cube` stand in
those modules, where TLC can check them on the instance of a run (it did, before they were proved);
those of `Schedule` that count what a list holds stand in its proof modules. None of them is among the
properties of the runs, because the theorems say more.

Every safety property of a passing run is stated by a theorem. Only model-checked is liveness
(`Terminates`, `Converges`, `Recovers`), which is out of the prover's reach.

## 5. Not modelled

- The encoding of CSV, TOML and Parquet: a row, a registry or a file parses or does not. How the
  csv, toml and parquet crates tell is theirs.
- The quirks and realtime feeds of `config.rs`, which nothing reads yet, and `config.py`, the
  second reader of the registry, which the cube takes display names from.
- In the cube: files that lack the columns an older ingest did not write or that cannot be read for
  another reason than being torn, what repeated stop keys of a dataset built with
  `--allow-violations` do to its maps, the parsing of the environment variables, and the Atoti
  session with its hierarchies and measures, which belongs to a third party.
- `event_id` is a 64-bit hash; `Schedule` takes it to tell its fields apart, so `IdsAreUnique` is about
  the fields and not about collisions.
- Columns that are only copied (names, coordinates, colours, types of routes), logging, and the
  text that `inspect`, `agencies` and the summaries print.
- The Java service, which is one pure predicate and configuration records without a consumer, and
  the infrastructure scripts: Kafka, which they talk to, is outside the repository.

## 6. Where the code and its words disagree

- `FetchTorn`: fetch.rs:14-15 promises that the destination "is always a feed that at least
  opens". Two overlapping runs share `<a>.zip.part`, and one may rename it while the other
  is writing it.
- `FetchStaleSidecar`: fetch.rs:95-97 says the only cost of a sidecar that cannot be written
  is a full download. The previous sidecar is still there; if the agency returns to the
  previous feed it is confirmed with a 304, and the update is missed.
- `FetchInterrupted`: fetch.rs:270 says "atomically"; the old archive is removed before the
  rename, so a crash in between leaves none.
- `BuildStaleWindow`: main.rs:263 promises "one date window that every agency being built actually
  covers". The archives are opened again after it was resolved (main.rs:302 and 221), so a fetch in
  between makes a build succeed with a window that a feed it read does not cover.
- `BuildDangling`: cube.py:55-56 says dangling keys in the cube mean a regression upstream,
  because the ingest validates them. A rebuild with a changed feed leaves partitions of dates
  it does not write, under dimensions it replaces.

Also seen while modelling, and not given a run of their own: two overlapping runs that download
different feeds share the part file, so that the older body can overwrite the newer, and the run of
the newer rename it into place and record the validators of its own, after which every `--force` is
answered that nothing changed (against fetch.rs:25-27, "it must never be the reason a real update is
missed"; every theorem about validators therefore assumes that fetches do not overlap); `inspect`
accepts a feed without any service date (main.rs:159), or with a noon that does not resolve, and the
build ends at it (main.rs:303-305), where main.rs:182 wants it "usable as a gate"
(`InspectedFeedsBuild` says that these are all such cases); a
feed that fails validation stops the build after earlier agencies were written (against
main.rs:273-276); a killed first build leaves facts without dimensions, which
write.rs:329-330 calls worse than neither; `for_date` lists events by service id first,
then in feed order, where schedule.rs:163-164 says "with trips in feed order"; schedule.rs:178
says that validation reports a trip without stop_times, and `check` does not; a
`(trip_id, stop_sequence)` that stands twice in stop_times.txt passes validation and yields two
events with one id, which is why `IdsAreUnique` assumes it does not; time.rs:75 says that 02:30
falls out as 03:30 on a spring-forward day, while measured from noon it is 01:30, as the tests
of that file have it.

Further: an agency id may contain the ':' that separates it in a key, so that agency `A` with stop
`B:1` and agency `A:B` with stop `1` have one key, and `validate` does not refuse it; a
`stop_sequence` above 2^31-1 wraps in the cast of facts.rs:128, which is why `CallsInOrder` assumes
there is none; a feed with three levels of stops gives a boarding area a `station_key` that names a
platform; a server that answers 304 to a request without validators makes `fetch` panic on its
`expect`; and serve.py:118 catches only `DatasetError`, so that a file torn by a build ends the load
with the error of the reader, and a cube that loads while a *first* build runs may show facts as
Unknown, because facts are written before dimensions (`ServedTablesAgree` starts from a success).

## 7. Plan

1. `Fetch`, contract, refinement, proofs - done.
2. `Window`, `ServiceCalendar`, their proofs - done.
3. `Build` composed with `Window`, its proofs - done.
4. `StopTime`, `Schedule`, and the theorems on keys, midnight and the timetable - done.
5. `Tables`: every column that is not copied, the dimensions, the summary - done.
6. `FeedArchive` and `Ingest`: archives with flaws and whole command lines, their proofs - done.
7. `Cube`: a load while builds run - done.
8. Theorems on the tables, the walk, the refusals of a calendar, the archives that are read twice, and
   the dataset and cube while archives stay - done.
9. Next: that `Build` uses a window as `Ingest` does (one step of a build in `Ingest` is a run of
   `Build`); the safety part of `Recovers`, as a lemma on what a repeated build finds.
10. The topic script's exit status; the Atoti session's hierarchies, as far as `cube.py` defines them.
