------------------------------- MODULE Ingest -------------------------------
(***************************************************************************)
(* The command line of transit-ingest                                      *)
(* (src/rust/transit-ingest/src/main.rs), one invocation after another in  *)
(* one data directory: the registry is loaded and validated (config.rs),   *)
(* an agency or all of them are selected, and `agencies`, `fetch`,         *)
(* `inspect` or `build` goes through them in order up to the first that    *)
(* fails.                                                                  *)
(*                                                                         *)
(* What an archive reads as is FeedArchive.tla, the window of a build is   *)
(* Window.tla.  The steps inside one fetch are Fetch.tla, the writes of    *)
(* one build are Build.tla and Schedule.tla: here each is a single step,   *)
(* with its ways to fail.                                                  *)
(***************************************************************************)
EXTENDS Window, FeedArchive

CONSTANTS
    AgencyIds,   \* the ids a registry or a command line may name
    Given,       \* the file named by --archive
    MaxFaults    \* bound: the network and disk errors of a behaviour

\* The archive files: one for each agency id (archive_path), and the one named.
Paths == AgencyIds \cup {Given}

VARIABLES
    registry,    \* agencies.toml: whether it parses, and its agencies in order
    offers,      \* what the static_url of each agency answers with, None: a failure
    disk,        \* the archive at each path
    script,      \* the command lines still to be run
    command,     \* the one that is running, or was run last
    pc,          \* what the process does next
    seen,        \* the agency ids validated so far
    turn,        \* the position in the loop over the agencies
    error,       \* how the last invocation ended
    written,     \* history: the agencies this invocation wrote a dataset of
    before,      \* history: the archives when this invocation began
    installed,   \* history: the paths whose archive a fetch put there
    passed,      \* history: the paths whose archive inspect accepted
    faults

data    == <<registry, offers>>
history == <<written, before, installed, passed>>
windowV == <<coverages, options, reader, shared, window>>
ivars   == <<data, disk, script, command, windowV, pc, seen, turn, error, history, faults>>

\* What a command line can ask for: inspect names its agency, and --days excludes --to.
Command ==
    {c \in [kind : {"agencies", "fetch", "inspect", "build"}, agency : AgencyIds \cup {None},
            archive : {Given, None}, force : BOOLEAN, allow : BOOLEAN,
            from : Dates \cup {None}, to : Dates \cup {None}, days : Nat \cup {None}] :
        /\ c.kind = "inspect" => c.agency # None
        /\ c.to = None \/ c.days = None}

-----------------------------------------------------------------------------
(* Helpers *)

Ids == {registry.agencies[i].id : i \in DOMAIN registry.agencies}

\* Config::agency finds the id a command names, if it names one.
Known == command.agency = None \/ command.agency \in Ids

\* select: the ids of the agency named, or of all of them.
Selected ==
    IF command.agency # None THEN <<command.agency>>
    ELSE [i \in DOMAIN registry.agencies |-> registry.agencies[i].id]

Agency == Selected[turn]

\* The path a build or an inspect reads for an agency.
archive_of(id) == IF command.archive # None THEN command.archive ELSE id

\* Archive::open of a path: what the whole feed, or its calendar, reads as.
read_feed(path) == IF disk[path] = None THEN "Io" ELSE StaticFeed(disk[path])
read_calendar(path) == IF disk[path] = None THEN "Io" ELSE ServiceCalendar(disk[path])

\* What an archive covers: see Window.tla.
CoverageOf(path) ==
    IF read_calendar(path) # "none" THEN [kind |-> "unreadable"] ELSE coverage(disk[path])

End(e) == pc' = "shell" /\ error' = e

\* Mutant: one agency too many.
AdvancePast(next) ==
    IF turn <= Len(Selected)
    THEN turn' = turn + 1 /\ pc' = next /\ UNCHANGED error
    ELSE End("none") /\ UNCHANGED turn

\* The invocation goes on with the next agency, or was successful.
Advance(next) ==
    IF turn < Len(Selected)
    THEN turn' = turn + 1 /\ pc' = next /\ UNCHANGED error
    ELSE End("none") /\ UNCHANGED turn

Fault == faults < MaxFaults /\ faults' = faults + 1

-----------------------------------------------------------------------------
(* main, Config::load *)

\* The next command line is run, and the registry read: it has to parse and to
\* define an agency.
Run ==
    /\ pc = "shell" /\ script # <<>>
    /\ command' = Head(script) /\ script' = Tail(script)
    /\ from' = Head(script).from /\ to' = Head(script).to /\ days' = Head(script).days
    /\ coverages' = <<>> /\ reader' = 0 /\ shared' = NoSpan /\ window' = Pending
    /\ seen' = {} /\ turn' = 1
    /\ written' = {} /\ before' = disk
    /\ IF ~registry.parses THEN End("Parse")
       ELSE IF registry.agencies = <<>> THEN End("NoAgencies")
       ELSE pc' = "validate" /\ error' = "none"
    /\ UNCHANGED <<data, disk, installed, passed, faults>>

\* Mutant: the ids met are not remembered.
ValidateTimezone ==
    /\ pc = "validate"
    /\ LET agency == registry.agencies[turn] IN
       IF agency.id \in seen THEN End("DuplicateAgencyId") /\ UNCHANGED turn
       ELSE IF ~agency.tz THEN End("UnknownTimezone") /\ UNCHANGED turn
       ELSE /\ IF turn < Len(registry.agencies)
               THEN turn' = turn + 1 /\ UNCHANGED pc
               ELSE turn' = 1 /\ pc' = "dispatch"
            /\ UNCHANGED error
    /\ UNCHANGED <<data, disk, script, command, windowV, seen, history, faults>>

\* Config::validate, one agency: its id is new, its timezone is one chrono knows.
Validate ==
    /\ pc = "validate"
    /\ LET agency == registry.agencies[turn] IN
       /\ seen' = seen \cup {agency.id}
       /\ IF agency.id \in seen THEN End("DuplicateAgencyId") /\ UNCHANGED turn
          ELSE IF ~agency.tz THEN End("UnknownTimezone") /\ UNCHANGED turn
          ELSE /\ IF turn < Len(registry.agencies)
                  THEN turn' = turn + 1 /\ UNCHANGED pc
                  ELSE turn' = 1 /\ pc' = "dispatch"
               /\ UNCHANGED error
    /\ UNCHANGED <<data, disk, script, command, windowV, history, faults>>

\* The command and its agencies: for a build, what ServiceCalendar::read will
\* find in the archives is fixed here, nothing else writing them meanwhile.
Dispatch ==
    /\ pc = "dispatch"
    /\ IF command.kind = "agencies" THEN End("none")
       ELSE IF command.kind = "build" /\ command.agency = None /\ command.archive # None
       THEN End("Usage")
       ELSE IF ~Known THEN End("UnknownAgency")
       ELSE pc' = command.kind /\ UNCHANGED error
    /\ coverages' =
         IF pc' # "build" THEN coverages
         ELSE [i \in DOMAIN Selected |-> CoverageOf(archive_of(Selected[i]))]
    /\ UNCHANGED <<data, disk, script, command, options, reader, shared, window, seen,
                   turn, history, faults>>

-----------------------------------------------------------------------------
(* Command::Fetch *)

\* The archive that is there is kept, without --force; with it, the server
\* confirms that it is still the one it publishes.
Keep ==
    /\ pc = "fetch"
    /\ disk[Agency] # None
    /\ command.force => disk[Agency] = offers[Agency]
    /\ Advance("fetch")
    /\ UNCHANGED <<data, disk, script, command, windowV, seen, history, faults>>

\* Mutant: a download that fails does not end the loop.
DownloadAll ==
    /\ pc = "fetch"
    /\ disk[Agency] = None \/ command.force
    /\ LET body == offers[Agency] IN
       IF body # None /\ validate_archive(body)
       THEN /\ disk' = [disk EXCEPT ![Agency] = body]
            /\ installed' = installed \cup {Agency}
            /\ passed' = passed \ {Agency}
            /\ Advance("fetch")
       ELSE Advance("fetch") /\ UNCHANGED <<disk, installed, passed>>
    /\ UNCHANGED <<data, script, command, windowV, seen, written, before, faults>>

\* The body is downloaded, validated and installed, or the loop ends.
Download ==
    /\ pc = "fetch"
    /\ disk[Agency] = None \/ command.force
    /\ LET body == offers[Agency] IN
       IF body = None THEN End("HttpStatus") /\ UNCHANGED <<disk, installed, passed, turn>>
       ELSE IF ~validate_archive(body)
       THEN End("Rejected") /\ UNCHANGED <<disk, installed, passed, turn>>
       ELSE /\ disk' = [disk EXCEPT ![Agency] = body]
            /\ installed' = installed \cup {Agency}
            /\ passed' = passed \ {Agency}
            /\ Advance("fetch")
    /\ UNCHANGED <<data, script, command, windowV, seen, written, before, faults>>

\* The request or a file operation fails; one between the removal of the old
\* archive and the rename of the new one leaves none (Fetch.tla).
FetchFails ==
    /\ pc = "fetch"
    /\ disk[Agency] = None \/ command.force
    /\ Fault
    /\ End("Fault")
    /\ \E content \in {disk[Agency], None} : disk' = [disk EXCEPT ![Agency] = content]
    /\ passed' = {p \in passed : disk'[p] # None}
    /\ installed' = {p \in installed : disk'[p] # None}
    /\ UNCHANGED <<data, script, command, windowV, seen, turn, written, before>>

-----------------------------------------------------------------------------
(* Command::Inspect *)

\* Mutant: the calendar is not expanded.
InspectRows ==
    /\ pc = "inspect"
    /\ LET path == archive_of(command.agency) IN
       IF read_feed(path) # "none" THEN End(read_feed(path)) /\ UNCHANGED passed
       ELSE IF Violations(disk[path]) THEN End("Violations") /\ UNCHANGED passed
       ELSE End("none") /\ passed' = passed \cup {path}
    /\ UNCHANGED <<data, disk, script, command, windowV, seen, turn, written, before,
                   installed, faults>>

\* The feed is read, its calendar expanded and its keys checked; a feed without
\* any service date is reported and accepted.
Inspect ==
    /\ pc = "inspect"
    /\ LET path == archive_of(command.agency) IN
       IF read_feed(path) # "none" THEN End(read_feed(path)) /\ UNCHANGED passed
       ELSE IF from_rows(disk[path]) # "none"
       THEN End(from_rows(disk[path])) /\ UNCHANGED passed
       ELSE IF Violations(disk[path]) THEN End("Violations") /\ UNCHANGED passed
       ELSE End("none") /\ passed' = passed \cup {path}
    /\ UNCHANGED <<data, disk, script, command, windowV, seen, turn, written, before,
                   installed, faults>>

-----------------------------------------------------------------------------
(* Command::Build *)

\* A step of resolve_window.
ResolveWindow ==
    /\ pc = "build"
    /\ Next
    /\ UNCHANGED <<data, disk, script, command, pc, seen, turn, error, history, faults>>

NextPath == archive_of(Selected[reader + 1])

\* Whether resolve_window ended at that archive, which is of that kind.
EndedAt(kind) ==
    /\ days # 0 /\ (from = None \/ to = None)
    /\ reader < Len(coverages) /\ coverages[reader + 1].kind = kind

\* Its outcome: the loop over the agencies, or the end.
UseWindow ==
    /\ pc = "build"
    /\ \/ window.kind = "ok" /\ pc' = "write" /\ UNCHANGED error
       \/ window = Panicked /\ End("Panic")
       \/ window = Failed /\ End(IF EndedAt("unreadable") THEN read_calendar(NextPath)
                                 ELSE IF EndedAt("no service") THEN "NoService"
                                 ELSE "NoWindow")
    /\ UNCHANGED <<data, disk, script, command, windowV, seen, turn, history, faults>>

\* The archive of the next agency is read again, this time whole, and checked, its
\* calendar expanded (Schedule::index) and its dataset written, unless the noon of
\* one of the dates cannot be told in the agency's timezone (Schedule.tla).
Write ==
    /\ pc = "write"
    /\ LET path == archive_of(Agency) IN
       IF read_feed(path) # "none" THEN End(read_feed(path)) /\ UNCHANGED <<turn, written>>
       ELSE IF Violations(disk[path]) /\ ~command.allow
       THEN End("Violations") /\ UNCHANGED <<turn, written>>
       ELSE IF from_rows(disk[path]) # "none"
       THEN End(from_rows(disk[path])) /\ UNCHANGED <<turn, written>>
       ELSE \/ written' = written \cup {Agency} /\ Advance("write")
            \/ /\ \E d \in disk[path].dates : d \in window.start..window.end
               /\ End("BadNoon") /\ UNCHANGED <<turn, written>>
    /\ UNCHANGED <<data, disk, script, command, windowV, seen, before, installed, passed,
                   faults>>

\* A file of the dataset cannot be written (Build.tla has what is left of it).
WriteFails ==
    /\ pc = "write"
    /\ Fault
    /\ End("Fault")
    /\ UNCHANGED <<data, disk, script, command, windowV, seen, turn, history>>

IngestNext ==
    \/ Run \/ Validate \/ Dispatch
    \/ Keep \/ Download \/ FetchFails
    \/ Inspect
    \/ ResolveWindow \/ UseWindow \/ Write \/ WriteFails

\* Any registry, archives and servers, and any sequence of command lines.
IngestInit ==
    /\ registry \in [parses : BOOLEAN, agencies : Seq([id : AgencyIds, tz : BOOLEAN])]
    /\ offers \in [AgencyIds -> Archives(Dates) \cup {None}]
    /\ disk \in [Paths -> Archives(Dates) \cup {None}]
    /\ script \in Seq(Command) /\ script # <<>>
    /\ command = Head(script)
    /\ from = None /\ to = None /\ days = None
    /\ coverages = <<>> /\ reader = 0 /\ shared = NoSpan /\ window = Pending
    /\ pc = "shell" /\ seen = {} /\ turn = 1 /\ error = "none"
    /\ written = {} /\ before = disk /\ installed = {} /\ passed = {}
    /\ faults = 0

IngestSpec == IngestInit /\ [][IngestNext]_ivars

-----------------------------------------------------------------------------
(* Properties *)

IngestTypeOK ==
    /\ command \in Command
    /\ pc \in {"shell", "validate", "dispatch", "fetch", "inspect", "build", "write"}
    /\ pc \in {"fetch", "inspect", "build", "write"} => turn \in 1..Len(Selected)
    /\ pc = "validate" => turn \in 1..Len(registry.agencies)
    /\ reader \in 0..Len(coverages)
    /\ written \subseteq Ids /\ installed \subseteq Ids /\ passed \subseteq Paths

\* No two agencies share an id, and every timezone is known.
Sound == /\ \A i, j \in DOMAIN registry.agencies :
                registry.agencies[i].id = registry.agencies[j].id => i = j
         /\ \A i \in DOMAIN registry.agencies : registry.agencies[i].tz

\* Nothing past the loading of the registry can stumble over it (config.rs:189): the
\* ids are distinct, so that archives and keys are not shared, the timezone that
\* index parses again is known, and some agency is selected (the expect of main.rs:333).
RegistryIsSound ==
    pc \in {"dispatch", "fetch", "inspect", "build", "write"} => Sound /\ Selected # <<>>

\* What an archive can be refused for when it is read.
ReadErrors == {"Io", "BadArchive", "MissingFile", "Csv", "BadCalendar"}

\* What ends a build for what is in an archive.
FeedErrors == ReadErrors \cup {"Violations", "NoService", "BadNoon"}

\* What the command is for has been done for the i-th agency.
Done(i) == \/ command.kind = "fetch" /\ disk[Selected[i]] # None
           \/ command.kind = "build" /\ Selected[i] \in written

Untouched(i) == disk[Selected[i]] = before[Selected[i]] /\ Selected[i] \notin written

\* The commands that go through the agencies do so in order: when one of them ends,
\* every agency before the last one reached is done (it has an archive, or its
\* dataset is written), and of those after it nothing was touched.  Another run
\* therefore takes up where this one ended.
FailureLeavesPrefix ==
    pc = "shell" /\ error \in {"HttpStatus", "Rejected", "Fault"} \cup FeedErrors =>
        \A i \in DOMAIN Selected : (i < turn => Done(i)) /\ (i > turn => Untouched(i))

\* Where the last invocation stopped reading.
FailedPath == archive_of(Selected[IF window = Failed THEN reader + 1 ELSE turn])

\* Some entry that the reader opens does not open.
Locked(archive) ==
    \/ \E i \in DOMAIN REQUIRED : File(archive, REQUIRED[i]) = "locked"
    \/ \E i \in DOMAIN Optional : File(archive, Optional[i]) = "locked"

\* The check of a download (fetch.rs:308) and the reader (archive.rs:108) find the
\* same entries: what fetch installed is a zip in which the reader finds every
\* required file.  Where it is refused later as no archive, or for want of a file,
\* that is for what the check does not look at: the contents of an entry, and the
\* calendar files, which both may be absent.
FetchedArchivesAreComplete ==
    pc = "shell" /\ error \in {"BadArchive", "MissingFile"} /\ FailedPath \in installed =>
        LET archive == disk[FailedPath] IN
        /\ archive.zip
        /\ \A i \in DOMAIN REQUIRED : File(archive, REQUIRED[i]) # "absent"
        /\ error = "MissingFile" => NoCalendar(archive)
        /\ error = "BadArchive" => Locked(archive)

\* A build ended for an archive that inspect accepted and that was not replaced since.
AcceptedAndRefused ==
    pc = "shell" /\ command.kind = "build" /\ error \in FeedErrors /\ FailedPath \in passed

\* Inspect is meant as a gate ("Exit non-zero so this is usable as a gate",
\* main.rs:182), but what it accepts can end a build after all, for two reasons only:
\* it has no service on any date, which inspect reports and lets pass (main.rs:159),
\* or the noon of a service date does not exist in the agency's timezone, which inspect
\* does not resolve.  Every other check of a build it makes as well, in its own order.
InspectedFeedsBuild ==
    AcceptedAndRefused =>
        \/ error = "NoService" /\ disk[FailedPath].dates = {}
        \/ error = "BadNoon" /\ disk[FailedPath].dates # {}

\* What was validated of the registry before the turn.
ReadSoFar ==
    /\ turn <= Len(registry.agencies)
    /\ seen = {registry.agencies[i].id : i \in 1..(turn - 1)}
    /\ \A i \in 1..(turn - 1) : registry.agencies[i].tz
    /\ \A i, j \in 1..(turn - 1) :
          registry.agencies[i].id = registry.agencies[j].id => i = j

\* What the loops keep: the registry is checked up to the turn, and where agencies
\* are gone through, those before the turn are done and the others untouched.
LoopInv ==
    /\ registry.agencies \in Seq([id : AgencyIds, tz : BOOLEAN])
    /\ script \in Seq(Command) /\ command \in Command
    /\ DOMAIN disk = Paths
    /\ turn \in Nat \ {0}
    /\ pc = "validate" => ReadSoFar
    /\ RegistryIsSound
    /\ pc \in {"validate", "dispatch", "inspect", "build"} => disk = before /\ written = {}
    /\ pc \in {"dispatch", "inspect", "build"} => turn = 1
    /\ pc \in {"fetch", "inspect", "build", "write"} => Known
    /\ pc \in {"fetch", "build"} => command.kind = pc
    /\ pc = "write" => command.kind = "build"
    /\ pc \in {"fetch", "write"} =>
          /\ turn <= Len(Selected)
          /\ \A i \in DOMAIN Selected : (i < turn => Done(i)) /\ (i >= turn => Untouched(i))
    /\ FailureLeavesPrefix

\* Besides: the loops stay within their bounds, the window is resolved by a build and
\* by nothing else, and the archives that were installed, or accepted by inspect, are
\* still what they were when they were.
ArchivesInv ==
    /\ pc \in {"shell", "validate", "dispatch", "fetch", "inspect", "build", "write"}
    /\ disk \in [Paths -> Archives(Dates) \cup {None}]
    /\ offers \in [AgencyIds -> Archives(Dates) \cup {None}]
    /\ reader \in Nat /\ Len(coverages) \in Nat /\ reader <= Len(coverages)
    /\ pc \in {"validate", "dispatch", "fetch", "inspect"} => window = Pending /\ reader = 0
    /\ pc = "build" =>
          coverages = [i \in DOMAIN Selected |-> CoverageOf(archive_of(Selected[i]))]
    /\ pc = "write" => window.kind = "ok"
    /\ pc = "inspect" => command.kind = "inspect"
    /\ written \subseteq Ids /\ installed \subseteq Ids /\ passed \subseteq Paths
    /\ \A p \in installed : disk[p] # None /\ validate_archive(disk[p])
    /\ \A p \in passed : /\ read_feed(p) = "none"
                         /\ from_rows(disk[p]) = "none"
                         /\ ~Violations(disk[p])

=============================================================================
