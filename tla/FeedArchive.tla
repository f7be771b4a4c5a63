---------------------------- MODULE FeedArchive -----------------------------
(***************************************************************************)
(* What the ingest makes of a GTFS archive: the reader of                  *)
(* src/rust/transit-ingest/src/gtfs/archive.rs, the calendar files read on *)
(* their own (gtfs/calendar.rs) and the check of a download (fetch.rs).    *)
(*                                                                         *)
(* An archive is the list of its entries.  An entry has a directory, a     *)
(* basename (compared without case) and rows, which are                    *)
(*    "rows"      rows that parse, and that nothing else objects to;       *)
(*    "odd"       rows that parse, and that validate::check reports or, in *)
(*                a calendar file, ServiceCalendar::from_rows refuses;     *)
(*    "empty"     a header only;                                           *)
(*    "garbled"   a row that does not parse;                               *)
(*    "locked"    not to be opened, for its encryption or compression;     *)
(*    "corrupt"   not to be read to its end, for a bad checksum.           *)
(* The dates are those on which its calendar files run a service.          *)
(***************************************************************************)
EXTENDS Integers, Sequences
LOCAL INSTANCE FiniteSetsExt

\* The files, in the order they are read.
REQUIRED == <<"agency.txt", "routes.txt", "stops.txt", "trips.txt", "stop_times.txt">>
Optional == <<"calendar.txt", "calendar_dates.txt">>

Rows == {"rows", "odd", "empty", "garbled", "locked", "corrupt"}

Archives(Dates) ==
    [zip     : BOOLEAN,      \* whether the bytes are a zip archive at all
     entries : Seq([dir : STRING, name : STRING, rows : Rows]),
     dates   : SUBSET Dates]

Named(archive, name) == {i \in DOMAIN archive.entries : archive.entries[i].name = name}

\* Mutant: a file nested in a directory is not found.
index_of_path(archive, name) ==
    {i \in Named(archive, name) : /\ archive.entries[i].dir = ""
                                  /\ \A j \in Named(archive, name) : i <= j}

\* Where a file is: the first entry with its basename, if there is one.
index_of(archive, name) ==
    {i \in Named(archive, name) : \A j \in Named(archive, name) : i <= j}

\* What that entry holds.
File(archive, name) ==
    IF index_of(archive, name) = {} THEN "absent"
    ELSE archive.entries[CHOOSE i \in index_of(archive, name) : TRUE].rows

parse_csv(rows) == IF rows = "garbled" THEN "Csv" ELSE "none"

\* The entry is opened (by_index), read to its end, and parsed.
read_index(rows) ==
    IF rows = "locked" THEN "BadArchive"
    ELSE IF rows = "corrupt" THEN "Io"
    ELSE parse_csv(rows)

read_required(archive, name) ==
    IF File(archive, name) = "absent" THEN "MissingFile" ELSE read_index(File(archive, name))

read_optional(archive, name) == read_index(File(archive, name))

FirstError(errors) ==
    LET raised == {i \in DOMAIN errors : errors[i] # "none"} IN
    IF raised = {} THEN "none"
    ELSE errors[CHOOSE i \in raised : \A j \in raised : i <= j]

\* ServiceCalendar::from_rows over the two calendar files.
from_rows(archive) ==
    IF \E i \in DOMAIN Optional : File(archive, Optional[i]) = "odd"
    THEN "BadCalendar" ELSE "none"

\* Neither calendar file has a row.
NoCalendar(archive) ==
    \A i \in DOMAIN Optional : File(archive, Optional[i]) \in {"absent", "empty"}

\* StaticFeed::read; a feed needs one of the two calendar files to have a row.
StaticFeed(archive) ==
    IF ~archive.zip THEN "BadArchive"
    ELSE FirstError([i \in DOMAIN REQUIRED |-> read_required(archive, REQUIRED[i])]
                    \o [i \in DOMAIN Optional |-> read_optional(archive, Optional[i])]
                    \o <<IF NoCalendar(archive) THEN "MissingFile" ELSE "none">>)

\* ServiceCalendar::read, which opens the calendar files only.
ServiceCalendar(archive) ==
    IF ~archive.zip THEN "BadArchive"
    ELSE FirstError([i \in DOMAIN Optional |-> read_optional(archive, Optional[i])]
                    \o <<from_rows(archive)>>)

\* The span of the dates with service, if there is any.
coverage(archive) ==
    IF archive.dates = {} THEN [kind |-> "no service"]
    ELSE [kind |-> "span", first |-> Min(archive.dates), last |-> Max(archive.dates)]

\* Whether validate::check reports anything.
Violations(archive) == \E i \in DOMAIN REQUIRED : File(archive, REQUIRED[i]) = "odd"

\* What fetch accepts: a zip with an entry for each required file.
validate_archive(body) ==
    body.zip /\ \A i \in DOMAIN REQUIRED : Named(body, REQUIRED[i]) # {}

=============================================================================
