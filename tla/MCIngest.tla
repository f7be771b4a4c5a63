------------------------------ MODULE MCIngest ------------------------------
(***************************************************************************)
(* Ingest with two agencies, over two families of initial states:          *)
(*   - one build of both, with every combination of the options of its     *)
(*     window, over every pair of spans of a small calendar;               *)
(*   - two commands in a row, over archives with every kind of flaw on the *)
(*     disk and on the servers, and registries with every kind of mistake. *)
(* MaxDays reaches past the last date, where the arithmetic panics.        *)
(***************************************************************************)
EXTENDS Ingest

CONSTANTS A, B, MaxDays

Entries(dir, names) ==
    [i \in DOMAIN names |-> [dir |-> dir, name |-> names[i], rows |-> "rows"]]

\* A feed whose only calendar file is calendar_dates.txt, as of two of the agencies.
Feed(dates) ==
    [zip |-> TRUE, entries |-> Entries("", REQUIRED \o <<"calendar_dates.txt">>), dates |-> dates]

\* The same with other rows in its n-th file.
With(n, rows) == [Feed({2, 3}) EXCEPT !.entries[n].rows = rows]

Page    == [zip |-> FALSE, entries |-> <<>>, dates |-> {}]
Nested  == [Feed({1, 2}) EXCEPT !.entries = Entries("gtfs/", REQUIRED \o Optional)]
NoTimes == [Feed({2}) EXCEPT !.entries = SubSeq(@, 1, 4) \o SubSeq(@, 6, 6)]
NoDates == [Feed({}) EXCEPT !.entries = SubSeq(@, 1, 5)]
Twice   == [Feed({1, 2}) EXCEPT
               !.entries = @ \o <<[dir |-> "old/", name |-> "trips.txt", rows |-> "garbled"]>>]

Flawed == {Page, Nested, NoTimes, NoDates, Twice, Feed({}), Feed({1, 4}), With(4, "garbled"),
           With(4, "corrupt"), With(5, "odd"), With(5, "locked"), With(6, "odd"),
           With(6, "garbled"), With(6, "locked")}

Line(kind, agency) ==
    [kind |-> kind, agency |-> agency, archive |-> None, force |-> FALSE, allow |-> FALSE,
     from |-> None, to |-> None, days |-> None]

First == {Line("fetch", None), [Line("fetch", None) EXCEPT !.force = TRUE],
          Line("fetch", A), Line("inspect", A), Line("build", None)}
Second == {Line("inspect", A), Line("build", None), Line("build", A), Line("fetch", None),
           [Line("build", None) EXCEPT !.allow = TRUE],
           [Line("build", A) EXCEPT !.from = 1, !.to = 2]}
Others == {Line("agencies", None), Line("inspect", B),
           [Line("inspect", A) EXCEPT !.archive = Given],
           [Line("build", B) EXCEPT !.archive = Given],
           [Line("build", None) EXCEPT !.archive = Given]}

Zone(ids) == [i \in DOMAIN ids |-> [id |-> ids[i], tz |-> TRUE]]
Good == [parses |-> TRUE, agencies |-> Zone(<<A, B>>)]
Mistaken == {[parses |-> FALSE, agencies |-> <<>>], [parses |-> TRUE, agencies |-> <<>>],
             [parses |-> TRUE, agencies |-> Zone(<<A>>)],
             [parses |-> TRUE, agencies |-> Zone(<<A, B, A>>)],
             [parses |-> TRUE, agencies |-> <<[id |-> A, tz |-> TRUE], [id |-> B, tz |-> FALSE]>>]}

\* Every window of a build of both agencies.
Windows ==
    /\ registry = Good
    /\ disk \in [Paths -> {Feed(a..b) : a, b \in Dates}]
    /\ disk[Given] = Feed({}) /\ offers = [a \in AgencyIds |-> disk[a]]
    /\ script \in {<<[Line("build", None) EXCEPT !.from = f, !.to = t, !.days = d]>> :
                      f \in Dates \cup {None}, t \in Dates \cup {None}, d \in 0..MaxDays \cup {None}}
    /\ script[1].to = None \/ script[1].days = None

\* Two commands over flawed archives.
Flaws ==
    /\ registry = Good
    /\ disk \in [Paths -> Flawed \cup {None}]
    /\ disk[B] \in {Feed({1, 4}), None} /\ disk[Given] = None
    /\ offers \in [AgencyIds -> Flawed \cup {None}]
    /\ offers[B] \in {Feed({1, 4}), Nested, None}
    /\ script \in {<<c, d>> : c \in First, d \in Second}

\* Every kind of registry, and the remaining command lines.
Registries ==
    /\ registry \in Mistaken \cup {Good}
    /\ disk \in [Paths -> {Feed({1, 4}), With(5, "odd")}]
    /\ offers \in [AgencyIds -> {Feed({1, 4})}]
    /\ script \in {<<c, d>> : c, d \in Others \cup First}

Inputs ==
    /\ Windows \/ Flaws \/ Registries
    /\ command = Head(script)
    /\ from = None /\ to = None /\ days = None
    /\ coverages = <<>> /\ reader = 0 /\ shared = NoSpan /\ window = Pending
    /\ pc = "shell" /\ seen = {} /\ turn = 1 /\ error = "none"
    /\ written = {} /\ before = disk /\ installed = {} /\ passed = {}
    /\ faults = 0

MCSpec == Inputs /\ [][IngestNext]_ivars

=============================================================================
