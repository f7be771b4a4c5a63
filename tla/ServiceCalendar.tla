--------------------------- MODULE ServiceCalendar ---------------------------
(***************************************************************************)
(* When a service runs: ServiceCalendar::from_rows of                      *)
(* src/rust/transit-ingest/src/gtfs/calendar.rs, which expands the weekly  *)
(* patterns of calendar.txt and the exceptions of calendar_dates.txt.      *)
(*                                                                         *)
(* Three passes over the rows, one row a step, and then the inversion that *)
(* answers "what runs on this day".  Each pass is left at the first row    *)
(* that is refused.                                                        *)
(***************************************************************************)
EXTENDS Integers, Sequences

CONSTANTS
    Services,   \* the service ids
    MaxDate,    \* bound: the dates are 1..MaxDate
    MaxSpan,    \* MAX_SERVICE_SPAN_DAYS
    None        \* a date that cannot be parsed, no coverage

ASSUME CalendarBounds == MaxDate \in Nat \ {0} /\ MaxSpan \in Nat

Dates    == 1..MaxDate
Weekdays == 0..6
Weekday(d) == d % 7

ASSUME CalendarNone   == None \notin Int
ASSUME CalendarNoSpan == None \notin [first : Dates, last : Dates]

\* Rows of calendar.txt and of calendar_dates.txt.
Patterns   == [service : Services, start : Dates \cup {None},
               end : Dates \cup {None}, weekdays : SUBSET Weekdays]
Exceptions == [service : Services, date : Dates \cup {None}, type : Nat]

VARIABLES
    calendar, calendar_dates,   \* the rows
    pass,       \* "weekly", "additions", "removals", "invert", "ready", "refused"
    row,        \* the rows of this pass that were read
    known,      \* the services that have an entry
    dates,      \* the days of each service, none when it has no entry
    by_date     \* the services of each day

input == <<calendar, calendar_dates>>
vars  == <<input, pass, row, known, dates, by_date>>

-----------------------------------------------------------------------------

\* dates.entry(s).or_default(), and the days added to it.
Insert(s, days) ==
    /\ known' = known \cup {s}
    /\ dates' = [dates EXCEPT ![s] = @ \cup days]

\* dates.get_mut(s), and the day removed from it; without an entry, nothing.
Delete(s, d) ==
    /\ dates' = IF s \in known THEN [dates EXCEPT ![s] = @ \ {d}] ELSE dates
    /\ UNCHANGED known

RowsOfPass == IF pass = "weekly" THEN Len(calendar) ELSE Len(calendar_dates)

Refuse == pass' = "refused" /\ UNCHANGED <<input, row, known, dates, by_date>>

\* A pattern that ends before it starts has no days; one of implausible length
\* is refused, and so is a date that cannot be parsed.
Plausible(r) ==
    /\ r.start # None /\ r.end # None
    /\ r.end - r.start <= MaxSpan

PatternDays(r) == {d \in Dates : r.start <= d /\ d <= r.end /\ Weekday(d) \in r.weekdays}

\* calendar.txt, one row.
ExpandPattern ==
    /\ pass = "weekly" /\ row < Len(calendar)
    /\ LET r == calendar[row + 1] IN
       IF ~Plausible(r) THEN Refuse
       ELSE /\ Insert(r.service, PatternDays(r))
            /\ row' = row + 1
            /\ UNCHANGED <<input, pass, by_date>>

\* calendar_dates.txt, first pass: the additions.
Add ==
    /\ pass = "additions" /\ row < Len(calendar_dates)
    /\ LET r == calendar_dates[row + 1] IN
       IF r.type = 1 /\ r.date = None THEN Refuse
       ELSE /\ IF r.type = 1 THEN Insert(r.service, {r.date}) ELSE UNCHANGED <<known, dates>>
            /\ row' = row + 1
            /\ UNCHANGED <<input, pass, by_date>>

\* Mutant: a type nobody knows is taken for a removal of nothing.
RemoveLeniently ==
    /\ pass = "removals" /\ row < Len(calendar_dates)
    /\ LET r == calendar_dates[row + 1] IN
       IF r.type = 2 /\ r.date = None THEN Refuse
       ELSE /\ IF r.type = 2 THEN Delete(r.service, r.date) ELSE UNCHANGED <<known, dates>>
            /\ row' = row + 1
            /\ UNCHANGED <<input, pass, by_date>>

\* calendar_dates.txt, second pass: the removals, from services that have an
\* entry, and the refusal of any type but 1 and 2.
Remove ==
    /\ pass = "removals" /\ row < Len(calendar_dates)
    /\ LET r == calendar_dates[row + 1] IN
       IF r.type \notin {1, 2} \/ (r.type = 2 /\ r.date = None) THEN Refuse
       ELSE /\ IF r.type = 2 THEN Delete(r.service, r.date) ELSE UNCHANGED <<known, dates>>
            /\ row' = row + 1
            /\ UNCHANGED <<input, pass, by_date>>

\* Mutant: the removals come before the additions.
RemovalsFirst ==
    /\ pass \in {"weekly", "additions", "removals"}
    /\ row = RowsOfPass
    /\ row' = 0
    /\ pass' = CASE pass = "weekly"    -> "removals"
                 [] pass = "removals"  -> "additions"
                 [] pass = "additions" -> "invert"
    /\ UNCHANGED <<input, known, dates, by_date>>

\* Mutant: the row counter goes on counting.
NextPassNoReset ==
    /\ pass \in {"weekly", "additions", "removals"}
    /\ row = RowsOfPass
    /\ pass' = CASE pass = "weekly"    -> "additions"
                 [] pass = "additions" -> "removals"
                 [] pass = "removals"  -> "invert"
    /\ UNCHANGED <<input, row, known, dates, by_date>>

\* A pass is over.
NextPass ==
    /\ pass \in {"weekly", "additions", "removals"}
    /\ row = RowsOfPass
    /\ row' = 0
    /\ pass' = CASE pass = "weekly"    -> "additions"
                 [] pass = "additions" -> "removals"
                 [] pass = "removals"  -> "invert"
    /\ UNCHANGED <<input, known, dates, by_date>>

\* Mutant: only calendar.txt is indexed.
InvertPatterns ==
    /\ pass = "invert"
    /\ by_date' = [d \in Dates |-> {s \in Services :
          \E n \in DOMAIN calendar :
              calendar[n].service = s /\ d \in PatternDays(calendar[n])}]
    /\ pass' = "ready"
    /\ UNCHANGED <<input, row, known, dates>>

\* The index by date, made once every exception was applied.
Invert ==
    /\ pass = "invert"
    /\ by_date' = [d \in Dates |-> {s \in Services : d \in dates[s]}]
    /\ pass' = "ready"
    /\ UNCHANGED <<input, row, known, dates>>

Next == ExpandPattern \/ Add \/ Remove \/ NextPass \/ Invert

Start ==
    /\ calendar \in Seq(Patterns)
    /\ calendar_dates \in Seq(Exceptions)
    /\ pass = "weekly"
    /\ row = 0
    /\ known = {}
    /\ dates = [s \in Services |-> {}]
    /\ by_date = [d \in Dates |-> {}]

Spec == Start /\ [][Next]_vars

-----------------------------------------------------------------------------
(* What the rest of the ingest asks *)

Ready == pass = "ready"

runs_on(s, d)  == s \in known /\ d \in dates[s]
services_on(d) == by_date[d]
active_dates   == {d \in Dates : by_date[d] # {}}

\* The first and the last date of any service, None when nothing runs.
Served == UNION {dates[s] : s \in known}
coverage ==
    IF Served = {} THEN None
    ELSE [first |-> CHOOSE d \in Served : \A e \in Served : d <= e,
          last  |-> CHOOSE d \in Served : \A e \in Served : e <= d]

-----------------------------------------------------------------------------
(* Properties *)

CalendarTypeOK ==
    /\ calendar \in Seq(Patterns)
    /\ calendar_dates \in Seq(Exceptions)
    /\ pass \in {"weekly", "additions", "removals", "invert", "ready", "refused"}
    /\ row \in Nat
    /\ pass = "weekly" => row <= Len(calendar)
    /\ pass \in {"additions", "removals"} => row <= Len(calendar_dates)
    /\ known \subseteq Services
    /\ dates \in [Services -> SUBSET Dates]
    /\ by_date \in [Dates -> SUBSET Services]

\* What the first n rows of each file say of service s and day d, as a reader
\* of GTFS understands them, whatever the order of the rows.
Scheduled(n, s, d) ==
    \E k \in 1..n : calendar[k].service = s /\ d \in PatternDays(calendar[k])
Excepted(n, s, d, type) ==
    \E k \in 1..n : /\ calendar_dates[k].service = s
                    /\ calendar_dates[k].date = d
                    /\ calendar_dates[k].type = type

\* A service runs on the days its patterns give, and on those that were added,
\* unless they were removed: a removal wins over an addition of the same day in
\* whatever order the rows are (calendar.rs:18-20).
RemovalsWin ==
    Ready => \A s \in Services, d \in Dates :
        runs_on(s, d) <=>
            /\ \/ Scheduled(Len(calendar), s, d)
               \/ Excepted(Len(calendar_dates), s, d, 1)
            /\ ~Excepted(Len(calendar_dates), s, d, 2)

\* The two views agree: the services of a day are those that run on it, and the
\* coverage goes from the first such day to the last (calendar.rs:150-151, 203-214).
ViewsAgree ==
    Ready =>
        /\ \A s \in Services, d \in Dates : s \in services_on(d) <=> runs_on(s, d)
        /\ coverage = None <=> active_dates = {}
        /\ coverage # None =>
              /\ {coverage.first, coverage.last} \subseteq active_dates
              /\ \A d \in active_dates : coverage.first <= d /\ d <= coverage.last

\* A row that can be refused is, wherever it stands; a calendar without one is
\* never refused.
Acceptable ==
    /\ \A n \in DOMAIN calendar : Plausible(calendar[n])
    /\ \A n \in DOMAIN calendar_dates :
          calendar_dates[n].type \in {1, 2} /\ calendar_dates[n].date # None

RefusedForCause ==
    /\ Ready => Acceptable
    /\ pass = "refused" => ~Acceptable

-----------------------------------------------------------------------------
(* Why they hold: the rows read so far, in each pass *)

PatternsRead  == IF pass = "weekly" THEN row ELSE Len(calendar)
AdditionsRead == IF pass = "weekly" THEN 0
                 ELSE IF pass = "additions" THEN row ELSE Len(calendar_dates)
RemovalsRead  == IF pass \in {"weekly", "additions"} THEN 0
                 ELSE IF pass = "removals" THEN row ELSE Len(calendar_dates)

\* After any step the days of a service are what the rows read so far say.
DaysSoFar ==
    pass # "refused" => \A s \in Services, d \in Dates :
        d \in dates[s] <=>
            /\ Scheduled(PatternsRead, s, d) \/ Excepted(AdditionsRead, s, d, 1)
            /\ ~Excepted(RemovalsRead, s, d, 2)

KnownSoFar == \A s \in Services : dates[s] # {} => s \in known

Indexed ==
    Ready => \A s \in Services, d \in Dates : s \in by_date[d] <=> d \in dates[s]

CalendarInv == CalendarTypeOK /\ DaysSoFar /\ KnownSoFar /\ Indexed

\* No row read so far could have been refused, until one is.
RowsAccepted ==
    IF pass = "refused" THEN ~Acceptable
    ELSE /\ \A n \in 1..PatternsRead  : Plausible(calendar[n])
         /\ \A n \in 1..AdditionsRead :
               calendar_dates[n].type = 1 => calendar_dates[n].date # None
         /\ \A n \in 1..RemovalsRead  :
               /\ calendar_dates[n].type \in {1, 2}
               /\ calendar_dates[n].type = 2 => calendar_dates[n].date # None

=============================================================================
