------------------------------- MODULE Window -------------------------------
(***************************************************************************)
(* The date window of `transit-ingest build`: resolve_window and           *)
(* narrow_window of src/rust/transit-ingest/src/main.rs.                   *)
(*                                                                         *)
(* Without both --from and --to the archives of the selected agencies are  *)
(* opened one after another for the span of dates each covers, and the     *)
(* window is cut from what they share.  A date is a number; dates end at   *)
(* MaxDate, past which date arithmetic panics.                             *)
(***************************************************************************)
EXTENDS Integers, Sequences

CONSTANTS
    MaxDate,   \* bound: the last date the calendar type can hold
    None       \* an option not given

ASSUME MaxDateAssumption    == MaxDate \in Nat \ {0}
ASSUME WindowNoneAssumption == None \notin Int

Dates == 1..MaxDate

\* What ServiceCalendar::read and coverage make of an archive, and the span that
\* the archives opened so far share: none yet, or its first and last date.
Spans     == [kind : {"span"}, first : Dates, last : Dates]
NoSpan    == [kind |-> "none"]
Coverages == [kind : {"unreadable", "no service"}] \cup {s \in Spans : s.first <= s.last}

VARIABLES
    coverages,   \* what the archive of each selected agency covers
    from, to, days,   \* the options of the command line, None when not given
    reader,      \* how many archives were opened
    shared,      \* the span the opened ones share
    window       \* the outcome of resolve_window

options == <<from, to, days>>
vars == <<coverages, options, reader, shared, window>>

Pending  == [kind |-> "pending"]
Opening  == [kind |-> "opening"]
Failed   == [kind |-> "failed"]
Panicked == [kind |-> "panicked"]
Ok(s, e) == [kind |-> "ok", start |-> s, end |-> e]

Later(a, b)   == IF a < b THEN b ELSE a
Earlier(a, b) == IF a < b THEN a ELSE b

-----------------------------------------------------------------------------

\* --days 0 is refused; a window given in full needs no archive.
CheckOptions ==
    /\ window = Pending
    /\ window' = IF days = 0 THEN Failed
                 ELSE IF from # None /\ to # None
                 THEN IF to < from THEN Failed ELSE Ok(from, to)
                 ELSE Opening
    /\ UNCHANGED <<coverages, options, reader, shared>>

\* Mutant: the union of the coverages is kept.
OpenForUnion ==
    /\ window = Opening
    /\ reader < Len(coverages)
    /\ LET covered == coverages[reader + 1] IN
       IF covered.kind # "span"
       THEN window' = Failed /\ UNCHANGED <<reader, shared>>
       ELSE /\ shared' =
                 IF shared = NoSpan THEN covered
                 ELSE [kind  |-> "span",
                       first |-> Earlier(shared.first, covered.first),
                       last  |-> Later(shared.last, covered.last)]
            /\ reader' = reader + 1
            /\ UNCHANGED window
    /\ UNCHANGED <<coverages, options>>

\* The next archive is opened; one that cannot be read, or that runs no service
\* at all, ends the build.
OpenArchive ==
    /\ window = Opening
    /\ reader < Len(coverages)
    /\ LET covered == coverages[reader + 1] IN
       IF covered.kind # "span"
       THEN window' = Failed /\ UNCHANGED <<reader, shared>>
       ELSE /\ shared' =
                 IF shared = NoSpan THEN covered
                 ELSE [kind  |-> "span",
                       first |-> Later(shared.first, covered.first),
                       last  |-> Earlier(shared.last, covered.last)]
            /\ reader' = reader + 1
            /\ UNCHANGED window
    /\ UNCHANGED <<coverages, options>>

\* Mutant: a day too many.
EndFromNextDay(start) ==
    IF to # None THEN to
    ELSE IF days # None THEN Earlier(start + days, shared.last)
    ELSE shared.last

\* The end of the window: --to, or --days counted from its start and cut off
\* where the shared coverage ends, or the end of that coverage.
EndFrom(start) ==
    IF to # None THEN to
    ELSE IF days # None THEN Earlier(start + days - 1, shared.last)
    ELSE shared.last

\* Mutant: one shared date is taken for none.
NarrowStrictly ==
    /\ window = Opening
    /\ reader = Len(coverages)
    /\ LET start == IF from # None THEN from ELSE shared.first IN
       window' =
          IF shared.first >= shared.last THEN Failed
          ELSE IF to = None /\ days # None /\ start + days - 1 > MaxDate THEN Panicked
          ELSE IF EndFrom(start) < start THEN Failed
          ELSE Ok(start, EndFrom(start))
    /\ UNCHANGED <<coverages, options, reader, shared>>

\* narrow_window, once every archive was read: --days past the last date the
\* calendar can hold panics before it is cut off.
Narrow ==
    /\ window = Opening
    /\ reader = Len(coverages)
    /\ LET start == IF from # None THEN from ELSE shared.first IN
       window' =
          IF shared.first > shared.last THEN Failed
          ELSE IF to = None /\ days # None /\ start + days - 1 > MaxDate THEN Panicked
          ELSE IF EndFrom(start) < start THEN Failed
          ELSE Ok(start, EndFrom(start))
    /\ UNCHANGED <<coverages, options, reader, shared>>

Next == CheckOptions \/ OpenArchive \/ Narrow

\* A command line and the archives it finds.
Start ==
    /\ from \in Dates \cup {None}
    /\ to \in Dates \cup {None}
    /\ days \in Nat \cup {None}
    /\ to = None \/ days = None        \* the two options exclude each other
    /\ coverages \in Seq(Coverages) /\ coverages # <<>>
    /\ reader = 0
    /\ shared = NoSpan
    /\ window = Pending

Spec == Start /\ [][Next]_vars

-----------------------------------------------------------------------------
(* Properties *)

\* The dates every archive opened so far covers.
CoveredBy(n, d) ==
    \A i \in 1..n : /\ coverages[i].kind = "span"
                    /\ coverages[i].first <= d
                    /\ d <= coverages[i].last

WindowTypeOK ==
    /\ from \in Dates \cup {None} /\ to \in Dates \cup {None}
    /\ days \in Nat \cup {None}
    /\ coverages \in Seq(Coverages) /\ coverages # <<>>
    /\ reader \in 0..Len(coverages)
    /\ shared \in Spans \cup {NoSpan}
    /\ \/ window \in {Pending, Opening, Failed, Panicked}
       \/ \E s, e \in Dates : window = Ok(s, e)

\* The loop's meaning: the span kept is exactly the intersection of the archives
\* opened so far, empty (first after last) when they share no date.
SharedIsIntersection ==
    /\ reader = 0 <=> shared = NoSpan
    /\ reader > 0 => \A d \in Dates :
          (shared.first <= d /\ d <= shared.last) <=> CoveredBy(reader, d)

Resolved == window.kind = "ok"

\* Without --from and --to every date of the window is one that every selected
\* agency covers: "the default window is the intersection of coverage" (main.rs).
DefaultWindowIsShared ==
    (Resolved /\ from = None /\ to = None) =>
        \A d \in window.start..window.end : CoveredBy(Len(coverages), d)

\* ... and the build does not give up when there is such a date to start from.
SharedDatesAreBuilt ==
    (window = Failed /\ days # 0 /\ from = None /\ to = None) =>
        \A d \in Dates : ~CoveredBy(Len(coverages), d)

\* What ties the outcome to the archives that were opened.
WindowInv ==
    /\ WindowTypeOK
    /\ SharedIsIntersection
    /\ window = Pending => reader = 0
    /\ (Resolved /\ from = None /\ to = None) =>
          /\ reader = Len(coverages)
          /\ window.start = shared.first /\ window.end <= shared.last
          /\ days = None => window.end = shared.last
    /\ Resolved => window.start <= window.end
    /\ SharedDatesAreBuilt

\* --days asks for at most that many days, counted from the window's first, and
\* gets fewer only where the shared coverage ends.
DaysAreCounted ==
    (Resolved /\ to = None /\ days # None) =>
        /\ window.end - window.start + 1 <= days
        /\ \/ window.end - window.start + 1 = days
           \/ window.end = shared.last

=============================================================================
