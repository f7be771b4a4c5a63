----------------------------- MODULE MCCalendar -----------------------------
(***************************************************************************)
(* ServiceCalendar over every pair of short files: at most one row of      *)
(* patterns and MaxExceptions exceptions.  Unknown is an exception type    *)
(* GTFS does not define.                                                   *)
(***************************************************************************)
EXTENDS ServiceCalendar, TLC

CONSTANTS MaxPatterns, MaxExceptions

Unknown == 3

SmallPatterns ==
    {p \in Patterns : p.weekdays \in {{1}, {0, 1, 2, 3, 4, 5, 6}}}
SmallExceptions == {e \in [service : Services, date : Dates \cup {None}, type : {1, 2, Unknown}] :
                        e.date = None => e.type # Unknown}

UpTo(n, S) == UNION {[1..k -> S] : k \in 0..n}

Inputs ==
    /\ calendar \in UpTo(MaxPatterns, SmallPatterns)
    /\ calendar_dates \in UpTo(MaxExceptions, SmallExceptions)
    /\ pass = "weekly"
    /\ row = 0
    /\ known = {}
    /\ dates = [s \in Services |-> {}]
    /\ by_date = [d \in Dates |-> {}]

MCSpec == Inputs /\ [][Next]_vars

Symmetry == Permutations(Services)

=============================================================================
