------------------------------ MODULE MCBuild ------------------------------
(***************************************************************************)
(* Build for two agencies, three dates and feeds that differ in what makes *)
(* builds hard: "early" ends with a date that has service but no events,   *)
(* "late" covers later dates with keys of its own, "broken" uses keys and  *)
(* defines none, "first" has no date in common with "late", and "empty"    *)
(* has no service at all.                                                  *)
(***************************************************************************)
EXTENDS Build, TLC

Subway   == "subway"
Railroad == "railroad"

MCRegistry == <<Subway, Railroad>>

MCServes == [early |-> 1..3, late |-> 2..3, broken |-> 2..3,
             first |-> {1}, empty |-> {}]

MCUses ==
    [early  |-> <<{"x"}, {"x"}, {}>>,
     late   |-> <<{}, {"y"}, {"x", "y"}>>,
     broken |-> <<{}, {"x"}, {"z"}>>,
     first  |-> <<{"x"}, {}, {}>>,
     empty  |-> <<{}, {}, {}>>]

MCDefines ==
    [early |-> {"x", "w"}, late |-> {"x", "y"}, broken |-> {},
     first |-> {"x"}, empty |-> {}]

CommandLines(agencies, froms, tos, counts, allows) ==
    {c \in [agency : agencies, from : froms, to : tos, days : counts, allow : allows] :
        c.to = None \/ c.days = None}

\* The flagless build of the whole registry.
DefaultCommand == CommandLines({None}, {None}, {None}, {None}, {FALSE})

\* ... which may also be told to write what does not pass validation.
WholeCommands == CommandLines({None}, {None}, {None}, {None}, BOOLEAN)

\* Builds of one agency or of all, checked or not.
AnyCommands ==
    CommandLines({None, Railroad}, {None, 2}, {None, 2}, {None, 1}, BOOLEAN)

=============================================================================
