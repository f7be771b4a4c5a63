------------------------------- MODULE MCCube -------------------------------
(***************************************************************************)
(* Cube over the instance of MCBuild: whole builds repeated over the       *)
(* same archives, checked or not and killed at any point, and one load at  *)
(* any time.  The year of the first date has no holidays.                  *)
(***************************************************************************)
EXTENDS MCBuild, Cube

MCCovered == 2..MaxDate

\* All dates, or those with holidays.
MCFilters == {1..MaxDate, MCCovered}

\* The cube's registry is the one of the builds, lacks an agency, or is refused.
MCRegistries == {{Subway, Railroad}, {Railroad}, None}

\* Feeds whose windows overlap; that share none; of which one does not pass validation,
\* or neither does and no key is defined; and all of whose dates lack holidays.
Archives == {<<"late", "early">>, <<"late", "first">>, <<"late", "broken">>,
             <<"broken", "broken">>, <<"first", "first">>}

MCCubeInit == CubeInit /\ <<archive[Subway], archive[Railroad]>> \in Archives

MCCubeSpec == MCCubeInit /\ [][CubeNext]_cvars /\ WF_vars(Step)

=============================================================================
