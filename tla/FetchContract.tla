--------------------------- MODULE FetchContract ---------------------------
(***************************************************************************)
(* What `transit-ingest fetch` promises whoever reads the data directory:  *)
(* the archive is absent or one whole feed, it never goes back to an older *)
(* feed than one it held, and the validators beside it are only ever those *)
(* of the archive they are recorded for.                                   *)
(***************************************************************************)
EXTENDS Naturals

CONSTANTS MaxVersion, None

VARIABLES
    published,   \* the feed the agency's server holds
    archive,     \* the feed on disk
    newest,      \* the last feed that was put there, 0 before the first
    validators   \* the feed the recorded validators belong to

vars == <<published, archive, newest, validators>>

Init == published = 1 /\ archive = None /\ newest = 0 /\ validators = None

Publish ==
    /\ published' \in (published + 1)..MaxVersion
    /\ UNCHANGED <<archive, newest, validators>>

\* The archive makes room for another one.
Withdraw ==
    /\ archive' = None
    /\ UNCHANGED <<published, newest, validators>>

Install ==
    /\ archive = None
    /\ archive' \in (newest..published) \ {0}
    /\ newest' = archive'
    /\ UNCHANGED <<published, validators>>

\* The validators of the archive in place are recorded, or none are.
Describe ==
    /\ archive # None
    /\ validators' \in {None, archive}
    /\ UNCHANGED <<published, archive, newest>>

Next == Publish \/ Withdraw \/ Install \/ Describe

Spec == Init /\ [][Next]_vars

=============================================================================
