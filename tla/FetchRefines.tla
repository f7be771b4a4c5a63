---------------------------- MODULE FetchRefines ----------------------------
(***************************************************************************)
(* The detailed fetch of Fetch.tla implements the promise of FetchContract *)
(* as long as one process at a time works on an archive and the agency     *)
(* does not go back to an earlier feed.                                    *)
(***************************************************************************)
EXTENDS Fetch

\* The feed at the destination; a file that opens as none is no feed at all.
Archive ==
    IF dest = None THEN None
    ELSE IF Whole(dest) THEN CHOOSE v \in Versions : file[dest] = {v}
    ELSE ErrorPage

\* The newest body that was ever put in place.
Newest == CHOOSE n \in installed \cup {0} : \A m \in installed : m <= n

Contract == INSTANCE FetchContract WITH
    archive <- Archive, newest <- Newest, validators <- sidecar

\* Every behaviour of fetch is one the contract allows: each file-system call
\* installs a whole feed no older than the last, records the validators of the
\* archive in place, or changes nothing a reader could see.
KeepsContract == Contract!Spec

=============================================================================
