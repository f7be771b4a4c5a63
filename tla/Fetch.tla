------------------------------- MODULE Fetch -------------------------------
(***************************************************************************)
(* `transit-ingest fetch`: keeping one agency's static GTFS archive        *)
(* current (src/rust/transit-ingest/src/fetch.rs).                         *)
(*                                                                         *)
(* A process runs static_archive: it looks at the archive on disk, reads   *)
(* the validators kept beside it, asks the server, and either keeps what   *)
(* it has or installs the body it was given and records the validators     *)
(* that came with it.  Every file-system call and the request are steps of *)
(* their own, because a crash or another process may come between any two. *)
(*                                                                         *)
(* A feed is its version.  A validator (ETag, Last-Modified) is the        *)
(* version of the body it was sent with.  A file is the set of versions    *)
(* whose bytes it holds: {} is a truncated file, {v} the whole of v, and a *)
(* larger set is a file two writers have overwritten in part.              *)
(***************************************************************************)
EXTENDS Naturals

CONSTANTS
    Procs,       \* the fetch processes that may run on this archive
    Inodes,      \* the files the data directory can hold
    MaxVersion,  \* bound: the feeds the agency publishes are 1..MaxVersion
    MaxFaults,   \* bound: crashes, I/O errors and bad answers in a behaviour
    DiskFaults,  \* FALSE: only the server and the network misbehave
    Rollback,    \* TRUE: the agency may publish an earlier feed again
    ByDate,      \* TRUE: the server compares dates, not entity tags
    None         \* no file, no validators, no body

ASSUME BoundsAssumption  == MaxVersion \in Nat \ {0} /\ MaxFaults \in Nat
ASSUME SwitchAssumption  ==
    Rollback \in BOOLEAN /\ ByDate \in BOOLEAN /\ DiskFaults \in BOOLEAN
ASSUME NoneAssumption    == None \notin Nat /\ None \notin Inodes

Versions  == 1..MaxVersion
ErrorPage == 0                    \* an HTML page served with status 200
Bodies    == Versions \cup {ErrorPage}

VARIABLES
    published,   \* the feed the server holds now
    file,        \* the contents of each file
    dest,        \* the file at <agency>.zip
    part,        \* the file at <agency>.zip.part
    sidecar,     \* the validators readable in <agency>.zip.cache.json
    pc,          \* the next step of each process
    cond,        \* the validators a process sends with its request
    body,        \* the body a process was answered with
    tag,         \* the validators that came with that body
    fd,          \* the file a process has open for writing
    installed,   \* history: every feed that was ever renamed into place, whole
    faults       \* the faults so far

disk  == <<file, dest, part, sidecar>>
local == <<cond, body, tag, fd>>
vars  == <<published, disk, pc, local, installed, faults>>

Steps == {"idle", "sidecar", "request", "validate", "write", "exists",
          "remove", "rename", "record"}

Init ==
    /\ published = 1
    /\ file = [i \in Inodes |-> {}]
    /\ dest = None /\ part = None /\ sidecar = None
    /\ pc   = [p \in Procs |-> "idle"]
    /\ cond = [p \in Procs |-> None]
    /\ body = [p \in Procs |-> None]
    /\ tag  = [p \in Procs |-> None]
    /\ fd   = [p \in Procs |-> None]
    /\ installed = {}
    /\ faults = 0

-----------------------------------------------------------------------------
(* Helpers *)

At(p, s)   == pc[p] = s
Goto(p, s) == pc' = [pc EXCEPT ![p] = s]

\* The process ends: its memory and its open file go with it.
End(p) ==
    /\ Goto(p, "idle")
    /\ cond' = [cond EXCEPT ![p] = None]
    /\ body' = [body EXCEPT ![p] = None]
    /\ tag'  = [tag  EXCEPT ![p] = None]
    /\ fd'   = [fd   EXCEPT ![p] = None]

Fault     == faults < MaxFaults /\ faults' = faults + 1
DiskFault == DiskFaults /\ Fault

\* A file that opens as one feed: one version's bytes, and nobody writing it.
Whole(i) ==
    /\ \E v \in Versions : file[i] = {v}
    /\ \A p \in Procs : fd[p] # i

Holds(v) == dest # None /\ Whole(dest) /\ file[dest] = {v}

\* What a conditional request carrying the validators of t is answered: "not
\* modified" when they are those of the published feed, or no older by date.
Confirms(t) ==
    /\ t # None
    /\ IF ByDate THEN t >= published ELSE t = published

FreeInodes == {i \in Inodes : i # dest /\ i # part /\ \A p \in Procs : fd[p] # i}

-----------------------------------------------------------------------------
(* The agency's server *)

Publish ==
    /\ \E v \in Versions : /\ v # published
                           /\ v > published \/ Rollback
                           /\ published' = v
    /\ UNCHANGED <<disk, pc, local, installed, faults>>

-----------------------------------------------------------------------------
(* static_archive *)

\* The archive's metadata: without --force a present archive ends the run, and
\* validators are read only when there is an archive for a 304 to refer to.
Stat(p, force) ==
    /\ At(p, "idle")
    /\ Goto(p, IF dest = None THEN "request"
               ELSE IF force THEN "sidecar" ELSE "idle")
    /\ UNCHANGED <<published, disk, local, installed, faults>>

ReadSidecar(p) ==
    /\ At(p, "sidecar")
    /\ Goto(p, "request")
    /\ cond' = [cond EXCEPT ![p] = sidecar]
    /\ UNCHANGED <<published, disk, body, tag, fd, installed, faults>>

\* Mutant: after a 304 the same question is asked again.
AskAgain(p) ==
    /\ At(p, "request")
    /\ Confirms(cond[p])
    /\ Goto(p, "sidecar")
    /\ cond' = [cond EXCEPT ![p] = None]
    /\ UNCHANGED <<published, disk, body, tag, fd, installed, faults>>

\* download: the server confirms what the process holds; nothing is written.
NotModified(p) ==
    /\ At(p, "request")
    /\ Confirms(cond[p])
    /\ End(p)
    /\ UNCHANGED <<published, disk, installed, faults>>

\* Mutant: the validators are recorded as soon as they are received.
GetFeedRecording(p) ==
    /\ At(p, "request")
    /\ Goto(p, "validate")
    /\ body' = [body EXCEPT ![p] = published]
    /\ \E t \in {published, None} : tag' = [tag EXCEPT ![p] = t] /\ sidecar' = t
    /\ UNCHANGED <<published, file, dest, part, cond, fd, installed, faults>>

\* download: status 200, with the feed of the moment and its validators (which
\* a server need not send), whether or not the request was conditional.
GetFeed(p) ==
    /\ At(p, "request")
    /\ Goto(p, "validate")
    /\ body' = [body EXCEPT ![p] = published]
    /\ \E t \in {published, None} : tag' = [tag EXCEPT ![p] = t]
    /\ UNCHANGED <<published, disk, cond, fd, installed, faults>>

\* download: status 200, with an error page and its own validators.
GetErrorPage(p) ==
    /\ At(p, "request")
    /\ Fault
    /\ Goto(p, "validate")
    /\ body' = [body EXCEPT ![p] = ErrorPage]
    /\ \E t \in {ErrorPage, None} : tag' = [tag EXCEPT ![p] = t]
    /\ UNCHANGED <<published, disk, cond, fd, installed>>

\* download: no answer in time, a broken transfer, or a status of failure.
DownloadError(p) ==
    /\ At(p, "request")
    /\ Fault
    /\ End(p)
    /\ UNCHANGED <<published, disk, installed>>

-----------------------------------------------------------------------------
(* install *)

\* Mutant: the body is trusted because its status was 200.
Unvalidated(b) == TRUE

\* validate_archive: the body is a zip with the files GTFS requires.
Valid(b) == b # ErrorPage

\* Mutant: the old archive is removed before the new body is looked at.
RejectTooLate(p) ==
    /\ At(p, "validate") /\ ~Valid(body[p])
    /\ End(p)
    /\ dest' = None
    /\ UNCHANGED <<published, file, part, sidecar, installed, faults>>

\* What is not a feed is refused before anything is written.
Reject(p) ==
    /\ At(p, "validate")
    /\ ~Valid(body[p])
    /\ End(p)
    /\ UNCHANGED <<published, disk, installed, faults>>

\* The body passed: .zip.part is created, or truncated where it already exists
\* (a crashed run's, or one another process is writing at this moment).
OpenPart(p) ==
    /\ At(p, "validate")
    /\ Valid(body[p])
    /\ \E i \in IF part = None THEN FreeInodes ELSE {part} :
          /\ part' = i
          /\ file' = [file EXCEPT ![i] = {}]
          /\ fd' = [fd EXCEPT ![p] = i]
    /\ Goto(p, "write")
    /\ UNCHANGED <<published, dest, sidecar, cond, body, tag, installed, faults>>

\* Mutant: a short write is not noticed.
WriteShort(p) ==
    /\ At(p, "write")
    /\ fd' = [fd EXCEPT ![p] = None]
    /\ Goto(p, "exists")
    /\ UNCHANGED <<published, disk, cond, body, tag, installed, faults>>

\* The last byte is written.  Where another process wrote the same file since,
\* its bytes may be covered or may show through.
WritePart(p) ==
    /\ At(p, "write")
    /\ \E rest \in {{}, file[fd[p]]} :
          file' = [file EXCEPT ![fd[p]] = rest \cup {body[p]}]
    /\ fd' = [fd EXCEPT ![p] = None]
    /\ Goto(p, "exists")
    /\ UNCHANGED <<published, dest, part, sidecar, cond, body, tag, installed, faults>>

\* Mutant: an archive that is already there is left there.
KeepDest(p) ==
    /\ At(p, "exists")
    /\ Goto(p, IF dest = None THEN "rename" ELSE "record")
    /\ UNCHANGED <<published, disk, local, installed, faults>>

\* dest.exists(), a look that the removal after it relies on.
CheckDest(p) ==
    /\ At(p, "exists")
    /\ Goto(p, IF dest = None THEN "rename" ELSE "remove")
    /\ UNCHANGED <<published, disk, local, installed, faults>>

\* remove_file(dest), an error when another process removed it first.
RemoveDest(p) ==
    /\ At(p, "remove")
    /\ \/ dest # None /\ Goto(p, "rename") /\ UNCHANGED local
       \/ dest = None /\ End(p)
    /\ dest' = None
    /\ UNCHANGED <<published, file, part, sidecar, installed, faults>>

\* rename(.zip.part, dest), an error when another process renamed it first.  It
\* moves whatever the file holds by now, which need not be the process's body.
Rename(p) ==
    /\ At(p, "rename")
    /\ IF part = None
       THEN End(p) /\ UNCHANGED <<dest, part, installed>>
       ELSE /\ dest' = part
            /\ part' = None
            /\ installed' = installed \cup {v \in Versions : file[part] = {v}}
            /\ Goto(p, "record")
            /\ UNCHANGED local
    /\ UNCHANGED <<published, file, sidecar, faults>>

\* Mutant: without new validators the old sidecar is left alone.
RecordIfAny(p) ==
    /\ At(p, "record")
    /\ sidecar' = IF tag[p] = None THEN sidecar ELSE tag[p]
    /\ End(p)
    /\ UNCHANGED <<published, file, dest, part, installed, faults>>

\* CacheValidators::write: the new validators replace the old, and where there
\* are none the sidecar is removed.
Record(p) ==
    /\ At(p, "record")
    /\ sidecar' = tag[p]
    /\ End(p)
    /\ UNCHANGED <<published, file, dest, part, installed, faults>>

\* The sidecar cannot be written (only a warning) or removed (ignored): the old
\* one stays, or is left unreadable.
RecordError(p) ==
    /\ At(p, "record")
    /\ DiskFault
    /\ sidecar' \in {sidecar, None}
    /\ End(p)
    /\ UNCHANGED <<published, file, dest, part, installed>>

-----------------------------------------------------------------------------
(* Failures *)

\* What a writer that stops half-way leaves in its file: nothing complete of
\* its own, or a part of it over what another process wrote meanwhile.
Abandon(p) ==
    IF fd[p] = None THEN UNCHANGED file
    ELSE \E left \in {{}, file[fd[p]], file[fd[p]] \cup {body[p]}} :
            /\ file[fd[p]] = {} => left = {}
            /\ file' = [file EXCEPT ![fd[p]] = left]

\* A file-system call of install fails, and static_archive with it.
IoError(p) ==
    /\ pc[p] \in {"write", "remove", "rename"} \/ (At(p, "validate") /\ Valid(body[p]))
    /\ DiskFault
    /\ Abandon(p)
    /\ End(p)
    /\ UNCHANGED <<published, dest, part, sidecar, installed>>

\* The process is killed, or the machine goes down, at any point.  A sidecar
\* being written is left truncated, which reads as no sidecar.
Crash(p) ==
    /\ ~At(p, "idle")
    /\ DiskFault
    /\ Abandon(p)
    /\ IF At(p, "record") THEN sidecar' \in {sidecar, None} ELSE UNCHANGED sidecar
    /\ End(p)
    /\ UNCHANGED <<published, dest, part, installed>>

-----------------------------------------------------------------------------
(* The specification *)

Start(p) == \E force \in BOOLEAN : Stat(p, force)

\* The next step of a process that is running.
Step(p) ==
    \/ ReadSidecar(p)
    \/ NotModified(p) \/ GetFeed(p)
    \/ Reject(p) \/ OpenPart(p) \/ WritePart(p)
    \/ CheckDest(p) \/ RemoveDest(p) \/ Rename(p)
    \/ Record(p)

Fail(p) ==
    \/ GetErrorPage(p) \/ DownloadError(p)
    \/ RecordError(p) \/ IoError(p) \/ Crash(p)

Next ==
    \/ Publish
    \/ \E p \in Procs : Start(p) \/ Step(p) \/ Fail(p)

Spec == Init /\ [][Next]_vars

\* A process that is running goes on: the code never waits for anything but
\* the server, and the client's timeout bounds that wait.
FairSpec == Spec /\ \A p \in Procs : WF_vars(Step(p))

-----------------------------------------------------------------------------
(* Properties *)

TypeOK ==
    /\ published \in Versions
    /\ file \in [Inodes -> SUBSET Versions]
    /\ dest \in Inodes \cup {None}
    /\ part \in Inodes \cup {None}
    /\ sidecar \in Bodies \cup {None}
    /\ pc \in [Procs -> Steps]
    /\ cond \in [Procs -> Bodies \cup {None}]
    /\ body \in [Procs -> Bodies \cup {None}]
    /\ tag \in [Procs -> Bodies \cup {None}]
    /\ fd \in [Procs -> Inodes \cup {None}]
    /\ installed \subseteq Bodies
    /\ faults \in 0..MaxFaults

\* "The file at the destination path is always a feed that at least opens"
\* (fetch.rs:15-16): it is one whole feed, whatever was interrupted.
ArchiveOpens == dest # None => Whole(dest)

\* A 304 never hides an update (fetch.rs:25-27): whenever the server would
\* confirm the validators a process has sent, and no other fetch is half-way,
\* the archive on disk is the published feed.
ConfirmationIsTruthful ==
    \A p \in Procs :
        /\ At(p, "request")
        /\ Confirms(cond[p])
        /\ \A q \in Procs \ {p} : At(q, "idle")
        => Holds(published)

\* The validators on disk never describe a body that was refused, nor one that
\* did not reach the destination (the comment at fetch.rs:180-182), wherever
\* the runs before stopped.
ValidatorsDescribeAnInstall == sidecar # None => sidecar \in installed

\* Once an archive has been installed, a run that ends (well, badly or by a
\* crash) leaves an archive behind: replacing it is atomic (fetch.rs:270).
ArchiveSurvives ==
    (installed # {} /\ \A p \in Procs : At(p, "idle")) => dest # None

-----------------------------------------------------------------------------
(* Why the safety properties hold *)

\* Past validation the body is a feed, and its validators travel with it.
BodyChecked ==
    \A p \in Procs :
        /\ At(p, "validate") => body[p] # None
        /\ pc[p] \in {"write", "exists", "remove", "rename", "record"}
              => body[p] \in Versions
        /\ tag[p] # None => tag[p] = body[p]

\* A process has a file open only while it writes it.
OpenWhileWriting == \A p \in Procs : fd[p] # None => At(p, "write")

\* The two paths name different files, and a process writes only .zip.part.
FilesApart ==
    /\ dest # None => dest # part
    /\ \A p \in Procs : At(p, "write") => fd[p] # None /\ fd[p] = part

\* What is at the destination is a whole feed; what is about to be moved there
\* is the body the process validated.
FilesWhole ==
    /\ dest # None => \E v \in Versions : file[dest] = {v}
    /\ \A p \in Procs :
        /\ At(p, "write") => file[part] = {}
        /\ pc[p] \in {"exists", "remove", "rename"}
              => part # None /\ file[part] = {body[p]}
        /\ At(p, "rename") => dest = None
        /\ At(p, "record") => dest # None /\ file[dest] = {body[p]}
                                          /\ body[p] \in installed

\* A conditional request is about the archive and the sidecar still on disk.
RequestCurrent ==
    \A p \in Procs :
        /\ pc[p] \in {"idle", "sidecar"} => cond[p] = None
        /\ At(p, "sidecar") => dest # None
        /\ At(p, "request") /\ cond[p] # None => cond[p] = sidecar /\ dest # None

\* Nothing on disk or in hand is newer than what the server holds, and nothing
\* in hand or at the destination is older than what was installed before.
NewestInstalled ==
    /\ \A m \in installed : m <= published
    /\ installed # {} => \E n \in installed : \A m \in installed : m <= n
    /\ dest # None => \A v \in file[dest] :
          v <= published /\ \A m \in installed : m <= v
    /\ \A p \in Procs : body[p] \in Versions =>
          body[p] <= published /\ \A m \in installed : m <= body[p]

\* While an archive is missing that was there, its replacement is under way.
Replacing == installed # {} /\ dest = None => \E p \in Procs : At(p, "rename")

\* True of any number of processes.
SharedInv ==
    /\ BodyChecked
    /\ OpenWhileWriting
    /\ installed \subseteq Versions

\* No two fetches of one archive: the setting the documentation assumes.
Sequential == \A p, q \in Procs : p = q

\* True when runs on one archive do not overlap.
SequentialInv ==
    /\ FilesApart
    /\ FilesWhole
    /\ RequestCurrent
    /\ ValidatorsDescribeAnInstall

\* Every run ends: no step waits for another process.
Terminates == \A p \in Procs : ~At(p, "idle") ~> At(p, "idle")

\* Every update is picked up in the end: if the server keeps being asked, the
\* archive that idle processes leave becomes and stays the published feed.
Converges ==
    (\E p \in Procs : []<>At(p, "request"))
    => <>[]((\A p \in Procs : At(p, "idle")) => Holds(published))

=============================================================================
