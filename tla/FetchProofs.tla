---------------------------- MODULE FetchProofs ----------------------------
(***************************************************************************)
(* Theorems about fetch, for every number of processes, files, versions    *)
(* and faults.                                                             *)
(***************************************************************************)
EXTENDS FetchRefines, TLAPS

Checked == TypeOK /\ SharedInv

\* A writer that stops leaves files that hold bytes of feeds and of nothing else.
LEMMA AbandonKeepsFeeds ==
    ASSUME TypeOK, SharedInv, NEW p \in Procs, Abandon(p)
    PROVE  file' \in [Inodes -> SUBSET Versions]
<1>1. CASE fd[p] = None
  BY <1>1 DEF Abandon, TypeOK
<1>2. CASE fd[p] # None
  <2>1. body[p] \in Versions
    BY <1>2 DEF OpenWhileWriting, SharedInv, BodyChecked, At
  <2>2. PICK left \in {{}, file[fd[p]], file[fd[p]] \cup {body[p]}} :
           file' = [file EXCEPT ![fd[p]] = left]
    BY <1>2 DEF Abandon
  <2>3. left \in SUBSET Versions
    BY <1>2, <2>1 DEF TypeOK
  <2> QED BY <2>2, <2>3 DEF TypeOK
<1> QED BY <1>1, <1>2

\* One step keeps the types and what holds of any number of processes.  The
\* two go together: that a file holds feeds only is known because the body a
\* process writes was validated.
LEMMA CheckedStep == Checked /\ [Next]_vars => Checked'
<1> SUFFICES ASSUME Checked, [Next]_vars PROVE Checked'
  OBVIOUS
<1> USE BoundsAssumption, NoneAssumption
    DEF Checked, TypeOK, SharedInv, OpenWhileWriting, BodyChecked,
        Versions, Bodies, ErrorPage, Steps, disk, local, At, Goto, Valid
<1>1. CASE Publish
  BY <1>1 DEF Publish
<1>2. ASSUME NEW p \in Procs, Start(p) PROVE Checked'
  BY <1>2 DEF Start, Stat
<1>3. ASSUME NEW p \in Procs, Step(p) PROVE Checked'
  <2>1. CASE ReadSidecar(p)
    BY <2>1 DEF ReadSidecar
  <2>2. CASE NotModified(p)
    BY <2>2 DEF NotModified, End
  <2>3. CASE GetFeed(p)
    BY <2>3 DEF GetFeed
  <2>4. CASE Reject(p)
    BY <2>4 DEF Reject, End
  <2>5. CASE OpenPart(p)
    <3>1. PICK i \in Inodes : /\ part' = i
                              /\ file' = [file EXCEPT ![i] = {}]
                              /\ fd' = [fd EXCEPT ![p] = i]
      BY <2>5 DEF OpenPart, FreeInodes
    <3>2. body[p] \in Versions => Checked'
      <4>1. file' \in [Inodes -> SUBSET Versions] /\ fd' \in [Procs -> Inodes \cup {None}]
        BY <3>1
      <4>2. part' \in Inodes \cup {None} /\ pc' \in [Procs -> Steps]
        BY <2>5, <3>1 DEF OpenPart
      <4> QED BY <2>5, <4>1, <4>2 DEF OpenPart
    <3> QED BY <2>5, <3>2 DEF OpenPart
  <2>6. CASE WritePart(p)
    <3>1. body[p] \in Versions /\ fd[p] \in Inodes \cup {None}
      BY <2>6 DEF WritePart
    <3>2. PICK rest \in {{}, file[fd[p]]} :
             file' = [file EXCEPT ![fd[p]] = rest \cup {body[p]}]
      BY <2>6 DEF WritePart
    <3>3. file' \in [Inodes -> SUBSET Versions]
      BY <3>1, <3>2
    <3> QED BY <2>6, <3>1, <3>3 DEF WritePart
  <2>7. CASE CheckDest(p)
    BY <2>7 DEF CheckDest
  <2>8. CASE RemoveDest(p)
    BY <2>8 DEF RemoveDest, End
  <2>9. CASE Rename(p)
    <3>1. CASE part = None
      <4>1. End(p) /\ UNCHANGED <<published, file, dest, part, sidecar, installed, faults>>
        BY <2>9, <3>1 DEF Rename
      <4> QED BY <4>1 DEF End
    <3>2. CASE part # None
      <4>1. installed' = installed \cup {v \in Versions : file[part] = {v}}
            /\ body[p] \in Versions
        BY <2>9, <3>2 DEF Rename
      <4>2. pc' = [pc EXCEPT ![p] = "record"]
        BY <2>9, <3>2 DEF Rename
      <4> QED BY <2>9, <3>2, <4>1, <4>2 DEF Rename
    <3> QED BY <3>1, <3>2
  <2>10. CASE Record(p)
    BY <2>10 DEF Record, End
  <2> QED
    BY <1>3, <2>1, <2>2, <2>3, <2>4, <2>5, <2>6, <2>7, <2>8, <2>9, <2>10 DEF Step
<1>4. ASSUME NEW p \in Procs, Fail(p) PROVE Checked'
  <2>1. CASE GetErrorPage(p)
    BY <2>1 DEF GetErrorPage, DiskFault, Fault
  <2>2. CASE DownloadError(p)
    BY <2>2 DEF DownloadError, DiskFault, Fault, End
  <2>3. CASE RecordError(p)
    BY <2>3 DEF RecordError, DiskFault, Fault, End
  <2>4. CASE IoError(p)
    <3>1. file' \in [Inodes -> SUBSET Versions]
      BY <2>4, AbandonKeepsFeeds DEF IoError
    <3> QED BY <2>4, <3>1 DEF IoError, DiskFault, Fault, End
  <2>5. CASE Crash(p)
    <3>1. file' \in [Inodes -> SUBSET Versions]
      BY <2>5, AbandonKeepsFeeds DEF Crash
    <3> QED BY <2>5, <3>1 DEF Crash, DiskFault, Fault, End
  <2> QED BY <1>4, <2>1, <2>2, <2>3, <2>4, <2>5 DEF Fail
<1>5. CASE UNCHANGED vars
  BY <1>5 DEF vars
<1> QED BY <1>1, <1>2, <1>3, <1>4, <1>5 DEF Next

LEMMA CheckedInvariant == Spec => []Checked
<1>1. Init => Checked
  BY BoundsAssumption, NoneAssumption
     DEF Init, Checked, TypeOK, SharedInv, OpenWhileWriting, BodyChecked,
         Versions, Bodies, Steps, At
<1> QED BY <1>1, CheckedStep, PTL DEF Spec

\* The variables keep their types.
THEOREM TypeCorrect == Spec => []TypeOK
<1>1. Checked => TypeOK
  BY DEF Checked
<1> QED BY <1>1, CheckedInvariant, PTL

-----------------------------------------------------------------------------
(* Fetches of one archive that do not overlap *)

\* One step keeps the two paths apart and their files whole.
LEMMA SequentialStep ==
    ASSUME Sequential, Checked, Checked', SequentialInv, [Next]_vars
    PROVE  SequentialInv'
<1> USE NoneAssumption
    DEF Sequential, SequentialInv, FilesApart, FilesWhole, RequestCurrent,
        ValidatorsDescribeAnInstall,
        Checked, TypeOK, SharedInv, OpenWhileWriting, BodyChecked,
        disk, local, At, Goto, Steps
<1>1. CASE Publish
  BY <1>1 DEF Publish
<1>2. ASSUME NEW p \in Procs, Start(p) PROVE SequentialInv'
  BY <1>2 DEF Start, Stat
<1>3. ASSUME NEW p \in Procs, Step(p) PROVE SequentialInv'
  <2>1. CASE ReadSidecar(p)
    BY <2>1 DEF ReadSidecar
  <2>2. CASE NotModified(p)
    BY <2>2 DEF NotModified, End
  <2>3. CASE GetFeed(p)
    BY <2>3 DEF GetFeed
  <2>4. CASE Reject(p)
    BY <2>4 DEF Reject, End
  <2>5. CASE OpenPart(p)
    <3>1. PICK i \in Inodes : /\ part' = i /\ i # dest
                              /\ file' = [file EXCEPT ![i] = {}]
                              /\ fd' = [fd EXCEPT ![p] = i]
      <4>1. CASE part = None
        BY <2>5, <4>1 DEF OpenPart, FreeInodes
      <4>2. CASE part # None
        <5>1. /\ part' = part
              /\ file' = [file EXCEPT ![part] = {}]
              /\ fd' = [fd EXCEPT ![p] = part]
          BY <2>5, <4>2 DEF OpenPart
        <5>2. part \in Inodes /\ part # dest
          BY <4>2
        <5> QED BY <5>1, <5>2
      <4> QED BY <4>1, <4>2
    <3> QED BY <2>5, <3>1 DEF OpenPart
  <2>6. CASE WritePart(p)
    <3>1. fd[p] = part /\ file[part] = {} /\ part \in Inodes /\ part # dest
      BY <2>6 DEF WritePart
    <3>2. file' = [file EXCEPT ![part] = {body[p]}]
      <4>1. PICK rest \in {{}, file[fd[p]]} :
               file' = [file EXCEPT ![fd[p]] = rest \cup {body[p]}]
        BY <2>6 DEF WritePart
      <4>2. rest = {}
        BY <3>1
      <4> QED BY <3>1, <4>1, <4>2
    <3> QED BY <2>6, <3>1, <3>2 DEF WritePart
  <2>7. CASE CheckDest(p)
    BY <2>7 DEF CheckDest
  <2>8. CASE RemoveDest(p)
    BY <2>8 DEF RemoveDest, End
  <2>9. CASE Rename(p)
    <3>1. part # None /\ file[part] = {body[p]} /\ body[p] \in Versions
      BY <2>9 DEF Rename
    <3>2. installed' = installed \cup {body[p]}
      BY <2>9, <3>1 DEF Rename
    <3> QED BY <2>9, <3>1, <3>2 DEF Rename
  <2>10. CASE Record(p)
    BY <2>10 DEF Record, End
  <2> QED
    BY <1>3, <2>1, <2>2, <2>3, <2>4, <2>5, <2>6, <2>7, <2>8, <2>9, <2>10 DEF Step
<1>4. ASSUME NEW p \in Procs, Fail(p) PROVE SequentialInv'
  <2>1. CASE GetErrorPage(p)
    BY <2>1 DEF GetErrorPage
  <2>2. CASE DownloadError(p)
    BY <2>2 DEF DownloadError, End
  <2>3. CASE RecordError(p)
    BY <2>3 DEF RecordError, End
  <2>4. CASE IoError(p)
    BY <2>4 DEF IoError, End, Abandon
  <2>5. CASE Crash(p)
    BY <2>5 DEF Crash, End, Abandon
  <2> QED BY <1>4, <2>1, <2>2, <2>3, <2>4, <2>5 DEF Fail
<1>5. CASE UNCHANGED vars
  BY <1>5 DEF vars
<1> QED BY <1>1, <1>2, <1>3, <1>4, <1>5 DEF Next

\* The same for every behaviour.
LEMMA SequentialInvariant ==
    ASSUME Sequential PROVE Spec => [](Checked /\ SequentialInv)
<1>1. Init => SequentialInv
  BY NoneAssumption
     DEF Init, SequentialInv, FilesApart, FilesWhole, RequestCurrent,
         ValidatorsDescribeAnInstall, At
<1>2. Checked /\ Checked' /\ SequentialInv /\ [Next]_vars => SequentialInv'
  BY SequentialStep
<1> QED BY <1>1, <1>2, CheckedInvariant, PTL DEF Spec

\* When fetches of an archive do not overlap, the validators on disk are those of
\* a feed that really was put at the destination, whatever was interrupted, refused
\* or could not be written.
THEOREM ValidatorsSafe ==
    ASSUME Sequential PROVE Spec => []ValidatorsDescribeAnInstall
<1>1. SequentialInv => ValidatorsDescribeAnInstall
  BY DEF SequentialInv
<1> QED BY <1>1, SequentialInvariant, PTL

\* When fetches of an archive do not overlap, the file at the destination is
\* always one whole feed, whatever crashes and failures interrupted them.
THEOREM ArchiveAlwaysOpens ==
    ASSUME Sequential PROVE Spec => []ArchiveOpens
<1>1. Checked /\ SequentialInv => ArchiveOpens
  BY NoneAssumption
     DEF SequentialInv, FilesApart, FilesWhole, ArchiveOpens, Whole,
         Checked, SharedInv, OpenWhileWriting, TypeOK
<1> QED BY <1>1, SequentialInvariant, PTL

-----------------------------------------------------------------------------
(* ... in a process that nothing interrupts *)

\* One step leaves an archive, or the process about to rename one into place.
LEMMA ReplacingStep ==
    ASSUME Sequential, ~DiskFaults, Checked, SequentialInv, Replacing, [Next]_vars
    PROVE  Replacing'
<1> USE NoneAssumption
    DEF Sequential, SequentialInv, FilesApart, FilesWhole, Replacing,
        Checked, TypeOK, disk, local, At, Goto
<1>1. CASE Publish
  BY <1>1 DEF Publish
<1>2. ASSUME NEW p \in Procs, Start(p) PROVE Replacing'
  BY <1>2 DEF Start, Stat
<1>3. ASSUME NEW p \in Procs, Step(p) PROVE Replacing'
  <2>1. CASE ReadSidecar(p) \/ NotModified(p) \/ GetFeed(p) \/ Reject(p)
    BY <2>1 DEF ReadSidecar, NotModified, GetFeed, Reject, End
  <2>2. CASE OpenPart(p) \/ WritePart(p) \/ CheckDest(p)
    BY <2>2 DEF OpenPart, WritePart, CheckDest
  <2>3. CASE RemoveDest(p)
    BY <2>3 DEF RemoveDest, End
  <2>4. CASE Rename(p)
    BY <2>4 DEF Rename, End
  <2>5. CASE Record(p)
    BY <2>5 DEF Record, End
  <2> QED  BY <1>3, <2>1, <2>2, <2>3, <2>4, <2>5 DEF Step
<1>4. ASSUME NEW p \in Procs, Fail(p) PROVE Replacing'
  <2>1. GetErrorPage(p) \/ DownloadError(p)
    BY <1>4 DEF Fail, RecordError, IoError, Crash, DiskFault
  <2> QED  BY <2>1 DEF GetErrorPage, DownloadError, End
<1>5. CASE UNCHANGED vars
  BY <1>5 DEF vars
<1> QED BY <1>1, <1>2, <1>3, <1>4, <1>5 DEF Next

\* When fetches do not overlap and none is interrupted, an agency that has had an
\* archive has one after every run, whatever the server and the network do.  (A
\* run that is interrupted between the removal and the rename leaves none.)
THEOREM ArchiveIsNeverLost ==
    ASSUME Sequential, ~DiskFaults PROVE Spec => []ArchiveSurvives
<1>1. Init => Replacing
  BY DEF Init, Replacing
<1>2. Checked /\ SequentialInv /\ Replacing /\ [Next]_vars => Replacing'
  BY ReplacingStep
<1>3. Replacing => ArchiveSurvives
  BY DEF Replacing, ArchiveSurvives, At
<1> QED BY <1>1, <1>2, <1>3, SequentialInvariant, PTL DEF Spec

-----------------------------------------------------------------------------
(* ... of an agency that never goes back to an earlier feed *)

\* One step keeps what was installed behind what is held and published.
LEMMA NewestStep ==
    ASSUME Sequential, ~Rollback, Checked, Checked', SequentialInv,
           NewestInstalled, [Next]_vars
    PROVE  NewestInstalled'
<1> USE NoneAssumption, BoundsAssumption
    DEF Sequential, SequentialInv, FilesApart, FilesWhole, NewestInstalled,
        Checked, TypeOK, SharedInv, OpenWhileWriting, BodyChecked,
        disk, local, At, Goto, Versions, Bodies, ErrorPage
<1>1. CASE Publish
  BY <1>1 DEF Publish
<1>2. ASSUME NEW p \in Procs, Start(p) PROVE NewestInstalled'
  BY <1>2 DEF Start, Stat
<1>3. ASSUME NEW p \in Procs, Step(p) PROVE NewestInstalled'
  <2>1. CASE ReadSidecar(p)
    BY <2>1 DEF ReadSidecar
  <2>2. CASE NotModified(p)
    BY <2>2 DEF NotModified, End
  <2>3. CASE GetFeed(p)
    BY <2>3 DEF GetFeed
  <2>4. CASE Reject(p)
    BY <2>4 DEF Reject, End
  <2>5. CASE OpenPart(p)
    <3>1. dest # None => file'[dest] = file[dest]
      BY <2>5 DEF OpenPart, FreeInodes
    <3> QED BY <2>5, <3>1 DEF OpenPart
  <2>6. CASE WritePart(p)
    <3>1. dest # None => file'[dest] = file[dest]
      BY <2>6 DEF WritePart
    <3> QED BY <2>6, <3>1 DEF WritePart
  <2>7. CASE CheckDest(p)
    BY <2>7 DEF CheckDest
  <2>8. CASE RemoveDest(p)
    BY <2>8 DEF RemoveDest, End
  <2>9. CASE Rename(p)
    <3>1. part # None /\ file[part] = {body[p]} /\ body[p] \in Versions
      BY <2>9 DEF Rename
    <3>2. installed' = installed \cup {body[p]}
      BY <2>9, <3>1 DEF Rename
    <3> QED BY <2>9, <3>1, <3>2 DEF Rename
  <2>10. CASE Record(p)
    BY <2>10 DEF Record, End
  <2> QED
    BY <1>3, <2>1, <2>2, <2>3, <2>4, <2>5, <2>6, <2>7, <2>8, <2>9, <2>10 DEF Step
<1>4. ASSUME NEW p \in Procs, Fail(p) PROVE NewestInstalled'
  <2>1. CASE GetErrorPage(p)
    BY <2>1 DEF GetErrorPage
  <2>2. CASE DownloadError(p)
    BY <2>2 DEF DownloadError, End
  <2>3. CASE RecordError(p)
    BY <2>3 DEF RecordError, End
  <2>4. CASE IoError(p)
    BY <2>4 DEF IoError, End, Abandon
  <2>5. CASE Crash(p)
    BY <2>5 DEF Crash, End, Abandon
  <2> QED BY <1>4, <2>1, <2>2, <2>3, <2>4, <2>5 DEF Fail
<1>5. CASE UNCHANGED vars
  BY <1>5 DEF vars
<1> QED BY <1>1, <1>2, <1>3, <1>4, <1>5 DEF Next

LEMMA NewestInvariant ==
    ASSUME Sequential, ~Rollback PROVE Spec => []NewestInstalled
<1>1. Init => NewestInstalled
  BY NoneAssumption, BoundsAssumption DEF Init, NewestInstalled, Versions
<1>2. /\ Checked /\ SequentialInv /\ (Checked /\ SequentialInv)'
      /\ NewestInstalled /\ [Next]_vars
      => NewestInstalled'
  BY NewestStep
<1> QED BY <1>1, <1>2, SequentialInvariant, PTL DEF Spec

\* When fetches do not overlap and the agency only moves forward, a 304 always
\* means that the archive on disk is the published feed: no crash and no failure
\* to record validators can make the client miss an update.
THEOREM NoUpdateMissed ==
    ASSUME Sequential, ~Rollback PROVE Spec => []ConfirmationIsTruthful
<1>1. Checked /\ SequentialInv /\ NewestInstalled => ConfirmationIsTruthful
  <2> SUFFICES ASSUME Checked, SequentialInv, NewestInstalled,
                      NEW p \in Procs, At(p, "request"), Confirms(cond[p])
               PROVE  Holds(published)
    BY DEF ConfirmationIsTruthful
  <2>1. /\ dest # None /\ sidecar = cond[p] /\ sidecar # None
        /\ sidecar \in installed /\ sidecar \in Versions
    BY DEF SequentialInv, RequestCurrent, Checked, SharedInv, Confirms,
           ValidatorsDescribeAnInstall
  <2>2. PICK v \in Versions : file[dest] = {v}
    BY <2>1 DEF SequentialInv, FilesWhole
  <2>3. sidecar <= v /\ v <= published
    BY <2>1, <2>2 DEF NewestInstalled
  <2>4. v = published
    BY <2>1, <2>2, <2>3, BoundsAssumption
       DEF Confirms, Checked, TypeOK, Versions
  <2>5. Whole(dest)
    BY <2>1, <2>2, NoneAssumption
       DEF Whole, SequentialInv, FilesApart, Checked, SharedInv,
           OpenWhileWriting, TypeOK
  <2> QED BY <2>1, <2>2, <2>4, <2>5 DEF Holds
<1> QED BY <1>1, SequentialInvariant, NewestInvariant, PTL

-----------------------------------------------------------------------------
(* The detailed fetch implements the contract *)

Good == Checked /\ SequentialInv /\ NewestInstalled

\* With an archive on disk, the feed a reader finds is the one in its file.
LEMMA ArchiveIsItsFile ==
    ASSUME Good, dest # None, NEW v \in Versions, file[dest] = {v}
    PROVE  Archive = v
<1>1. Whole(dest)
  BY NoneAssumption
     DEF Good, Checked, SharedInv, OpenWhileWriting, SequentialInv, FilesApart,
         TypeOK, Whole
<1> QED BY <1>1 DEF Archive

\* The newest installed feed is one of them, or 0 where there is none.
LEMMA NewestIsOne ==
    ASSUME Good
    PROVE  /\ Newest \in installed \cup {0}
           /\ \A m \in installed : m <= Newest
<1>1. \E n \in installed \cup {0} : \A m \in installed : m <= n
  BY DEF Good, NewestInstalled
<1> QED BY <1>1 DEF Newest

\* A step that leaves the destination and its contents alone is not seen.
LEMMA ArchiveUnseen ==
    ASSUME Good, Good', dest' = dest, dest # None => file'[dest] = file[dest]
    PROVE  Archive' = Archive
<1>1. CASE dest = None
  BY <1>1 DEF Archive
<1>2. CASE dest # None
  <2>1. PICK v \in Versions : file[dest] = {v}
    BY <1>2 DEF Good, SequentialInv, FilesWhole
  <2>2. Whole(dest) /\ Whole(dest)'
    BY <1>2, NoneAssumption
       DEF Good, Checked, SharedInv, OpenWhileWriting, SequentialInv, FilesApart,
           FilesWhole, TypeOK, Whole
  <2> QED BY <1>2, <2>1, <2>2 DEF Archive
<1> QED BY <1>1, <1>2

\* Each step is one of the contract's, or changes nothing the contract sees.
LEMMA ContractStep ==
    ASSUME Sequential, ~Rollback, Good, Good', [Next]_vars
    PROVE  [Contract!Next]_(Contract!vars)
<1> USE NoneAssumption, BoundsAssumption DEF Contract!vars
<1> DEFINE Unseen == UNCHANGED <<published, Archive, Newest, sidecar>>
<1>0. ASSUME UNCHANGED <<published, sidecar, installed>>, dest' = dest,
             dest # None => file'[dest] = file[dest]
      PROVE  Unseen
  BY <1>0, ArchiveUnseen DEF Newest
<1>1. CASE Publish
  <2>1. Archive' = Archive /\ Newest' = Newest /\ sidecar' = sidecar
    BY <1>1, ArchiveUnseen DEF Publish, disk, Newest
  <2>2. published' \in (published + 1)..MaxVersion
    BY <1>1 DEF Publish, Good, Checked, TypeOK, Versions
  <2> QED BY <2>1, <2>2 DEF Contract!Next, Contract!Publish
<1>2. ASSUME NEW p \in Procs, Start(p) PROVE Unseen
  BY <1>0, <1>2 DEF Start, Stat, disk
<1>3. ASSUME NEW p \in Procs, sidecar' \in {sidecar, None, tag[p]}, At(p, "record"),
             UNCHANGED <<published, file, dest, installed>>
      PROVE  Unseen \/ Contract!Describe
  <2>1. Archive' = Archive /\ Newest' = Newest
    BY <1>3, ArchiveUnseen DEF Newest
  <2>2. dest # None /\ file[dest] = {body[p]} /\ body[p] \in Versions
    BY <1>3 DEF Good, SequentialInv, FilesWhole, Checked, SharedInv, BodyChecked, At
  <2>3. Archive = body[p] /\ tag[p] \in {None, body[p]}
    BY <2>2, ArchiveIsItsFile DEF Good, Checked, SharedInv, BodyChecked
  <2> QED BY <1>3, <2>1, <2>2, <2>3 DEF Contract!Describe, Versions
<1>4. ASSUME NEW p \in Procs, Step(p) PROVE Unseen \/ Contract!Next
  <2>1. CASE ReadSidecar(p) \/ NotModified(p) \/ GetFeed(p) \/ Reject(p) \/ CheckDest(p)
    BY <1>0, <2>1 DEF ReadSidecar, NotModified, GetFeed, Reject, CheckDest, disk
  <2>2. CASE OpenPart(p)
    <3>1. dest # None => file'[dest] = file[dest]
      BY <2>2 DEF OpenPart, FreeInodes, Good, SequentialInv, FilesApart, Checked, TypeOK
    <3> QED BY <1>0, <2>2, <3>1 DEF OpenPart
  <2>3. CASE WritePart(p)
    <3>1. dest # None => file'[dest] = file[dest]
      BY <2>3 DEF WritePart, At, Good, SequentialInv, FilesApart, Checked, TypeOK
    <3> QED BY <1>0, <2>3, <3>1 DEF WritePart
  <2>4. CASE RemoveDest(p)
    <3>1. Archive' = None /\ Newest' = Newest
      BY <2>4 DEF RemoveDest, Archive, Newest
    <3> QED BY <2>4, <3>1 DEF RemoveDest, Contract!Next, Contract!Withdraw
  <2>5. CASE Rename(p)
    <3>1. dest = None /\ part # None /\ file[part] = {body[p]} /\ body[p] \in Versions
      BY <2>5 DEF Rename, At, Good, SequentialInv, FilesWhole, Checked, SharedInv, BodyChecked
    <3>2. dest' = part /\ file' = file /\ installed' = installed \cup {body[p]}
          /\ UNCHANGED <<published, sidecar>>
      BY <2>5, <3>1 DEF Rename
    <3>3. Archive = None /\ Archive' = body[p]
      <4>1. Archive' = body[p]
        <5>1. dest' # None /\ file'[dest'] = {body[p]}
          BY <3>1, <3>2
        <5>2. Whole(dest)'
          BY <3>1, <5>1
             DEF Good, Checked, SharedInv, OpenWhileWriting, SequentialInv,
                 FilesApart, TypeOK, Whole
        <5> QED BY <3>1, <5>1, <5>2 DEF Archive
      <4> QED BY <3>1, <4>1 DEF Archive
    <3>4. body[p] <= published /\ \A m \in installed : m <= body[p]
      BY <3>1 DEF Good, NewestInstalled
    <3>5. installed \subseteq Versions
      BY DEF Good, Checked, SharedInv
    <3>6. Newest <= body[p]
      BY <3>1, <3>4, NewestIsOne DEF Versions
    <3>7. Newest' = body[p]
      <4> DEFINE IsNewest(n) == \A m \in installed' : m <= n
      <4>1. body[p] \in installed' \cup {0} /\ IsNewest(body[p])
        <5>1. ASSUME NEW m \in installed' PROVE m <= body[p]
          <6>1. m \in installed \/ m = body[p]
            BY <3>2, <5>1
          <6> QED BY <3>1, <3>4, <6>1 DEF Versions
        <5> QED BY <3>2, <5>1
      <4>2. ASSUME NEW n \in installed' \cup {0}, IsNewest(n) PROVE n = body[p]
        BY <3>1, <3>2, <3>4, <3>5, <4>1, <4>2 DEF Versions
      <4>3. Newest' = CHOOSE n \in installed' \cup {0} : IsNewest(n)
        BY DEF Newest
      <4> HIDE DEF IsNewest
      <4> QED BY <4>1, <4>2, <4>3
    <3>8. body[p] \in (Newest..published) \ {0}
      BY <3>1, <3>4, <3>5, <3>6, NewestIsOne DEF Versions, Good, Checked, TypeOK
    <3> QED BY <3>2, <3>3, <3>7, <3>8 DEF Contract!Next, Contract!Install
  <2>6. CASE Record(p)
    BY <1>3, <2>6 DEF Record, Contract!Next
  <2> QED BY <1>4, <2>1, <2>2, <2>3, <2>4, <2>5, <2>6 DEF Step
<1>5. ASSUME NEW p \in Procs, Fail(p) PROVE Unseen \/ Contract!Next
  <2>1. ASSUME Abandon(p) PROVE dest # None => file'[dest] = file[dest]
    BY <2>1 DEF Abandon, Good, SequentialInv, FilesApart, Checked, SharedInv,
                OpenWhileWriting, TypeOK
  <2>2. CASE GetErrorPage(p) \/ DownloadError(p)
    BY <1>0, <2>2 DEF GetErrorPage, DownloadError, disk
  <2>3. CASE RecordError(p)
    BY <1>3, <2>3 DEF RecordError, Contract!Next
  <2>4. CASE IoError(p)
    BY <1>0, <2>1, <2>4 DEF IoError
  <2>5. CASE Crash(p)
    <3>1. CASE At(p, "record")
      <4>1. file' = file
        BY <2>5, <3>1 DEF Crash, Abandon, At, Good, Checked, SharedInv, OpenWhileWriting
      <4> QED BY <1>3, <2>5, <3>1, <4>1 DEF Crash, Contract!Next
    <3>2. CASE ~At(p, "record")
      BY <1>0, <2>1, <2>5, <3>2 DEF Crash
    <3> QED BY <3>1, <3>2
  <2> QED BY <1>5, <2>2, <2>3, <2>4, <2>5 DEF Fail
<1>6. CASE UNCHANGED vars
  BY <1>0, <1>6 DEF vars, disk
<1> QED BY <1>1, <1>2, <1>4, <1>5, <1>6 DEF Next

\* When fetches do not overlap and the agency only moves forward, everything a
\* reader of the data directory can see is what the contract allows.
THEOREM FetchKeepsContract ==
    ASSUME Sequential, ~Rollback PROVE Spec => KeepsContract
<1>1. Init => Contract!Init
  BY NoneAssumption DEF Init, Contract!Init, Archive, Newest
<1>2. Good /\ Good' /\ [Next]_vars => [Contract!Next]_(Contract!vars)
  BY ContractStep
<1>3. Spec => []Good
  BY SequentialInvariant, NewestInvariant, PTL DEF Good
<1> QED BY <1>1, <1>2, <1>3, PTL DEF Spec, Contract!Spec, KeepsContract

=============================================================================
