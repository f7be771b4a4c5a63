---------------------------- MODULE IngestProofs ----------------------------
(***************************************************************************)
(* Theorems about Ingest, for any registry, any archives and any sequence  *)
(* of command lines.                                                       *)
(***************************************************************************)
EXTENDS Ingest, WindowProofs, TLAPS

Agencies == [id : AgencyIds, tz : BOOLEAN]

\* A sequence has its length, its positions and its elements.
LEMMA SeqFacts ==
    ASSUME NEW S, NEW s \in Seq(S)
    PROVE  Len(s) \in Nat /\ DOMAIN s = 1..Len(s) /\ \A i \in DOMAIN s : s[i] \in S
  OBVIOUS

\* What select returns is a sequence of ids of the registry, each once.
LEMMA SelectedOnce ==
    ASSUME registry.agencies \in Seq(Agencies), Known,
           \A i, j \in DOMAIN registry.agencies :
              registry.agencies[i].id = registry.agencies[j].id => i = j
    PROVE  /\ Len(Selected) \in Nat /\ DOMAIN Selected = 1..Len(Selected)
           /\ \A i \in DOMAIN Selected : Selected[i] \in Paths
           /\ \A i, j \in DOMAIN Selected : Selected[i] = Selected[j] => i = j
<1>1. /\ Len(registry.agencies) \in Nat
      /\ DOMAIN registry.agencies = 1..Len(registry.agencies)
      /\ \A i \in DOMAIN registry.agencies : registry.agencies[i].id \in AgencyIds
  <2>1. \A i \in DOMAIN registry.agencies : registry.agencies[i] \in Agencies
    BY SeqFacts
  <2>2. \A a \in Agencies : a.id \in AgencyIds
    BY DEF Agencies
  <2> QED  BY <2>1, <2>2, SeqFacts
<1>2. CASE command.agency # None
  <2>1. Selected = <<command.agency>>
    BY <1>2 DEF Selected
  <2>2. command.agency \in Paths
    BY <1>1, <1>2 DEF Known, Ids, Paths
  <2> QED  BY <2>1, <2>2
<1>3. CASE command.agency = None
  <2>1. Selected = [i \in 1..Len(registry.agencies) |-> registry.agencies[i].id]
    BY <1>1, <1>3 DEF Selected
  <2>2. Len(Selected) = Len(registry.agencies) /\ DOMAIN Selected = 1..Len(registry.agencies)
    BY <1>1, <2>1
  <2> QED  BY <1>1, <2>1, <2>2 DEF Paths
<1> QED  BY <1>2, <1>3

\* LoopInv holds before the first command line is run.
LEMMA LoopStart == IngestInit => LoopInv
<1> SUFFICES ASSUME IngestInit PROVE LoopInv
  OBVIOUS
<1>1. registry.agencies \in Seq([id : AgencyIds, tz : BOOLEAN]) /\ DOMAIN disk = Paths
  BY DEF IngestInit
<1>2. turn = 1 /\ pc = "shell" /\ error = "none"
  BY DEF IngestInit
<1>3. script \in Seq(Command) /\ command \in Command
  <2>1. script \in Seq(Command) /\ script # <<>> /\ command = Head(script)
    BY DEF IngestInit
  <2> QED  BY <2>1
<1> QED  BY <1>1, <1>2, <1>3 DEF LoopInv, RegistryIsSound, FailureLeavesPrefix, FeedErrors, ReadErrors

\* The steps of a command change neither the registry nor the command line.
LEMMA SameCommand ==
    ASSUME [IngestNext]_ivars
    PROVE  /\ registry' = registry
           /\ ~Run => command' = command /\ script' = script
  BY DEF IngestNext, ivars, data, history, Run, Validate, Dispatch, Keep, Download,
     FetchFails, Inspect, ResolveWindow, UseWindow, Write, WriteFails, End, Advance, Fault

\* Every step of the command line keeps LoopInv: one step of the proof per action, the
\* loops over the agencies by the three ways in which a turn can end.
LEMMA LoopStep == LoopInv /\ [IngestNext]_ivars => LoopInv'
<1> SUFFICES ASSUME LoopInv, [IngestNext]_ivars
             PROVE  LoopInv'
  OBVIOUS
<1>1. registry' = registry
  BY SameCommand
<1>2. Ids' = Ids
  BY <1>1 DEF Ids
<1>3. ASSUME command' = command
      PROVE  Selected' = Selected /\ (Known' <=> Known)
  BY <1>1, <1>2, <1>3 DEF Selected, Known
<1> DEFINE Errors == {"HttpStatus", "Rejected", "Fault"} \cup FeedErrors
           Read(n, s) ==
              /\ n <= Len(registry.agencies)
              /\ s = {registry.agencies[i].id : i \in 1..(n - 1)}
              /\ \A i \in 1..(n - 1) : registry.agencies[i].tz
              /\ \A i, j \in 1..(n - 1) :
                    registry.agencies[i].id = registry.agencies[j].id => i = j
<1>4. /\ script \in Seq(Command) /\ command \in Command
      /\ command.kind \in {"agencies", "fetch", "inspect", "build"}
      /\ registry.agencies \in Seq(Agencies) /\ DOMAIN disk = Paths /\ turn \in Nat \ {0}
      /\ pc = "validate" => Read(turn, seen)
      /\ pc \in {"dispatch", "fetch", "inspect", "build", "write"} => Sound /\ Selected # <<>>
      /\ pc \in {"validate", "dispatch", "inspect", "build"} => disk = before /\ written = {}
      /\ pc \in {"dispatch", "inspect", "build"} => turn = 1
      /\ pc \in {"fetch", "inspect", "build", "write"} => Known
      /\ pc \in {"fetch", "build"} => command.kind = pc
      /\ pc = "write" => command.kind = "build"
      /\ pc \in {"fetch", "write"} =>
            /\ turn <= Len(Selected)
            /\ \A i \in DOMAIN Selected : (i < turn => Done(i)) /\ (i >= turn => Untouched(i))
      /\ pc = "shell" /\ error \in Errors =>
            \A i \in DOMAIN Selected : (i < turn => Done(i)) /\ (i > turn => Untouched(i))
  BY DEF LoopInv, ReadSoFar, RegistryIsSound, FailureLeavesPrefix, Agencies, Command
<1>Read. ReadSoFar' <=> Read(turn', seen')
  BY <1>1 DEF ReadSoFar
<1>Sound. Sound' <=> Sound
  BY <1>1 DEF Sound
<1> HIDE DEF Read
<1> DEFINE Goal ==
           /\ script' \in Seq(Command) /\ command' \in Command
           /\ DOMAIN disk' = Paths /\ turn' \in Nat \ {0}
           /\ pc' = "validate" => Read(turn', seen')
           /\ pc' \in {"dispatch", "fetch", "inspect", "build", "write"} => Sound /\ Selected' # <<>>
           /\ pc' \in {"validate", "dispatch", "inspect", "build"} => disk' = before' /\ written' = {}
           /\ pc' \in {"dispatch", "inspect", "build"} => turn' = 1
           /\ pc' \in {"fetch", "inspect", "build", "write"} => Known'
           /\ pc' \in {"fetch", "build"} => command'.kind = pc'
           /\ pc' = "write" => command'.kind = "build"
           /\ pc' \in {"fetch", "write"} =>
                 /\ turn' <= Len(Selected')
                 /\ \A i \in DOMAIN Selected' : (i < turn' => Done(i)') /\ (i >= turn' => Untouched(i)')
           /\ pc' = "shell" /\ error' \in Errors =>
                 \A i \in DOMAIN Selected' : (i < turn' => Done(i)') /\ (i > turn' => Untouched(i)')
<1>5. SUFFICES Goal
  BY <1>1, <1>4, <1>Read, <1>Sound DEF LoopInv, RegistryIsSound, FailureLeavesPrefix, Agencies, FeedErrors, ReadErrors
<1>6. ASSUME UNCHANGED <<command, disk, written, before>>
      PROVE  \A i : (Done(i)' <=> Done(i)) /\ (Untouched(i)' <=> Untouched(i))
  BY <1>3, <1>6 DEF Done, Untouched
<1>7. ASSUME pc \in {"dispatch", "fetch", "inspect", "build", "write"}, Known
      PROVE  /\ Len(Selected) \in Nat \ {0} /\ DOMAIN Selected = 1..Len(Selected)
             /\ \A i \in DOMAIN Selected : Selected[i] \in Paths
             /\ \A i, j \in DOMAIN Selected : Selected[i] = Selected[j] => i = j
  <2>1. DOMAIN Selected = 1..Len(Selected) /\ Len(Selected) \in Nat /\ Selected # <<>>
    BY <1>4, <1>7, SelectedOnce DEF Sound
  <2>2. Len(Selected) # 0
    BY <2>1 DEF Selected
  <2> QED  BY <1>4, <1>7, <2>1, <2>2, SelectedOnce DEF Sound
<1> HIDE DEF Errors
<1>8. CASE Run
  <2>0. script' \in Seq(Command) /\ command' \in Command
    <3>1. script # <<>> /\ command' = Head(script) /\ script' = Tail(script)
      BY <1>8 DEF Run
    <3> HIDE DEF Errors
    <3> QED  BY <1>4, <3>1
  <2>1. /\ turn' = 1 /\ disk' = disk /\ before' = disk /\ written' = {} /\ seen' = {}
        /\ \/ pc' = "shell" /\ error' \in {"Parse", "NoAgencies"}
           \/ pc' = "validate" /\ registry.agencies # <<>>
    BY <1>8 DEF Run, End
  <2>2. error' \in {"Parse", "NoAgencies"} => error' \notin Errors
    BY DEF Errors, FeedErrors, ReadErrors
  <2>3. registry.agencies # <<>> => Read(1, {})
    BY <1>4, SeqFacts DEF Read
  <2> QED  BY <1>4, <2>0, <2>1, <2>2, <2>3
<1>9. ~Run => script' = script /\ command' = command
  BY SameCommand
<1>10. CASE Validate
  <2>0. ~Run
    BY <1>10 DEF Run, Validate
  <2> DEFINE agency == registry.agencies[turn]
  <2>1. /\ UNCHANGED <<command, disk, written, before>>
        /\ seen' = seen \cup {agency.id} /\ pc = "validate" /\ Read(turn, seen)
    BY <1>4, <1>10 DEF Validate, history
  <2>2. \/ pc' = "shell" /\ turn' = turn /\ error' \in {"DuplicateAgencyId", "UnknownTimezone"}
        \/ /\ agency.id \notin seen /\ agency.tz
           /\ IF turn < Len(registry.agencies)
              THEN turn' = turn + 1 /\ pc' = "validate"
              ELSE turn' = 1 /\ pc' = "dispatch"
    BY <1>10, <2>1 DEF Validate, End
  <2>3. error' \in {"DuplicateAgencyId", "UnknownTimezone"} => error' \notin Errors
    BY DEF Errors, FeedErrors, ReadErrors
  <2>4. ASSUME agency.id \notin seen, agency.tz
        PROVE  /\ seen' = {registry.agencies[i].id : i \in 1..turn}
               /\ \A i \in 1..turn : registry.agencies[i].tz
               /\ \A i, j \in 1..turn :
                     registry.agencies[i].id = registry.agencies[j].id => i = j
    <3>1. 1..turn = (1..(turn - 1)) \cup {turn}
      BY <1>4
    <3> QED  BY <2>1, <2>4, <3>1 DEF Read
  <2>5. Len(registry.agencies) \in Nat /\ DOMAIN registry.agencies = 1..Len(registry.agencies)
    BY <1>4, SeqFacts
  <2>6. CASE pc' = "validate"
    <3>1. (turn + 1) - 1 = turn  BY <1>4
    <3> QED  BY <1>9, <2>0, <1>4, <2>1, <2>2, <2>4, <2>5, <2>6, <3>1 DEF Read
  <2>7. CASE pc' = "dispatch"
    <3>1. turn = Len(registry.agencies)
      BY <1>4, <2>1, <2>2, <2>5, <2>7 DEF Read
    <3>2. Sound
      BY <2>2, <2>4, <2>5, <2>7, <3>1 DEF Sound
    <3>3. Selected # <<>>
      BY <1>4, <2>5, <3>1 DEF Selected
    <3> QED  BY <1>9, <2>0, <1>3, <1>4, <2>1, <2>2, <2>7, <3>2, <3>3
  <2> QED  BY <1>9, <2>0, <1>4, <2>1, <2>2, <2>3, <2>6, <2>7
<1>11. CASE Dispatch
  <2>0. ~Run
    BY <1>11 DEF Run, Dispatch
  <2>1. /\ UNCHANGED <<command, disk, written, before, turn, seen>> /\ pc = "dispatch"
        /\ \/ pc' = "shell" /\ error' \in {"none", "Usage", "UnknownAgency"}
           \/ pc' = command.kind /\ Known /\ command.kind # "agencies"
    BY <1>11 DEF Dispatch, End, history
  <2>2. error' \in {"none", "Usage", "UnknownAgency"} => error' \notin Errors
    BY DEF Errors, FeedErrors, ReadErrors
  <2>3. CASE pc' = "shell"
    BY <1>4, <1>9, <2>0, <2>1, <2>2, <2>3
  <2>4. CASE pc' # "shell"
    <3>1. pc' = command.kind /\ Known /\ command.kind \in {"fetch", "inspect", "build"}
      BY <1>4, <2>1, <2>4
    <3>2. turn = 1 /\ turn' = 1 /\ disk' = before' /\ written' = {}
      BY <1>4, <2>1
    <3>3. Selected' = Selected /\ Known' /\ Sound /\ Selected # <<>>
      BY <1>3, <1>4, <2>1, <3>1
    <3>4. 1 <= Len(Selected') /\ DOMAIN Selected' = 1..Len(Selected')
      BY <1>7, <2>1, <3>1, <3>3
    <3>5. \A i \in DOMAIN Selected' : ~(i < turn') /\ Untouched(i)'
      BY <3>2, <3>4 DEF Untouched
    <3> QED
      BY <1>4, <1>9, <2>0, <2>1, <3>1, <3>2, <3>3, <3>4, <3>5
  <2> QED  BY <2>3, <2>4
\* What a step of a loop leaves when it is done with its agency, and when it ends there.
<1>12. ASSUME ~Run, pc \in {"fetch", "write"}, pc' = pc, command' = command, before' = before,
              turn < Len(Selected), turn' = turn + 1, DOMAIN disk' = Paths,
              \A i : i = turn => Done(i)',
              \A i \in DOMAIN Selected : i # turn =>
                 disk'[Selected[i]] = disk[Selected[i]]
                 /\ (Selected[i] \in written' <=> Selected[i] \in written)
       PROVE  Goal
  <2>1. Selected' = Selected /\ Known /\ Known' /\ script' = script
    BY <1>3, <1>4, <1>9, <1>12
  <2>2. \A i \in DOMAIN Selected : i # turn => (Done(i) => Done(i)') /\ (Untouched(i) => Untouched(i)')
    BY <1>12, <2>1 DEF Done, Untouched
  <2>3. \A i \in DOMAIN Selected : (i < turn => Done(i)) /\ (i >= turn => Untouched(i))
    BY <1>4, <1>12
  <2>4. Len(Selected) \in Nat /\ DOMAIN Selected = 1..Len(Selected)
    BY <1>7, <1>12, <2>1
  <2>5. \A i \in DOMAIN Selected' : (i < turn' => Done(i)') /\ (i >= turn' => Untouched(i)')
    <3> SUFFICES ASSUME NEW i \in DOMAIN Selected
                 PROVE  (i < turn' => Done(i)') /\ (i >= turn' => Untouched(i)')
      BY <2>1
    <3>1. CASE i < turn
      BY <1>4, <1>12, <2>2, <2>3, <2>4, <3>1
    <3>2. CASE i = turn
      BY <1>4, <1>12, <2>4, <3>2
    <3>3. CASE i > turn
      BY <1>4, <1>12, <2>2, <2>3, <2>4, <3>3
    <3> QED  BY <1>4, <2>4, <3>1, <3>2, <3>3
  <2> QED  BY <1>4, <1>12, <2>1, <2>4, <2>5
<1>13. ASSUME ~Run, pc \in {"fetch", "write"}, pc' = "shell", command' = command,
              before' = before, turn' = turn, DOMAIN disk' = Paths,
              \A i \in DOMAIN Selected : i # turn =>
                 disk'[Selected[i]] = disk[Selected[i]]
                 /\ (Selected[i] \in written' <=> Selected[i] \in written)
       PROVE  Goal
  <2>1. Selected' = Selected /\ Known /\ script' = script
    BY <1>3, <1>4, <1>9, <1>13
  <2>2. \A i \in DOMAIN Selected : i # turn => (Done(i) => Done(i)') /\ (Untouched(i) => Untouched(i)')
    BY <1>13, <2>1 DEF Done, Untouched
  <2>3. \A i \in DOMAIN Selected : (i < turn => Done(i)) /\ (i >= turn => Untouched(i))
    BY <1>4, <1>13
  <2>4. Len(Selected) \in Nat /\ DOMAIN Selected = 1..Len(Selected)
    BY <1>7, <1>13, <2>1
  <2>5. \A i \in DOMAIN Selected' : (i < turn' => Done(i)') /\ (i > turn' => Untouched(i)')
    <3> SUFFICES ASSUME NEW i \in DOMAIN Selected
                 PROVE  (i < turn' => Done(i)') /\ (i > turn' => Untouched(i)')
      BY <2>1
    <3> QED  BY <1>4, <1>13, <2>2, <2>3, <2>4
  <2> QED  BY <1>4, <1>13, <2>1, <2>5
<1>14. ASSUME ~Run, pc' = "shell", error' \notin Errors, command' = command,
              turn' = turn, DOMAIN disk' = Paths
       PROVE  Goal
  BY <1>4, <1>9, <1>14
<1>15. "none" \notin Errors /\ "Panic" \notin Errors /\ "NoWindow" \notin Errors
  BY DEF Errors, FeedErrors, ReadErrors
\* The ways a turn of a loop ends: with the next agency, with success, or there.
<1>16. ASSUME ~Run, pc \in {"fetch", "write"}, command' = command, before' = before,
              Advance(pc), DOMAIN disk' = Paths, \A i : i = turn => Done(i)',
              \A i \in DOMAIN Selected : i # turn =>
                 disk'[Selected[i]] = disk[Selected[i]]
                 /\ (Selected[i] \in written' <=> Selected[i] \in written)
       PROVE  Goal
  <2>1. CASE turn < Len(Selected)
    BY <1>12, <1>16, <2>1 DEF Advance
  <2>2. CASE ~(turn < Len(Selected))
    BY <1>14, <1>15, <1>16, <2>2 DEF Advance, End
  <2> QED  BY <2>1, <2>2
<1>17. ASSUME pc \in {"fetch", "write"}
       PROVE  Agency \in Paths /\ turn \in DOMAIN Selected
              /\ \A i \in DOMAIN Selected : i # turn => Selected[i] # Agency
  <2>1. Known /\ turn \in 1..Len(Selected)
    BY <1>4, <1>17, <1>7
  <2> QED  BY <1>7, <1>17, <2>1 DEF Agency
\* An end before any agency was worked on.
<1>18. ASSUME ~Run, pc \in {"inspect", "build"}, pc' = "shell",
              UNCHANGED <<command, disk, written, before, turn>>
       PROVE  Goal
  <2>1. turn' = 1 /\ disk' = before' /\ written' = {}
    BY <1>4, <1>18
  <2>2. Selected' = Selected /\ Known
    BY <1>3, <1>4, <1>18
  <2>3. DOMAIN Selected' = 1..Len(Selected')
    BY <1>7, <1>18, <2>2
  <2>4. \A i \in DOMAIN Selected' : ~(i < turn') /\ Untouched(i)'
    BY <2>1, <2>3 DEF Untouched
  <2> QED  BY <1>4, <1>9, <1>18, <2>1, <2>4
<1>21. CASE Keep
  <2>1. /\ ~Run /\ pc = "fetch" /\ Advance(pc) /\ disk[Agency] # None
        /\ UNCHANGED <<disk, command, written, before>>
    BY <1>21 DEF Keep, Run, history
  <2>2. \A i : i = turn => Done(i)'
    BY <1>4, <1>6, <2>1 DEF Done, Agency
  <2> QED  BY <1>4, <1>16, <2>1, <2>2
<1>22. CASE Download
  <2>1. /\ ~Run /\ pc = "fetch" /\ UNCHANGED <<command, written, before>>
        /\ \/ End("HttpStatus") /\ UNCHANGED <<disk, turn>>
           \/ End("Rejected") /\ UNCHANGED <<disk, turn>>
           \/ /\ offers[Agency] # None /\ Advance(pc)
              /\ disk' = [disk EXCEPT ![Agency] = offers[Agency]]
    BY <1>22 DEF Download, Run
  <2>2. CASE UNCHANGED <<disk, turn>> /\ pc' = "shell"
    BY <1>4, <1>13, <2>1, <2>2
  <2>3. CASE /\ offers[Agency] # None /\ Advance(pc)
             /\ disk' = [disk EXCEPT ![Agency] = offers[Agency]]
    <3>1. /\ DOMAIN disk' = Paths /\ disk'[Agency] # None
          /\ \A i \in DOMAIN Selected : i # turn => disk'[Selected[i]] = disk[Selected[i]]
      BY <1>4, <1>17, <2>1, <2>3
    <3>2. Selected' = Selected /\ command'.kind = "fetch"
      BY <1>3, <1>4, <2>1
    <3>3. \A i : i = turn => Done(i)'
      BY <3>1, <3>2 DEF Done, Agency
    <3> QED  BY <1>16, <2>1, <2>3, <3>1, <3>3
  <2> QED  BY <2>1, <2>2, <2>3 DEF End
<1>23. CASE FetchFails
  <2>1. /\ ~Run /\ pc = "fetch" /\ pc' = "shell" /\ UNCHANGED <<command, written, before, turn>>
        /\ \E content : disk' = [disk EXCEPT ![Agency] = content]
    BY <1>23 DEF FetchFails, Run, End
  <2>2. /\ DOMAIN disk' = Paths
        /\ \A i \in DOMAIN Selected : i # turn => disk'[Selected[i]] = disk[Selected[i]]
    BY <1>4, <1>17, <2>1
  <2> QED  BY <1>13, <2>1, <2>2
<1>24. CASE Inspect
  <2>1. /\ ~Run /\ pc = "inspect" /\ pc' = "shell"
        /\ UNCHANGED <<command, disk, written, before, turn>>
    BY <1>24 DEF Inspect, Run, End
  <2> QED  BY <1>18, <2>1
<1>25. CASE ResolveWindow
  <2>1. /\ ~Run /\ pc = "build" /\ UNCHANGED <<disk, command, pc, turn, error, written, before>>
    BY <1>25 DEF ResolveWindow, Run, history
  <2> QED  BY <1>3, <1>4, <1>9, <2>1
<1>26. CASE UseWindow
  <2>1. /\ ~Run /\ pc = "build" /\ UNCHANGED <<command, disk, written, before, turn>>
        /\ pc' \in {"write", "shell"}
    BY <1>26 DEF UseWindow, Run, End, history
  <2>2. CASE pc' = "write"
    <3>1. turn' = 1 /\ disk' = before' /\ written' = {} /\ command'.kind = "build"
      BY <1>4, <2>1
    <3>2. Selected' = Selected /\ Known /\ Known' /\ Sound /\ Selected # <<>>
      BY <1>3, <1>4, <2>1
    <3>3. 1 <= Len(Selected') /\ DOMAIN Selected' = 1..Len(Selected')
      BY <1>7, <2>1, <3>2
    <3>4. \A i \in DOMAIN Selected' : ~(i < turn') /\ Untouched(i)'
      BY <3>1, <3>3 DEF Untouched
    <3> QED  BY <1>4, <1>9, <2>1, <2>2, <3>1, <3>2, <3>3, <3>4
  <2>3. CASE pc' = "shell"
    BY <1>18, <2>1, <2>3
  <2> QED  BY <2>1, <2>2, <2>3
<1>27. CASE Write
  <2>1. /\ ~Run /\ pc = "write" /\ UNCHANGED <<command, disk, before>>
        /\ \/ pc' = "shell" /\ UNCHANGED <<turn, written>>
           \/ written' = written \cup {Agency} /\ Advance(pc)
    BY <1>27 DEF Write, Run, End
  <2>2. CASE pc' = "shell" /\ UNCHANGED <<turn, written>>
    BY <1>4, <1>13, <2>1, <2>2
  <2>3. CASE written' = written \cup {Agency} /\ Advance(pc)
    <3>1. Selected' = Selected /\ command'.kind = "build"
      BY <1>3, <1>4, <2>1
    <3>2. \A i : i = turn => Done(i)'
      BY <2>3, <3>1 DEF Done, Agency
    <3>3. \A i \in DOMAIN Selected : i # turn =>
             (Selected[i] \in written' <=> Selected[i] \in written)
      BY <1>17, <2>1, <2>3
    <3> QED  BY <1>4, <1>16, <2>1, <2>3, <3>2, <3>3
  <2> QED  BY <2>1, <2>2, <2>3
<1>28. CASE WriteFails
  <2>1. /\ ~Run /\ pc = "write" /\ pc' = "shell"
        /\ UNCHANGED <<command, disk, written, before, turn>>
    BY <1>28 DEF WriteFails, Run, End, history
  <2> QED  BY <1>4, <1>13, <2>1
<1>20. CASE UNCHANGED ivars
  <2>1. UNCHANGED <<disk, script, command, pc, seen, turn, error, written, before>>
    BY <1>20 DEF ivars, data, history
  <2> QED
    BY <2>1, <1>3, <1>4, <1>6
<1> QED
  BY <1>8, <1>10, <1>11, <1>20, <1>21, <1>22, <1>23, <1>24, <1>25, <1>26, <1>27, <1>28
  DEF IngestNext

\* LoopInv is an invariant of the command line.
LEMMA LoopInvariant == IngestSpec => []LoopInv
  BY LoopStart, LoopStep, PTL DEF IngestSpec

\* RegistryIsSound, for a registry of any length: whatever agencies.toml says, no
\* command runs past Config::validate with an id that stands twice or a timezone
\* that index could not parse again, nor with no agency to work on.
THEOREM RegistrySound == IngestSpec => []RegistryIsSound
<1>1. LoopInv => RegistryIsSound
  BY DEF LoopInv
<1> QED  BY <1>1, LoopInvariant, PTL

\* FailureLeavesPrefix, for any number of agencies, archives, faults and command
\* lines: a fetch or a build that ends in the middle of its agencies has done those
\* before the one it ends at, and has not touched those after it.
THEOREM PrefixKept == IngestSpec => []FailureLeavesPrefix
<1>1. LoopInv => FailureLeavesPrefix
  BY DEF LoopInv
<1> QED  BY <1>1, LoopInvariant, PTL

-----------------------------------------------------------------------------
(* What an archive reads as *)

\* The first error of a sequence is one of them, and there is none exactly when
\* nothing was raised.
LEMMA FirstOfErrors ==
    ASSUME NEW S, NEW errors \in Seq(S)
    PROVE  /\ FirstError(errors) # "none" =>
                \E i \in 1..Len(errors) : FirstError(errors) = errors[i]
           /\ FirstError(errors) = "none" <=> \A i \in 1..Len(errors) : errors[i] = "none"
<1> DEFINE raised == {i \in DOMAIN errors : errors[i] # "none"}
<1>1. raised \in SUBSET Nat /\ DOMAIN errors = 1..Len(errors)
  BY SeqFacts
<1>2. CASE raised = {}
  BY <1>1, <1>2 DEF FirstError
<1>3. CASE raised # {}
  <2>1. \E i \in raised : \A j \in raised : i <= j
    <3> HIDE DEF raised
    <3> QED  BY <1>1, <1>3, LeastOf
  <2>2. PICK i \in raised : i = CHOOSE k \in raised : \A j \in raised : k <= j
    BY <2>1
  <2>3. FirstError(errors) = errors[i]
    BY <1>3, <2>2 DEF FirstError
  <2> QED  BY <1>1, <2>2, <2>3
<1> QED  BY <1>2, <1>3

\* A file that has an entry is found, whatever the order of the entries.
LEMMA FileIsFound ==
    ASSUME NEW a \in Archives(Dates), NEW name, Named(a, name) # {}
    PROVE  File(a, name) # "absent"
<1> DEFINE Entry == [dir : STRING, name : STRING, rows : Rows]
<1>1. a.entries \in Seq(Entry)  BY DEF Archives
<1>2. \A i \in DOMAIN a.entries : a.entries[i].rows # "absent"
  <2>1. \A e \in Entry : e.rows # "absent"  BY DEF Rows
  <2> HIDE DEF Entry
  <2>2. \A i \in DOMAIN a.entries : a.entries[i] \in Entry  BY <1>1, SeqFacts
  <2> QED  BY <2>1, <2>2
<1>3. DOMAIN a.entries \subseteq Nat
  <2> HIDE DEF Entry
  <2> QED  BY <1>1, SeqFacts
<1>4. Named(a, name) \in SUBSET Nat  BY <1>3 DEF Named
<1>5. index_of(a, name) # {}
  <2>1. \E i \in Named(a, name) : \A j \in Named(a, name) : i <= j  BY <1>4, LeastOf
  <2> QED  BY <2>1 DEF index_of
<1>6. index_of(a, name) \subseteq DOMAIN a.entries  BY DEF index_of, Named
<1>7. (CHOOSE i \in index_of(a, name) : TRUE) \in index_of(a, name)  BY <1>5
<1> QED  BY <1>2, <1>5, <1>6, <1>7 DEF File

\* The elements of two sequences, one after the other.
LEMMA Concatenated ==
    ASSUME NEW S, NEW s \in Seq(S), NEW t \in Seq(S)
    PROVE  /\ s \o t \in Seq(S) /\ Len(s \o t) = Len(s) + Len(t)
           /\ \A i \in 1..Len(s) : (s \o t)[i] = s[i]
           /\ \A i \in 1..Len(t) : (s \o t)[Len(s) + i] = t[i]
  OBVIOUS

\* What the reading of an archive can end with.
Outcomes == {"none", "Io", "BadArchive", "MissingFile", "Csv", "BadCalendar"}

\* What the entry of a file can raise.
LEMMA EntryReads ==
    ASSUME NEW rows
    PROVE  /\ read_index(rows) \in {"none", "Io", "BadArchive", "Csv"}
           /\ read_index(rows) = "BadArchive" => rows = "locked"
  BY DEF read_index, parse_csv

\* The whole feed is read in the order of its files: where validate_archive accepts
\* it, it is refused for want of a file only without a calendar, and as no archive
\* only for an entry that does not open; and where it is not refused, neither is its
\* calendar, unless a row of it is.
LEMMA FeedReads ==
    ASSUME NEW a \in Archives(Dates)
    PROVE  /\ validate_archive(a) =>
                 /\ \A i \in DOMAIN REQUIRED : File(a, REQUIRED[i]) # "absent"
                 /\ StaticFeed(a) = "MissingFile" => NoCalendar(a)
                 /\ StaticFeed(a) = "BadArchive" => Locked(a)
           /\ StaticFeed(a) = "none" =>
                 /\ a.zip
                 /\ \A i \in DOMAIN Optional : read_optional(a, Optional[i]) = "none"
<1> DEFINE required == [i \in DOMAIN REQUIRED |-> read_required(a, REQUIRED[i])]
           optional == [i \in DOMAIN Optional |-> read_optional(a, Optional[i])]
           calendar == IF NoCalendar(a) THEN "MissingFile" ELSE "none"
           errors == required \o optional \o <<calendar>>
<1>1. DOMAIN REQUIRED = 1..5 /\ DOMAIN Optional = 1..2  BY DEF REQUIRED, Optional
<1>2. /\ \A name : read_required(a, name) \in Outcomes
      /\ \A name : read_optional(a, name) \in {"none", "Io", "BadArchive", "Csv"}
      /\ calendar \in {"none", "MissingFile"}
  BY EntryReads DEF read_required, read_optional, Outcomes
<1>3. required \in Seq(Outcomes) /\ Len(required) = 5
  BY <1>1, <1>2
<1>4. optional \in Seq(Outcomes) /\ Len(optional) = 2
  <2>1. \A i \in DOMAIN Optional : read_optional(a, Optional[i]) \in Outcomes
    BY <1>2 DEF Outcomes
  <2> QED  BY <1>1, <2>1
<1>5. <<calendar>> \in Seq(Outcomes) /\ Len(<<calendar>>) = 1
  BY <1>2 DEF Outcomes
<1> HIDE DEF calendar
<1>6. /\ errors \in Seq(Outcomes) /\ Len(errors) = 8
      /\ \A i \in 1..5 : errors[i] = required[i]
      /\ \A i \in 1..2 : errors[i + 5] = optional[i]
      /\ errors[8] = calendar
  <2> HIDE DEF required, optional
  <2> DEFINE files == required \o optional
  <2>1. /\ files \in Seq(Outcomes) /\ Len(files) = 7
        /\ \A i \in 1..5 : files[i] = required[i]
        /\ \A i \in 1..2 : files[5 + i] = optional[i]
    <3>1. /\ files \in Seq(Outcomes) /\ Len(files) = Len(required) + Len(optional)
          /\ \A i \in 1..Len(required) : files[i] = required[i]
          /\ \A i \in 1..Len(optional) : files[Len(required) + i] = optional[i]
      <4>1. required \in Seq(Outcomes) /\ optional \in Seq(Outcomes)  BY <1>3, <1>4
      <4> QED  BY <4>1, Concatenated
    <3> HIDE DEF files
    <3> QED  BY <1>3, <1>4, <3>1
  <2> HIDE DEF files
  <2> DEFINE all == files \o <<calendar>>
  <2>2. /\ all \in Seq(Outcomes) /\ Len(all) = 7 + 1
        /\ \A i \in 1..7 : all[i] = files[i]
        /\ \A i \in 1..1 : all[7 + i] = <<calendar>>[i]
    <3> DEFINE last == <<calendar>>
    <3>1. last \in Seq(Outcomes) /\ Len(last) = 1  BY <1>5
    <3> HIDE DEF last
    <3>2. all = files \o last  BY DEF last
    <3>3. /\ all \in Seq(Outcomes) /\ Len(all) = Len(files) + Len(last)
          /\ \A i \in 1..Len(files) : all[i] = files[i]
          /\ \A i \in 1..Len(last) : all[Len(files) + i] = last[i]
      <4>1. files \in Seq(Outcomes) /\ last \in Seq(Outcomes)  BY <2>1, <3>1
      <4>2. /\ files \o last \in Seq(Outcomes) /\ Len(files \o last) = Len(files) + Len(last)
            /\ \A i \in 1..Len(files) : (files \o last)[i] = files[i]
            /\ \A i \in 1..Len(last) : (files \o last)[Len(files) + i] = last[i]
        BY <4>1, Concatenated
      <4> HIDE DEF all
      <4> QED  BY <3>2, <4>2
    <3> HIDE DEF all
    <3>4. /\ all \in Seq(Outcomes) /\ Len(all) = 7 + 1
          /\ \A i \in 1..7 : all[i] = files[i]
          /\ \A i \in 1..1 : all[7 + i] = last[i]
      BY <2>1, <3>1, <3>3
    <3> QED  BY <3>4 DEF last
  <2>3. errors = all  BY DEF files
  <2> HIDE DEF all, errors
  <2>4. \A i \in 1..5 : i \in 1..7  OBVIOUS
  <2>5. \A i \in 1..2 : 5 + i \in 1..7 /\ 5 + i = i + 5  OBVIOUS
  <2>6. <<calendar>>[1] = calendar  OBVIOUS
  <2>7. \A i \in 1..2 : all[5 + i] = optional[i]  BY <2>1, <2>2, <2>5
  <2>8. \A i \in 1..2 : all[i + 5] = optional[i]  BY <2>5, <2>7
  <2> QED  BY <2>1, <2>2, <2>3, <2>4, <2>6, <2>8
<1>7. StaticFeed(a) = IF ~a.zip THEN "BadArchive" ELSE FirstError(errors)
  BY DEF StaticFeed, calendar
<1> DEFINE Explained(e) == /\ e = "MissingFile" => NoCalendar(a)
                           /\ e = "BadArchive" => Locked(a)
<1>0. ASSUME validate_archive(a)
      PROVE  \A i \in DOMAIN REQUIRED : File(a, REQUIRED[i]) # "absent"
  BY <1>0, FileIsFound DEF validate_archive
<1>8. ASSUME validate_archive(a) PROVE Explained(StaticFeed(a))
  <2>1. \A i \in 1..5 : Explained(required[i])
    <3> SUFFICES ASSUME NEW i \in 1..5 PROVE Explained(required[i])
      OBVIOUS
    <3>1. required[i] = read_index(File(a, REQUIRED[i]))
      BY <1>0, <1>1, <1>8 DEF read_required
    <3> QED  BY <1>1, <3>1, EntryReads DEF Locked
  <2>2. \A i \in 1..2 : Explained(optional[i])
    <3> SUFFICES ASSUME NEW i \in 1..2 PROVE Explained(optional[i])
      OBVIOUS
    <3>1. optional[i] = read_index(File(a, Optional[i]))
      BY <1>1 DEF read_optional
    <3> QED  BY <1>1, <3>1, EntryReads DEF Locked
  <2>7. Explained(calendar)  BY DEF calendar
  <2>3. \A i \in 1..8 : i \in 1..5 \/ i = 8 \/ \E j \in 1..2 : i = j + 5
    OBVIOUS
  <2> HIDE DEF required, optional, errors, Explained
  <2>4. \A i \in 1..8 : Explained(errors[i])
    BY <1>6, <2>1, <2>2, <2>3, <2>7
  <2>5. FirstError(errors) = "none" \/ Explained(FirstError(errors))
    BY <1>6, <2>4, FirstOfErrors
  <2> QED  BY <1>7, <1>8, <2>5 DEF validate_archive, Explained
<1>9. ASSUME StaticFeed(a) = "none"
      PROVE  a.zip /\ \A i \in DOMAIN Optional : read_optional(a, Optional[i]) = "none"
  <2>1. a.zip /\ FirstError(errors) = "none"  BY <1>7, <1>9
  <2>2. \A i \in 1..8 : errors[i] = "none"
    <3> HIDE DEF errors
    <3> QED  BY <1>6, <2>1, FirstOfErrors
  <2>3. \A i \in 1..2 : i + 5 \in 1..8  OBVIOUS
  <2>4. \A i \in 1..2 : optional[i] = "none"
    <3> HIDE DEF optional, errors
    <3> QED  BY <1>6, <2>2, <2>3
  <2> QED  BY <1>1, <2>1, <2>4
<1> QED  BY <1>0, <1>8, <1>9

\* The calendar on its own never misses a file, opens where its entries do, and reads
\* where the whole feed does.
LEMMA CalendarReads ==
    ASSUME NEW a \in Archives(Dates)
    PROVE  /\ a.zip => /\ ServiceCalendar(a) # "MissingFile"
                       /\ ServiceCalendar(a) = "BadArchive" => Locked(a)
           /\ StaticFeed(a) = "none" /\ from_rows(a) = "none" => ServiceCalendar(a) = "none"
<1> DEFINE optional == [i \in DOMAIN Optional |-> read_optional(a, Optional[i])]
           errors == optional \o <<from_rows(a)>>
<1>1. DOMAIN Optional = 1..2  BY DEF Optional
<1>2. /\ \A name : read_optional(a, name) \in {"none", "Io", "BadArchive", "Csv"}
      /\ from_rows(a) \in {"none", "BadCalendar"}
  BY EntryReads DEF read_optional, from_rows
<1>3. optional \in Seq(Outcomes) /\ Len(optional) = 2
  <2>1. \A i \in DOMAIN Optional : read_optional(a, Optional[i]) \in Outcomes
    BY <1>2 DEF Outcomes
  <2> QED  BY <1>1, <2>1
<1>4. <<from_rows(a)>> \in Seq(Outcomes) /\ Len(<<from_rows(a)>>) = 1
  BY <1>2 DEF Outcomes
<1>5. /\ errors \in Seq(Outcomes) /\ Len(errors) = 3
      /\ errors[1] = optional[1] /\ errors[2] = optional[2] /\ errors[3] = from_rows(a)
  <2> HIDE DEF optional
  <2>1. /\ errors \in Seq(Outcomes) /\ Len(errors) = 2 + 1
        /\ \A i \in 1..2 : errors[i] = optional[i]
        /\ \A i \in 1..1 : errors[2 + i] = <<from_rows(a)>>[i]
    <3> DEFINE last == <<from_rows(a)>>
    <3>1. last \in Seq(Outcomes) /\ Len(last) = 1  BY <1>4
    <3> HIDE DEF last
    <3>2. errors = optional \o last  BY DEF last
    <3> HIDE DEF errors
    <3>3. /\ errors \in Seq(Outcomes) /\ Len(errors) = Len(optional) + Len(last)
          /\ \A i \in 1..Len(optional) : errors[i] = optional[i]
          /\ \A i \in 1..Len(last) : errors[Len(optional) + i] = last[i]
      <4>1. optional \in Seq(Outcomes) /\ last \in Seq(Outcomes)  BY <1>3, <3>1
      <4>2. /\ optional \o last \in Seq(Outcomes)
            /\ Len(optional \o last) = Len(optional) + Len(last)
            /\ \A i \in 1..Len(optional) : (optional \o last)[i] = optional[i]
            /\ \A i \in 1..Len(last) : (optional \o last)[Len(optional) + i] = last[i]
        BY <4>1, Concatenated
      <4> QED  BY <3>2, <4>2
    <3>4. /\ errors \in Seq(Outcomes) /\ Len(errors) = 2 + 1
          /\ \A i \in 1..2 : errors[i] = optional[i]
          /\ \A i \in 1..1 : errors[2 + i] = last[i]
      BY <1>3, <3>1, <3>3
    <3> QED  BY <3>4 DEF last
  <2> HIDE DEF errors
  <2> QED  BY <2>1
<1>6. ServiceCalendar(a) = IF ~a.zip THEN "BadArchive" ELSE FirstError(errors)
  BY DEF ServiceCalendar
<1>7. \A i \in 1..3 : i = 1 \/ i = 2 \/ i = 3  OBVIOUS
<1> DEFINE Explained(e) == e # "MissingFile" /\ (e = "BadArchive" => Locked(a))
<1>8. Explained(optional[1]) /\ Explained(optional[2]) /\ Explained(from_rows(a))
  <2>1. ASSUME NEW i \in 1..2 PROVE Explained(optional[i])
    <3>1. optional[i] = read_index(File(a, Optional[i]))
      BY <1>1 DEF read_optional
    <3> QED  BY <1>1, <3>1, EntryReads DEF Locked
  <2>2. 1 \in 1..2 /\ 2 \in 1..2  OBVIOUS
  <2> QED  BY <1>2, <2>1, <2>2
<1>9. ASSUME a.zip PROVE Explained(ServiceCalendar(a))
  <2> HIDE DEF optional, errors, Explained
  <2>1. \A i \in 1..3 : Explained(errors[i])
    BY <1>5, <1>7, <1>8
  <2>2. FirstError(errors) = "none" \/ Explained(FirstError(errors))
    BY <1>5, <2>1, FirstOfErrors
  <2>3. Explained("none")  BY DEF Explained
  <2> QED  BY <1>6, <1>9, <2>2, <2>3
<1>10. ASSUME StaticFeed(a) = "none", from_rows(a) = "none" PROVE ServiceCalendar(a) = "none"
  <2>1. a.zip /\ optional[1] = "none" /\ optional[2] = "none"
    BY <1>1, <1>10, FeedReads
  <2> HIDE DEF optional, errors
  <2>2. \A i \in 1..3 : errors[i] = "none"
    BY <1>5, <1>7, <1>10, <2>1
  <2> QED  BY <1>5, <1>6, <2>1, <2>2, FirstOfErrors
<1> QED  BY <1>9, <1>10

-----------------------------------------------------------------------------
(* The archives that were installed or accepted *)

\* The agency whose turn it is is one of the registry, and its id is a path.
LEMMA TurnIsKnown ==
    ASSUME LoopInv, pc \in {"fetch", "inspect", "write"}
    PROVE  /\ turn \in DOMAIN Selected /\ Selected[turn] \in Ids
           /\ Ids \subseteq AgencyIds /\ Agency \in Ids /\ Agency \in Paths
<1>1. registry.agencies \in Seq(Agencies)  BY DEF LoopInv, Agencies
<1>2. Known /\ Sound /\ Selected # <<>>  BY DEF LoopInv, RegistryIsSound
<1>3. DOMAIN Selected = 1..Len(Selected) /\ Len(Selected) \in Nat
  BY <1>1, <1>2, SelectedOnce DEF Sound
<1>4. \A i \in DOMAIN Selected : Selected[i] \in Ids
  BY <1>2 DEF Selected, Ids, Known
<1>5. Len(Selected) # 0  BY <1>2, <1>3 DEF Selected
<1>6. turn \in DOMAIN Selected
  BY <1>3, <1>5 DEF LoopInv
<1>7. Ids \subseteq AgencyIds
  <2>1. \A i \in DOMAIN registry.agencies : registry.agencies[i] \in Agencies
    BY <1>1, SeqFacts
  <2> QED  BY <2>1 DEF Ids, Agencies
<1> QED  BY <1>4, <1>6, <1>7 DEF Agency, Paths

\* What a path reads as depends on the archive that is there.
LEMMA SameArchives ==
    ASSUME ArchivesInv, UNCHANGED <<disk, registry, installed, passed, offers>>
    PROVE  /\ disk' \in [Paths -> Archives(Dates) \cup {None}]
           /\ offers' \in [AgencyIds -> Archives(Dates) \cup {None}]
           /\ installed' \subseteq Ids' /\ passed' \subseteq Paths
           /\ Ids' = Ids
           /\ \A p \in installed' : disk'[p] # None /\ validate_archive(disk'[p])
           /\ \A p \in passed' : /\ read_feed(p)' = "none"
                                 /\ from_rows(disk'[p]) = "none"
                                 /\ ~Violations(disk'[p])
<1>1. \A p : read_feed(p)' = read_feed(p)  BY DEF read_feed
<1> QED  BY <1>1 DEF ArchivesInv, Ids

\* One step keeps what is known of the archives: a proof step per action.
LEMMA ArchivesStep == LoopInv /\ ArchivesInv /\ [IngestNext]_ivars => ArchivesInv'
<1> SUFFICES ASSUME LoopInv, ArchivesInv, [IngestNext]_ivars
             PROVE  ArchivesInv'
  OBVIOUS
<1>0. UNCHANGED registry /\ Ids' = Ids
  BY SameCommand DEF Ids
<1> DEFINE AsDispatched ==
       coverages = [i \in DOMAIN Selected |-> CoverageOf(archive_of(Selected[i]))]
<1>D. ASSUME UNCHANGED <<disk, registry, command>>
      PROVE  /\ Selected' = Selected
             /\ \A id : archive_of(id)' = archive_of(id)
             /\ \A p : CoverageOf(p)' = CoverageOf(p)
  BY <1>D DEF Selected, archive_of, CoverageOf, read_calendar
<1>1. CASE Run
  <2>1. /\ UNCHANGED <<disk, registry, installed, passed, offers>>
        /\ reader' = 0 /\ coverages' = <<>> /\ window' = Pending /\ written' = {}
        /\ pc' \in {"shell", "validate"}
    BY <1>1 DEF Run, End, data
  <2>2. Len(<<>>) = 0  OBVIOUS
  <2> QED  BY <2>1, <2>2, SameArchives DEF ArchivesInv
<1>2. CASE Validate
  <2>1. /\ UNCHANGED <<disk, registry, installed, passed, offers, written>>
        /\ UNCHANGED <<reader, coverages, window>> /\ pc = "validate"
        /\ pc' \in {"shell", "validate", "dispatch"}
    BY <1>2 DEF Validate, End, data, history, windowV
  <2> QED  BY <2>1, SameArchives DEF ArchivesInv
<1>3. CASE Dispatch
  <2>1. /\ UNCHANGED <<disk, registry, installed, passed, offers, written, command>>
        /\ UNCHANGED <<reader, window>> /\ pc = "dispatch"
        /\ \/ pc' = "shell"
           \/ pc' = command.kind /\ pc' # "agencies" /\ Known
    BY <1>3 DEF Dispatch, End, data, history
  <2>2. pc' \in {"shell", "fetch", "inspect", "build"}
    BY <2>1 DEF LoopInv, Command
  <2>3. Len(coverages') \in Nat
    <3>1. CASE pc' # "build"
      BY <1>3, <3>1 DEF Dispatch, ArchivesInv
    <3>2. CASE pc' = "build"
      <4>1. DOMAIN Selected = 1..Len(Selected) /\ Len(Selected) \in Nat
        BY <2>1, <3>2, SelectedOnce DEF LoopInv, RegistryIsSound, Sound, Agencies
      <4>2. coverages' = [i \in DOMAIN Selected |-> CoverageOf(archive_of(Selected[i]))]
        BY <1>3, <3>2 DEF Dispatch
      <4> QED  BY <4>1, <4>2
    <3> QED  BY <3>1, <3>2
  <2>4. reader' = 0 /\ window' = Pending
    BY <2>1 DEF ArchivesInv
  <2>5. pc' = "build" => AsDispatched'
    BY <1>3, <1>D, <2>1 DEF Dispatch
  <2> QED  BY <2>1, <2>2, <2>3, <2>4, <2>5, SameArchives DEF ArchivesInv
<1>4. CASE Keep
  <2>1. /\ UNCHANGED <<disk, registry, installed, passed, offers, written>>
        /\ UNCHANGED <<reader, coverages, window>> /\ pc = "fetch" /\ pc' \in {"shell", "fetch"}
    BY <1>4 DEF Keep, Advance, End, data, history, windowV
  <2> QED  BY <2>1, SameArchives DEF ArchivesInv
<1>5. CASE Download
  <2>1. /\ UNCHANGED <<registry, offers, written, reader, coverages, window>>
        /\ pc = "fetch" /\ pc' \in {"shell", "fetch"}
        /\ \/ UNCHANGED <<disk, installed, passed>>
           \/ /\ offers[Agency] # None /\ validate_archive(offers[Agency])
              /\ disk' = [disk EXCEPT ![Agency] = offers[Agency]]
              /\ installed' = installed \cup {Agency} /\ passed' = passed \ {Agency}
    BY <1>5 DEF Download, Advance, End, data, windowV
  <2>2. CASE UNCHANGED <<disk, installed, passed>>
    BY <2>1, <2>2, SameArchives DEF ArchivesInv
  <2>3. CASE /\ offers[Agency] # None /\ validate_archive(offers[Agency])
             /\ disk' = [disk EXCEPT ![Agency] = offers[Agency]]
             /\ installed' = installed \cup {Agency} /\ passed' = passed \ {Agency}
    <3>1. Agency \in Ids /\ Agency \in Paths /\ Ids \subseteq AgencyIds
      BY <2>1, TurnIsKnown
    <3> DEFINE agency == Agency
               body   == offers[agency]
    <3>2. body \in Archives(Dates) /\ body # None /\ validate_archive(body)
      BY <2>3, <3>1 DEF ArchivesInv
    <3>3. disk' = [disk EXCEPT ![agency] = body]
      BY <2>3
    <3>4. agency \in Ids /\ agency \in Paths /\ installed' = installed \cup {agency}
          /\ passed' = passed \ {agency}
      BY <2>3, <3>1
    <3> HIDE DEF agency, body
    <3>5. disk \in [Paths -> Archives(Dates) \cup {None}] /\ Ids \subseteq Paths
      BY <3>1 DEF ArchivesInv, Paths
    <3>6. /\ disk' \in [Paths -> Archives(Dates) \cup {None}]
          /\ disk'[agency] = body
          /\ \A p \in Paths : p # agency => disk'[p] = disk[p]
      BY <3>2, <3>3, <3>4, <3>5
    <3>7. \A p \in Paths : p # agency => read_feed(p)' = read_feed(p)
      BY <3>6 DEF read_feed
    <3>8. \A p \in installed' : disk'[p] # None /\ validate_archive(disk'[p])
      BY <3>2, <3>4, <3>5, <3>6 DEF ArchivesInv
    <3>9. \A p \in passed' : /\ read_feed(p)' = "none"
                             /\ from_rows(disk'[p]) = "none"
                             /\ ~Violations(disk'[p])
      BY <3>4, <3>6, <3>7 DEF ArchivesInv
    <3> QED  BY <1>0, <2>1, <3>4, <3>6, <3>8, <3>9 DEF ArchivesInv
  <2> QED  BY <2>1, <2>2, <2>3
<1>6. CASE FetchFails
  <2>1. /\ UNCHANGED <<registry, offers, written, reader, coverages, window>>
        /\ pc = "fetch" /\ pc' = "shell"
        /\ passed' = {p \in passed : disk'[p] # None}
        /\ installed' = {p \in installed : disk'[p] # None}
    BY <1>6 DEF FetchFails, End, data, windowV
  <2>2. Agency \in Ids /\ Agency \in Paths /\ Ids \subseteq Paths
    BY <2>1, TurnIsKnown DEF Paths
  <2> DEFINE agency == Agency
  <2>3. PICK content \in {disk[agency], None} : disk' = [disk EXCEPT ![agency] = content]
    BY <1>6 DEF FetchFails
  <2>4. agency \in Paths  BY <2>2
  <2> HIDE DEF agency
  <2>5. disk \in [Paths -> Archives(Dates) \cup {None}]
    BY DEF ArchivesInv
  <2>6. /\ disk' \in [Paths -> Archives(Dates) \cup {None}]
        /\ \A p \in Paths : disk'[p] # None => disk'[p] = disk[p]
    BY <2>3, <2>4, <2>5
  <2>7. \A p \in Paths : disk'[p] # None => read_feed(p)' = read_feed(p)
    BY <2>6 DEF read_feed
  <2>8. \A p \in installed' : disk'[p] # None /\ validate_archive(disk'[p])
    BY <2>1, <2>2, <2>6 DEF ArchivesInv
  <2>9. \A p \in passed' : /\ read_feed(p)' = "none"
                           /\ from_rows(disk'[p]) = "none"
                           /\ ~Violations(disk'[p])
    BY <2>1, <2>6, <2>7 DEF ArchivesInv
  <2> QED  BY <1>0, <2>1, <2>6, <2>8, <2>9 DEF ArchivesInv
<1>7. CASE Inspect
  <2> DEFINE path == archive_of(command.agency)
  <2>1. /\ UNCHANGED <<disk, registry, installed, offers, written>>
        /\ UNCHANGED <<reader, coverages, window>> /\ pc = "inspect" /\ pc' = "shell"
    BY <1>7 DEF Inspect, End, data, windowV
  <2>2. \/ UNCHANGED passed
        \/ /\ read_feed(path) = "none" /\ from_rows(disk[path]) = "none"
           /\ ~Violations(disk[path]) /\ passed' = passed \cup {path}
    BY <1>7 DEF Inspect
  <2>3. CASE UNCHANGED passed
    BY <2>1, <2>3, SameArchives DEF ArchivesInv
  <2>4. CASE /\ read_feed(path) = "none" /\ from_rows(disk[path]) = "none"
             /\ ~Violations(disk[path]) /\ passed' = passed \cup {path}
    <3>1. path \in Paths
      <4>1. command \in Command /\ command.kind = "inspect"
        BY <2>1 DEF LoopInv, ArchivesInv
      <4> QED  BY <4>1 DEF archive_of, Command, Paths
    <3> HIDE DEF path
    <3>2. \A p : read_feed(p)' = read_feed(p)  BY <2>1 DEF read_feed
    <3> QED  BY <1>0, <2>1, <2>4, <3>1, <3>2 DEF ArchivesInv
  <2> QED  BY <2>2, <2>3, <2>4
<1>8. CASE ResolveWindow
  <2>1. /\ UNCHANGED <<disk, registry, installed, passed, offers, written, pc>> /\ pc = "build"
        /\ Next
    BY <1>8 DEF ResolveWindow, data, history
  <2>2. reader' \in Nat /\ Len(coverages') \in Nat /\ reader' <= Len(coverages')
    BY <2>1 DEF Next, CheckOptions, OpenArchive, Narrow, ArchivesInv
  <2>3. coverages' = coverages /\ command' = command
    BY <1>8 DEF ResolveWindow, Next, CheckOptions, OpenArchive, Narrow
  <2>4. AsDispatched'
    BY <1>D, <2>1, <2>3 DEF ArchivesInv
  <2> QED  BY <2>1, <2>2, <2>4, SameArchives DEF ArchivesInv
<1>9. CASE UseWindow
  <2>1. /\ UNCHANGED <<disk, registry, installed, passed, offers, written>>
        /\ UNCHANGED <<reader, coverages, window>>
        /\ pc' = "shell" \/ (pc' = "write" /\ window.kind = "ok")
    BY <1>9 DEF UseWindow, End, data, history, windowV
  <2> QED  BY <2>1, SameArchives DEF ArchivesInv
<1>10. CASE Write
  <2>1. /\ UNCHANGED <<disk, registry, installed, passed, offers>>
        /\ UNCHANGED <<reader, coverages, window>> /\ pc = "write" /\ pc' \in {"shell", "write"}
        /\ written' = written \/ written' = written \cup {Agency}
    BY <1>10 DEF Write, Advance, End, data, windowV
  <2>2. Agency \in Ids  BY <2>1, TurnIsKnown
  <2> QED  BY <2>1, <2>2, SameArchives DEF ArchivesInv
<1>11. CASE WriteFails
  <2>1. /\ UNCHANGED <<disk, registry, installed, passed, offers, written>>
        /\ UNCHANGED <<reader, coverages, window>> /\ pc' = "shell"
    BY <1>11 DEF WriteFails, End, data, history, windowV
  <2> QED  BY <2>1, SameArchives DEF ArchivesInv
<1>12. CASE UNCHANGED ivars
  <2>1. /\ UNCHANGED <<disk, registry, installed, passed, offers, written, pc, command>>
        /\ UNCHANGED <<reader, coverages, window>>
    BY <1>12 DEF ivars, data, history, windowV
  <2>2. pc' = "build" => AsDispatched'
    BY <1>D, <2>1 DEF ArchivesInv
  <2> QED  BY <2>1, <2>2, SameArchives DEF ArchivesInv
<1> QED
  BY <1>1, <1>2, <1>3, <1>4, <1>5, <1>6, <1>7, <1>8, <1>9, <1>10, <1>11, <1>12 DEF IngestNext

LEMMA ArchivesInvariant == IngestSpec => [](LoopInv /\ ArchivesInv)
<1>1. IngestInit => ArchivesInv
  <2>1. Len(<<>>) = 0  OBVIOUS
  <2> QED  BY <2>1 DEF IngestInit, ArchivesInv
<1> QED  BY <1>1, ArchivesStep, LoopInvariant, PTL DEF IngestSpec

\* The type invariant.
THEOREM IngestTypes == IngestSpec => []IngestTypeOK
<1>1. ASSUME LoopInv, ArchivesInv PROVE IngestTypeOK
  <2>1. pc \in {"fetch", "inspect", "write"} => turn \in 1..Len(Selected)
    <3> SUFFICES ASSUME pc \in {"fetch", "inspect", "write"} PROVE turn \in 1..Len(Selected)
      OBVIOUS
    <3>1. turn \in DOMAIN Selected  BY <1>1, TurnIsKnown
    <3>2. DOMAIN Selected = 1..Len(Selected)
      BY <1>1, SelectedOnce DEF LoopInv, RegistryIsSound, Sound, Agencies
    <3> QED  BY <3>1, <3>2
  <2>2. pc = "build" => turn \in 1..Len(Selected)
    <3> SUFFICES ASSUME pc = "build" PROVE turn \in 1..Len(Selected)
      OBVIOUS
    <3>1. DOMAIN Selected = 1..Len(Selected) /\ Len(Selected) \in Nat /\ Selected # <<>>
      BY <1>1, SelectedOnce DEF LoopInv, RegistryIsSound, Sound, Agencies
    <3>2. Len(Selected) # 0  BY <3>1 DEF Selected
    <3> QED  BY <1>1, <3>1, <3>2 DEF LoopInv
  <2>3. pc = "validate" => turn \in 1..Len(registry.agencies)
    BY <1>1 DEF LoopInv, ReadSoFar
  <2>4. command \in Command /\ reader \in 0..Len(coverages)
    BY <1>1 DEF LoopInv, ArchivesInv
  <2> QED  BY <1>1, <2>1, <2>2, <2>3, <2>4 DEF IngestTypeOK, ArchivesInv
<1> QED  BY <1>1, ArchivesInvariant, PTL

\* Where an invocation stops reading, and why: inspect at the archive it names, the
\* window of a build and its datasets at the archive whose turn it is.
LEMMA ReadingEnds ==
    ASSUME LoopInv, ArchivesInv, [IngestNext]_ivars,
           ~UNCHANGED ivars, pc' = "shell", error' \in FeedErrors
    PROVE  /\ UNCHANGED <<disk, installed, passed>> \/ command'.kind = "inspect"
           /\ UNCHANGED <<disk, installed>>
           /\ \/ Inspect /\ error' = read_feed(FailedPath') /\ error' # "none"
              \/ Inspect /\ error' \in {"BadCalendar", "Violations"}
              \/ command'.kind = "build" /\ error' = read_calendar(FailedPath')
              \/ command'.kind = "build" /\ error' = read_feed(FailedPath') /\ error' # "none"
              \/ command'.kind = "build" /\ error' = "Violations" /\ Violations(disk[FailedPath'])
              \/ command'.kind = "build" /\ error' = "BadCalendar"
                 /\ from_rows(disk[FailedPath']) # "none"
              \/ command'.kind = "build" /\ error' = "NoService" /\ disk[FailedPath'].dates = {}
              \/ command'.kind = "build" /\ error' = "BadNoon" /\ disk[FailedPath'].dates # {}
<1>0. error' \notin {"none", "Parse", "NoAgencies", "DuplicateAgencyId", "UnknownTimezone",
                     "Usage", "UnknownAgency", "HttpStatus", "Rejected", "Fault", "Panic",
                     "NoWindow"}
  BY DEF FeedErrors, ReadErrors
<1>1. ~Run /\ ~Dispatch /\ ~Keep /\ ~Download /\ ~FetchFails /\ ~WriteFails
  <2>1. command.kind # "shell"  BY DEF LoopInv, Command
  <2>2. ~Run /\ ~FetchFails /\ ~WriteFails
    BY <1>0 DEF Run, FetchFails, WriteFails, End
  <2>3. ~Dispatch
    BY <1>0, <2>1 DEF Dispatch, End
  <2>4. ~Advance("fetch") /\ ~End("HttpStatus") /\ ~End("Rejected")
    BY <1>0 DEF Advance, End
  <2>5. ~Keep /\ ~Download
    BY <2>4 DEF Keep, Download
  <2> QED  BY <2>2, <2>3, <2>5
<1>2. ~Validate /\ ~ResolveWindow
  BY <1>0 DEF Validate, ResolveWindow, End
<1>3. Inspect \/ UseWindow \/ Write
  BY <1>1, <1>2 DEF IngestNext
<1>4. registry' = registry /\ command' = command /\ Selected' = Selected
  BY <1>1, SameCommand DEF Selected
<1>5. \A id : archive_of(id)' = archive_of(id)  BY <1>4 DEF archive_of
<1>7. CASE Inspect
  <2>1. /\ pc = "inspect" /\ UNCHANGED <<disk, installed, window, turn, reader>>
        /\ window = Pending /\ command.kind = "inspect" /\ turn = 1
    BY <1>7 DEF Inspect, windowV, ArchivesInv, LoopInv
  <2>2. command.agency # None
    BY <2>1 DEF LoopInv, Command
  <2>3. FailedPath' = archive_of(command.agency)
    BY <1>4, <1>5, <2>1, <2>2 DEF FailedPath, Selected, Pending, Failed
  <2>5. \/ error' = read_feed(FailedPath') /\ error' # "none"
        \/ error' \in {"BadCalendar", "Violations"}
    BY <1>0, <1>7, <2>3 DEF Inspect, End, from_rows
  <2> QED  BY <1>4, <1>7, <2>1, <2>5
<1>8. CASE UseWindow
  <2>1. /\ pc = "build" /\ UNCHANGED <<disk, installed, passed, window, reader>>
        /\ window = Failed /\ command.kind = "build"
        /\ \/ EndedAt("unreadable") /\ error' = read_calendar(NextPath)
           \/ EndedAt("no service") /\ error' = "NoService"
    BY <1>0, <1>8 DEF UseWindow, End, history, windowV, LoopInv
  <2>2. FailedPath' = NextPath
    BY <1>4, <1>5, <2>1 DEF FailedPath, NextPath
  <2>3. CASE EndedAt("no service") /\ error' = "NoService"
    <3>1. reader + 1 \in DOMAIN Selected
      <4>1. DOMAIN Selected = 1..Len(Selected) /\ Len(Selected) \in Nat
        BY <2>1, SelectedOnce DEF LoopInv, RegistryIsSound, Sound, Agencies
      <4>2. coverages = [i \in DOMAIN Selected |-> CoverageOf(archive_of(Selected[i]))]
        BY <2>1 DEF ArchivesInv
      <4>3. Len(coverages) = Len(Selected)
        BY <4>1, <4>2
      <4>4. reader \in Nat  BY DEF ArchivesInv
      <4>5. reader < Len(coverages)  BY <2>3 DEF EndedAt
      <4> QED  BY <4>1, <4>3, <4>4, <4>5
    <3>2. CoverageOf(NextPath).kind = "no service"
      BY <2>1, <2>3, <3>1 DEF EndedAt, ArchivesInv, NextPath
    <3>3. disk[NextPath].dates = {}
      BY <3>2 DEF CoverageOf, coverage
    <3> QED  BY <1>4, <2>1, <2>2, <2>3, <3>3
  <2> QED  BY <1>4, <2>1, <2>2, <2>3
<1>9. CASE Write
  <2>1. /\ pc = "write" /\ UNCHANGED <<disk, installed, passed, window, reader>>
        /\ window # Failed /\ command.kind = "build" /\ turn \in DOMAIN Selected
    BY <1>9, TurnIsKnown DEF Write, windowV, ArchivesInv, LoopInv, Failed
  <2>2. turn' = turn
    BY <1>0, <1>9 DEF Write, Advance, End
  <2>3. FailedPath' = archive_of(Agency)
    BY <1>4, <1>5, <2>1, <2>2 DEF FailedPath, Agency
  <2>4. \/ error' = read_feed(FailedPath') /\ error' # "none"
        \/ error' = "Violations" /\ Violations(disk[FailedPath'])
        \/ error' = from_rows(disk[FailedPath']) /\ error' # "none"
        \/ error' = "BadNoon" /\ disk[FailedPath'].dates # {}
    BY <1>0, <1>9, <2>3 DEF Write, Advance, End
  <2>5. \A a : from_rows(a) # "none" => from_rows(a) = "BadCalendar"
    BY DEF from_rows
  <2> QED  BY <1>4, <2>1, <2>3, <2>4, <2>5
<1> QED  BY <1>3, <1>7, <1>8, <1>9

\* An archive that fetch installed is refused later, by inspect or by a build, as no
\* archive only for an entry that does not open, and for want of a file only without
\* a calendar: the files that validate_archive found in it are found by the reader, in
\* whichever directories and order its entries are, and whatever other agencies,
\* faults and commands come in between.
THEOREM InstalledAreComplete == IngestSpec => []FetchedArchivesAreComplete
<1> DEFINE Explained(archive, e) ==
       /\ archive.zip
       /\ \A i \in DOMAIN REQUIRED : File(archive, REQUIRED[i]) # "absent"
       /\ e = "MissingFile" => NoCalendar(archive)
       /\ e = "BadArchive" => Locked(archive)
<1>1. IngestInit => FetchedArchivesAreComplete
  BY DEF IngestInit, FetchedArchivesAreComplete
<1>2. LoopInv /\ ArchivesInv /\ FetchedArchivesAreComplete /\ [IngestNext]_ivars
      => FetchedArchivesAreComplete'
  <2> SUFFICES ASSUME LoopInv, ArchivesInv, FetchedArchivesAreComplete, [IngestNext]_ivars,
                      pc' = "shell", error' \in {"BadArchive", "MissingFile"},
                      FailedPath' \in installed'
               PROVE  Explained(disk'[FailedPath'], error')
    BY DEF FetchedArchivesAreComplete
  <2>1. CASE UNCHANGED ivars
    <3>1. FailedPath' = FailedPath /\ UNCHANGED <<pc, error, installed, disk>>
      BY <2>1 DEF ivars, data, history, windowV, FailedPath, archive_of, Selected
    <3> QED  BY <3>1 DEF FetchedArchivesAreComplete
  <2>2. CASE ~UNCHANGED ivars
    <3>1. error' \in FeedErrors  BY DEF FeedErrors, ReadErrors
    <3>2. /\ installed' = installed /\ disk' = disk
          /\ error' = read_calendar(FailedPath') \/ error' = read_feed(FailedPath')
      BY <2>2, <3>1, ReadingEnds
    <3> DEFINE p == FailedPath'
    <3>3. p \in installed  BY <3>2
    <3>4. disk[p] \in Archives(Dates) /\ disk[p] # None /\ validate_archive(disk[p])
      <4>1. installed \subseteq Paths
        <5>1. Ids \subseteq AgencyIds
          <6>1. \A i \in DOMAIN registry.agencies : registry.agencies[i] \in Agencies
            BY SeqFacts DEF LoopInv, Agencies
          <6> QED  BY <6>1 DEF Ids, Agencies
        <5> QED  BY <5>1 DEF ArchivesInv, Paths
      <4> QED  BY <3>3, <4>1 DEF ArchivesInv
    <3> HIDE DEF p
    <3>5. disk[p].zip  BY <3>4 DEF validate_archive
    <3>6. error' = read_feed(p) => Explained(disk[p], error')
      BY <3>4, <3>5, FeedReads DEF read_feed
    <3>7. error' = read_calendar(p) => Explained(disk[p], error')
      BY <3>4, <3>5, CalendarReads, FeedReads DEF read_calendar
    <3> HIDE DEF Explained
    <3> QED  BY <3>2, <3>6, <3>7 DEF p
  <2> QED  BY <2>1, <2>2
<1> QED  BY <1>1, <1>2, ArchivesInvariant, PTL DEF IngestSpec

\* The gate inspect is: a build, of any agencies and with any options, ends for an
\* archive that inspect accepted and that was not replaced since only where it has no
\* service at all, or for a noon that does not resolve.
THEOREM InspectGuardsBuilds == IngestSpec => []InspectedFeedsBuild
<1> DEFINE Excused(archive, e) == \/ e = "NoService" /\ archive.dates = {}
                                  \/ e = "BadNoon" /\ archive.dates # {}
<1>1. IngestInit => InspectedFeedsBuild
  BY DEF IngestInit, InspectedFeedsBuild, AcceptedAndRefused, FeedErrors, ReadErrors
<1>2. LoopInv /\ ArchivesInv /\ InspectedFeedsBuild /\ [IngestNext]_ivars
      => InspectedFeedsBuild'
  <2> SUFFICES ASSUME LoopInv, ArchivesInv, InspectedFeedsBuild, [IngestNext]_ivars,
                      pc' = "shell", command'.kind = "build",
                      error' \in FeedErrors, FailedPath' \in passed'
               PROVE  Excused(disk'[FailedPath'], error')
    BY DEF InspectedFeedsBuild, AcceptedAndRefused
  <2>1. CASE UNCHANGED ivars
    <3>1. FailedPath' = FailedPath /\ UNCHANGED <<pc, error, command, passed, disk>>
      BY <2>1 DEF ivars, data, history, windowV, FailedPath, archive_of, Selected
    <3> QED  BY <3>1 DEF InspectedFeedsBuild, AcceptedAndRefused
  <2>2. CASE ~UNCHANGED ivars
    <3> DEFINE p == FailedPath'
    <3>1. ~Inspect
      <4> SUFFICES ASSUME Inspect PROVE FALSE
        OBVIOUS
      <4>1. command.kind = "inspect" /\ command' = command
        BY DEF Inspect, ArchivesInv
      <4> QED  BY <4>1
    <3>2. /\ passed' = passed /\ disk' = disk
          /\ \/ error' = read_calendar(p)
             \/ error' = read_feed(p) /\ error' # "none"
             \/ error' = "Violations" /\ Violations(disk[p])
             \/ error' = "BadCalendar" /\ from_rows(disk[p]) # "none"
             \/ Excused(disk[p], error')
      BY <2>2, <3>1, ReadingEnds
    <3>3. p \in passed  BY <3>2
    <3> HIDE DEF p
    <3>4. /\ read_feed(p) = "none" /\ from_rows(disk[p]) = "none" /\ ~Violations(disk[p])
          /\ p \in Paths
      BY <3>3 DEF ArchivesInv
    <3>5. disk[p] # None /\ StaticFeed(disk[p]) = "none"
      BY <3>4 DEF read_feed
    <3>6. disk[p] \in Archives(Dates)
      BY <3>4, <3>5 DEF ArchivesInv
    <3>7. read_calendar(p) = "none"
      BY <3>4, <3>5, <3>6, CalendarReads DEF read_calendar
    <3>8. error' # "none"  BY DEF FeedErrors, ReadErrors
    <3> HIDE DEF Excused
    <3> QED  BY <3>2, <3>4, <3>7, <3>8 DEF p
  <2> QED  BY <2>1, <2>2
<1> QED  BY <1>1, <1>2, ArchivesInvariant, PTL DEF IngestSpec

=============================================================================
