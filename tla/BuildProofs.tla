---------------------------- MODULE BuildProofs ----------------------------
(***************************************************************************)
(* Theorems about Build, for any registry, any feeds and command lines,    *)
(* and any number of builds, of archives fetched meanwhile and of faults.  *)
(***************************************************************************)
EXTENDS Cube, TLAPS

\* What is proved of the window, for the archives of the agencies selected.
WP == INSTANCE WindowProofs WITH coverages <- SelectedCoverage

\* What select returns is a sequence of agencies, none twice.
LEMMA SelectedOnce ==
    ASSUME command.agency \in Agencies \cup {None}
    PROVE  /\ Len(Selected) \in Nat \ {0} /\ DOMAIN Selected = 1..Len(Selected)
           /\ \A n \in 1..Len(Selected) : Selected[n] \in Agencies
           /\ \A m, n \in 1..Len(Selected) : Selected[m] = Selected[n] => m = n
<1>1. CASE command.agency # None
  <2>1. Selected = <<command.agency>>
    BY <1>1 DEF Selected
  <2> QED  BY <1>1, <2>1
<1>2. CASE command.agency = None
  <2>1. Selected = Registry
    BY <1>2 DEF Selected
  <2>2. /\ Registry \in Seq(Agencies) /\ Registry # <<>>
        /\ \A m, n \in DOMAIN Registry : Registry[m] = Registry[n] => m = n
    BY RegistryAssumption
  <2> QED  BY <2>1, <2>2
<1> QED  BY <1>1, <1>2

\* NoCommand asks for the whole registry, and so no command names an agency that the
\* registry does not have.
LEMMA CommandAgency ==
    ASSUME command \in Commands \cup {NoCommand}
    PROVE  command.agency \in Agencies \cup {None}
  BY CommandsAssumption DEF NoCommand

\* What a file holds can be any content; only the entry written changes.
LEMMA OneFile ==
    ASSUME NEW a \in Agencies, NEW d \in 1..MaxDate, NEW c \in Contents,
           facts \in [Agencies -> [1..MaxDate -> Contents]],
           facts' = [facts EXCEPT ![a][d] = c]
    PROVE  /\ facts' \in [Agencies -> [1..MaxDate -> Contents]]
           /\ facts'[a][d] = c
           /\ \A b \in Agencies, e \in 1..MaxDate :
                 (b # a \/ e # d) => facts'[b][e] = facts[b][e]
  OBVIOUS

\* ... and likewise for a dimension file.
LEMMA OneDimension ==
    ASSUME NEW a \in Agencies, NEW t \in Tables, NEW c \in Contents,
           dims \in [Tables -> [Agencies -> Contents]],
           dims' = [dims EXCEPT ![t][a] = c]
    PROVE  /\ dims' \in [Tables -> [Agencies -> Contents]]
           /\ dims'[t][a] = c
           /\ \A b \in Agencies, u \in Tables :
                 (b # a \/ u # t) => dims'[u][b] = dims[u][b]
  OBVIOUS

\* BuildInv holds before the first build.
LEMMA BuildStart == Init => BuildInv
<1> SUFFICES ASSUME Init PROVE BuildInv
  OBVIOUS
<1>1. /\ archive \in [Agencies -> Feeds] /\ command = NoCommand /\ pc = "idle" /\ turn = 1
      /\ feed = None /\ todo = {} /\ tables = <<>> /\ open = FALSE /\ status = "none"
      /\ facts = [a \in Agencies |-> [d \in 1..MaxDate |-> None]]
      /\ dims  = [t \in Tables |-> [a \in Agencies |-> None]]
      /\ built = [a \in Agencies |-> None]
  BY DEF Init
<1>2. turn \in 1..Len(Selected)
  <2>1. command.agency \in Agencies \cup {None}
    BY <1>1, CommandAgency
  <2> QED  BY <1>1, <2>1, SelectedOnce
<1>3. BuildTypeOK
  BY <1>1, <1>2 DEF BuildTypeOK, Contents
<1> QED  BY <1>1, <1>3 DEF BuildInv, SuccessIsComplete

\* Every step of a build, a fault or a fetch keeps BuildInv.
LEMMA BuildStep == BuildInv /\ [Next]_vars => BuildInv'
<1> SUFFICES ASSUME BuildInv, [Next]_vars
             PROVE  BuildInv'
  OBVIOUS
<1>1. BuildTypeOK
  BY DEF BuildInv
<1>2. /\ Len(Selected) \in Nat \ {0} /\ DOMAIN Selected = 1..Len(Selected)
      /\ \A n \in 1..Len(Selected) : Selected[n] \in Agencies
      /\ \A m, n \in 1..Len(Selected) : Selected[m] = Selected[n] => m = n
      /\ turn \in 1..Len(Selected)
      /\ Agency \in Agencies
      /\ \A n \in 1..(turn - 1) : n \in 1..Len(Selected) /\ Selected[n] # Agency
  <2>1. command.agency \in Agencies \cup {None} /\ turn \in 1..Len(Selected)
    BY <1>1, CommandAgency DEF BuildTypeOK
  <2> QED  BY <2>1, SelectedOnce DEF Agency
<1>3. ASSUME command' = command
      PROVE  Selected' = Selected
  BY <1>3 DEF Selected
<1>4. ASSUME window' = window
      PROVE  \A f : DatesToWrite(f)' = DatesToWrite(f)
  BY <1>4 DEF DatesToWrite, InWindow, EventDates
\* An agency of which nothing is written stays complete.
<1>5. ASSUME NEW a \in Agencies, Complete(a), window' = window,
             built'[a] = built[a], \A t \in Tables : dims'[t][a] = dims[t][a],
             \A d \in 1..MaxDate : facts'[a][d] = facts[a][d]
      PROVE  Complete(a)'
  <2>1. built[a] \in Feeds /\ EventDates(built[a]) \subseteq 1..MaxDate
    <3>1. built[a] \in Feeds
      BY <1>1, <1>5 DEF BuildTypeOK, Complete
    <3> QED  BY <3>1, FeedsAssumption DEF EventDates
  <2> QED  BY <1>5, <2>1 DEF Complete, InWindow, EventDates
<1>6. ASSUME UNCHANGED <<facts, dims, command, window, pc, turn, feed, todo, tables, open,
                         built, status>>,
             archive' \in [Agencies -> Feeds \cup {None}]
      PROVE  BuildInv'
  <2>1. BuildTypeOK'
    BY <1>1, <1>3, <1>6 DEF BuildTypeOK
  <2> QED  BY <1>3, <1>4, <1>6, <2>1
           DEF BuildInv, SuccessIsComplete, SelectedAgencies, Complete, InWindow, EventDates, Agency
<1>7. CASE UNCHANGED vars
  BY <1>1, <1>6, <1>7 DEF vars, store, windowV, work, BuildTypeOK
<1>8. CASE FetchArchive
  <2>1. /\ UNCHANGED <<facts, dims, command, window, pc, turn, feed, todo, tables, open,
                       built, status>>
        /\ archive' \in [Agencies -> Feeds \cup {None}]
    BY <1>1, <1>8 DEF FetchArchive, windowV, work, BuildTypeOK
  <2> QED  BY <1>6, <2>1
<1>9. CASE Interrupt
  <2>1. /\ pc' = "idle" /\ status' = "failed" /\ open' = FALSE
        /\ UNCHANGED <<archive, facts, dims, command, turn, feed, todo, tables, built>>
    BY <1>9 DEF Interrupt, End, store
  <2>2. BuildTypeOK'
    BY <1>1, <1>3, <2>1 DEF BuildTypeOK
  <2> QED  BY <2>1, <2>2 DEF BuildInv, SuccessIsComplete
<1>10. ASSUME NEW c \in Commands, Start(c)
       PROVE  BuildInv'
  <2>1. /\ command' = c /\ pc' = "window" /\ turn' = 1 /\ feed' = None /\ todo' = {}
        /\ tables' = <<>> /\ open' = FALSE /\ built' = [a \in Agencies |-> None]
        /\ status' = "running" /\ UNCHANGED <<archive, facts, dims>>
    BY <1>10 DEF Start, store
  <2>2. turn' \in 1..Len(Selected')
    <3>1. /\ Len(Registry) \in Nat \ {0} /\ Selected' \in {<<c.agency>>, Registry}
      BY <2>1, RegistryAssumption DEF Selected
    <3> QED  BY <2>1, <3>1
  <2>3. BuildTypeOK'
    BY <1>1, <2>1, <2>2 DEF BuildTypeOK
  <2> QED  BY <2>1, <2>3 DEF BuildInv, SuccessIsComplete
\* What a build still running does not have to be asked: the agencies before the turn
\* stay complete, because only the one whose turn it is is written.
<1>11. ASSUME pc # "idle", pc' \notin {"idle", "window"}, BuildTypeOK',
              UNCHANGED <<command, window, turn, status>>,
              \A a \in Agencies : a # Agency =>
                 /\ built'[a] = built[a] /\ \A t \in Tables : dims'[t][a] = dims[t][a]
                 /\ \A d \in 1..MaxDate : facts'[a][d] = facts[a][d],
              pc' \in {"facts", "dimension"} =>
                 /\ feed' \in Feeds /\ todo' \subseteq DatesToWrite(feed')
                 /\ \A d \in DatesToWrite(feed') \ todo' : facts'[Agency][d] = feed'
                 /\ \A t \in Tables :
                       (\A n \in DOMAIN tables' : tables'[n] # t) => dims'[t][Agency] = feed',
              pc' = "dimension" => tables' # <<>> /\ todo' = {}
       PROVE  BuildInv'
  <2>1. Selected' = Selected /\ Agency' = Agency /\ status' = "running"
    BY <1>3, <1>11 DEF Agency, BuildInv
  <2>2. \A n \in 1..(turn' - 1) : Complete(Selected[n])'
    <3> SUFFICES ASSUME NEW n \in 1..(turn - 1)
                 PROVE  Complete(Selected[n])'
      BY <1>11
    <3> DEFINE a == Selected[n]
    <3>1. a \in Agencies /\ a # Agency /\ Complete(a)
      BY <1>2, <1>11 DEF BuildInv
    <3>2. a' = a
      BY <2>1
    <3> HIDE DEF a
    <3>3. Complete(a)'
      BY <1>5, <1>11, <3>1, <3>2
    <3> QED  BY <3>3 DEF a
  <2>3. DatesToWrite(feed)' = DatesToWrite(feed')
    BY <1>11 DEF DatesToWrite, EventDates, InWindow
  <2>4. pc' \in {"facts", "dimension"} =>
          /\ (feed \in Feeds /\ todo \subseteq DatesToWrite(feed))'
          /\ (\A d \in DatesToWrite(feed) \ todo : facts[Agency][d] = feed)'
          /\ (\A t \in Tables : (\A n \in DOMAIN tables : tables[n] # t) => dims[t][Agency] = feed)'
    BY <1>11, <2>1, <2>3
  <2> QED  BY <1>11, <2>1, <2>2, <2>4 DEF BuildInv, SuccessIsComplete
<1>12. CASE ResolveWindow
  <2>1. /\ pc = "window" /\ UNCHANGED <<archive, facts, dims, command, pc, turn, feed, todo,
                                          tables, open, built, status>>
    BY <1>12 DEF ResolveWindow, store, work
  <2>2. BuildTypeOK' /\ turn' = 1
    BY <1>1, <1>3, <2>1 DEF BuildTypeOK, BuildInv
  <2> QED  BY <2>1, <2>2 DEF BuildInv, SuccessIsComplete
<1>13. CASE UseWindow
  <2>1. /\ pc = "window" /\ UNCHANGED <<archive, facts, dims, command, turn, feed, todo,
                                          tables, built, window>>
        /\ \/ pc' = "read" /\ UNCHANGED <<status, open>>
           \/ pc' = "idle" /\ status' = "failed" /\ open' = FALSE
    BY <1>13 DEF UseWindow, End, store, windowV
  <2>2. BuildTypeOK'
    BY <1>1, <1>3, <2>1 DEF BuildTypeOK
  <2>3. CASE pc' = "read"
    BY <1>11, <2>1, <2>2, <2>3
  <2>4. CASE pc' = "idle"
    BY <2>1, <2>2, <2>4 DEF BuildInv, SuccessIsComplete
  <2> QED  BY <2>1, <2>3, <2>4
<1>14. CASE ReadFeed
  <2>1. /\ pc = "read" /\ UNCHANGED <<archive, facts, dims, command, turn, built, window>>
        /\ \/ /\ archive[Agency] # None
              /\ feed' = archive[Agency] /\ todo' = DatesToWrite(feed')
              /\ tables' = DimensionTables /\ pc' = "facts" /\ UNCHANGED <<status, open>>
           \/ /\ UNCHANGED <<feed, todo, tables>>
              /\ pc' = "idle" /\ status' = "failed" /\ open' = FALSE
    BY <1>14 DEF ReadFeed, End, store, windowV
  <2>2. CASE pc' = "facts"
    <3>1. feed' \in Feeds /\ todo' = DatesToWrite(feed') /\ tables' = <<"routes", "stops">>
      BY <1>1, <1>2, <2>1, <2>2 DEF BuildTypeOK, DimensionTables
    <3>2. todo' \subseteq 1..MaxDate
      BY <3>1, FeedsAssumption DEF DatesToWrite, EventDates
    <3>3. BuildTypeOK'
      BY <1>1, <1>3, <2>1, <2>2, <3>1, <3>2 DEF BuildTypeOK
    <3>4. \A t \in Tables : \E n \in DOMAIN tables' : tables'[n] = t
      BY <3>1 DEF Tables
    <3> QED  BY <1>11, <2>1, <2>2, <3>1, <3>3, <3>4
  <2>3. CASE pc' = "idle"
    <3>1. BuildTypeOK'
      BY <1>1, <1>3, <2>1, <2>3 DEF BuildTypeOK
    <3> QED  BY <2>1, <2>3, <3>1 DEF BuildInv, SuccessIsComplete
  <2> QED  BY <2>1, <2>2, <2>3
<1>15. CASE CreatePartition
  <2>1. /\ pc = "facts" /\ open' = TRUE
        /\ UNCHANGED <<archive, dims, command, pc, turn, feed, todo, tables, built, status, window>>
    BY <1>15 DEF CreatePartition, windowV
  <2>2. PICK d \in todo : facts' = [facts EXCEPT ![Agency][d] = Torn]
    BY <1>15 DEF CreatePartition
  <2>3. /\ facts' \in [Agencies -> [1..MaxDate -> Contents]]
        /\ \A a \in Agencies, e \in 1..MaxDate :
              (a # Agency \/ e # d) => facts'[a][e] = facts[a][e]
    <3>1. d \in 1..MaxDate /\ Torn \in Contents /\ facts \in [Agencies -> [1..MaxDate -> Contents]]
      BY <1>1 DEF BuildTypeOK, Contents
    <3> QED  BY <1>2, <2>2, <3>1, OneFile
  <2>4. BuildTypeOK'
    BY <1>1, <1>3, <2>1, <2>3 DEF BuildTypeOK
  <2>5. \A e \in DatesToWrite(feed) \ todo : facts'[Agency][e] = feed
    <3>1. \A e \in DatesToWrite(feed) : e \in 1..MaxDate
      BY <2>1, FeedsAssumption DEF BuildInv, DatesToWrite, EventDates
    <3> QED  BY <1>2, <2>1, <2>3, <3>1 DEF BuildInv
  <2> QED  BY <1>11, <2>1, <2>3, <2>4, <2>5 DEF BuildInv
<1>16. CASE ClosePartition
  <2>1. /\ pc = "facts" /\ open' = FALSE
        /\ UNCHANGED <<archive, dims, command, pc, turn, feed, tables, built, status, window>>
    BY <1>16 DEF ClosePartition, windowV
  <2>2. PICK d \in todo : facts' = [facts EXCEPT ![Agency][d] = feed] /\ todo' = todo \ {d}
    BY <1>16 DEF ClosePartition
  <2>3. /\ facts' \in [Agencies -> [1..MaxDate -> Contents]]
        /\ facts'[Agency][d] = feed
        /\ \A a \in Agencies, e \in 1..MaxDate :
              (a # Agency \/ e # d) => facts'[a][e] = facts[a][e]
    <3>1. d \in 1..MaxDate /\ feed \in Contents /\ facts \in [Agencies -> [1..MaxDate -> Contents]]
      BY <1>1 DEF BuildTypeOK, Contents
    <3>2. Agency \in Agencies /\ facts' = [facts EXCEPT ![Agency][d] = feed]
      BY <1>2, <2>2
    <3> QED  BY <3>1, <3>2, OneFile
  <2>4. BuildTypeOK'
    BY <1>1, <1>3, <2>1, <2>2, <2>3 DEF BuildTypeOK
  <2>5. \A e \in DatesToWrite(feed) \ todo' : facts'[Agency][e] = feed
    <3>1. \A e \in DatesToWrite(feed) : e \in 1..MaxDate
      BY <2>1, FeedsAssumption DEF BuildInv, DatesToWrite, EventDates
    <3> QED  BY <1>2, <2>1, <2>2, <2>3, <3>1 DEF BuildInv
  <2> QED  BY <1>11, <2>1, <2>2, <2>3, <2>4, <2>5 DEF BuildInv
<1>17. CASE CreateDimension
  <2>1. /\ pc = "facts" /\ pc' = "dimension" /\ open' = TRUE /\ todo = {} /\ tables # <<>>
        /\ dims' = [dims EXCEPT ![Head(tables)][Agency] = Torn]
        /\ UNCHANGED <<archive, facts, command, turn, feed, todo, tables, built, status, window>>
    BY <1>17 DEF CreateDimension, windowV
  <2>2. Head(tables) \in Tables /\ \E n \in DOMAIN tables : tables[n] = Head(tables)
    BY <1>1, <2>1 DEF BuildTypeOK, Tables
  <2>3. /\ dims' \in [Tables -> [Agencies -> Contents]]
        /\ \A a \in Agencies, t \in Tables :
              (a # Agency \/ t # Head(tables)) => dims'[t][a] = dims[t][a]
    <3>1. Torn \in Contents /\ dims \in [Tables -> [Agencies -> Contents]]
      BY <1>1 DEF BuildTypeOK, Contents
    <3> QED  BY <1>2, <2>1, <2>2, <3>1, OneDimension
  <2>4. BuildTypeOK'
    BY <1>1, <1>3, <2>1, <2>3 DEF BuildTypeOK
  <2> QED  BY <1>2, <1>11, <2>1, <2>2, <2>3, <2>4 DEF BuildInv
<1>18. CASE CloseDimension
  <2>1. /\ pc = "dimension" /\ pc' = "facts" /\ open' = FALSE
        /\ dims' = [dims EXCEPT ![Head(tables)][Agency] = feed] /\ tables' = Tail(tables)
        /\ UNCHANGED <<archive, facts, command, turn, feed, todo, built, status, window>>
    BY <1>18 DEF CloseDimension, windowV
  <2>2. /\ Head(tables) \in Tables /\ tables' \in {<<>>, <<"stops">>}
        /\ \A t \in Tables : (\A n \in DOMAIN tables' : tables'[n] # t) =>
              t = Head(tables) \/ \A n \in DOMAIN tables : tables[n] # t
    <3>1. tables \in {<<"stops">>, <<"routes", "stops">>}
      BY <1>1, <2>1 DEF BuildTypeOK, BuildInv
    <3>2. CASE tables = <<"stops">>
      BY <2>1, <3>2 DEF Tables
    <3>3. CASE tables = <<"routes", "stops">>
      <4>1. tables' = <<"stops">> /\ Head(tables) = "routes"
        BY <2>1, <3>3
      <4>2. tables'[1] = "stops" /\ 1 \in DOMAIN tables'
        BY <4>1
      <4> QED  BY <4>1, <4>2 DEF Tables
    <3> QED  BY <3>1, <3>2, <3>3
  <2>3. /\ dims' \in [Tables -> [Agencies -> Contents]]
        /\ dims'[Head(tables)][Agency] = feed
        /\ \A a \in Agencies, t \in Tables :
              (a # Agency \/ t # Head(tables)) => dims'[t][a] = dims[t][a]
    <3>1. feed \in Contents /\ dims \in [Tables -> [Agencies -> Contents]]
      BY <1>1 DEF BuildTypeOK, Contents
    <3> QED  BY <1>2, <2>1, <2>2, <3>1, OneDimension
  <2>4. BuildTypeOK'
    BY <1>1, <1>3, <2>1, <2>2, <2>3 DEF BuildTypeOK
  <2> QED  BY <1>2, <1>11, <2>1, <2>2, <2>3, <2>4 DEF BuildInv
<1>19. CASE NextAgency
  <2>1. /\ pc = "facts" /\ todo = {} /\ tables = <<>>
        /\ built' = [built EXCEPT ![Agency] = feed]
        /\ UNCHANGED <<archive, facts, dims, command, feed, todo, tables, window>>
        /\ \/ /\ turn < Len(Selected) /\ turn' = turn + 1 /\ pc' = "read"
              /\ UNCHANGED <<status, open>>
           \/ /\ ~(turn < Len(Selected)) /\ turn' = turn
              /\ pc' = "idle" /\ status' = "done" /\ open' = FALSE
    BY <1>19 DEF NextAgency, End, store, windowV
  <2>2. built \in [Agencies -> Feeds \cup {None}] /\ feed \in Feeds
    BY <1>1, <2>1 DEF BuildTypeOK, BuildInv
  <2>3. BuildTypeOK' /\ Selected' = Selected
    <3>1. built' \in [Agencies -> Feeds \cup {None}]
      BY <2>1, <2>2
    <3>2. Selected' = Selected
      BY <1>3, <2>1
    <3>3. turn' \in 1..Len(Selected')
      BY <1>2, <2>1, <3>2
    <3> QED  BY <1>1, <2>1, <3>1, <3>2, <3>3 DEF BuildTypeOK
  <2>4. /\ built'[Agency] = feed /\ feed # None
        /\ \A a \in Agencies : a # Agency => built'[a] = built[a]
    BY <1>2, <2>1, <2>2, FeedsAssumption
  <2>5. \A n \in 1..turn : Complete(Selected[n])'
    <3> SUFFICES ASSUME NEW n \in 1..turn
                 PROVE  Complete(Selected[n])'
      OBVIOUS
    <3>1. CASE n = turn
      <4>1. /\ \A d \in DatesToWrite(feed) : facts[Agency][d] = feed
            /\ \A t \in Tables : dims[t][Agency] = feed
        BY <2>1 DEF BuildInv
      <4>2. Selected'[n] = Agency
        BY <2>3, <3>1 DEF Agency
      <4> QED
        BY <2>1, <2>4, <4>1, <4>2 DEF Complete, DatesToWrite, EventDates, InWindow
    <3>2. CASE n # turn
      <4> DEFINE a == Selected[n]
      <4>1. a \in Agencies /\ a # Agency /\ Complete(a)
        BY <1>2, <2>1, <3>2 DEF BuildInv
      <4>2. a' = a
        BY <2>3
      <4> HIDE DEF a
      <4>3. Complete(a)'
        BY <1>5, <2>1, <2>4, <4>1, <4>2
      <4> QED  BY <4>3 DEF a
    <3> QED  BY <3>1, <3>2
  <2>6. CASE pc' = "read"
    <3>1. turn' - 1 = turn /\ status' = "running"
      BY <1>2, <2>1, <2>6 DEF BuildInv
    <3> QED  BY <2>1, <2>3, <2>5, <2>6, <3>1 DEF BuildInv, SuccessIsComplete
  <2>7. CASE pc' = "idle"
    <3>1. turn = Len(Selected)
      <4>1. ~(turn < Len(Selected))
        BY <2>1, <2>7
      <4>2. turn \in 1..Len(Selected) /\ Len(Selected) \in Nat
        BY <1>2
      <4> QED  BY <4>1, <4>2
    <3>2. \A a \in SelectedAgencies' : \E n \in 1..turn : a = Selected'[n]
      BY <1>2, <2>3, <3>1 DEF SelectedAgencies
    <3>3. SuccessIsComplete'
      BY <2>5, <3>2 DEF SuccessIsComplete, Complete
    <3> QED  BY <2>1, <2>3, <2>7, <3>3 DEF BuildInv
  <2> QED  BY <2>1, <2>6, <2>7
<1> QED
  BY <1>7, <1>8, <1>9, <1>10, <1>12, <1>13, <1>14, <1>15, <1>16, <1>17, <1>18, <1>19
  DEF Next, Step

\* BuildInv is an invariant of a build.
LEMMA BuildInvariant == Spec => []BuildInv
  BY BuildStart, BuildStep, PTL DEF Spec

\* BuildTypeOK, for any registry, feeds and bounds.
THEOREM BuildTypeCorrect == Spec => []BuildTypeOK
<1>1. BuildInv => BuildTypeOK
  BY DEF BuildInv
<1> QED  BY <1>1, BuildInvariant, PTL

\* SuccessIsComplete, for any number of agencies, feeds, dates, builds, faults and
\* archives replaced meanwhile: a build that exits with success has written, for each
\* agency it selected, both dimensions and every event date of its window from one feed.
THEOREM SuccessAlwaysComplete == Spec => []SuccessIsComplete
<1>1. BuildInv => SuccessIsComplete
  BY DEF BuildInv
<1> QED  BY <1>1, BuildInvariant, PTL

\* OthersUntouched: no step of a build writes a file of an agency other than the one
\* whose turn it is, or a partition of a date outside the window.
THEOREM OthersAlwaysUntouched == Spec => OthersUntouched
<1> DEFINE Others == \A a \in Agencies :
             /\ \A t \in Tables : dims'[t][a] # dims[t][a] => a = Agency
             /\ \A d \in 1..MaxDate :
                   facts'[a][d] # facts[a][d] => a = Agency /\ InWindow(d)
<1>1. BuildInv /\ [Next]_vars => [Others]_vars
  <2> SUFFICES ASSUME BuildInv, Next
               PROVE  Others
    OBVIOUS
  <2>1. /\ facts \in [Agencies -> [1..MaxDate -> Contents]]
        /\ dims \in [Tables -> [Agencies -> Contents]]
        /\ Agency \in Agencies
        /\ pc \in {"facts", "dimension"} => /\ feed \in Contents
                                            /\ \A d \in todo : d \in 1..MaxDate /\ InWindow(d)
    <3>1. command.agency \in Agencies \cup {None} /\ turn \in 1..Len(Selected)
      BY CommandAgency DEF BuildInv, BuildTypeOK
    <3> QED
      BY <3>1, SelectedOnce DEF BuildInv, BuildTypeOK, Agency, DatesToWrite, Contents
  <2>2. \/ UNCHANGED <<facts, dims>>
        \/ CreatePartition \/ ClosePartition \/ CreateDimension \/ CloseDimension
    BY DEF Next, Step, Start, ResolveWindow, UseWindow, ReadFeed, NextAgency, Interrupt,
           FetchArchive, store
  <2>3. CASE UNCHANGED <<facts, dims>>
    BY <2>3
  <2>4. CASE CreatePartition \/ ClosePartition
    <3>1. PICK d \in todo, c \in Contents : facts' = [facts EXCEPT ![Agency][d] = c]
      BY <2>1, <2>4 DEF CreatePartition, ClosePartition, Contents
    <3>2. dims' = dims /\ pc = "facts"
      BY <2>4 DEF CreatePartition, ClosePartition
    <3>3. d \in 1..MaxDate /\ InWindow(d)
      BY <2>1, <3>1, <3>2
    <3>4. \A b \in Agencies, e \in 1..MaxDate :
             (b # Agency \/ e # d) => facts'[b][e] = facts[b][e]
      BY <2>1, <3>1, <3>3, OneFile
    <3> QED  BY <3>2, <3>3, <3>4
  <2>5. CASE CreateDimension \/ CloseDimension
    <3>1. facts' = facts
      BY <2>5 DEF CreateDimension, CloseDimension
    <3>2. PICK t, c : dims' = [dims EXCEPT ![t][Agency] = c]
      BY <2>5 DEF CreateDimension, CloseDimension
    <3>3. \A a \in Agencies, u \in Tables : a # Agency => dims'[u][a] = dims[u][a]
      BY <2>1, <3>2
    <3> QED  BY <3>1, <3>3
  <2> QED  BY <2>2, <2>3, <2>4, <2>5
<1> QED  BY <1>1, BuildInvariant, PTL DEF Spec, OthersUntouched
\* The window that Build resolves is the one WindowProofs is about.
LEMMA SameWindow == (W!WindowInv <=> WP!WindowInv) /\ (W!Next => WP!Next)
<1> USE DEF W!Pending, WP!Pending, W!Opening, WP!Opening, W!Failed, WP!Failed,
            W!Panicked, WP!Panicked, W!Ok, WP!Ok, W!NoSpan, WP!NoSpan, W!options, WP!options
<1>1. W!WindowInv <=> WP!WindowInv
  BY DEF W!WindowInv, WP!WindowInv, W!WindowTypeOK, WP!WindowTypeOK,
         W!SharedIsIntersection, WP!SharedIsIntersection, W!Resolved, WP!Resolved,
         W!SharedDatesAreBuilt, WP!SharedDatesAreBuilt, W!CoveredBy, WP!CoveredBy,
         W!Dates, WP!Dates, W!Spans, WP!Spans, W!Coverages, WP!Coverages
<1>2. W!Next => WP!Next
  BY DEF W!Next, WP!Next, W!CheckOptions, WP!CheckOptions, W!OpenArchive, WP!OpenArchive,
         W!Narrow, WP!Narrow, W!Later, WP!Later, W!Earlier, WP!Earlier, W!EndFrom, WP!EndFrom
<1> QED  BY <1>1, <1>2

\* The coverage of a feed with service runs from its first to its last date.
LEMMA CoverageIsOne ==
    ASSUME NEW f \in Feeds
    PROVE  CoverageOf(f) \in W!Coverages
<1>1. f # None /\ Serves[f] \subseteq 1..MaxDate
  BY FeedsAssumption
<1>2. CASE Serves[f] = {}
  BY <1>1, <1>2 DEF CoverageOf, W!Coverages
<1>3. CASE Serves[f] # {}
  <2> DEFINE first == CHOOSE d \in Serves[f] : \A e \in Serves[f] : d <= e
             last  == CHOOSE d \in Serves[f] : \A e \in Serves[f] : e <= d
  <2>1. /\ \E d \in Serves[f] : \A e \in Serves[f] : d <= e
        /\ \E d \in Serves[f] : \A e \in Serves[f] : e <= d
    BY <1>1, <1>3, DatesAssumption, WP!FirstAndLast DEF WP!Dates
  <2>2. first \in Serves[f] /\ last \in Serves[f] /\ first <= last
    BY <2>1
  <2>3. CoverageOf(f) = [kind |-> "span", first |-> first, last |-> last]
    BY <1>1, <1>3 DEF CoverageOf
  <2> HIDE DEF first, last
  <2>4. CoverageOf(f) \in W!Spans
    BY <1>1, <2>2, <2>3 DEF W!Spans, W!Dates
  <2>5. CoverageOf(f).first <= CoverageOf(f).last
    BY <2>2, <2>3
  <2> QED  BY <2>4, <2>5 DEF W!Coverages
<1> QED  BY <1>2, <1>3

\* A window that is about to be resolved.
LEMMA PendingWindow ==
    /\ command \in Commands \cup {NoCommand} /\ archive \in [Agencies -> Feeds]
    /\ from = command.from /\ to = command.to /\ days = command.days
    /\ reader = 0 /\ shared = W!NoSpan /\ window = W!Pending
    => W!WindowInv
<1> SUFFICES ASSUME command \in Commands \cup {NoCommand}, archive \in [Agencies -> Feeds],
                    from = command.from, to = command.to, days = command.days,
                    reader = 0, shared = W!NoSpan, window = W!Pending
             PROVE  W!WindowInv
  OBVIOUS
<1>1. /\ from \in W!Dates \cup {None} /\ to \in W!Dates \cup {None}
      /\ days \in Nat \cup {None}
  BY CommandsAssumption DEF NoCommand, W!Dates
<1>2. SelectedCoverage \in Seq(W!Coverages) /\ SelectedCoverage # <<>>
  <2>1. /\ Len(Selected) \in Nat \ {0} /\ DOMAIN Selected = 1..Len(Selected)
        /\ \A n \in 1..Len(Selected) : Selected[n] \in Agencies
    BY CommandAgency, SelectedOnce
  <2>2. \A n \in 1..Len(Selected) : CoverageOf(archive[Selected[n]]) \in W!Coverages
    BY <2>1, CoverageIsOne
  <2>3. SelectedCoverage \in [1..Len(Selected) -> W!Coverages]
    BY <2>1, <2>2 DEF SelectedCoverage
  <2>4. Len(SelectedCoverage) = Len(Selected) /\ SelectedCoverage \in Seq(W!Coverages)
    BY <2>1, <2>3
  <2> QED  BY <2>1, <2>4
<1>3. window.kind = "pending" /\ window # W!Failed
  BY DEF W!Pending, W!Failed
<1> QED
  BY <1>1, <1>2, <1>3 DEF W!WindowInv, W!WindowTypeOK, W!SharedIsIntersection,
     W!SharedDatesAreBuilt, W!Resolved
\* Before the first build nothing is written and the window is still to be resolved.
LEMMA SteadyStart == Init => SteadyInv
<1> SUFFICES ASSUME Init PROVE SteadyInv
  OBVIOUS
<1>1. /\ archive \in [Agencies -> Feeds] /\ command = NoCommand /\ pc = "idle"
      /\ facts = [a \in Agencies |-> [d \in 1..MaxDate |-> None]]
      /\ dims  = [t \in Tables |-> [a \in Agencies |-> None]]
      /\ built = [a \in Agencies |-> None]
      /\ from = None /\ to = None /\ days = None /\ status = "none" /\ changes = 0
      /\ reader = 0 /\ shared = W!NoSpan /\ window = W!Pending
  BY DEF Init
<1>2. from = command.from /\ to = command.to /\ days = command.days
  BY <1>1 DEF NoCommand
<1>3. W!WindowInv
  BY <1>1, <1>2, PendingWindow
<1> QED  BY <1>1, <1>2, <1>3 DEF SteadyInv

\* The window of a build stays the one its options and the archives determine.
LEMMA WindowKept ==
    ASSUME BuildTypeOK, W!WindowInv, archive' = archive, command' = command,
           UNCHANGED windowV \/ W!Next
    PROVE  W!WindowInv'
<1>1. SelectedCoverage' = SelectedCoverage
  BY DEF SelectedCoverage, Selected, CoverageOf
<1>2. WP!WindowInv /\ [WP!Next]_(WP!vars)
  BY <1>1, SameWindow DEF WP!vars, WP!options, windowV
<1>3. WP!WindowInv'
  BY <1>2, DatesAssumption, WP!WindowStep
<1>4. W!WindowInv' <=> WP!WindowInv'
  BY SameWindow, PTL
<1> QED  BY <1>3, <1>4

\* As long as no archive is replaced, a step keeps files and builds to the archives.
LEMMA SteadyStep == BuildInv /\ BuildInv' /\ SteadyInv /\ [Next]_vars => SteadyInv'
<1> SUFFICES ASSUME BuildInv, BuildInv', SteadyInv, [Next]_vars
             PROVE  SteadyInv'
  OBVIOUS
<1>1. BuildTypeOK /\ BuildTypeOK' /\ (status = "running" <=> pc # "idle")
  BY DEF BuildInv
<1>2. /\ \/ \E c \in Commands : Start(c)
         \/ Step \/ Interrupt \/ FetchArchive \/ UNCHANGED vars
  BY DEF Next
<1>3. changes' \in Nat /\ (changes' = 0 => changes = 0 /\ archive' = archive)
  BY <1>2 DEF SteadyInv, Start, Interrupt, FetchArchive, Step, ResolveWindow, UseWindow, ReadFeed,
     CreatePartition, ClosePartition, CreateDimension, CloseDimension, NextAgency,
     vars, store, bounds
<1>4. \/ \E c \in Commands : Start(c)
      \/ ResolveWindow
      \/ UNCHANGED <<command, windowV>>
  BY <1>2 DEF Interrupt, FetchArchive, Step, UseWindow, ReadFeed,
     CreatePartition, ClosePartition, CreateDimension, CloseDimension, NextAgency, vars
<1>5. from' = command'.from /\ to' = command'.to /\ days' = command'.days
  BY <1>4 DEF SteadyInv, Start, ResolveWindow, windowV, W!Next, W!CheckOptions, W!OpenArchive,
     W!Narrow, W!options
<1>6. pc' \in {"read", "facts", "dimension"} \/ status' = "done" => window'.kind = "ok"
  <2>1. \/ window' = window /\ (pc' \in {"read", "facts", "dimension"} \/ status' = "done" =>
                                   pc \in {"read", "facts", "dimension"} \/ status = "done")
        \/ pc' \in {"idle", "window"} /\ status' # "done"
        \/ UseWindow
    BY <1>1, <1>2 DEF Start, Interrupt, FetchArchive, Step, ResolveWindow, ReadFeed, End,
       CreatePartition, ClosePartition, CreateDimension, CloseDimension, NextAgency,
       vars, windowV
  <2>2. CASE UseWindow
    BY <2>2, <1>1 DEF UseWindow, End, windowV
  <2> QED  BY <2>1, <2>2 DEF SteadyInv
<1> SUFFICES ASSUME changes' = 0
             PROVE  /\ W!WindowInv'
                    /\ \A a \in Agencies :
                          /\ archive'[a] \in Feeds
                          /\ \A d \in 1..MaxDate : facts'[a][d] \in {None, Torn, archive'[a]}
                          /\ \A t \in Tables : dims'[t][a] \in {None, Torn, archive'[a]}
                          /\ built'[a] \in {None, archive'[a]}
                          /\ built'[a] # None /\ ~command'.allow => Clean(archive'[a])
                    /\ pc' \in {"facts", "dimension"} =>
                          feed' = archive'[Agency'] /\ (command'.allow \/ Clean(feed'))
  BY <1>3, <1>5, <1>6 DEF SteadyInv
<1>7. changes = 0 /\ archive' = archive /\ \A a \in Agencies : archive[a] \in Feeds
  BY <1>3 DEF SteadyInv
<1>8. W!WindowInv'
  <2>1. ASSUME NEW c \in Commands, Start(c)
        PROVE  W!WindowInv'
    <3>1. /\ command' \in Commands \cup {NoCommand} /\ archive' \in [Agencies -> Feeds]
          /\ from' = command'.from /\ to' = command'.to /\ days' = command'.days
          /\ reader' = 0 /\ shared' = W!NoSpan /\ window' = W!Pending
      BY <1>1, <1>5, <1>7, <2>1 DEF BuildTypeOK, Start
    <3>2. W!NoSpan' = W!NoSpan /\ W!Pending' = W!Pending /\ NoCommand' = NoCommand
      BY DEF W!NoSpan, W!Pending, NoCommand
    <3>3. /\ (command \in Commands \cup {NoCommand})' /\ (archive \in [Agencies -> Feeds])'
          /\ (from = command.from)' /\ (to = command.to)' /\ (days = command.days)'
          /\ (reader = 0)' /\ (shared = W!NoSpan)' /\ (window = W!Pending)'
      BY <3>1, <3>2
    <3> QED  BY <3>3, PendingWindow, PTL
  <2>2. W!WindowInv
    BY <1>7 DEF SteadyInv
  <2>3. CASE ResolveWindow
    BY <1>1, <1>7, <2>2, <2>3, WindowKept DEF ResolveWindow
  <2>4. CASE UNCHANGED <<command, windowV>>
    BY <1>1, <1>7, <2>2, <2>4, WindowKept
  <2> QED  BY <1>4, <2>1, <2>3, <2>4
<1>9. \A a \in Agencies :
         /\ \A d \in 1..MaxDate : facts[a][d] \in {None, Torn, archive[a]}
         /\ \A t \in Tables : dims[t][a] \in {None, Torn, archive[a]}
         /\ built[a] \in {None, archive[a]}
         /\ built[a] # None /\ ~command.allow => Clean(archive[a])
  BY <1>7 DEF SteadyInv
<1>10. /\ Agency \in Agencies
       /\ \A d \in todo : d \in 1..MaxDate
       /\ pc \in {"facts", "dimension"} =>
             feed = archive[Agency] /\ feed \in Contents /\ (command.allow \/ Clean(feed))
  <2>1. command.agency \in Agencies \cup {None} /\ turn \in 1..Len(Selected)
    BY <1>1, CommandAgency DEF BuildTypeOK
  <2>2. Agency \in Agencies
    BY <2>1, SelectedOnce DEF Agency
  <2> QED  BY <1>1, <1>7, <2>2 DEF BuildTypeOK, SteadyInv, Contents
\* The files on disk: those that a step writes are cut short or of the feed.
<1>11. \A a \in Agencies : \A d \in 1..MaxDate : facts'[a][d] \in {None, Torn, archive[a]}
  <2>1. \/ facts' = facts
        \/ pc = "facts" /\ \E d \in todo, c \in {Torn, feed} : facts' = [facts EXCEPT ![Agency][d] = c]
    BY <1>2 DEF Start, Interrupt, FetchArchive, Step, ResolveWindow, UseWindow, ReadFeed,
       CreatePartition, ClosePartition, CreateDimension, CloseDimension, NextAgency, vars, store
  <2>2. ASSUME pc = "facts", NEW d \in todo, NEW c \in {Torn, feed},
               facts' = [facts EXCEPT ![Agency][d] = c]
        PROVE  \A a \in Agencies : \A e \in 1..MaxDate : facts'[a][e] \in {None, Torn, archive[a]}
    <3>1. c \in {Torn, archive[Agency]}
      BY <1>10, <2>2
    <3>2. /\ facts'[Agency][d] = c
          /\ \A b \in Agencies, e \in 1..MaxDate :
                (b # Agency \/ e # d) => facts'[b][e] = facts[b][e]
      <4>1. d \in 1..MaxDate /\ c \in Contents /\ facts \in [Agencies -> [1..MaxDate -> Contents]]
        BY <1>1, <1>10, <2>2 DEF BuildTypeOK, Contents
      <4>2. Agency \in Agencies /\ facts' = [facts EXCEPT ![Agency][d] = c]
        BY <1>10, <2>2
      <4> QED  BY <4>1, <4>2
    <3> QED  BY <1>9, <3>1, <3>2
  <2> QED  BY <1>9, <2>1, <2>2
<1>12. \A a \in Agencies : \A t \in Tables : dims'[t][a] \in {None, Torn, archive[a]}
  <2>1. \/ dims' = dims
        \/ /\ pc \in {"facts", "dimension"} /\ tables # <<>>
           /\ \E c \in {Torn, feed} : dims' = [dims EXCEPT ![Head(tables)][Agency] = c]
    BY <1>2 DEF Start, Interrupt, FetchArchive, Step, ResolveWindow, UseWindow, ReadFeed, BuildInv,
       CreatePartition, ClosePartition, CreateDimension, CloseDimension, NextAgency, vars, store
  <2>2. ASSUME pc \in {"facts", "dimension"}, tables # <<>>, NEW c \in {Torn, feed},
               dims' = [dims EXCEPT ![Head(tables)][Agency] = c]
        PROVE  \A a \in Agencies : \A t \in Tables : dims'[t][a] \in {None, Torn, archive[a]}
    <3>1. c \in Contents /\ c \in {Torn, archive[Agency]}
      BY <1>10, <2>2 DEF Contents
    <3>2. Head(tables) \in Tables
      BY <1>1, <2>2 DEF BuildTypeOK, Tables
    <3>3. /\ dims'[Head(tables)][Agency] = c
          /\ \A b \in Agencies, u \in Tables :
                (b # Agency \/ u # Head(tables)) => dims'[u][b] = dims[u][b]
      BY <1>1, <1>10, <2>2, <3>1, <3>2, OneDimension DEF BuildTypeOK
    <3> QED  BY <1>9, <3>1, <3>3
  <2> QED  BY <1>9, <2>1, <2>2
<1>13. \A a \in Agencies : /\ built'[a] \in {None, archive[a]}
                           /\ built'[a] # None /\ ~command'.allow => Clean(archive[a])
  <2>1. \/ built' = built /\ command' = command
        \/ built' = [a \in Agencies |-> None]
        \/ pc = "facts" /\ built' = [built EXCEPT ![Agency] = feed] /\ command' = command
    BY <1>2 DEF Start, Interrupt, FetchArchive, Step, ResolveWindow, UseWindow, ReadFeed,
       CreatePartition, ClosePartition, CreateDimension, CloseDimension, NextAgency, vars
  <2>2. CASE pc = "facts" /\ built' = [built EXCEPT ![Agency] = feed] /\ command' = command
    <3>1. \A a \in Agencies : built'[a] = IF a = Agency THEN feed ELSE built[a]
      BY <1>1, <2>2 DEF BuildTypeOK
    <3> QED  BY <1>9, <1>10, <2>2, <3>1
  <2> QED  BY <1>9, <2>1, <2>2
<1>14. pc' \in {"facts", "dimension"} =>
          feed' = archive[Agency'] /\ (command'.allow \/ Clean(feed'))
  <2>1. \/ pc' \notin {"facts", "dimension"}
        \/ pc \in {"facts", "dimension"} /\ UNCHANGED <<command, turn, feed>>
        \/ ReadFeed
    BY <1>2 DEF Start, Interrupt, FetchArchive, Step, ResolveWindow, UseWindow, End, work,
       CreatePartition, ClosePartition, CreateDimension, CloseDimension, NextAgency, vars
  <2>2. UNCHANGED <<command, turn>> => Agency' = Agency
    BY DEF Agency, Selected
  <2>3. CASE ReadFeed
    <3>1. UNCHANGED <<command, turn>>
      BY <2>3 DEF ReadFeed
    <3>2. \/ pc' = "idle"
          \/ feed' = archive[Agency] /\ (command.allow \/ Clean(archive[Agency]))
      BY <2>3 DEF ReadFeed, End
    <3> QED  BY <2>2, <3>1, <3>2
  <2> QED  BY <1>10, <2>1, <2>2, <2>3
<1> QED  BY <1>7, <1>8, <1>11, <1>12, <1>13, <1>14

\* SteadyInv is an invariant of a build.
LEMMA SteadyInvariant == Spec => []SteadyInv
  BY SteadyStart, SteadyStep, BuildInvariant, PTL DEF Spec
\* What a default window is: dates that every agency selected covers, and, unless
\* --days cuts it off, all of them.
LEMMA DefaultWindow ==
    ASSUME BuildTypeOK, W!WindowInv, window.kind = "ok", from = None, to = None
    PROVE  /\ window.start \in 1..MaxDate /\ window.end \in 1..MaxDate
           /\ window.start <= window.end
           /\ \A a \in SelectedAgencies :
                 LET span == CoverageOf(archive[a]) IN
                 /\ span.kind = "span" /\ span.first \in 1..MaxDate /\ span.last \in 1..MaxDate
                 /\ span.first <= window.start /\ window.end <= span.last
           /\ days = None => \A d \in 1..MaxDate :
                 (\A a \in SelectedAgencies : LET span == CoverageOf(archive[a]) IN
                                              span.first <= d /\ d <= span.last)
                 => window.start <= d /\ d <= window.end
<1>1. /\ DOMAIN Selected = 1..Len(Selected) /\ Len(Selected) \in Nat \ {0}
      /\ \A n \in 1..Len(Selected) : Selected[n] \in Agencies
  BY CommandAgency, SelectedOnce DEF BuildTypeOK
<1>2. /\ Len(SelectedCoverage) = Len(Selected)
      /\ \A n \in 1..Len(Selected) : SelectedCoverage[n] = CoverageOf(archive[Selected[n]])
  BY <1>1 DEF SelectedCoverage
<1>3. /\ window.start \in 1..MaxDate /\ window.end \in 1..MaxDate
      /\ window.start <= window.end
  <2>1. \E s, e \in W!Dates : window = W!Ok(s, e)
    BY DEF W!WindowInv, W!WindowTypeOK, W!Pending, W!Opening, W!Failed, W!Panicked
  <2>2. window.start <= window.end
    BY DEF W!WindowInv, W!Resolved
  <2> QED  BY <2>1, <2>2 DEF W!Ok, W!Dates
<1>4. /\ reader = Len(Selected) /\ window.start = shared.first /\ window.end <= shared.last
      /\ days = None => window.end = shared.last
  BY <1>2 DEF W!WindowInv, W!Resolved
<1>5. shared.first \in 1..MaxDate /\ shared.last \in 1..MaxDate
  BY <1>1, <1>4 DEF W!WindowInv, W!WindowTypeOK, W!SharedIsIntersection, W!Spans, W!Dates
\* The span that is shared is the intersection of the coverages.
<1>6. \A d \in 1..MaxDate : shared.first <= d /\ d <= shared.last <=>
          \A n \in 1..Len(Selected) :
             LET span == CoverageOf(archive[Selected[n]]) IN
             span.kind = "span" /\ span.first <= d /\ d <= span.last
  <2>1. reader > 0
    BY <1>1, <1>4
  <2> QED
    BY <1>2, <1>4, <2>1 DEF W!WindowInv, W!SharedIsIntersection, W!CoveredBy, W!Dates
<1>7. ASSUME NEW a \in SelectedAgencies
      PROVE  LET span == CoverageOf(archive[a]) IN
             /\ span.kind = "span" /\ span.first \in 1..MaxDate /\ span.last \in 1..MaxDate
             /\ span.first <= window.start /\ window.end <= span.last
  <2>1. PICK n \in 1..Len(Selected) : a = Selected[n]
    BY <1>1 DEF SelectedAgencies
  <2> DEFINE span == CoverageOf(archive[a])
  <2>2. /\ span.kind = "span" /\ span.first <= window.start
        /\ window.end <= span.last
    BY <1>3, <1>4, <1>5, <1>6, <2>1
  <2>3. span \in W!Spans
    <3>1. archive[a] \in Feeds
      <4>1. archive[a] \in Feeds \cup {None}
        BY <1>1, <2>1 DEF BuildTypeOK
      <4>2. archive[a] = None => span.kind = "unreadable"
        BY DEF CoverageOf
      <4> QED  BY <2>2, <4>1, <4>2
    <3>2. span \in W!Coverages
      BY <3>1, CoverageIsOne
    <3> QED  BY <2>2, <3>2 DEF W!Coverages
  <2> QED  BY <2>2, <2>3 DEF W!Spans, W!Dates
<1>8. ASSUME days = None, NEW d \in 1..MaxDate,
             \A a \in SelectedAgencies : LET span == CoverageOf(archive[a]) IN
                                         span.first <= d /\ d <= span.last
      PROVE  window.start <= d /\ d <= window.end
  <2>1. \A n \in 1..Len(Selected) : Selected[n] \in SelectedAgencies
    BY <1>1 DEF SelectedAgencies
  <2> QED  BY <1>4, <1>6, <1>7, <1>8, <2>1
<1> QED  BY <1>3, <1>7, <1>8

\* What a build that succeeded has used and written, if no archive was replaced.
LEMMA DoneBuild ==
    ASSUME BuildInv, SteadyInv, changes = 0, status = "done", NEW a \in SelectedAgencies
    PROVE  /\ a \in Agencies /\ archive[a] \in Feeds /\ built[a] = archive[a]
           /\ \A t \in Tables : dims[t][a] = archive[a]
           /\ \A d \in EventDates(archive[a]) : InWindow(d) => facts[a][d] = archive[a]
           /\ command.allow \/ Clean(archive[a])
<1>1. a \in Agencies
  BY CommandAgency, SelectedOnce DEF BuildInv, BuildTypeOK, SelectedAgencies
<1>2. Complete(a)
  BY DEF BuildInv, SuccessIsComplete
<1>3. built[a] \in {None, archive[a]} /\ archive[a] \in Feeds
      /\ (built[a] # None /\ ~command.allow => Clean(archive[a]))
  BY <1>1 DEF SteadyInv
<1> QED  BY <1>1, <1>2, <1>3 DEF Complete

\* KeysResolve, for any registry, feeds and commands and any number of builds and
\* faults, as long as the archives stay as they are and the last build did not run
\* with --allow-violations: earlier ones may have.
THEOREM KeysAlwaysResolve == Spec => [](changes = 0 => KeysResolve)
<1>1. BuildInv /\ SteadyInv => (changes = 0 => KeysResolve)
  <2> SUFFICES ASSUME BuildInv, SteadyInv, changes = 0, ~command.allow, status = "done",
                      NEW a \in SelectedAgencies, NEW d \in 1..MaxDate,
                      facts[a][d] \in Feeds, NEW t \in Tables
               PROVE  Uses[facts[a][d]][d] \subseteq Defines[dims[t][a]]
    BY DEF KeysResolve
  <2>1. /\ a \in Agencies /\ archive[a] \in Feeds /\ dims[t][a] = archive[a]
        /\ Clean(archive[a])
    BY DoneBuild
  <2>2. facts[a][d] \in {None, Torn, archive[a]}
    BY <2>1 DEF SteadyInv
  <2>3. facts[a][d] = archive[a]
    BY <2>2, FeedsAssumption, FilesAssumption
  <2> QED  BY <2>1, <2>3 DEF Clean
<1> QED  BY <1>1, BuildInvariant, SteadyInvariant, PTL

\* Every build is one of the whole registry, and of the whole default window.
WholeBuilds == \A c \in Commands : /\ c.agency = None
                                   /\ c.from = None /\ c.to = None /\ c.days = None

\* Such a build selects every agency.
LEMMA WholeRegistry ==
    ASSUME WholeBuilds, BuildTypeOK, SteadyInv
    PROVE  /\ SelectedAgencies = Agencies
           /\ from = None /\ to = None /\ days = None
<1>1. command.agency = None /\ command.from = None /\ command.to = None /\ command.days = None
  BY DEF WholeBuilds, BuildTypeOK, NoCommand
<1> QED  BY <1>1 DEF SelectedAgencies, Selected, Agencies, SteadyInv

\* A partition is only written where RepairInv says.
LEMMA RepairStep ==
    ASSUME WholeBuilds
    PROVE  BuildInv /\ SteadyInv /\ SteadyInv' /\ RepairInv /\ [Next]_vars => RepairInv'
<1> SUFFICES ASSUME BuildInv, SteadyInv, SteadyInv', RepairInv, [Next]_vars, changes' = 0,
                    NEW a \in Agencies, NEW d \in 1..MaxDate, facts'[a][d] # None
             PROVE  /\ d \in EventDates(archive'[a])
                    /\ \A b \in Agencies : LET span == CoverageOf(archive'[b]) IN
                          span.kind = "span" /\ span.first <= d /\ d <= span.last
  BY DEF RepairInv, EventDates
<1>1. changes = 0 /\ archive' = archive
  BY DEF SteadyInv, Next, Start, Interrupt, FetchArchive, Step, ResolveWindow, UseWindow, ReadFeed,
     CreatePartition, ClosePartition, CreateDimension, CloseDimension, NextAgency,
     vars, store, bounds
<1>2. CASE facts[a][d] # None
  BY <1>1, <1>2 DEF RepairInv
<1>3. CASE facts[a][d] = None
  <2>1. pc = "facts" /\ \E e \in todo, c \in {Torn, feed} : facts' = [facts EXCEPT ![Agency][e] = c]
    BY <1>3 DEF Next, Start, Interrupt, FetchArchive, Step, ResolveWindow, UseWindow, ReadFeed,
       CreatePartition, ClosePartition, CreateDimension, CloseDimension, NextAgency, vars, store
  <2>2. PICK e \in todo, c \in {Torn, feed} : facts' = [facts EXCEPT ![Agency][e] = c]
    BY <2>1
  <2>3. facts \in [Agencies -> [1..MaxDate -> Contents]]
    BY DEF BuildInv, BuildTypeOK
  <2>4. a = Agency /\ d = e
    BY <1>3, <2>2, <2>3
  <2>5. feed = archive[a] /\ d \in EventDates(feed) /\ InWindow(d)
    BY <1>1, <2>1, <2>4 DEF BuildInv, SteadyInv, DatesToWrite
  <2>6. ASSUME NEW b \in Agencies
        PROVE  LET span == CoverageOf(archive[b]) IN
               span.kind = "span" /\ span.first <= d /\ d <= span.last
    <3>1. BuildTypeOK /\ W!WindowInv /\ window.kind = "ok"
      BY <1>1, <2>1 DEF BuildInv, SteadyInv
    <3>2. from = None /\ to = None /\ b \in SelectedAgencies
      BY <3>1, WholeRegistry
    <3>3. LET span == CoverageOf(archive[b]) IN
          /\ span.kind = "span" /\ span.first \in 1..MaxDate /\ span.last \in 1..MaxDate
          /\ span.first <= window.start /\ window.end <= span.last
          /\ window.start \in 1..MaxDate /\ window.end \in 1..MaxDate
      BY <3>1, <3>2, DefaultWindow
    <3>4. window.start <= d /\ d <= window.end
      BY <2>5 DEF InWindow
    <3> QED  BY <3>3, <3>4
  <2> QED  BY <1>1, <2>5, <2>6
<1> QED  BY <1>2, <1>3

LEMMA RepairInvariant == ASSUME WholeBuilds PROVE Spec => []RepairInv
<1>1. Init => RepairInv
  BY DEF Init, RepairInv
<1>2. BuildInv /\ SteadyInv /\ SteadyInv' /\ RepairInv /\ [Next]_vars => RepairInv'
  BY RepairStep
<1> QED  BY <1>1, <1>2, BuildInvariant, SteadyInvariant, PTL DEF Spec

\* A build that succeeded has replaced every file that was cut short.
LEMMA DoneRepairs ==
    ASSUME WholeBuilds, BuildInv, SteadyInv, RepairInv, changes = 0
    PROVE  SuccessRepairs
<1> SUFFICES ASSUME status = "done", NEW a \in SelectedAgencies
             PROVE  /\ \A d \in 1..MaxDate : facts[a][d] # Torn
                    /\ \A t \in Tables : dims[t][a] # Torn
  BY DEF SuccessRepairs
<1>1. /\ a \in Agencies /\ archive[a] # Torn
      /\ \A t \in Tables : dims[t][a] = archive[a]
      /\ \A d \in EventDates(archive[a]) : InWindow(d) => facts[a][d] = archive[a]
  BY DoneBuild, FilesAssumption
<1>2. ASSUME NEW d \in 1..MaxDate, facts[a][d] = Torn
      PROVE  FALSE
  <2>1. /\ d \in EventDates(archive[a])
        /\ \A b \in Agencies : LET span == CoverageOf(archive[b]) IN
                               span.first <= d /\ d <= span.last
    BY <1>1, <1>2, FilesAssumption DEF RepairInv
  <2>2. BuildTypeOK /\ W!WindowInv /\ window.kind = "ok"
    BY DEF BuildInv, SteadyInv
  <2>3. from = None /\ to = None /\ days = None /\ SelectedAgencies = Agencies
    BY <2>2, WholeRegistry
  <2>4. InWindow(d)
    BY <2>1, <2>2, <2>3, DefaultWindow DEF InWindow
  <2> QED  BY <1>1, <1>2, <2>1, <2>4
<1> QED  BY <1>1, <1>2

\* SuccessRepairs, for any registry, feeds and number of builds and faults, where every
\* build is of the whole registry and default window and the archives stay as they are:
\* a build that succeeds leaves no file that an earlier one cut short.
THEOREM SuccessAlwaysRepairs ==
    ASSUME WholeBuilds
    PROVE  Spec => [](changes = 0 => SuccessRepairs)
<1>1. BuildInv /\ SteadyInv /\ RepairInv => (changes = 0 => SuccessRepairs)
  BY DoneRepairs
<1> QED  BY <1>1, BuildInvariant, SteadyInvariant, RepairInvariant, PTL
-----------------------------------------------------------------------------
(* The cube that loads what builds are writing *)

\* To a build, a load is a stutter.
LEMMA CubeBuilds == CubeSpec => Spec
<1>1. CubeInit => Init
  BY DEF CubeInit
<1>2. [CubeNext]_cvars => [Next]_vars
  BY DEF CubeNext, BuildGoesOn, Load, StartLoad, ReadPartition, ListDimension, ReadDimension,
     RefuseTable, Serve, cvars
<1> QED  BY <1>1, <1>2, PTL DEF CubeSpec, Spec

\* Every archive is clean and no dimension is missing.
Supplied == \A a \in Agencies : Clean(archive[a]) /\ \A t \in Tables : dims[t][a] # None

\* So it is after a default build.
LEMMA DefaultBuild ==
    BuildInv /\ SteadyInv /\ changes = 0 /\ status = "done" /\ command = NoCommand
    => Supplied
<1> SUFFICES ASSUME BuildInv, SteadyInv, changes = 0, status = "done", command = NoCommand,
                    NEW a \in Agencies
             PROVE  Clean(archive[a]) /\ \A t \in Tables : dims[t][a] # None
  BY DEF Supplied
<1>1. a \in SelectedAgencies /\ ~command.allow
  BY DEF NoCommand, SelectedAgencies, Selected, Agencies
<1> QED  BY <1>1, DoneBuild, FeedsAssumption

\* No step takes a dimension file away.
LEMMA DimensionsStay ==
    ASSUME BuildInv, [Next]_vars, NEW t \in Tables, NEW a \in Agencies, dims[t][a] # None
    PROVE  dims'[t][a] # None
<1>1. \/ dims' = dims
      \/ \E u, b : \E c \in {Torn, feed} : dims' = [dims EXCEPT ![u][b] = c]
            /\ (c = feed => pc = "dimension")
  <2>1. dims' = dims \/ CreateDimension \/ CloseDimension
    BY DEF Next, Start, Interrupt, FetchArchive, Step, ResolveWindow, UseWindow, ReadFeed,
       CreatePartition, ClosePartition, NextAgency, vars, store
  <2>2. CASE CreateDimension
    BY <2>2, FilesAssumption DEF CreateDimension, BuildInv, BuildTypeOK
  <2>3. CASE CloseDimension
    BY <2>3 DEF CloseDimension
  <2> QED  BY <2>1, <2>2, <2>3
<1>2. dims \in [Tables -> [Agencies -> Contents]] /\ (pc = "dimension" => feed # None)
  BY FeedsAssumption DEF BuildInv, BuildTypeOK
<1>3. Torn # None
  BY FilesAssumption
<1>4. ASSUME NEW u, NEW b, NEW c \in {Torn, feed}, dims' = [dims EXCEPT ![u][b] = c], c # None
      PROVE  dims'[t][a] # None
  BY <1>2, <1>4
<1> QED  BY <1>1, <1>2, <1>3, <1>4

\* What a load has read stays what CubeInv says.
LEMMA CubeStep ==
    BuildInv /\ BuildInv' /\ SteadyInv /\ SteadyInv' /\ CubeInv /\ [CubeNext]_cvars => CubeInv'
<1> SUFFICES ASSUME BuildInv, BuildInv', SteadyInv, SteadyInv', CubeInv, [CubeNext]_cvars
             PROVE  CubeInv'
  OBVIOUS
<1>1. CASE BuildGoesOn
  <2>1. Next /\ UNCHANGED <<cube, queue, events, joined, settled>>
        /\ succeeded' = (succeeded \/ (status' = "done" /\ command' = NoCommand))
    BY <1>1 DEF BuildGoesOn, load
  <2>2. changes' = 0 => changes = 0 /\ archive' = archive
    BY <2>1 DEF SteadyInv, Next, Start, Interrupt, FetchArchive, Step, ResolveWindow, UseWindow,
       ReadFeed, CreatePartition, ClosePartition, CreateDimension, CloseDimension, NextAgency,
       store, bounds
  <2>3. ASSUME changes' = 0, succeeded', NEW a \in Agencies
        PROVE  Clean(archive[a]) /\ \A t \in Tables : dims'[t][a] # None
    <3>1. CASE succeeded
      BY <2>1, <2>2, <2>3, <3>1, DimensionsStay DEF CubeInv
    <3>2. CASE status' = "done" /\ command' = NoCommand
      <4>1. /\ BuildInv' /\ SteadyInv' /\ (changes = 0)'
            /\ (status = "done")' /\ (command = NoCommand)'
        BY <2>3, <3>2 DEF NoCommand
      <4>2. Supplied'
        BY <4>1, DefaultBuild, PTL
      <4> QED  BY <2>2, <2>3, <4>2 DEF Supplied
    <3> QED  BY <2>1, <2>3, <3>1, <3>2
  <2> QED  BY <2>1, <2>2, <2>3 DEF CubeInv
<1>2. CASE UNCHANGED cvars
  BY <1>2 DEF cvars, load, vars, store, bounds, CubeInv
<1>3. CASE Load
  <2>1. UNCHANGED <<archive, facts, dims, changes, succeeded>>
    BY <1>3 DEF Load, StartLoad, ReadPartition, ListDimension, ReadDimension, RefuseTable,
       Serve, vars, store, bounds
  <2>2. CASE StartLoad
    <3>1. /\ queue' \subseteq Partitions /\ cube' \in {"facts", "failed"}
          /\ events' = [a \in Agencies |-> [d \in 1..MaxDate |-> None]]
          /\ joined' = [t \in Tables |-> [a \in Agencies |-> None]]
          /\ settled' = succeeded
      BY <2>2 DEF StartLoad
    <3>2. queue' \subseteq Agencies \X (1..MaxDate)
      BY <3>1 DEF Partitions
    <3> QED  BY <2>1, <3>1, <3>2 DEF CubeInv, Tables, Contents
  <2>3. CASE ReadPartition
    <3>1. cube = "facts" /\ UNCHANGED <<joined, settled>>
      BY <2>3 DEF ReadPartition
    <3>2. CASE cube' = "failed" /\ UNCHANGED <<queue, events>>
      BY <2>1, <3>1, <3>2 DEF CubeInv, Tables
    <3>3. CASE ~(cube' = "failed" /\ UNCHANGED <<queue, events>>)
      <4>1. PICK f \in queue :
               /\ facts[f[1]][f[2]] # Torn
               /\ events' = [events EXCEPT ![f[1]][f[2]] = facts[f[1]][f[2]]]
               /\ queue' = queue \ {f} /\ cube' = cube
        BY <2>3, <3>3 DEF ReadPartition
      <4> DEFINE b == f[1]
                 e == f[2]
                 c == facts[b][e]
      <4>2. b \in Agencies /\ e \in 1..MaxDate
        BY <3>1, <4>1 DEF CubeInv
      <4>3. c \in Contents /\ (changes = 0 => c \in {None, archive[b]})
        BY <4>1, <4>2 DEF BuildInv, BuildTypeOK, SteadyInv
      <4>4. events' = [events EXCEPT ![b][e] = c]
        BY <4>1
      <4> HIDE DEF b, e, c
      <4>5. /\ events' \in [Agencies -> [1..MaxDate -> Contents]]
            /\ \A a \in Agencies, d \in 1..MaxDate :
                  events'[a][d] = IF a = b /\ d = e THEN c ELSE events[a][d]
        BY <4>2, <4>3, <4>4 DEF CubeInv
      <4> QED  BY <2>1, <3>1, <4>1, <4>3, <4>5 DEF CubeInv, Tables
    <3> QED  BY <3>2, <3>3
  <2>4. ASSUME NEW table \in Tables, ListDimension(table)
        PROVE  CubeInv'
    <3>1. /\ queue = {}
          /\ \/ cube = "facts" /\ table = "routes"
             \/ cube = "routes" /\ table = "stops"
          /\ queue' = {a \in Agencies : dims[table][a] # None}
          /\ cube' \in {"failed", table} /\ UNCHANGED <<events, joined, settled>>
      BY <2>4 DEF ListDimension
    <3>2. ASSUME changes' = 0, settled', NEW a \in Agencies
          PROVE  a \in queue' /\ (cube = "routes" => joined["routes"][a] # None)
      <4>1. changes = 0 /\ succeeded
        BY <2>1, <3>1, <3>2 DEF CubeInv
      <4>2. a \in queue'
        BY <3>1, <4>1 DEF CubeInv
      <4> QED  BY <3>1, <3>2, <4>1, <4>2 DEF CubeInv, Tables
    <3>3. cube' # "facts" /\ cube' # "serving" /\ queue' \subseteq Agencies
          /\ (cube' = "stops" => cube = "routes")
      BY <3>1 DEF Tables
    <3> QED  BY <2>1, <3>1, <3>2, <3>3 DEF CubeInv, Tables
  <2>5. CASE ReadDimension
    <3>1. cube \in Tables /\ UNCHANGED <<events, settled>>
      BY <2>5 DEF ReadDimension
    <3>2. CASE cube' = "failed" /\ UNCHANGED <<queue, joined>>
      BY <2>1, <3>1, <3>2 DEF CubeInv, Tables
    <3>3. CASE ~(cube' = "failed" /\ UNCHANGED <<queue, joined>>)
      <4>1. PICK b \in queue :
               /\ dims[cube][b] # Torn
               /\ joined' = [joined EXCEPT ![cube][b] = dims[cube][b]]
               /\ queue' = queue \ {b} /\ cube' = cube
        BY <2>5, <3>3 DEF ReadDimension
      <4> DEFINE c == dims[cube][b]
      <4>2. b \in Agencies
        BY <3>1, <4>1 DEF CubeInv
      <4>3. /\ c \in Contents /\ (changes = 0 => c \in {None, archive[b]})
            /\ (changes = 0 /\ succeeded => c # None)
        BY <3>1, <4>1, <4>2 DEF BuildInv, BuildTypeOK, SteadyInv, CubeInv
      <4>4. joined' = [joined EXCEPT ![cube][b] = c]
        BY <4>1
      <4> HIDE DEF c
      <4>5. /\ joined' \in [Tables -> [Agencies -> Contents]]
            /\ \A t \in Tables, a \in Agencies :
                  joined'[t][a] = IF t = cube /\ a = b THEN c ELSE joined[t][a]
        BY <3>1, <4>2, <4>3, <4>4 DEF CubeInv
      <4> QED  BY <2>1, <3>1, <4>1, <4>3, <4>5 DEF CubeInv, Tables
    <3> QED  BY <3>2, <3>3
  <2>6. CASE RefuseTable
    BY <2>1, <2>6 DEF RefuseTable, CubeInv, Tables
  <2>7. CASE Serve
    BY <2>1, <2>7 DEF Serve, CubeInv, Tables
  <2> QED  BY <1>3, <2>2, <2>3, <2>4, <2>5, <2>6, <2>7 DEF Load
<1> QED  BY <1>1, <1>2, <1>3 DEF CubeNext
\* CubeInv is an invariant of the dataset and the load.
LEMMA CubeInvariant == CubeSpec => [](BuildInv /\ SteadyInv /\ CubeInv)
<1>1. CubeInit => CubeInv
  BY DEF CubeInit, CubeInv, Tables, Contents
<1>2. CubeSpec => []BuildInv /\ []SteadyInv
  BY CubeBuilds, BuildInvariant, SteadyInvariant, PTL
<1> QED  BY <1>1, <1>2, CubeStep, PTL DEF CubeSpec

\* ServedTablesAgree, for any registry, feeds and commands and any number of builds,
\* faults and loads: once a default build has succeeded, and as long as the archives stay
\* as they are, a cube that comes up has joined every fact to its route and its stop,
\* whatever builds went on, or were killed, while it loaded.
THEOREM ServedTablesAlwaysAgree == CubeSpec => []ServedTablesAgree
<1>1. SteadyInv /\ CubeInv => ServedTablesAgree
  <2> SUFFICES ASSUME SteadyInv, CubeInv, cube = "serving", settled, changes = 0,
                      NEW a \in Agencies, NEW d \in 1..MaxDate, events[a][d] # None,
                      NEW t \in Tables
               PROVE  /\ joined[t][a] # None
                      /\ Uses[events[a][d]][d] \subseteq Defines[joined[t][a]]
    BY DEF ServedTablesAgree
  <2>1. events[a][d] = archive[a] /\ joined[t][a] \in {None, archive[a]} /\ Clean(archive[a])
    BY DEF CubeInv
  <2>2. joined[t][a] # None
    BY DEF CubeInv, Tables
  <2> QED  BY <2>1, <2>2 DEF Clean
<1> QED  BY <1>1, CubeInvariant, PTL

\* What a load that no build disturbs finds: every file can be read, of every agency, and
\* every partition is of a date on which its agency's feed has events.
LEMMA CalmStore ==
    ASSUME WholeBuilds, BuildInv, SteadyInv, RepairInv,
           status = "done", command = NoCommand, changes = 0
    PROVE  /\ Agencies # {}
           /\ \A f \in Partitions :
                 /\ f[1] \in Agencies /\ f[2] \in 1..MaxDate
                 /\ facts[f[1]][f[2]] = archive[f[1]] /\ facts[f[1]][f[2]] # Torn
                 /\ Defines[archive[f[1]]] # {}
           /\ \A a \in Agencies, t \in Tables :
                 dims[t][a] = archive[a] /\ dims[t][a] # Torn /\ dims[t][a] # None
<1>1. SuccessRepairs /\ SelectedAgencies = Agencies /\ Supplied
  BY DoneRepairs, WholeRegistry, DefaultBuild DEF BuildInv
<1>2. Agencies # {}
  <2>1. Registry \in Seq(Agencies) /\ Registry # <<>>
    BY RegistryAssumption
  <2> QED  BY <2>1
<1>3. ASSUME NEW f \in Partitions
      PROVE  /\ f[1] \in Agencies /\ f[2] \in 1..MaxDate
             /\ facts[f[1]][f[2]] = archive[f[1]] /\ facts[f[1]][f[2]] # Torn
             /\ Defines[archive[f[1]]] # {}
  <2>1. f[1] \in Agencies /\ f[2] \in 1..MaxDate /\ facts[f[1]][f[2]] # None
    BY DEF Partitions
  <2>2. facts[f[1]][f[2]] \in {None, Torn, archive[f[1]]} /\ facts[f[1]][f[2]] # Torn
    BY <1>1, <2>1 DEF SteadyInv, SuccessRepairs
  <2>3. f[2] \in EventDates(archive[f[1]])
    BY <2>1 DEF RepairInv
  <2>4. Clean(archive[f[1]])
    BY <1>1, <2>1 DEF Supplied
  <2>5. Uses[archive[f[1]]][f[2]] # {} /\ Uses[archive[f[1]]][f[2]] \subseteq Defines[archive[f[1]]]
    BY <2>1, <2>3, <2>4 DEF EventDates, Clean
  <2> QED  BY <2>1, <2>2, <2>5
<1>4. ASSUME NEW a \in Agencies, NEW t \in Tables
      PROVE  dims[t][a] = archive[a] /\ dims[t][a] # Torn /\ dims[t][a] # None
  BY <1>1, DoneBuild, FeedsAssumption, FilesAssumption
<1> QED  BY <1>2, <1>3, <1>4

\* A load that no build disturbs fails for no other reason than QuietLoadServes names.
LEMMA CalmStep ==
    ASSUME WholeBuilds
    PROVE  /\ BuildInv /\ SteadyInv /\ RepairInv /\ CubeInv /\ CalmInv /\ [CubeNext]_cvars
           => CalmInv'
<1> SUFFICES ASSUME BuildInv, SteadyInv, RepairInv, CubeInv, CalmInv, [CubeNext]_cvars, calm'
             PROVE  CalmInv'
  BY DEF CalmInv
<1>1. CASE BuildGoesOn
  BY <1>1 DEF BuildGoesOn
<1>2. CASE UNCHANGED cvars
  <2>1. calm
    BY <1>2 DEF cvars
  <2> QED  BY <1>2, <2>1 DEF cvars, load, vars, store, bounds, CalmInv, QuietLoadServes, Partitions,
              NoCommand
<1>3. CASE Load
  <2>1. UNCHANGED vars /\ (calm \/ StartLoad)
    BY <1>3 DEF Load, StartLoad, ReadPartition, ListDimension, ReadDimension, RefuseTable, Serve
  <2>2. status = "done" /\ command = NoCommand /\ changes = 0
    BY <2>1 DEF CalmInv, StartLoad
  <2>3. /\ UNCHANGED <<archive, facts, dims>> /\ Partitions' = Partitions
        /\ (status = "done" /\ command = NoCommand /\ changes = 0)'
    BY <2>1, <2>2 DEF vars, store, bounds, Partitions, NoCommand
  <2>4. /\ Agencies # {}
        /\ \A f \in Partitions :
              /\ f[1] \in Agencies /\ f[2] \in 1..MaxDate
              /\ facts[f[1]][f[2]] = archive[f[1]] /\ facts[f[1]][f[2]] # Torn
              /\ Defines[archive[f[1]]] # {}
        /\ \A a \in Agencies, t \in Tables :
              dims[t][a] = archive[a] /\ dims[t][a] # Torn /\ dims[t][a] # None
    BY <2>2, CalmStore
  <2>5. CASE StartLoad
    <3>1. /\ cube' = IF known' = None \/ queue' = {} THEN "failed" ELSE "facts"
          /\ queue' = {f \in Partitions : f[2] \in wanted'}
          /\ events' = [a \in Agencies |-> [d \in 1..MaxDate |-> None]]
      BY <2>4, <2>5 DEF StartLoad
    <3> QED  BY <2>3, <3>1 DEF CalmInv, QuietLoadServes, Tables
  <2>6. CASE ReadPartition
    <3>1. calm /\ cube = "facts" /\ UNCHANGED <<known, wanted, joined>>
      BY <2>1, <2>6 DEF ReadPartition, StartLoad
    <3>2. PICK f \in queue :
             /\ events' = [events EXCEPT ![f[1]][f[2]] = facts[f[1]][f[2]]]
             /\ cube' = cube /\ queue' = queue \ {f}
             /\ f \in Partitions /\ f[2] \in wanted
      BY <2>4, <2>6, <3>1 DEF ReadPartition, CalmInv
    <3>3. f = <<f[1], f[2]>> /\ f[1] \in Agencies /\ f[2] \in 1..MaxDate
          /\ facts[f[1]][f[2]] # None
      BY <3>2 DEF Partitions
    <3> DEFINE b == f[1]
               e == f[2]
               c == facts[b][e]
    <3>4. /\ b \in Agencies /\ e \in 1..MaxDate /\ c # None
          /\ events' = [events EXCEPT ![b][e] = c] /\ events \in [Agencies -> [1..MaxDate -> Contents]]
          /\ <<b, e>> \in Partitions /\ e \in wanted
      BY <3>2, <3>3 DEF CubeInv
    <3> HIDE DEF b, e, c
    <3>5. /\ \A a \in Agencies, d \in 1..MaxDate :
                events'[a][d] = IF a = b /\ d = e THEN c ELSE events[a][d]
      BY <3>4
    <3>6. /\ \A a \in Agencies, d \in 1..MaxDate : events'[a][d] # None =>
                <<a, d>> \in Partitions /\ d \in wanted
          /\ \E a \in Agencies, d \in 1..MaxDate : events'[a][d] # None
      BY <3>1, <3>4, <3>5 DEF CalmInv
    <3>7. \A g \in queue' : g \in Partitions /\ g[2] \in wanted
      BY <3>1, <3>2 DEF CalmInv
    <3> QED  BY <2>3, <3>1, <3>2, <3>6, <3>7 DEF CalmInv, QuietLoadServes, Tables
  <2>7. ASSUME NEW table \in Tables, ListDimension(table)
        PROVE  CalmInv'
    <3>1. calm /\ queue = {} /\ cube \in {"facts", "routes"}
          /\ UNCHANGED <<known, wanted, events, joined>>
      BY <2>1, <2>7 DEF ListDimension, StartLoad
    <3>2. queue' = Agencies /\ cube' = table
      BY <2>4, <2>7 DEF ListDimension
    <3> QED  BY <2>3, <3>1, <3>2 DEF CalmInv, QuietLoadServes, Tables
  <2>8. CASE ReadDimension
    <3>1. calm /\ cube \in Tables /\ UNCHANGED <<known, wanted, events>>
      BY <2>1, <2>8 DEF ReadDimension, StartLoad, Tables
    <3>2. PICK b \in queue :
             /\ joined' = [joined EXCEPT ![cube][b] = dims[cube][b]]
             /\ cube' = cube /\ queue' = queue \ {b} /\ b \in Agencies
      BY <2>4, <2>8, <3>1 DEF ReadDimension, CubeInv
    <3>3. joined \in [Tables -> [Agencies -> Contents]]
      BY DEF CubeInv
    <3>4. \A a \in Agencies \ queue' : joined'[cube][a] = dims[cube][a]
      <4> SUFFICES ASSUME NEW a \in Agencies \ queue'
                   PROVE  joined'[cube][a] = dims[cube][a]
        OBVIOUS
      <4>1. CASE a = b
        BY <3>1, <3>2, <3>3, <4>1
      <4>2. CASE a # b
        BY <3>1, <3>2, <3>3, <4>2 DEF CalmInv
      <4> QED  BY <4>1, <4>2
    <3> QED  BY <2>3, <3>1, <3>2, <3>4 DEF CalmInv, QuietLoadServes, Tables
  <2>9. CASE RefuseTable
    <3>1. calm /\ cube' = "failed" /\ cube \in {"facts", "routes", "stops"}
          /\ UNCHANGED <<known, wanted>> /\ queue = {}
      BY <2>1, <2>9 DEF RefuseTable, StartLoad
    <3>2. \A a \in Agencies, d \in 1..MaxDate : events[a][d] # None =>
             <<a, d>> \in Partitions /\ d \in wanted
      BY <3>1 DEF CalmInv
    <3>3. ASSUME cube \in Tables
          PROVE  ~IsEmpty(cube)
      <4>1. PICK a \in Agencies, d \in 1..MaxDate : events[a][d] # None
        BY <3>1, <3>3 DEF CalmInv, Tables
      <4>2. Defines[archive[a]] # {}
        BY <2>4, <3>2, <4>1
      <4>3. joined[cube][a] = archive[a] /\ joined[cube][a] # None
        BY <2>4, <3>1, <3>3 DEF CalmInv
      <4> QED  BY <4>2, <4>3 DEF IsEmpty
    <3>4. ~AgenciesAreKnown \/ ~DatesAreCovered
      BY <2>9, <3>3 DEF RefuseTable, Tables
    <3>5. \E f \in Partitions : f[2] \in wanted /\ ~(f[1] \in known /\ f[2] \in CoveredDates)
      BY <3>2, <3>4 DEF AgenciesAreKnown, DatesAreCovered
    <3>6. QuietLoadServes'
      BY <2>3, <3>1, <3>5 DEF QuietLoadServes
    <3> QED  BY <2>3, <3>1, <3>6 DEF CalmInv, Tables
  <2>10. CASE Serve
    BY <2>3, <2>10 DEF Serve, CalmInv, QuietLoadServes, Tables
  <2> QED  BY <1>3, <2>5, <2>6, <2>7, <2>8, <2>9, <2>10 DEF Load
<1> QED  BY <1>1, <1>2, <1>3 DEF CubeNext

\* QuietLoadServes, for any registry, feeds, number of builds, faults and loads, where
\* every build is of the whole registry and default window: a load that follows a
\* successful default build, and that no build disturbs, fails only where the cube's
\* registry or holidays do not cover the facts asked for, or there are none.
THEOREM QuietLoadAlwaysServes ==
    ASSUME WholeBuilds
    PROVE  CubeSpec => []QuietLoadServes
<1>1. CubeInit => CalmInv /\ QuietLoadServes
  BY DEF CubeInit, CalmInv, QuietLoadServes
<1>2. BuildInv /\ SteadyInv /\ RepairInv /\ CubeInv /\ CalmInv /\ [CubeNext]_cvars => CalmInv'
  BY CalmStep
<1>3. CubeSpec => []RepairInv
  BY CubeBuilds, RepairInvariant, PTL
<1>4. CalmInv => QuietLoadServes
  BY DEF CalmInv, QuietLoadServes
<1> QED  BY <1>1, <1>2, <1>3, <1>4, CubeInvariant, PTL DEF CubeSpec

=============================================================================
