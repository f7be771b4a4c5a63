---------------------------- MODULE WindowProofs ----------------------------
(***************************************************************************)
(* Proofs about Window: for any number of agencies and any dates, a window *)
(* resolved without --from and --to is covered by all of them, and one is  *)
(* found whenever they share a date.                                       *)
(***************************************************************************)
EXTENDS Window, WellFoundedInduction, TLAPS

\* A set of natural numbers that has a member has a least one.
LEMMA LeastOf ==
    ASSUME NEW S \in SUBSET Nat, S # {}
    PROVE  \E d \in S : \A e \in S : d <= e
<1>1. \E x \in S : \A y \in S : <<y, x>> \notin OpToRel(<, Nat)
  BY NatLessThanWellFounded, WFMin
<1>2. \A x \in S, y \in S : <<y, x>> \notin OpToRel(<, Nat) => x <= y
  BY DEF OpToRel
<1> QED  BY <1>1, <1>2

\* A set of dates that has a member has a first and a last one.
LEMMA FirstAndLast ==
    ASSUME NEW S \in SUBSET Dates, S # {}
    PROVE  /\ \E d \in S : \A e \in S : d <= e
           /\ \E d \in S : \A e \in S : e <= d
<1> USE MaxDateAssumption DEF Dates
<1>1. S \in SUBSET Nat  OBVIOUS
<1>2. \E d \in S : \A e \in S : d <= e  BY <1>1, LeastOf
<1> DEFINE Before == {MaxDate - d : d \in S}
<1>3. Before \in SUBSET Nat /\ Before # {}
  <2>1. PICK d \in S : TRUE  OBVIOUS
  <2>2. MaxDate - d \in Before  OBVIOUS
  <2>3. Before \in SUBSET Nat  OBVIOUS
  <2> QED  BY <2>2, <2>3
<1>4. PICK b \in Before : \A c \in Before : b <= c
  <2> HIDE DEF Before
  <2> QED  BY <1>3, LeastOf
<1>5. PICK d \in S : b = MaxDate - d  BY <1>4
<1>6. \A e \in S : MaxDate - e \in Before  OBVIOUS
<1>7. \A e \in S : e <= d
  <2> TAKE e \in S
  <2>1. MaxDate - d <= MaxDate - e  BY <1>4, <1>5, <1>6
  <2> QED  BY <2>1
<1> QED  BY <1>2, <1>7

LEMMA OneMoreArchive ==
    ASSUME NEW n \in Nat, NEW d
    PROVE  /\ CoveredBy(n + 1, d) <=>
                /\ CoveredBy(n, d)
                /\ coverages[n + 1].kind = "span"
                /\ coverages[n + 1].first <= d
                /\ d <= coverages[n + 1].last
           /\ CoveredBy(0, d)
<1>1. 1..(n + 1) = 1..n \cup {n + 1}  OBVIOUS
<1>2. 1..0 = {}  OBVIOUS
<1> QED  BY <1>1, <1>2 DEF CoveredBy

LEMMA OpenArchiveStep ==
    ASSUME WindowInv, OpenArchive
    PROVE  WindowInv'
<1> USE MaxDateAssumption, WindowNoneAssumption DEF Dates, NoSpan, Spans
<1> DEFINE covered == coverages[reader + 1]
<1>1. WindowTypeOK /\ reader \in Nat /\ reader + 1 \in 1..Len(coverages)
  BY DEF WindowInv, WindowTypeOK, OpenArchive
<1>2. covered \in Coverages  BY <1>1 DEF WindowTypeOK
<1>3. CASE covered.kind # "span"
  <2>1. window' = Failed /\ UNCHANGED <<coverages, options, reader, shared>>
    BY <1>3 DEF OpenArchive
  <2>2. \A d \in Dates : ~CoveredBy(Len(coverages), d)
    BY <1>1, <1>3 DEF CoveredBy
  <2> QED
    BY <1>1, <2>1, <2>2 DEF WindowInv, WindowTypeOK, SharedIsIntersection, SharedDatesAreBuilt,
       CoveredBy, Resolved, Failed, Pending, Opening, Panicked, Ok, options
<1>4. CASE covered.kind = "span"
  <2>1. covered \in Spans  BY <1>2, <1>4 DEF Coverages
  <2>2. /\ window = Opening /\ window' = Opening /\ reader' = reader + 1
        /\ UNCHANGED <<coverages, options>>
        /\ shared' = IF shared = NoSpan THEN covered
                     ELSE [kind  |-> "span",
                           first |-> Later(shared.first, covered.first),
                           last  |-> Earlier(shared.last, covered.last)]
    BY <1>4 DEF OpenArchive
  <2>3. WindowTypeOK'
    BY <1>1, <2>1, <2>2 DEF WindowTypeOK, Spans, Later, Earlier, options,
       Opening, Pending, Failed, Panicked
  <2>4. SharedIsIntersection'
    <3>1. shared' # NoSpan  BY <2>1, <2>2 DEF Later, Earlier
    <3>2. ASSUME NEW d \in Dates
          PROVE  (shared'.first <= d /\ d <= shared'.last) <=> CoveredBy(reader + 1, d)
      <4>1. CoveredBy(reader + 1, d) <=>
              CoveredBy(reader, d) /\ covered.first <= d /\ d <= covered.last
        BY <1>1, <1>4, OneMoreArchive
      <4>2. CASE shared = NoSpan
        BY <2>2, <4>1, <4>2, OneMoreArchive DEF WindowInv, SharedIsIntersection
      <4>3. CASE shared # NoSpan
        <5>1. (shared.first <= d /\ d <= shared.last) <=> CoveredBy(reader, d)
          BY <1>1, <4>3 DEF WindowInv, SharedIsIntersection
        <5>2. shared.first \in Dates /\ shared.last \in Dates
              /\ covered.first \in Dates /\ covered.last \in Dates
          BY <1>1, <2>1, <4>3 DEF WindowTypeOK, Spans
        <5> QED  BY <2>2, <4>1, <4>3, <5>1, <5>2 DEF Later, Earlier
      <4> QED  BY <4>2, <4>3
    <3>3. \A n, d : CoveredBy(n, d)' <=> CoveredBy(n, d)
      BY <2>2 DEF CoveredBy
    <3> QED  BY <1>1, <2>2, <3>1, <3>2, <3>3 DEF SharedIsIntersection
  <2> QED
    BY <2>2, <2>3, <2>4 DEF WindowInv, SharedDatesAreBuilt, Resolved, Opening, Pending, Failed
<1> QED  BY <1>3, <1>4

LEMMA NarrowStep ==
    ASSUME WindowInv, Narrow
    PROVE  WindowInv'
<1> USE MaxDateAssumption, WindowNoneAssumption DEF Dates, NoSpan, Spans
<1> DEFINE start == IF from # None THEN from ELSE shared.first
<1>1. /\ WindowTypeOK /\ SharedIsIntersection
      /\ UNCHANGED <<coverages, options, reader, shared>>
      /\ reader = Len(coverages) /\ window = Opening
  BY DEF WindowInv, Narrow
<1>2. reader \in Nat \ {0} /\ shared \in Spans
  BY <1>1 DEF WindowTypeOK, SharedIsIntersection
<1>3. \A d \in Dates : (shared.first <= d /\ d <= shared.last) <=> CoveredBy(Len(coverages), d)
  BY <1>1, <1>2 DEF SharedIsIntersection
<1>4. SharedIsIntersection'
  BY <1>1 DEF SharedIsIntersection, CoveredBy
<1>5. CASE shared.first > shared.last
  <2>1. window' = Failed  BY <1>5 DEF Narrow
  <2>2. \A d \in Dates : ~CoveredBy(Len(coverages), d)
    BY <1>2, <1>3, <1>5
  <2>3. SharedDatesAreBuilt'  BY <1>1, <2>2 DEF SharedDatesAreBuilt, CoveredBy
  <2> QED
    BY <1>1, <1>4, <2>1, <2>3 DEF WindowInv, WindowTypeOK, Resolved, Failed, Pending, Opening,
       Panicked, Ok, options
<1>6. CASE ~(shared.first > shared.last)
  <2>1. start \in Dates /\ shared.first <= shared.last
    BY <1>1, <1>2, <1>6 DEF WindowTypeOK
  <2>2. CASE to = None /\ days # None /\ start + days - 1 > MaxDate
    <3>1. window' = Panicked  BY <1>6, <2>2 DEF Narrow
    <3> QED
      BY <1>1, <1>4, <3>1 DEF WindowInv, WindowTypeOK, SharedDatesAreBuilt, Resolved,
         Failed, Pending, Opening, Panicked, Ok, options
  <2>3. CASE ~(to = None /\ days # None /\ start + days - 1 > MaxDate)
    <3>1. window' = IF EndFrom(start) < start THEN Failed ELSE Ok(start, EndFrom(start))
      BY <1>6, <2>3 DEF Narrow
    <3>2. /\ to = None => EndFrom(start) <= shared.last
          /\ EndFrom(start) \in Int /\ EndFrom(start) <= MaxDate
      BY <1>1, <1>2, <2>1, <2>3 DEF EndFrom, Earlier, WindowTypeOK
    <3>3. from = None /\ to = None /\ days # 0 => EndFrom(start) >= start
      BY <1>1, <1>2, <2>1, <2>3 DEF EndFrom, Earlier, WindowTypeOK
    <3>4. CASE EndFrom(start) < start
      <4>1. window' = Failed  BY <3>1, <3>4
      <4>2. ~(from = None /\ to = None /\ days # 0)  BY <2>1, <3>2, <3>3, <3>4
      <4> QED
        BY <1>1, <1>4, <4>1, <4>2 DEF WindowInv, WindowTypeOK, SharedDatesAreBuilt, Resolved,
           Failed, Pending, Opening, Panicked, Ok, options
    <3>5. CASE ~(EndFrom(start) < start)
      <4>1. window' = Ok(start, EndFrom(start)) /\ EndFrom(start) \in Dates
        BY <2>1, <3>1, <3>2, <3>5
      <4>2. WindowTypeOK'
        BY <1>1, <2>1, <4>1 DEF WindowTypeOK, options
      <4>3. SharedDatesAreBuilt' /\ window' # Pending
        BY <4>1 DEF SharedDatesAreBuilt, Failed, Ok, Pending
      <4>4. from = None /\ to = None => window'.start = shared.first
        BY <4>1 DEF Ok
      <4>5. to = None /\ days = None => window'.end = shared.last
        BY <4>1 DEF Ok, EndFrom
      <4>6. window'.start <= window'.end
        BY <2>1, <3>2, <3>5, <4>1 DEF Ok
      <4>7. window'.end = EndFrom(start)  BY <4>1 DEF Ok
      <4> QED
        BY <1>1, <1>4, <3>2, <4>2, <4>3, <4>4, <4>5, <4>6, <4>7 DEF WindowInv, options
    <3> QED  BY <3>4, <3>5
  <2> QED  BY <2>2, <2>3
<1> QED  BY <1>5, <1>6

LEMMA WindowStep == WindowInv /\ [Next]_vars => WindowInv'
<1> SUFFICES ASSUME WindowInv, [Next]_vars
             PROVE  WindowInv'
  OBVIOUS
<1> USE MaxDateAssumption, WindowNoneAssumption DEF Dates, NoSpan, Spans
<1>1. CASE CheckOptions
  BY <1>1 DEF CheckOptions, WindowInv, WindowTypeOK, SharedIsIntersection, SharedDatesAreBuilt,
     CoveredBy, Resolved, Failed, Pending, Opening, Panicked, Ok, options
<1>2. CASE OpenArchive  BY <1>2, OpenArchiveStep
<1>3. CASE Narrow  BY <1>3, NarrowStep
<1>4. CASE UNCHANGED vars
  <2> USE <1>4 DEF vars, options
  <2>1. WindowTypeOK'  BY DEF WindowInv, WindowTypeOK
  <2>2. \A n, d : CoveredBy(n, d)' <=> CoveredBy(n, d)  BY DEF CoveredBy
  <2>3. SharedIsIntersection'  BY <2>2 DEF WindowInv, SharedIsIntersection
  <2>4. SharedDatesAreBuilt'  BY <2>2 DEF WindowInv, SharedDatesAreBuilt
  <2> QED  BY <2>1, <2>3, <2>4 DEF WindowInv, Resolved
<1> QED  BY <1>1, <1>2, <1>3, <1>4 DEF Next

LEMMA WindowInvariant == Spec => []WindowInv
<1>1. Start => WindowInv
  BY MaxDateAssumption, WindowNoneAssumption DEF Start, WindowInv, WindowTypeOK,
     SharedIsIntersection, SharedDatesAreBuilt, Resolved, Pending, Failed, Opening
<1> QED  BY <1>1, WindowStep, PTL DEF Spec

\* The window of a build without --from and --to is covered by every agency it
\* builds (main.rs, "the default window is the intersection of coverage").
THEOREM DefaultWindowShared == Spec => []DefaultWindowIsShared
<1>1. WindowInv => DefaultWindowIsShared
  <2> SUFFICES ASSUME WindowInv, Resolved, from = None, to = None,
                      NEW d \in window.start..window.end
               PROVE  CoveredBy(Len(coverages), d)
    BY DEF DefaultWindowIsShared
  <2>1. /\ reader = Len(coverages) /\ coverages # <<>> /\ coverages \in Seq(Coverages)
        /\ window.start = shared.first /\ window.end <= shared.last
    BY DEF WindowInv, WindowTypeOK
  <2>2. window.start \in Dates /\ window.end \in Dates
    BY DEF WindowInv, WindowTypeOK, Resolved, Pending, Opening, Failed, Panicked, Ok
  <2>3. reader > 0 /\ shared # NoSpan  BY <2>1 DEF WindowInv, SharedIsIntersection
  <2>4. shared.first \in Dates /\ shared.last \in Dates
    BY <2>3 DEF WindowInv, WindowTypeOK, Spans
  <2>5. d \in Dates /\ shared.first <= d /\ d <= shared.last
    BY <2>1, <2>2, <2>4, MaxDateAssumption DEF Dates
  <2> QED  BY <2>1, <2>3, <2>5 DEF WindowInv, SharedIsIntersection
<1> QED  BY <1>1, WindowInvariant, PTL

\* Such a build only fails to find a window when no date is covered by all.
THEOREM SharedDatesBuilt == Spec => []SharedDatesAreBuilt
BY WindowInvariant, PTL DEF WindowInv

\* Resolving the window counts the days right, and nothing touches them afterwards.
LEMMA DaysStep == WindowInv /\ DaysAreCounted /\ [Next]_vars => DaysAreCounted'
<1> SUFFICES ASSUME WindowInv, DaysAreCounted, [Next]_vars
             PROVE  DaysAreCounted'
  OBVIOUS
<1> USE DEF DaysAreCounted, Resolved, Pending, Opening, Failed, Panicked, Ok, options
<1>1. CASE CheckOptions
  BY <1>1 DEF CheckOptions
<1>2. CASE OpenArchive
  BY <1>2 DEF OpenArchive
<1>3. CASE Narrow
  <2> DEFINE start == IF from # None THEN from ELSE shared.first
             end   == Earlier(start + days - 1, shared.last)
  <2>1. /\ UNCHANGED <<from, to, days, shared>>
        /\ window'.kind = "ok" /\ to = None /\ days # None => window' = Ok(start, end)
    BY <1>3 DEF Narrow, EndFrom
  <2>2. start \in Int /\ shared.last \in Int /\ (days # None => days \in Int)
    BY <1>3 DEF Narrow, WindowInv, WindowTypeOK, SharedIsIntersection, Spans, Dates, NoSpan
  <2>3. days # None => end - start + 1 <= days /\ (end - start + 1 = days \/ end = shared.last)
    BY <2>2 DEF Earlier
  <2> HIDE DEF start, end
  <2> QED  BY <2>1, <2>3
<1>4. CASE UNCHANGED vars
  BY <1>4 DEF vars
<1> QED  BY <1>1, <1>2, <1>3, <1>4 DEF Next

\* --days asks for at most that many days, and gets fewer only where the coverage that
\* the agencies share ends, for any number of agencies and days.
THEOREM DaysAlwaysCounted == Spec => []DaysAreCounted
<1>1. Start => DaysAreCounted
  BY DEF Start, DaysAreCounted, Resolved, Pending
<1> QED  BY <1>1, DaysStep, WindowInvariant, PTL DEF Spec

=============================================================================
