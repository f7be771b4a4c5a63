--------------------------- MODULE CalendarProofs ---------------------------
(***************************************************************************)
(* Proofs about ServiceCalendar: for calendar files of any length, the     *)
(* passes compute what the files say whatever the order of their rows.     *)
(***************************************************************************)
EXTENDS ServiceCalendar, WellFoundedInduction, TLAPS

\* What one more row of either file says, and what no row says.
LEMMA OneMorePattern ==
    ASSUME NEW n \in Nat, NEW s, NEW d
    PROVE  Scheduled(n + 1, s, d) <=>
             Scheduled(n, s, d)
               \/ (calendar[n + 1].service = s /\ d \in PatternDays(calendar[n + 1]))
<1>1. 1..(n + 1) = 1..n \cup {n + 1}  OBVIOUS
<1> QED  BY <1>1 DEF Scheduled

LEMMA OneMoreException ==
    ASSUME NEW n \in Nat, NEW s, NEW d, NEW type
    PROVE  Excepted(n + 1, s, d, type) <=>
             \/ Excepted(n, s, d, type)
             \/ /\ calendar_dates[n + 1].service = s
                /\ calendar_dates[n + 1].date = d
                /\ calendar_dates[n + 1].type = type
<1>1. 1..(n + 1) = 1..n \cup {n + 1}  OBVIOUS
<1> QED  BY <1>1 DEF Excepted

LEMMA NoRow == \A s, d, type : ~Scheduled(0, s, d) /\ ~Excepted(0, s, d, type)
<1>1. 1..0 = {}  OBVIOUS
<1> QED  BY <1>1 DEF Scheduled, Excepted

\* A step that reads no row leaves what the rows read say.
LEMMA SameDays ==
    ASSUME DaysSoFar, UNCHANGED <<input, dates>>, pass = "refused" => pass' = "refused",
           PatternsRead' = PatternsRead, AdditionsRead' = AdditionsRead,
           RemovalsRead' = RemovalsRead
    PROVE  DaysSoFar'
<1>1. \A n, s, d, type : /\ Scheduled(n, s, d)' <=> Scheduled(n, s, d)
                         /\ Excepted(n, s, d, type)' <=> Excepted(n, s, d, type)
  BY DEF Scheduled, Excepted, PatternDays, input
<1> QED  BY <1>1 DEF DaysSoFar, Scheduled, Excepted, PatternDays, input

LEMMA CalendarStep == CalendarInv /\ [Next]_vars => CalendarInv'
<1> SUFFICES ASSUME CalendarInv, [Next]_vars
             PROVE  CalendarInv'
  OBVIOUS
<1> USE CalendarBounds, CalendarNone DEF Dates
<1>0. CalendarTypeOK  BY DEF CalendarInv
<1>1. CASE ExpandPattern
  <2> DEFINE r == calendar[row + 1]
  <2>1. row + 1 \in 1..Len(calendar) /\ row \in Nat  BY <1>0, <1>1 DEF CalendarTypeOK, ExpandPattern
  <2>2. r \in Patterns  BY <1>0, <2>1 DEF CalendarTypeOK
  <2>3. CASE ~Plausible(r)
    BY <1>0, <1>1, <2>3 DEF ExpandPattern, Refuse, CalendarInv, CalendarTypeOK,
       DaysSoFar, KnownSoFar, Indexed, Ready, input
  <2>4. CASE Plausible(r)
    <3>1. /\ pass = "weekly" /\ pass' = "weekly" /\ row' = row + 1 /\ UNCHANGED <<input, by_date>>
          /\ Insert(r.service, PatternDays(r))
      BY <1>1, <2>4 DEF ExpandPattern
    <3>2. pass = "weekly" /\ pass' = "weekly" /\ row' = row + 1 /\ UNCHANGED input
      BY <3>1
    <3>3. CalendarTypeOK'
      BY <1>0, <2>1, <2>2, <3>1 DEF CalendarTypeOK, Insert, PatternDays, Patterns, input
    <3>4. DaysSoFar'
      <4> SUFFICES ASSUME NEW s \in Services, NEW d \in Dates
                   PROVE  d \in dates'[s] <=>
                            /\ Scheduled(row + 1, s, d) \/ Excepted(0, s, d, 1)
                            /\ ~Excepted(0, s, d, 2)
        BY <3>2 DEF DaysSoFar, PatternsRead, AdditionsRead, RemovalsRead, Scheduled, Excepted,
           PatternDays, input
      <4>1. d \in dates[s] <=> /\ Scheduled(row, s, d) \/ Excepted(0, s, d, 1)
                               /\ ~Excepted(0, s, d, 2)
        BY <3>1 DEF CalendarInv, DaysSoFar, PatternsRead, AdditionsRead, RemovalsRead
      <4>2. d \in dates'[s] <=> d \in dates[s] \/ (r.service = s /\ d \in PatternDays(r))
        BY <1>0, <3>1 DEF Insert, CalendarTypeOK
      <4> QED  BY <2>1, <4>1, <4>2, OneMorePattern, NoRow
    <3>5. KnownSoFar' /\ Indexed'
      BY <1>0, <2>2, <3>1 DEF CalendarInv, KnownSoFar, Indexed, Insert, Ready, CalendarTypeOK, Patterns
    <3> QED  BY <3>3, <3>4, <3>5 DEF CalendarInv
  <2> QED  BY <2>3, <2>4
<1>2. CASE Add
  <2> DEFINE r == calendar_dates[row + 1]
  <2>1. row + 1 \in 1..Len(calendar_dates) /\ row \in Nat  BY <1>0, <1>2 DEF CalendarTypeOK, Add
  <2>2. r \in Exceptions  BY <1>0, <2>1 DEF CalendarTypeOK
  <2>3. CASE r.type = 1 /\ r.date = None
    BY <1>0, <1>2, <2>3 DEF Add, Refuse, CalendarInv, CalendarTypeOK,
       DaysSoFar, KnownSoFar, Indexed, Ready, input
  <2>4. CASE ~(r.type = 1 /\ r.date = None)
    <3>1. /\ pass = "additions" /\ pass' = "additions" /\ row' = row + 1
          /\ UNCHANGED <<input, by_date>>
          /\ IF r.type = 1 THEN Insert(r.service, {r.date}) ELSE UNCHANGED <<known, dates>>
      BY <1>2, <2>4 DEF Add
    <3>2. pass = "additions" /\ pass' = "additions" /\ row' = row + 1 /\ UNCHANGED input
      BY <3>1
    <3>3. CalendarTypeOK'
      BY <1>0, <2>1, <2>2, <2>4, <3>1 DEF CalendarTypeOK, Insert, Exceptions, input
    <3>4. DaysSoFar'
      <4> SUFFICES ASSUME NEW s \in Services, NEW d \in Dates
                   PROVE  d \in dates'[s] <=>
                            /\ Scheduled(Len(calendar), s, d) \/ Excepted(row + 1, s, d, 1)
                            /\ ~Excepted(0, s, d, 2)
        BY <3>2 DEF DaysSoFar, PatternsRead, AdditionsRead, RemovalsRead, Scheduled, Excepted,
           PatternDays, input
      <4>1. d \in dates[s] <=> /\ Scheduled(Len(calendar), s, d) \/ Excepted(row, s, d, 1)
                               /\ ~Excepted(0, s, d, 2)
        BY <3>1 DEF CalendarInv, DaysSoFar, PatternsRead, AdditionsRead, RemovalsRead
      <4>2. d \in dates'[s] <=>
              d \in dates[s] \/ (r.type = 1 /\ r.service = s /\ r.date = d)
        BY <1>0, <3>1 DEF Insert, CalendarTypeOK
      <4>3. /\ Excepted(row + 1, s, d, 1) <=>
                  Excepted(row, s, d, 1) \/ (r.service = s /\ r.date = d /\ r.type = 1)
            /\ ~Excepted(0, s, d, 2)
        <5>1. Excepted(row + 1, s, d, 1) <=>
                Excepted(row, s, d, 1) \/ (r.service = s /\ r.date = d /\ r.type = 1)
          BY <2>1, OneMoreException
        <5> QED  BY <5>1, NoRow
      <4> QED  BY <4>1, <4>2, <4>3
    <3>5. KnownSoFar' /\ Indexed'
      BY <1>0, <2>2, <3>1 DEF CalendarInv, KnownSoFar, Indexed, Insert, Ready, CalendarTypeOK, Exceptions
    <3> QED  BY <3>3, <3>4, <3>5 DEF CalendarInv
  <2> QED  BY <2>3, <2>4
<1>3. CASE Remove
  <2> DEFINE r == calendar_dates[row + 1]
  <2>1. row + 1 \in 1..Len(calendar_dates) /\ row \in Nat  BY <1>0, <1>3 DEF CalendarTypeOK, Remove
  <2>2. r \in Exceptions  BY <1>0, <2>1 DEF CalendarTypeOK
  <2>3. CASE r.type \notin {1, 2} \/ (r.type = 2 /\ r.date = None)
    BY <1>0, <1>3, <2>3 DEF Remove, Refuse, CalendarInv, CalendarTypeOK,
       DaysSoFar, KnownSoFar, Indexed, Ready, input
  <2>4. CASE ~(r.type \notin {1, 2} \/ (r.type = 2 /\ r.date = None))
    <3>1. /\ pass = "removals" /\ pass' = "removals" /\ row' = row + 1
          /\ UNCHANGED <<input, by_date>>
          /\ IF r.type = 2 THEN Delete(r.service, r.date) ELSE UNCHANGED <<known, dates>>
      BY <1>3, <2>4 DEF Remove
    <3>2. pass = "removals" /\ pass' = "removals" /\ row' = row + 1 /\ UNCHANGED input
      BY <3>1
    <3>3. CalendarTypeOK'
      BY <1>0, <2>1, <2>2, <2>4, <3>1 DEF CalendarTypeOK, Delete, Exceptions, input
    <3>4. DaysSoFar'
      <4> SUFFICES ASSUME NEW s \in Services, NEW d \in Dates
                   PROVE  d \in dates'[s] <=>
                            /\ \/ Scheduled(Len(calendar), s, d)
                               \/ Excepted(Len(calendar_dates), s, d, 1)
                            /\ ~Excepted(row + 1, s, d, 2)
        BY <3>2 DEF DaysSoFar, PatternsRead, AdditionsRead, RemovalsRead, Scheduled, Excepted,
           PatternDays, input
      <4>1. d \in dates[s] <=> /\ \/ Scheduled(Len(calendar), s, d)
                                  \/ Excepted(Len(calendar_dates), s, d, 1)
                               /\ ~Excepted(row, s, d, 2)
        BY <3>1 DEF CalendarInv, DaysSoFar, PatternsRead, AdditionsRead, RemovalsRead
      <4>2. d \in dates'[s] <=>
              d \in dates[s] /\ ~(r.type = 2 /\ r.service = s /\ r.date = d)
        BY <1>0, <3>1 DEF Delete, CalendarTypeOK, CalendarInv, KnownSoFar
      <4>3. Excepted(row + 1, s, d, 2) <=>
              Excepted(row, s, d, 2) \/ (r.service = s /\ r.date = d /\ r.type = 2)
        BY <2>1, OneMoreException
      <4> QED  BY <4>1, <4>2, <4>3
    <3>5. KnownSoFar' /\ Indexed'
      BY <1>0, <2>2, <3>1 DEF CalendarInv, KnownSoFar, Indexed, Delete, Ready, CalendarTypeOK, Exceptions
    <3> QED  BY <3>3, <3>4, <3>5 DEF CalendarInv
  <2> QED  BY <2>3, <2>4
<1>4. CASE NextPass
  <2>1. CalendarTypeOK' /\ KnownSoFar' /\ Indexed'
    BY <1>0, <1>4 DEF NextPass, CalendarInv, CalendarTypeOK, KnownSoFar, Indexed, Ready, input
  <2>2. /\ PatternsRead' = PatternsRead /\ AdditionsRead' = AdditionsRead
        /\ RemovalsRead' = RemovalsRead
        /\ pass # "refused" /\ UNCHANGED <<input, dates>>
    BY <1>0, <1>4 DEF NextPass, RowsOfPass, CalendarTypeOK,
       PatternsRead, AdditionsRead, RemovalsRead, input
  <2>3. DaysSoFar'
    BY <2>2, SameDays DEF CalendarInv
  <2> QED  BY <2>1, <2>3 DEF CalendarInv
<1>5. CASE Invert
  BY <1>0, <1>5 DEF Invert, CalendarInv, CalendarTypeOK, DaysSoFar, KnownSoFar, Indexed, Ready,
     PatternsRead, AdditionsRead, RemovalsRead, Scheduled, Excepted, PatternDays, input
<1>6. CASE UNCHANGED vars
  <2>1. DaysSoFar'
    BY <1>6, SameDays DEF vars, input, CalendarInv, PatternsRead, AdditionsRead, RemovalsRead
  <2>2. CalendarTypeOK' /\ KnownSoFar' /\ Indexed'
    BY <1>0, <1>6 DEF vars, input, CalendarInv, CalendarTypeOK, KnownSoFar, Indexed, Ready
  <2> QED  BY <2>1, <2>2 DEF CalendarInv
<1> QED  BY <1>1, <1>2, <1>3, <1>4, <1>5, <1>6 DEF Next

LEMMA CalendarStart == Start => CalendarInv
<1> SUFFICES ASSUME Start PROVE CalendarInv
  OBVIOUS
<1> QED
  BY NoRow DEF Start, CalendarInv, CalendarTypeOK, DaysSoFar, KnownSoFar, Indexed, Ready,
     PatternsRead, AdditionsRead, RemovalsRead

LEMMA CalendarInvariant == Spec => []CalendarInv
BY CalendarStart, CalendarStep, PTL DEF Spec

\* The days of a service, once every pass is over, are those its patterns and
\* additions give without those removed, for files of any length and order.
THEOREM RemovalsAlwaysWin == Spec => []RemovalsWin
<1>1. CalendarInv => RemovalsWin
  BY DEF CalendarInv, DaysSoFar, KnownSoFar, RemovalsWin, Ready, runs_on,
     PatternsRead, AdditionsRead, RemovalsRead
<1> QED  BY <1>1, CalendarInvariant, PTL

\* The type invariant.
THEOREM CalendarTypes == Spec => []CalendarTypeOK
<1>1. CalendarInv => CalendarTypeOK  BY DEF CalendarInv
<1> QED  BY <1>1, CalendarInvariant, PTL

-----------------------------------------------------------------------------
(* The coverage of what is served *)

\* A set of natural numbers that has a member has a least one.
LEMMA LeastOf ==
    ASSUME NEW S \in SUBSET Nat, S # {}
    PROVE  \E d \in S : \A e \in S : d <= e
<1>1. \E x \in S : \A y \in S : <<y, x>> \notin OpToRel(<, Nat)
  BY NatLessThanWellFounded, WFMin
<1>2. \A x \in S, y \in S : <<y, x>> \notin OpToRel(<, Nat) => x <= y
  BY DEF OpToRel
<1> QED  BY <1>1, <1>2

\* A set of dates that has a member has a first and a last one.
LEMMA FirstAndLast ==
    ASSUME NEW S \in SUBSET Dates, S # {}
    PROVE  /\ \E d \in S : \A e \in S : d <= e
           /\ \E d \in S : \A e \in S : e <= d
<1> USE CalendarBounds DEF Dates
<1>1. S \in SUBSET Nat  OBVIOUS
<1>2. \E d \in S : \A e \in S : d <= e  BY <1>1, LeastOf
<1> DEFINE Before == {MaxDate - d : d \in S}
<1>3. Before \in SUBSET Nat /\ Before # {}
  <2>1. PICK d \in S : TRUE  OBVIOUS
  <2>2. MaxDate - d \in Before  OBVIOUS
  <2>3. Before \in SUBSET Nat  OBVIOUS
  <2> QED  BY <2>2, <2>3
<1>4. PICK b \in Before : \A c \in Before : b <= c
  <2> HIDE DEF Before
  <2> QED  BY <1>3, LeastOf
<1>5. PICK d \in S : b = MaxDate - d  BY <1>4
<1>6. \A e \in S : MaxDate - e \in Before  OBVIOUS
<1>7. \A e \in S : e <= d
  <2> TAKE e \in S
  <2>1. MaxDate - d <= MaxDate - e  BY <1>4, <1>5, <1>6
  <2> QED  BY <2>1
<1> QED  BY <1>2, <1>7

\* The index by date and the sets by service answer alike, and the coverage is
\* from the first to the last day on which anything runs, for any calendar.
THEOREM ViewsAlwaysAgree == Spec => []ViewsAgree
<1>1. ASSUME CalendarInv, Ready PROVE ViewsAgree
  <2>1. CalendarTypeOK /\ KnownSoFar  BY <1>1 DEF CalendarInv
  <2>2. \A s \in Services, d \in Dates : s \in services_on(d) <=> runs_on(s, d)
    BY <1>1, <2>1 DEF CalendarInv, Indexed, KnownSoFar, services_on, runs_on
  <2>3. Served \in SUBSET Dates  BY <2>1 DEF Served, CalendarTypeOK
  <2>4. active_dates = Served
    <3>1. \A d \in Dates : d \in active_dates <=> d \in Served
      <4> TAKE d \in Dates
      <4>1. by_date[d] \subseteq Services  BY <2>1 DEF CalendarTypeOK
      <4>2. d \in active_dates <=> \E s \in Services : s \in services_on(d)
        BY <4>1 DEF active_dates, services_on
      <4>3. d \in Served <=> \E s \in Services : runs_on(s, d)
        BY <2>1 DEF Served, runs_on, CalendarTypeOK
      <4> QED  BY <2>2, <4>2, <4>3
    <3> QED  BY <2>3, <3>1 DEF active_dates
  <2>5. CASE Served = {}
    BY <2>2, <2>4, <2>5 DEF ViewsAgree, coverage
  <2>6. CASE Served # {}
    <3> DEFINE least == CHOOSE d \in Served : \A e \in Served : d <= e
               most  == CHOOSE d \in Served : \A e \in Served : e <= d
    <3>1. least \in Served /\ \A e \in Served : least <= e  BY <2>3, <2>6, FirstAndLast
    <3>2. most \in Served /\ \A e \in Served : e <= most  BY <2>3, <2>6, FirstAndLast
    <3>3. coverage = [first |-> least, last |-> most]  BY <2>6 DEF coverage
    <3> HIDE DEF least, most
    <3>4. coverage.first = least /\ coverage.last = most  BY <3>3
    <3>5. coverage # None
      <4>1. coverage \in [first : Dates, last : Dates]  BY <2>3, <3>1, <3>2, <3>3
      <4> QED  BY <4>1, CalendarNoSpan
    <3> QED  BY <2>2, <2>4, <2>6, <3>1, <3>2, <3>4, <3>5 DEF ViewsAgree
  <2> QED  BY <2>5, <2>6
<1>2. CalendarInv => ViewsAgree  BY <1>1 DEF ViewsAgree
<1> QED  BY <1>2, CalendarInvariant, PTL

-----------------------------------------------------------------------------
(* What is refused *)

LEMMA AcceptedStep == CalendarTypeOK /\ RowsAccepted /\ [Next]_vars => RowsAccepted'
<1> SUFFICES ASSUME CalendarTypeOK, RowsAccepted, [Next]_vars
             PROVE  RowsAccepted'
  OBVIOUS
<1>0. \A r : Plausible(r)' <=> Plausible(r)  BY DEF Plausible
<1>1. CASE ExpandPattern
  <2>1. /\ row \in Nat /\ row + 1 \in DOMAIN calendar /\ pass = "weekly"
        /\ 1..(row + 1) = 1..row \cup {row + 1}
    BY <1>1 DEF CalendarTypeOK, ExpandPattern
  <2>2. CASE ~Plausible(calendar[row + 1])
    <3>1. pass' = "refused" /\ UNCHANGED input  BY <1>1, <2>2 DEF ExpandPattern, Refuse
    <3> QED  BY <2>1, <2>2, <3>1 DEF RowsAccepted, Acceptable, Plausible, input
  <2>3. CASE Plausible(calendar[row + 1])
    <3>1. pass' = "weekly" /\ row' = row + 1 /\ UNCHANGED input
      BY <1>1, <2>3 DEF ExpandPattern
    <3> QED
      BY <2>1, <2>3, <3>1 DEF RowsAccepted, PatternsRead, AdditionsRead, RemovalsRead,
         Plausible, input
  <2> QED  BY <2>2, <2>3
<1>2. CASE Add
  <2>1. /\ row \in Nat /\ row + 1 \in DOMAIN calendar_dates /\ pass = "additions"
        /\ 1..(row + 1) = 1..row \cup {row + 1}
    BY <1>2 DEF CalendarTypeOK, Add
  <2>2. CASE calendar_dates[row + 1].type = 1 /\ calendar_dates[row + 1].date = None
    <3>1. pass' = "refused" /\ UNCHANGED input  BY <1>2, <2>2 DEF Add, Refuse
    <3> QED  BY <2>1, <2>2, <3>1 DEF RowsAccepted, Acceptable, Plausible, input
  <2>3. CASE ~(calendar_dates[row + 1].type = 1 /\ calendar_dates[row + 1].date = None)
    <3>1. pass' = "additions" /\ row' = row + 1 /\ UNCHANGED input
      BY <1>2, <2>3 DEF Add
    <3> QED
      BY <2>1, <2>3, <3>1 DEF RowsAccepted, PatternsRead, AdditionsRead, RemovalsRead,
         Plausible, input
  <2> QED  BY <2>2, <2>3
<1>3. CASE Remove
  <2> DEFINE r == calendar_dates[row + 1]
  <2>1. /\ row \in Nat /\ row + 1 \in DOMAIN calendar_dates /\ pass = "removals"
        /\ 1..(row + 1) = 1..row \cup {row + 1}
    BY <1>3 DEF CalendarTypeOK, Remove
  <2>2. CASE r.type \notin {1, 2} \/ (r.type = 2 /\ r.date = None)
    <3>1. pass' = "refused" /\ UNCHANGED input  BY <1>3, <2>2 DEF Remove, Refuse
    <3> QED  BY <2>1, <2>2, <3>1 DEF RowsAccepted, Acceptable, Plausible, input
  <2>3. CASE ~(r.type \notin {1, 2} \/ (r.type = 2 /\ r.date = None))
    <3>1. pass' = "removals" /\ row' = row + 1 /\ UNCHANGED input
      BY <1>3, <2>3 DEF Remove
    <3> QED
      BY <2>1, <2>3, <3>1 DEF RowsAccepted, PatternsRead, AdditionsRead, RemovalsRead,
         Plausible, input
  <2> QED  BY <2>2, <2>3
<1>4. CASE NextPass
  <2>1. /\ PatternsRead' = PatternsRead /\ AdditionsRead' = AdditionsRead
        /\ RemovalsRead' = RemovalsRead
        /\ pass # "refused" /\ pass' # "refused" /\ UNCHANGED input
    BY <1>4 DEF NextPass, RowsOfPass, CalendarTypeOK,
       PatternsRead, AdditionsRead, RemovalsRead, input
  <2> QED  BY <2>1 DEF RowsAccepted, Plausible, input
<1>5. CASE Invert
  BY <1>5 DEF Invert, RowsAccepted, PatternsRead, AdditionsRead, RemovalsRead, Plausible, input
<1>6. CASE UNCHANGED vars
  BY <1>6 DEF vars, RowsAccepted, Acceptable, PatternsRead, AdditionsRead, RemovalsRead,
     Plausible, input
<1> QED  BY <1>1, <1>2, <1>3, <1>4, <1>5, <1>6 DEF Next

\* A calendar is refused exactly when some row of it, in whichever file and
\* place, is one that from_rows objects to.
THEOREM RefusedForACause == Spec => []RefusedForCause
<1>1. Start => RowsAccepted
  BY DEF Start, RowsAccepted, PatternsRead, AdditionsRead, RemovalsRead
<1>2. ASSUME CalendarTypeOK, RowsAccepted, Ready PROVE Acceptable
  <2>1. /\ PatternsRead = Len(calendar) /\ RemovalsRead = Len(calendar_dates)
        /\ AdditionsRead = Len(calendar_dates)
    BY <1>2 DEF Ready, PatternsRead, AdditionsRead, RemovalsRead
  <2>2. DOMAIN calendar = 1..Len(calendar) /\ DOMAIN calendar_dates = 1..Len(calendar_dates)
    BY <1>2 DEF CalendarTypeOK
  <2> QED  BY <1>2, <2>1, <2>2 DEF Acceptable, RowsAccepted, Ready
<1>3. CalendarTypeOK /\ RowsAccepted => RefusedForCause
  BY <1>2 DEF RefusedForCause, RowsAccepted
<1>4. Spec => []RowsAccepted
  BY <1>1, AcceptedStep, CalendarTypes, PTL DEF Spec
<1> QED  BY <1>3, <1>4, CalendarTypes, PTL

=============================================================================
