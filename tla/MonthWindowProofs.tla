-------------------------- MODULE MonthWindowProofs ---------------------------
(* Proofs about resolveCurrentMonthWindow, for every period and every        *)
(* moment: one iteration of its loop, and the window the loop comes to.      *)
EXTENDS MonthWindow, WellFoundedInduction, TLAPS

\* The days from a to b, of which b is at most two months later.
DaysBetween(a, b) ==
    IF b.month = a.month + 2 THEN DaysIn(a.month) - a.day + DaysIn(a.month + 1) + b.day
    ELSE IF b.month = a.month + 1 THEN DaysIn(a.month) - a.day + b.day
    ELSE b.day - a.day

\* A month has 28 to 31 days.
LEMMA MonthLengths ==
  ASSUME NEW m \in Nat
  PROVE  DaysIn(m) \in 28..31
  BY DEF DaysIn

\* A month after a date is a date of the next month, or of the one after when
\* the next is too short.
LEMMA NextMonth ==
  ASSUME NEW d, IsDate(d), NEW e, e = addMonthsToDate(d, 1)
  PROVE  /\ IsDate(e) /\ Before(d, e)
         /\ \/ e.month = d.month + 1 /\ e.day = d.day
            \/ e.month = d.month + 2 /\ e.day = d.day - DaysIn(d.month + 1)
<1>1. d.month \in Nat /\ d.day \in 1..31
  BY DEF IsDate, Days
<1>2. DaysIn(d.month + 1) \in 28..31 /\ DaysIn(d.month + 2) \in 28..31
  BY <1>1, MonthLengths
<1>3. CASE d.day <= DaysIn(d.month + 1)
  <2>1. e = [month |-> d.month + 1, day |-> d.day]
    BY <1>3 DEF addMonthsToDate
  <2> QED BY <1>1, <1>3, <2>1 DEF IsDate, Days, Before
<1>4. CASE ~(d.day <= DaysIn(d.month + 1))
  <2>1. e = [month |-> d.month + 2, day |-> d.day - DaysIn(d.month + 1)]
    BY <1>1, <1>4 DEF addMonthsToDate
  <2>2. d.day - DaysIn(d.month + 1) \in 1..3
    BY <1>1, <1>2, <1>4
  <2> QED BY <1>1, <1>2, <2>1, <2>2 DEF IsDate, Days, Before
<1> QED BY <1>3, <1>4

\* The month that follows 31 January ends on 3 March, but is no longer for it:
\* a window that is not cut off by the end of the period has as many days as
\* the month it begins in, whichever day that is.
THEOREM WindowsAreMonthsLong ==
  ASSUME NEW d, IsDate(d)
  PROVE  DaysBetween(d, addMonthsToDate(d, 1)) = DaysIn(d.month)
<1> DEFINE e == addMonthsToDate(d, 1)
<1>1. d.month \in Nat /\ d.day \in 1..31
  BY DEF IsDate, Days
<1>2. DaysIn(d.month) \in 28..31 /\ DaysIn(d.month + 1) \in 28..31
  BY <1>1, MonthLengths
<1>3. \/ e.month = d.month + 1 /\ e.day = d.day
      \/ e.month = d.month + 2 /\ e.day = d.day - DaysIn(d.month + 1)
  BY NextMonth
<1> SUFFICES DaysBetween(d, e) = DaysIn(d.month)
  OBVIOUS
<1> HIDE DEF e
<1>4. CASE e.month = d.month + 1 /\ e.day = d.day
  BY <1>1, <1>2, <1>4 DEF DaysBetween
<1>5. CASE e.month = d.month + 2 /\ e.day = d.day - DaysIn(d.month + 1)
  BY <1>1, <1>2, <1>5 DEF DaysBetween
<1> QED BY <1>3, <1>4, <1>5

\* The loop of resolveCurrentMonthWindow ends: each window begins in a later
\* month than the one before, or the period is over.  None is empty, and none
\* goes past the end of the period.
THEOREM LoopAdvances ==
  ASSUME NEW monthStart, IsDate(monthStart), NEW periodEnd, IsDate(periodEnd),
         Before(monthStart, periodEnd)
  PROVE  LET monthEnd == MonthEnd(monthStart, periodEnd)
         IN  /\ IsDate(monthEnd) /\ Before(monthStart, monthEnd)
             /\ ~Before(periodEnd, monthEnd)
             /\ monthEnd = periodEnd \/ monthEnd.month > monthStart.month
<1> DEFINE next == addMonthsToDate(monthStart, 1)
<1>1. monthStart.month \in Nat /\ periodEnd.month \in Nat /\ periodEnd.day \in 1..31
  BY DEF IsDate, Days
<1>2. IsDate(next) /\ Before(monthStart, next) /\ next.month > monthStart.month
  BY <1>1, NextMonth
<1>3. next.month \in Nat /\ next.day \in 1..31
  BY <1>2 DEF IsDate, Days
<1>4. ~Before(periodEnd, periodEnd)
  BY <1>1 DEF Before
<1>5. MonthEnd(monthStart, periodEnd) = IF Before(next, periodEnd) THEN next ELSE periodEnd
  BY DEF MonthEnd
<1> HIDE DEF next
<1>6. Before(next, periodEnd) => ~Before(periodEnd, next)
  BY <1>1, <1>3 DEF Before
<1> QED BY <1>2, <1>4, <1>5, <1>6

-----------------------------------------------------------------------------
(* The loop.                                                                 *)

\* A set of natural numbers has a least element.
LEMMA Smallest ==
  ASSUME NEW T, T \subseteq Nat, T # {}
  PROVE  \E n \in T : \A m \in T : n <= m
<1> DEFINE R == {p \in Nat \X Nat : p[1] < p[2]}
<1>1. IsWellFoundedOn(R, Nat)
  BY NatLessThanWellFounded DEF OpToRel
<1>2. PICK n \in T : \A m \in T : ~(<<m, n>> \in R)
  <2> HIDE DEF R
  <2> QED BY <1>1, WFMin
<1>3. ASSUME NEW m \in T
      PROVE  n <= m
  <2>1. ~(<<m, n>> \in R)
    BY <1>2
  <2> QED BY <2>1
<1> QED BY <1>3

\* Days have an order, whether their months have them or not.
LEMMA DaysAreOrdered ==
  ASSUME NEW a \in Days, NEW b \in Days
  PROVE  /\ ~Before(a, a)
         /\ Before(a, b) => ~Before(b, a)
         /\ a = b \/ Before(a, b) \/ Before(b, a)
         /\ \A c \in Days : /\ Before(a, b) /\ ~Before(c, b) => Before(a, c)
                            /\ Before(b, c) /\ ~Before(b, a) => Before(a, c)
                            /\ ~Before(b, a) /\ ~Before(c, b) => ~Before(c, a)
<1>1. /\ a.month \in Nat /\ a.day \in Nat /\ b.month \in Nat /\ b.day \in Nat
      /\ a = [month |-> a.month, day |-> a.day] /\ b = [month |-> b.month, day |-> b.day]
  BY DEF Days
<1>2. \A c \in Days : c.month \in Nat /\ c.day \in Nat
  BY DEF Days
<1> QED BY <1>1, <1>2 DEF Before

\* The next iteration begins later, and in a later month or at the end.
LEMMA NextIteration ==
  ASSUME NEW d \in Days, NEW periodEnd \in Days, Before(d, periodEnd)
  PROVE  LET e == MonthEnd(d, periodEnd)
         IN  /\ e \in Days /\ Before(d, e) /\ ~Before(periodEnd, e)
             /\ e = periodEnd \/ e.month > d.month
<1> DEFINE n == addMonthsToDate(d, 1)
<1>1. d.month \in Nat /\ d.day \in 1..31
  BY DEF Days
<1>2. DaysIn(d.month + 1) \in 28..31
  BY <1>1, MonthLengths
<1>3. n \in Days /\ n.month > d.month
  <2>1. CASE d.day <= DaysIn(d.month + 1)
    BY <1>1, <2>1 DEF addMonthsToDate, Days
  <2>2. CASE ~(d.day <= DaysIn(d.month + 1))
    <3>1. d.day - DaysIn(d.month + 1) \in 1..31
      BY <1>1, <1>2, <2>2
    <3>2. n = [month |-> d.month + 1 + 1, day |-> d.day - DaysIn(d.month + 1)]
      BY <2>2 DEF addMonthsToDate
    <3> QED BY <1>1, <3>1, <3>2 DEF Days
  <2> QED BY <2>1, <2>2
<1>4. Before(d, n)
  BY <1>3 DEF Before
<1>5. MonthEnd(d, periodEnd) = IF Before(n, periodEnd) THEN n ELSE periodEnd
  BY DEF MonthEnd
<1> HIDE DEF n
<1> QED BY <1>3, <1>4, <1>5, DaysAreOrdered

\* Induction from the end of a period to its beginning, window by window.
LEMMA LoopInduction ==
  ASSUME NEW periodEnd \in Days, NEW T,
         \A d \in Days : ~Before(d, periodEnd) => d \in T,
         \A d \in Days : Before(d, periodEnd) /\ MonthEnd(d, periodEnd) \in T => d \in T
  PROVE  \A d \in Days : d \in T
<1> DEFINE Left(d) == IF Before(d, periodEnd) THEN periodEnd.month - d.month + 1 ELSE 0
           Bad == {d \in Days : d \notin T}
           Lefts == {Left(d) : d \in Bad}
<1>1. \A d \in Days : Left(d) \in Nat
  BY DEF Days, Before
<1> SUFFICES ASSUME Bad # {}
             PROVE  FALSE
  OBVIOUS
<1>2. PICK n \in Lefts : \A m \in Lefts : n <= m
  <2>1. Lefts \subseteq Nat /\ Lefts # {}
    BY <1>1
  <2> HIDE DEF Lefts
  <2> QED BY <2>1, Smallest
<1>3. PICK d \in Bad : \A e \in Bad : Left(d) <= Left(e)
  BY <1>2
<1>4. d \in Days /\ Before(d, periodEnd)
  OBVIOUS
<1> DEFINE e == MonthEnd(d, periodEnd)
<1>5. e \in Days /\ (e = periodEnd \/ e.month > d.month)
  BY <1>4, NextIteration
<1>6. e \in Bad
  BY <1>4, <1>5
<1>7. Left(e) < Left(d)
  <2>1. d.month \in Nat /\ e.month \in Nat /\ periodEnd.month \in Nat /\ d.month <= periodEnd.month
    BY <1>4, <1>5 DEF Days, Before
  <2>2. ~Before(periodEnd, periodEnd)
    BY DaysAreOrdered
  <2> HIDE DEF e
  <2> QED BY <1>4, <1>5, <2>1, <2>2
<1>8. Left(d) <= Left(e)
  BY <1>3, <1>6
<1> HIDE DEF Left
<1> QED BY <1>1, <1>4, <1>5, <1>7, <1>8

\* What the loop does at monthStart when f tells what it does afterwards.
Iteration(f, monthStart, periodEnd, now) ==
    LET monthEnd == MonthEnd(monthStart, periodEnd)
    IN  IF ~Before(monthStart, periodEnd) THEN NoWindow
        ELSE IF Inside(now, monthStart, monthEnd)
             THEN [monthStart |-> monthStart, monthEnd |-> monthEnd]
             ELSE f[monthEnd]

Searches(f, periodEnd, now) == f = [d \in Days |-> Iteration(f, d, periodEnd, now)]

\* The beginnings of the windows from d on: what every set has that has d and
\* the end of each window it has the beginning of.
Closed(T, periodEnd) == \A d \in T : Before(d, periodEnd) => MonthEnd(d, periodEnd) \in T
Onwards(d, periodEnd) ==
    {e \in Days : \A T \in SUBSET Days : d \in T /\ Closed(T, periodEnd) => e \in T}

LEMMA OnwardsIs ==
  ASSUME NEW periodEnd \in Days, NEW d \in Days
  PROVE  /\ d \in Onwards(d, periodEnd)
         /\ ~Before(d, periodEnd) => Onwards(d, periodEnd) = {d}
         /\ Before(d, periodEnd) =>
               /\ Onwards(d, periodEnd) = {d} \cup Onwards(MonthEnd(d, periodEnd), periodEnd)
               /\ \A e \in Onwards(MonthEnd(d, periodEnd), periodEnd) :
                     ~Before(e, MonthEnd(d, periodEnd))
<1>1. \A e \in Days : e \in Onwards(e, periodEnd)
  BY DEF Onwards
<1>2. ASSUME ~Before(d, periodEnd)
      PROVE  Onwards(d, periodEnd) = {d}
  <2>1. Closed({d}, periodEnd)
    BY <1>2 DEF Closed
  <2> QED BY <1>1, <2>1 DEF Onwards
<1>3. \A e \in Days : Closed(Onwards(e, periodEnd), periodEnd)
  <2> SUFFICES ASSUME NEW e \in Days, NEW c \in Onwards(e, periodEnd), Before(c, periodEnd)
               PROVE  MonthEnd(c, periodEnd) \in Onwards(e, periodEnd)
    BY DEF Closed
  <2>1. c \in Days /\ MonthEnd(c, periodEnd) \in Days
    BY NextIteration DEF Onwards
  <2>2. ASSUME NEW T \in SUBSET Days, e \in T, Closed(T, periodEnd)
        PROVE  MonthEnd(c, periodEnd) \in T
    <3>1. c \in T
      BY <2>2 DEF Onwards
    <3> QED BY <2>2, <3>1 DEF Closed
  <2> QED BY <2>1, <2>2 DEF Onwards
<1>4. ASSUME Before(d, periodEnd)
      PROVE  Onwards(d, periodEnd) = {d} \cup Onwards(MonthEnd(d, periodEnd), periodEnd)
  <2>1. PICK e : e = MonthEnd(d, periodEnd)
    OBVIOUS
  <2>2. e \in Days
    BY <1>4, <2>1, NextIteration
  <2>3. e \in Onwards(d, periodEnd)
    BY <1>1, <1>3, <1>4, <2>1 DEF Closed
  <2>4. Onwards(e, periodEnd) \subseteq Onwards(d, periodEnd)
    <3>1. Onwards(d, periodEnd) \in SUBSET Days
      BY DEF Onwards
    <3> QED BY <1>3, <2>3, <3>1 DEF Onwards
  <2>5. Closed({d} \cup Onwards(e, periodEnd), periodEnd)
    <3>1. Closed(Onwards(e, periodEnd), periodEnd) /\ e \in Onwards(e, periodEnd)
      BY <1>1, <1>3, <2>2
    <3> QED BY <2>1, <3>1 DEF Closed
  <2>6. {d} \cup Onwards(e, periodEnd) \in SUBSET Days
    BY DEF Onwards
  <2>7. Onwards(d, periodEnd) \subseteq {d} \cup Onwards(e, periodEnd)
    BY <2>5, <2>6 DEF Onwards
  <2> QED BY <1>1, <2>1, <2>4, <2>7
<1>5. ASSUME Before(d, periodEnd), NEW e \in Onwards(MonthEnd(d, periodEnd), periodEnd)
      PROVE  ~Before(e, MonthEnd(d, periodEnd))
  <2>1. PICK m : m = MonthEnd(d, periodEnd)
    OBVIOUS
  <2>2. m \in Days
    BY <1>5, <2>1, NextIteration
  <2> DEFINE T == {c \in Days : ~Before(c, m)}
  <2>3. Closed(T, periodEnd)
    <3> SUFFICES ASSUME NEW c \in Days, ~Before(c, m), Before(c, periodEnd)
                 PROVE  MonthEnd(c, periodEnd) \in Days /\ ~Before(MonthEnd(c, periodEnd), m)
      BY DEF Closed
    <3>1. MonthEnd(c, periodEnd) \in Days /\ Before(c, MonthEnd(c, periodEnd))
      BY NextIteration
    <3>2. ~Before(MonthEnd(c, periodEnd), c)
      BY <3>1, DaysAreOrdered
    <3> QED BY <2>2, <3>1, <3>2, DaysAreOrdered
  <2>4. m \in T
    BY <2>2, DaysAreOrdered
  <2>5. e \in T
    <3> HIDE DEF T
    <3>1. T \in SUBSET Days
      BY DEF T
    <3> QED BY <1>5, <2>1, <2>3, <2>4, <3>1 DEF Onwards
  <2> QED BY <2>1, <2>5
<1> QED BY <1>1, <1>2, <1>4, <1>5

\* The equation of the loop has a solution: from d on at most one window is
\* the first that holds now.
LEMMA LoopExists ==
  ASSUME NEW periodEnd \in Days, NEW now \in Days
  PROVE  \E f : Searches(f, periodEnd, now)
<1> DEFINE End(d) == MonthEnd(d, periodEnd)
           Hits(d) == {e \in Onwards(d, periodEnd) : Before(e, periodEnd) /\ Inside(now, e, End(e))}
           Found(S) == IF S = {} THEN NoWindow
                       ELSE [monthStart |-> CHOOSE e \in S : TRUE,
                             monthEnd |-> End(CHOOSE e \in S : TRUE)]
           g == [d \in Days |-> Found(Hits(d))]
<1> HIDE DEF Found
<1>1. \A d \in Days : g[d] = Found(Hits(d))
  OBVIOUS
<1>2. ASSUME NEW d \in Days, ~Before(d, periodEnd)
      PROVE  Hits(d) = {}
  BY <1>2, OnwardsIs
<1>3. ASSUME NEW d \in Days, Before(d, periodEnd), ~Inside(now, d, End(d))
      PROVE  Hits(d) = Hits(End(d))
  BY <1>3, OnwardsIs
<1>4. ASSUME NEW d \in Days, Before(d, periodEnd), Inside(now, d, End(d))
      PROVE  Hits(d) = {d}
  <2>1. d \in Hits(d)
    BY <1>4, OnwardsIs
  <2>2. ASSUME NEW e \in Hits(d), e # d
        PROVE  FALSE
    <3>1. e \in Onwards(End(d), periodEnd)
      BY <1>4, <2>2, OnwardsIs
    <3>2. ~Before(e, End(d)) /\ e \in Days /\ End(d) \in Days
      BY <1>4, <3>1, OnwardsIs, NextIteration DEF Onwards
    <3>3. Before(now, End(d)) /\ ~Before(now, e)
      BY <1>4, <2>2 DEF Inside
    <3> HIDE DEF End
    <3> QED BY <3>2, <3>3, DaysAreOrdered
  <2> HIDE DEF Hits
  <2> QED BY <2>1, <2>2
<1>5. \A d \in Days : Before(d, periodEnd) => End(d) \in Days
  BY NextIteration
<1>6. Found({}) = NoWindow
  BY DEF Found
<1>7. \A d : Found({d}) = [monthStart |-> d, monthEnd |-> End(d)]
  <2> SUFFICES ASSUME NEW d
               PROVE  (CHOOSE e \in {d} : TRUE) = d
    BY DEF Found
  <2> QED OBVIOUS
<1>8. ASSUME NEW d \in Days
      PROVE  Found(Hits(d)) = Iteration(g, d, periodEnd, now)
  <2> HIDE DEF Hits, g
  <2>1. CASE ~Before(d, periodEnd)
    BY <1>2, <1>6, <2>1 DEF Iteration
  <2>2. CASE Before(d, periodEnd) /\ Inside(now, d, End(d))
    BY <1>4, <1>7, <2>2 DEF Iteration
  <2>3. CASE Before(d, periodEnd) /\ ~Inside(now, d, End(d))
    BY <1>1, <1>3, <1>5, <2>3 DEF Iteration
  <2> QED BY <2>1, <2>2, <2>3
<1>9. g = [d \in Days |-> Iteration(g, d, periodEnd, now)]
  <2> HIDE DEF Hits
  <2> QED BY <1>8
<1> QED BY <1>9 DEF Searches

LEMMA LoopIs ==
  ASSUME NEW periodStart, NEW periodEnd \in Days, NEW now \in Days
  PROVE  \E f : /\ Searches(f, periodEnd, now)
                /\ resolveCurrentMonthWindow(periodStart, periodEnd, now) = f[periodStart]
<1> DEFINE f == CHOOSE h : h = [d \in Days |-> Iteration(h, d, periodEnd, now)]
<1>1. f = [d \in Days |-> Iteration(f, d, periodEnd, now)]
  BY LoopExists DEF Searches
<1>2. resolveCurrentMonthWindow(periodStart, periodEnd, now) = f[periodStart]
  BY DEF resolveCurrentMonthWindow, Iteration
<1> QED BY <1>1, <1>2 DEF Searches

\* w is a window of the loop from d on, and holds now.
IsWindowOf(w, d, periodEnd, now) ==
    \E s \in Days : LET e == MonthEnd(s, periodEnd)
                    IN  /\ w = [monthStart |-> s, monthEnd |-> e]
                        /\ ~Before(s, d) /\ Before(s, periodEnd)
                        /\ Inside(now, s, e)
                        /\ IsDate(d) /\ IsDate(periodEnd) => IsDate(s) /\ IsDate(e)

LEMMA LoopFinds ==
  ASSUME NEW periodEnd \in Days, NEW now \in Days, NEW f, Searches(f, periodEnd, now)
  PROVE  \A d \in Days : IF Inside(now, d, periodEnd) THEN IsWindowOf(f[d], d, periodEnd, now)
                         ELSE f[d] = NoWindow
<1> DEFINE T == {d \in Days : IF Inside(now, d, periodEnd)
                              THEN IsWindowOf(f[d], d, periodEnd, now)
                              ELSE f[d] = NoWindow}
<1>1. \A d \in Days : f[d] = Iteration(f, d, periodEnd, now)
  BY DEF Searches
<1>2. ASSUME NEW d \in Days, ~Before(d, periodEnd)
      PROVE  d \in T
  <2>1. f[d] = NoWindow
    BY <1>1, <1>2 DEF Iteration
  <2>2. ~Inside(now, d, periodEnd)
    BY <1>2, DaysAreOrdered DEF Inside
  <2> QED BY <2>1, <2>2
<1>3. ASSUME NEW d \in Days, Before(d, periodEnd), MonthEnd(d, periodEnd) \in T
      PROVE  d \in T
  <2>1. PICK e : e = MonthEnd(d, periodEnd)
    OBVIOUS
  <2>2. e \in Days /\ Before(d, e) /\ ~Before(periodEnd, e)
    BY <1>3, <2>1, NextIteration
  <2>3. CASE Inside(now, d, e)
    <3>1. f[d] = [monthStart |-> d, monthEnd |-> e]
      BY <1>1, <1>3, <2>1, <2>3 DEF Iteration
    <3>2. Inside(now, d, periodEnd)
      BY <2>2, <2>3, DaysAreOrdered DEF Inside
    <3>3. IsDate(d) /\ IsDate(periodEnd) => IsDate(e)
      BY <1>3, <2>1, LoopAdvances
    <3>4. IsWindowOf(f[d], d, periodEnd, now)
      BY <1>3, <2>1, <2>3, <3>1, <3>3, DaysAreOrdered DEF IsWindowOf
    <3> QED BY <3>2, <3>4
  <2>4. CASE ~Inside(now, d, e)
    <3>1. f[d] = f[e]
      BY <1>1, <1>3, <2>1, <2>4 DEF Iteration
    <3>2. Inside(now, d, periodEnd) <=> Inside(now, e, periodEnd)
      BY <2>2, <2>4, DaysAreOrdered DEF Inside
    <3>3. IF Inside(now, e, periodEnd) THEN IsWindowOf(f[e], e, periodEnd, now)
          ELSE f[e] = NoWindow
      BY <1>3, <2>1
    <3>4. CASE Inside(now, e, periodEnd)
      <4>1. PICK s \in Days : /\ f[e] = [monthStart |-> s, monthEnd |-> MonthEnd(s, periodEnd)]
                              /\ ~Before(s, e) /\ Before(s, periodEnd)
                              /\ Inside(now, s, MonthEnd(s, periodEnd))
                              /\ IsDate(e) /\ IsDate(periodEnd) =>
                                    IsDate(s) /\ IsDate(MonthEnd(s, periodEnd))
        BY <3>3, <3>4 DEF IsWindowOf
      <4>2. ~Before(s, d)
        BY <2>2, <4>1, DaysAreOrdered
      <4>3. IsDate(d) /\ IsDate(periodEnd) => IsDate(e)
        BY <1>3, <2>1, LoopAdvances
      <4>4. IsWindowOf(f[d], d, periodEnd, now)
        BY <3>1, <4>1, <4>2, <4>3 DEF IsWindowOf
      <4> QED BY <3>2, <3>4, <4>4
    <3>5. CASE ~Inside(now, e, periodEnd)
      BY <3>1, <3>2, <3>3, <3>5
    <3> QED BY <3>4, <3>5
  <2> QED BY <2>3, <2>4
<1>4. \A d \in Days : d \in T
  <2> HIDE DEF T
  <2> QED BY <1>2, <1>3, LoopInduction
<1> QED BY <1>4

\* Another moment of the window is in the window as well.
LEMMA LoopAgrees ==
  ASSUME NEW periodEnd \in Days, NEW now \in Days, NEW f, Searches(f, periodEnd, now),
         NEW s \in Days, NEW e, NEW w, w = [monthStart |-> s, monthEnd |-> e],
         NEW c \in Days, Inside(c, s, e), NEW g, Searches(g, periodEnd, c)
  PROVE  \A d \in Days : Inside(now, d, periodEnd) /\ f[d] = w => g[d] = w
<1> DEFINE T == {d \in Days : Inside(now, d, periodEnd) /\ f[d] = w => g[d] = w}
<1>1. \A d \in Days : /\ f[d] = Iteration(f, d, periodEnd, now)
                      /\ g[d] = Iteration(g, d, periodEnd, c)
  BY DEF Searches
<1>2. ASSUME NEW d \in Days, ~Before(d, periodEnd)
      PROVE  d \in T
  BY <1>2, DaysAreOrdered DEF Inside
<1>3. ASSUME NEW d \in Days, Before(d, periodEnd), MonthEnd(d, periodEnd) \in T
      PROVE  d \in T
  <2> SUFFICES ASSUME Inside(now, d, periodEnd), f[d] = w
               PROVE  g[d] = w
    OBVIOUS
  <2>1. PICK n : n = MonthEnd(d, periodEnd)
    OBVIOUS
  <2>2. n \in Days /\ Before(d, n)
    BY <1>3, <2>1, NextIteration
  <2>3. CASE Inside(now, d, n)
    <3>1. w = [monthStart |-> d, monthEnd |-> n]
      BY <1>1, <1>3, <2>1, <2>3 DEF Iteration
    <3>2. s = d /\ e = n
      BY <3>1
    <3> QED BY <1>1, <1>3, <2>1, <3>1, <3>2 DEF Iteration
  <2>4. CASE ~Inside(now, d, n)
    <3>1. f[n] = w
      BY <1>1, <1>3, <2>1, <2>4 DEF Iteration
    <3>2. Inside(now, n, periodEnd)
      BY <2>2, <2>4, DaysAreOrdered DEF Inside
    <3>3. ~Before(s, n)
      <4>1. PICK q \in Days : w = [monthStart |-> q, monthEnd |-> MonthEnd(q, periodEnd)]
                               /\ ~Before(q, n)
        BY <2>2, <3>1, <3>2, LoopFinds DEF IsWindowOf
      <4> QED BY <4>1
    <3>4. ~Inside(c, d, n)
      BY <2>2, <3>3, DaysAreOrdered DEF Inside
    <3>5. g[d] = g[n]
      BY <1>1, <1>3, <2>1, <3>4 DEF Iteration
    <3> QED BY <1>3, <2>1, <3>1, <3>2, <3>5
  <2> QED BY <2>3, <2>4
<1> HIDE DEF T
<1>4. \A d \in Days : d \in T
  BY <1>2, <1>3, LoopInduction
<1> QED BY <1>4 DEF T

\* The moment a window ends the next begins.
LEMMA LoopFollows ==
  ASSUME NEW periodEnd \in Days, NEW now \in Days, NEW f, Searches(f, periodEnd, now),
         NEW s \in Days, NEW e \in Days, Before(s, e), Before(e, periodEnd),
         NEW w, w = [monthStart |-> s, monthEnd |-> e],
         NEW g, Searches(g, periodEnd, e)
  PROVE  \A d \in Days : Inside(now, d, periodEnd) /\ f[d] = w => g[d].monthStart = e
<1> DEFINE T == {d \in Days : Inside(now, d, periodEnd) /\ f[d] = w => g[d].monthStart = e}
<1>1. \A d \in Days : /\ f[d] = Iteration(f, d, periodEnd, now)
                      /\ g[d] = Iteration(g, d, periodEnd, e)
  BY DEF Searches
<1>2. ASSUME NEW d \in Days, ~Before(d, periodEnd)
      PROVE  d \in T
  BY <1>2, DaysAreOrdered DEF Inside
<1>3. ASSUME NEW d \in Days, Before(d, periodEnd), MonthEnd(d, periodEnd) \in T
      PROVE  d \in T
  <2> SUFFICES ASSUME Inside(now, d, periodEnd), f[d] = w
               PROVE  g[d].monthStart = e
    OBVIOUS
  <2>1. PICK n : n = MonthEnd(d, periodEnd)
    OBVIOUS
  <2>2. n \in Days /\ Before(d, n)
    BY <1>3, <2>1, NextIteration
  <2>3. CASE Inside(now, d, n)
    <3>1. w = [monthStart |-> d, monthEnd |-> n]
      BY <1>1, <1>3, <2>1, <2>3 DEF Iteration
    <3>2. s = d /\ e = n
      BY <3>1
    <3>3. ~Inside(e, d, n)
      BY <2>2, <3>2, DaysAreOrdered DEF Inside
    <3>4. g[d] = g[e]
      BY <1>1, <1>3, <2>1, <3>2, <3>3 DEF Iteration
    <3>5. Inside(e, e, MonthEnd(e, periodEnd))
      BY DaysAreOrdered, NextIteration DEF Inside
    <3>6. g[e] = [monthStart |-> e, monthEnd |-> MonthEnd(e, periodEnd)]
      BY <1>1, <3>5 DEF Iteration
    <3> QED BY <3>4, <3>6
  <2>4. CASE ~Inside(now, d, n)
    <3>1. f[n] = w
      BY <1>1, <1>3, <2>1, <2>4 DEF Iteration
    <3>2. Inside(now, n, periodEnd)
      BY <2>2, <2>4, DaysAreOrdered DEF Inside
    <3>3. ~Before(s, n)
      <4>1. PICK q \in Days : w = [monthStart |-> q, monthEnd |-> MonthEnd(q, periodEnd)]
                               /\ ~Before(q, n)
        BY <2>2, <3>1, <3>2, LoopFinds DEF IsWindowOf
      <4> QED BY <4>1
    <3>4. ~Inside(e, d, n)
      BY <2>2, <3>3, DaysAreOrdered DEF Inside
    <3>5. g[d] = g[n]
      BY <1>1, <1>3, <2>1, <3>4 DEF Iteration
    <3> QED BY <1>3, <2>1, <3>1, <3>2, <3>5
  <2> QED BY <2>3, <2>4
<1> HIDE DEF T
<1>4. \A d \in Days : d \in T
  BY <1>2, <1>3, LoopInduction
<1> QED BY <1>4 DEF T

\* Whatever the period and the moment in it, the loop of
\* resolveCurrentMonthWindow comes to a window that holds the moment and lies in
\* the period, is the window of every other moment in it, and ends with the
\* period or where the next one begins: no download is counted in two windows,
\* and none in no window.
THEOREM WindowsTile ==
  ASSUME NEW periodStart, IsDate(periodStart), NEW periodEnd, IsDate(periodEnd),
         NEW now, IsDate(now), Inside(now, periodStart, periodEnd)
  PROVE  LET Window(d) == resolveCurrentMonthWindow(periodStart, periodEnd, d)
             w == Window(now)
         IN  /\ IsDate(w.monthStart) /\ IsDate(w.monthEnd)
             /\ Inside(now, w.monthStart, w.monthEnd)
             /\ ~Before(w.monthStart, periodStart) /\ ~Before(periodEnd, w.monthEnd)
             /\ w.monthEnd = MonthEnd(w.monthStart, periodEnd)
             /\ \A d : IsDate(d) /\ Inside(d, w.monthStart, w.monthEnd) => Window(d) = w
             /\ w.monthEnd = periodEnd \/ Window(w.monthEnd).monthStart = w.monthEnd
<1> DEFINE Window(d) == resolveCurrentMonthWindow(periodStart, periodEnd, d)
           w == Window(now)
<1>1. periodStart \in Days /\ periodEnd \in Days /\ now \in Days /\ (\A d : IsDate(d) => d \in Days)
  BY DEF IsDate
<1>2. PICK f : Searches(f, periodEnd, now) /\ w = f[periodStart]
  BY <1>1, LoopIs
<1>3. PICK s \in Days : LET e == MonthEnd(s, periodEnd)
                        IN  /\ w = [monthStart |-> s, monthEnd |-> e]
                            /\ ~Before(s, periodStart) /\ Before(s, periodEnd)
                            /\ Inside(now, s, e)
                            /\ IsDate(s) /\ IsDate(e)
  BY <1>1, <1>2, LoopFinds DEF IsWindowOf
<1> DEFINE e == MonthEnd(s, periodEnd)
<1>4. w.monthStart = s /\ w.monthEnd = e /\ w = [monthStart |-> s, monthEnd |-> e]
  BY <1>3
<1>5. e \in Days /\ Before(s, e) /\ ~Before(periodEnd, e)
  BY <1>1, <1>3, NextIteration
<1> HIDE DEF w
<1>6. ASSUME NEW d, IsDate(d), Inside(d, s, e)
      PROVE  Window(d) = w
  <2>1. PICK g : Searches(g, periodEnd, d) /\ Window(d) = g[periodStart]
    BY <1>1, <1>6, LoopIs
  <2>2. d \in Days
    BY <1>1, <1>6
  <2>3. \A c \in Days : Inside(now, c, periodEnd) /\ f[c] = w => g[c] = w
    <3> HIDE DEF Window, e
    <3> QED BY <1>1, <1>2, <1>4, <1>6, <2>1, <2>2, LoopAgrees
  <2> QED BY <1>1, <1>2, <2>1, <2>3
<1>7. ASSUME e # periodEnd
      PROVE  Window(e).monthStart = e
  <2>1. PICK g : Searches(g, periodEnd, e) /\ Window(e) = g[periodStart]
    BY <1>1, <1>5, LoopIs
  <2>2. Before(e, periodEnd)
    BY <1>1, <1>5, <1>7, DaysAreOrdered
  <2>3. \A c \in Days : Inside(now, c, periodEnd) /\ f[c] = w => g[c].monthStart = e
    <3> HIDE DEF Window, e
    <3> QED BY <1>1, <1>2, <1>4, <1>5, <2>1, <2>2, LoopFollows
  <2> QED BY <1>1, <1>2, <2>1, <2>3
<1> QED BY <1>3, <1>4, <1>5, <1>6, <1>7 DEF w

\* The first window begins with the period, and outside of the period there is
\* none.
THEOREM WindowsCoverPeriod ==
  ASSUME NEW periodStart, IsDate(periodStart), NEW periodEnd, IsDate(periodEnd)
  PROVE  /\ Before(periodStart, periodEnd) =>
               resolveCurrentMonthWindow(periodStart, periodEnd, periodStart).monthStart = periodStart
         /\ \A now : IsDate(now) /\ ~Inside(now, periodStart, periodEnd) =>
               resolveCurrentMonthWindow(periodStart, periodEnd, now) = NoWindow
<1>1. periodStart \in Days /\ periodEnd \in Days /\ (\A d : IsDate(d) => d \in Days)
  BY DEF IsDate
<1>2. ASSUME Before(periodStart, periodEnd)
      PROVE  resolveCurrentMonthWindow(periodStart, periodEnd, periodStart).monthStart = periodStart
  <2>1. PICK w : w = resolveCurrentMonthWindow(periodStart, periodEnd, periodStart)
    OBVIOUS
  <2>2. Inside(periodStart, periodStart, periodEnd)
    BY <1>1, <1>2, DaysAreOrdered DEF Inside
  <2>3. /\ w.monthStart \in Days /\ ~Before(w.monthStart, periodStart)
        /\ Inside(periodStart, w.monthStart, w.monthEnd)
    BY <1>1, <2>1, <2>2, WindowsTile
  <2>4. w.monthStart = periodStart
    BY <1>1, <2>3, DaysAreOrdered DEF Inside
  <2> QED BY <2>1, <2>4
<1>3. ASSUME NEW now, IsDate(now), ~Inside(now, periodStart, periodEnd)
      PROVE  resolveCurrentMonthWindow(periodStart, periodEnd, now) = NoWindow
  <2>1. PICK f : /\ Searches(f, periodEnd, now)
                 /\ resolveCurrentMonthWindow(periodStart, periodEnd, now) = f[periodStart]
    BY <1>1, <1>3, LoopIs
  <2> QED BY <1>1, <1>3, <2>1, LoopFinds
<1> QED BY <1>2, <1>3

\* The limit counts by windows and the history by calendar months: the two are
\* the same in a period that begins on the first of a month and ends on one.
THEOREM HistoryAgreesFromTheFirst ==
  ASSUME NEW periodStart, IsDate(periodStart), periodStart.day = 1,
         NEW periodEnd, IsDate(periodEnd), periodEnd.day = 1,
         NEW now, IsDate(now), Inside(now, periodStart, periodEnd)
  PROVE  resolveCurrentMonthWindow(periodStart, periodEnd, now)
            = findDownloadHistoryMonthBoundary(now)
<1>1. periodStart \in Days /\ periodEnd \in Days /\ now \in Days
  BY DEF IsDate
<1>2. PICK f : /\ Searches(f, periodEnd, now)
               /\ resolveCurrentMonthWindow(periodStart, periodEnd, now) = f[periodStart]
  BY <1>1, LoopIs
<1> DEFINE history == findDownloadHistoryMonthBoundary(now)
           First(m) == [month |-> m, day |-> 1]
           T == {d \in Days : d.day = 1 /\ Inside(now, d, periodEnd) => f[d] = history}
<1>3. \A m \in Nat : First(m) \in Days /\ addMonthsToDate(First(m), 1) = First(m + 1)
  <2> SUFFICES ASSUME NEW m \in Nat
               PROVE  First(m) \in Days /\ addMonthsToDate(First(m), 1) = First(m + 1)
    OBVIOUS
  <2>1. DaysIn(m + 1) \in 28..31
    BY MonthLengths
  <2> QED BY <2>1 DEF Days, addMonthsToDate
<1>4. history = [monthStart |-> First(now.month), monthEnd |-> First(now.month + 1)]
  <2>1. [now EXCEPT !.day = 1] = First(now.month) /\ now.month \in Nat
    BY <1>1 DEF Days
  <2> HIDE DEF First
  <2> QED BY <1>3, <2>1 DEF findDownloadHistoryMonthBoundary
<1>5. ASSUME NEW d \in Days, ~Before(d, periodEnd)
      PROVE  d \in T
  BY <1>1, <1>5, DaysAreOrdered DEF Inside
<1>6. ASSUME NEW d \in Days, Before(d, periodEnd), MonthEnd(d, periodEnd) \in T
      PROVE  d \in T
  <2> SUFFICES ASSUME d.day = 1, Inside(now, d, periodEnd)
               PROVE  f[d] = history
    OBVIOUS
  <2>1. /\ d.month \in Nat /\ periodEnd.month \in Nat /\ now.month \in Nat /\ now.day \in 1..31
        /\ d = First(d.month) /\ periodEnd = First(periodEnd.month)
    BY <1>1 DEF Days
  <2>2. MonthEnd(d, periodEnd) = First(d.month + 1)
    <3>1. addMonthsToDate(d, 1) = First(d.month + 1)
      <4> HIDE DEF First
      <4> QED BY <1>3, <2>1
    <3>2. d.month < periodEnd.month
      BY <1>6, <2>1 DEF Before
    <3>3. ~Before(First(d.month + 1), periodEnd) => periodEnd.month = d.month + 1
      BY <2>1, <3>2 DEF Before
    <3>4. ~Before(First(d.month + 1), periodEnd) => periodEnd = First(d.month + 1)
      <4> HIDE DEF First
      <4> QED BY <2>1, <3>3
    <3> HIDE DEF First
    <3> QED BY <3>1, <3>4 DEF MonthEnd
  <2>3. f[d] = Iteration(f, d, periodEnd, now)
    BY <1>2 DEF Searches
  <2>4. CASE now.month = d.month
    <3>1. Inside(now, d, First(d.month + 1))
      BY <2>1, <2>4 DEF Inside, Before
    <3> HIDE DEF First
    <3> QED BY <1>4, <1>6, <2>1, <2>2, <2>3, <2>4, <3>1 DEF Iteration
  <2>5. CASE now.month # d.month
    <3>1. now.month > d.month
      BY <2>1, <2>5 DEF Inside, Before
    <3>2. ~Inside(now, d, First(d.month + 1)) /\ ~Before(now, First(d.month + 1))
      BY <2>1, <3>1 DEF Inside, Before
    <3>3. f[d] = f[First(d.month + 1)]
      <4> HIDE DEF First
      <4> QED BY <1>6, <2>2, <2>3, <3>2 DEF Iteration
    <3>4. Inside(now, First(d.month + 1), periodEnd)
      BY <3>2 DEF Inside
    <3> QED BY <1>6, <2>2, <3>3, <3>4
  <2> QED BY <2>4, <2>5
<1>7. \A d \in Days : d \in T
  <2> HIDE DEF T
  <2> QED BY <1>1, <1>5, <1>6, LoopInduction
<1> QED BY <1>1, <1>2, <1>7
=============================================================================
