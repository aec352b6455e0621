-------------------------- MODULE MCDownloadQuota ---------------------------
(* DownloadQuota for TLC, with the months MonthWindow computes, and what the *)
(* windows of MonthWindow are for the periods a subscription can have.       *)
EXTENDS DownloadQuota, MonthWindow, FiniteSetsExt, TLC

Date(year, month, day) == [month |-> 12 * (year - 2000) + month - 1, day |-> day]

\* Moments of a subscription granted on 31 January for three months, whose
\* first window ends on 3 March: the two sides of that day, and one side only.
Window(d) == resolveCurrentMonthWindow(Date(2026, 1, 31), Date(2026, 5, 1), d)
TwoMonths == [t \in Times |-> Window(Date(2026, 3, 2 + t)).monthStart.month]
OneMonth == [t \in Times |-> Window(Date(2026, 3, 3 + t)).monthStart.month]

Symmetry == Permutations(Requests)

-----------------------------------------------------------------------------
(* Windows of periods that begin around the end of any month of four years.  *)

NextDay(d) == IF d.day < DaysIn(d.month) THEN [d EXCEPT !.day = @ + 1]
              ELSE [month |-> d.month + 1, day |-> 1]
DayAfter(d, n) == LET after[i \in 0..n] == IF i = 0 THEN d ELSE NextDay(after[i - 1])
                  IN  after[n]
DayOf(m, anchor) == [month |-> m, day |-> Min({anchor, DaysIn(m)})]
Begins == {d \in [month : 312..359, day : {1, 28, 29, 30, 31}] : IsDate(d)}

\* Grants are of 1, 3 or 6 months.
Grants == {[from |-> d, to |-> GrantEnd(d, n), months |-> n] : d \in Begins, n \in {1, 3, 6}}

\* Stripe ends a period on its anchor, or on the last day of a shorter month.
Bills == {[from |-> DayOf(m, anchor), to |-> DayOf(m + n, anchor), months |-> n] :
            m \in 312..359, anchor \in {1, 28, 29, 30, 31}, n \in {1, 12}}

DaysOf(p) == {d \in [month : p.from.month..p.to.month, day : 1..31] :
                IsDate(d) /\ Inside(d, p.from, p.to)}
WindowsOf(p) == {resolveCurrentMonthWindow(p.from, p.to, d) : d \in DaysOf(p)}

\* Each day of a period is in the window that is found for it, and in no other:
\* the windows follow each other from the first day to the last.
ASSUME WindowsTilePeriods ==
    \A p \in Grants \cup Bills :
        LET found == [d \in DaysOf(p) |-> resolveCurrentMonthWindow(p.from, p.to, d)]
        IN  /\ found[p.from].monthStart = p.from
            /\ \A d \in DaysOf(p) :
                  /\ Inside(d, found[d].monthStart, found[d].monthEnd)
                  /\ IF NextDay(d) = found[d].monthEnd
                     THEN NextDay(d) = p.to \/ found[NextDay(d)].monthStart = NextDay(d)
                     ELSE found[NextDay(d)] = found[d]

\* A grant has as many windows as months; setMonth, which a window applies month
\* by month and the grant at once, leaves at most two days over for one more.
ASSUME GrantsHaveTheirMonths ==
    \A p \in Grants :
        LET more == {w \in WindowsOf(p) : ~Before(DayAfter(w.monthStart, 2), p.to)}
        IN  \/ Cardinality(WindowsOf(p)) = p.months
            \/ Cardinality(WindowsOf(p)) = p.months + 1 /\ more # {}

\* Of a period of Stripe one more window is left over than it has months when
\* the period begins on the last day of a month that is shorter than the one
\* it ends in, and is of at most three days.
ASSUME BillsHaveTheirMonths ==
    \A p \in Bills :
        LET more == {w \in WindowsOf(p) : ~Before(DayAfter(w.monthStart, 3), p.to)}
        IN  \/ Cardinality(WindowsOf(p)) = p.months
            \/ /\ Cardinality(WindowsOf(p)) = p.months + 1 /\ more # {}
               /\ p.from.day < p.to.day

\* The history counts by calendar months, the limit by windows: the two are the
\* same throughout a period that begins on the first of a month, and no other.
ASSUME HistoryCountsByWindow ==
    \A p \in Grants :
        p.from.day = 1 <=>
            \A d \in DaysOf(p) : findDownloadHistoryMonthBoundary(d)
                                     = resolveCurrentMonthWindow(p.from, p.to, d)
=============================================================================
