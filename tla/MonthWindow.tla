----------------------------- MODULE MonthWindow ------------------------------
(* The monthly windows of a subscription, in which downloads are counted:    *)
(* resolveCurrentMonthWindow and addMonthsToDate of                          *)
(* src/videos/videos.service.ts, the period of a grant                       *)
(* (src/users/users.service.ts), and the dates they rest on.  Moments are    *)
(* taken a day apart, at the time of day the period begins.                  *)
EXTENDS Integers

\* Months are counted from January 2000.
IsLeap(year) == year % 4 = 0 /\ (year % 100 # 0 \/ year % 400 = 0)
DaysIn(m) == CASE m % 12 = 1 -> IF IsLeap(m \div 12) THEN 29 ELSE 28
               [] m % 12 \in {3, 5, 8, 10} -> 30
               [] OTHER -> 31

Days == [month : Nat, day : 1..31]
IsDate(d) == d \in Days /\ d.day <= DaysIn(d.month)

Before(a, b) == \/ a.month < b.month
                \/ a.month = b.month /\ a.day < b.day

\* setMonth: a day the month does not have is one of the month after.
addMonthsToDate(date, months) ==
    LET m == date.month + months
    IN  IF date.day <= DaysIn(m) THEN [month |-> m, day |-> date.day]
        ELSE [month |-> m + 1, day |-> date.day - DaysIn(m)]

\* The period of a manual grant, which setMonth reaches in one go
GrantEnd(from, months) == addMonthsToDate(from, months)

\* The end of the window that begins at monthStart.
MonthEnd(monthStart, periodEnd) ==
    LET nextMonthStart == addMonthsToDate(monthStart, 1)
    IN  IF Before(nextMonthStart, periodEnd) THEN nextMonthStart ELSE periodEnd

Inside(d, from, to) == ~Before(d, from) /\ Before(d, to)

NoWindow == [monthStart |-> "none", monthEnd |-> "none"]

\* The loop goes from window to window until one holds now.
resolveCurrentMonthWindow(periodStart, periodEnd, now) ==
    LET search[monthStart \in Days] ==
            LET monthEnd == MonthEnd(monthStart, periodEnd)
            IN  IF ~Before(monthStart, periodEnd) THEN NoWindow
                ELSE IF Inside(now, monthStart, monthEnd)
                     THEN [monthStart |-> monthStart, monthEnd |-> monthEnd]
                     ELSE search[monthEnd]
    IN  search[periodStart]

\* The month by which the history counts what was downloaded
findDownloadHistoryMonthBoundary(downloadedAt) ==
    [monthStart |-> [downloadedAt EXCEPT !.day = 1],
     monthEnd |-> addMonthsToDate([downloadedAt EXCEPT !.day = 1], 1)]
=============================================================================
