---------------------------- MODULE WalkForward ----------------------------
(***************************************************************************)
(* The calendar of an evaluation: walk-forward windows of whole months.     *)
(* Times are minutes from the first midnight of a calendar whose month      *)
(* lengths repeat after MonthLengths.                                       *)
(***************************************************************************)
EXTENDS Integers, Sequences

CONSTANTS
  MonthLengths,                             \* in days
  DayLength                                 \* in minutes

ASSUME CalendarAssumption ==
  /\ MonthLengths \in Seq(Nat \ {0}) /\ MonthLengths # <<>>
  /\ DayLength \in Nat \ {0}

\* calendar.monthrange
MonthLength(k) == MonthLengths[1 + (k % Len(MonthLengths))]
MonthStart[k \in Nat] ==
  IF k = 0 THEN 0 ELSE MonthStart[k - 1] + DayLength * MonthLength(k - 1)
MonthOf(t) == CHOOSE k \in 0..t : MonthStart[k] <= t /\ t < MonthStart[k + 1]

\* add_months: the same day and time of a later month, or its last day.
AddMonths(t, months) ==
  LET k    == MonthOf(t)
      day  == (t - MonthStart[k]) \div DayLength
      last == MonthLength(k + months) - 1
  IN MonthStart[k + months] + DayLength * (IF day < last THEN day ELSE last) + (t % DayLength)

\* walk_forward_windows: each starts where the last one ended; the last is cut.
Boundary(start, end, months) ==
  LET cut(t) == IF t > end THEN end ELSE t
      b[i \in Nat] == IF i = 0 THEN start ELSE cut(AddMonths(b[i - 1], months))
  IN b
Windows(start, end, months) ==
  LET b == Boundary(start, end, months)
  IN {<<b[i], b[i + 1]>> : i \in {j \in 0..(end - start) : b[j] < end}}

\* Mutant: both ends belong to a window.
InClosed(t, window) == window[1] <= t /\ t <= window[2]
\* in_half_open
InHalfOpen(t, window) == window[1] <= t /\ t < window[2]

=============================================================================
