---- MODULE LegalDeadlines ----
(* The end of a legal deadline: computeLegalDeadline in                         *)
(* apps/api/src/modules/sponsum/jurisdiction-deadlines.ts, one action for each  *)
(* turn of its loops, and the calendar it asks.                                 *)
(*                                                                              *)
(* A day is its number since 1970-01-01. The procedure is taken up for the      *)
(* deliveries of a period, one day after the other.                             *)
EXTENDS Integers, FiniteSets

CONSTANTS
    FirstDay, LastDay,  \* bound: the period of the deliveries
    Horizon             \* bound: days after it that the calendar covers

ASSUME PeriodAssumption ==
    FirstDay \in Nat /\ LastDay \in Nat /\ Horizon \in Nat /\ FirstDay > 400

VARIABLES
    family,     \* the procedure of the dispute
    frist,      \* one of its deadlines: days and regime
    delivery,   \* the day it was served
    at,         \* the loop that runs
    day,        \* the variable of that name
    counted,    \* the days or working days that the loop has counted
    turn,       \* the loop's guard
    last        \* where the deadline ended that was served a day earlier

deadlineVars == <<family, frist, delivery, at, day, counted, turn, last>>

-----------------------------------------------------------------------------
(* The calendar of Date, in UTC: days of a proleptic Gregorian year that is   *)
(* counted from March.                                                        *)

DayOf(year, month, date) ==
    LET y == IF month <= 2 THEN year - 1 ELSE year
        m == (month + 9) % 12
    IN 365 * y + y \div 4 - y \div 100 + y \div 400 + (153 * m + 2) \div 5 + date - 719469

YearOf(d) == CHOOSE y \in 1970..2100 : DayOf(y, 1, 1) <= d /\ d < DayOf(y + 1, 1, 1)

Weekday(d) == (d + 4) % 7

Calendar == (FirstDay - 400)..(LastDay + Horizon)

Years == {YearOf(FirstDay - 400), YearOf(FirstDay)} \cup YearOf(FirstDay)..YearOf(LastDay + Horizon)

(* The days from one date of a year to another one. *)
Span(year, m1, d1, m2, d2) == DayOf(year, m1, d1)..DayOf(year, m2, d2)

-----------------------------------------------------------------------------
(* Holidays and standstills. *)

easterSunday(year) ==
    LET a == year % 19
        b == year \div 100
        c == year % 100
        d == b \div 4
        e == b % 4
        f == (b + 8) \div 25
        g == (b - f + 1) \div 3
        h == (19 * a + b - d - g + 15) % 30
        i == c \div 4
        k == c % 4
        l == (32 + 2 * e + 2 * i - h - k) % 7
        m == (a + 11 * h + 22 * l) \div 451
        s == h + l - 7 * m + 114
    IN DayOf(year, s \div 31, (s % 31) + 1)

Easter == [y \in Years |-> easterSunday(y)]

isSwissFederalHoliday ==
    UNION {{DayOf(y, 1, 1), DayOf(y, 1, 2), DayOf(y, 8, 1), DayOf(y, 12, 25), DayOf(y, 12, 26),
            Easter[y] - 2, Easter[y] + 1, Easter[y] + 39, Easter[y] + 50} : y \in Years}

isBusinessDay == {d \in Calendar : Weekday(d) \notin {0, 6}} \ isSwissFederalHoliday

inEasterWindow == UNION {(Easter[y] - 7)..(Easter[y] + 7) : y \in Years}

courtStandstill ==
    inEasterWindow \cup UNION {Span(y, 7, 15, 8, 15) \cup Span(y, 12, 18, 12, 31)
                                   \cup Span(y, 1, 1, 1, 2) : y \in Years}

debtEnforcementHoliday ==
    inEasterWindow \cup UNION {Span(y, 7, 15, 7, 31) \cup Span(y, 12, 18, 12, 31)
                                   \cup {DayOf(y, 1, 1)} : y \in Years}

(* What the guards of the loops rely on, of every stretch of the period: of    *)
(* any 70 days 30 do not stand still, of any 51 days one is a working day     *)
(* outside standstill and holidays, of any 17 days one is a working day.      *)
ASSUME CalendarServes ==
    /\ \A d \in FirstDay..LastDay : Cardinality(((d + 1)..(d + 70)) \ courtStandstill) >= 30
    /\ \A d \in FirstDay..(LastDay + 120) : \E e \in d..(d + 50) :
           e \in isBusinessDay \ (courtStandstill \cup debtEnforcementHoliday)
    /\ \A d \in FirstDay..(LastDay + 30) : \E e \in d..(d + 16) : e \in isBusinessDay

-----------------------------------------------------------------------------
(* The procedures and their deadlines. *)

PROCEDURE_FAMILIES == {"zpo", "stpo", "admin", "schkg"}

(* The procedure that the user chose, or what the file speaks of first: a     *)
(* debt collection, a criminal case, an administrative case.                  *)
inferFamily(marks) ==
    IF "betreibung" \in marks THEN "schkg"
    ELSE IF "straf" \in marks THEN "stpo"
    ELSE IF "verwaltung" \in marks THEN "admin"
    ELSE "zpo"

(* assessJurisdiction: the deadlines of each family of procedures, and the    *)
(* fiction of delivery of Justitia.swiss that stands with all of them.        *)
ZpoFristen   == [days: {20, 30}, regime: {"zpo"}]
StpoFristen  == [days: {10}, regime: {"stpo"}]
AdminFristen == [days: {30}, regime: {"federal-admin"}]
SchkgFristen == [days: {10, 20}, regime: {"schkg"}]

Fristen(f) ==
    {[days |-> 7, regime |-> "fiction"]}
    \cup {d \in ZpoFristen : f = "zpo"} \cup {d \in StpoFristen : f = "stpo"}
    \cup {d \in AdminFristen : f = "admin"} \cup {d \in SchkgFristen : f = "schkg"}

Standstill == frist.regime \in {"zpo", "federal-admin"}

(* Where the computation begins for a day of delivery. *)
Delivered(d) ==
    /\ delivery' = d
    /\ counted' = 0
    /\ turn' = 0
    /\ IF frist'.regime = "fiction"
       THEN at' = "done" /\ day' = d + frist'.days
       ELSE IF frist'.regime \in {"zpo", "federal-admin"}
       THEN at' = "count" /\ day' = d + 1
       ELSE IF frist'.regime = "stpo"
       THEN at' = "shift" /\ day' = d + 1 + frist'.days - 1
       ELSE at' = "effective" /\ day' = d

DeadlineInit ==
    /\ \E asked \in PROCEDURE_FAMILIES \cup {"none"},
          marks \in SUBSET {"betreibung", "straf", "verwaltung"} :
           family = IF asked = "none" THEN inferFamily(marks) ELSE asked
    /\ frist \in Fristen(family)
    /\ delivery = FirstDay - 1
    /\ at = "done"
    /\ day = 0
    /\ counted = 0
    /\ turn = 0
    /\ last = 0

(* The file's date of delivery is moved to the next day. *)
NextDelivery ==
    /\ at = "done" /\ delivery < LastDay
    /\ last' = day
    /\ UNCHANGED <<family, frist>>
    /\ Delivered(delivery + 1)

-----------------------------------------------------------------------------
(* The loops. *)

GoesOn(where, d) ==
    /\ at' = where
    /\ day' = d
    /\ UNCHANGED <<family, frist, delivery, last>>

\* Mutant: what is served in a standstill runs at once.
CountDay_AtOnce ==
    LET stands == day \in courtStandstill /\ delivery \notin courtStandstill IN
    /\ at = "count"
    /\ counted' = IF stands THEN counted ELSE counted + 1
    /\ IF ~stands /\ counted' >= frist.days
       THEN GoesOn("shift", day) /\ turn' = 0
       ELSE GoesOn("count", day + 1) /\ turn' = turn + 1

(* zpo, federal-admin: days outside a standstill are counted; the day that    *)
(* completes them is where the shift begins.                                  *)
CountDay ==
    /\ at = "count"
    /\ counted' = IF day \in courtStandstill THEN counted ELSE counted + 1
    /\ IF day \notin courtStandstill /\ counted' >= frist.days
       THEN GoesOn("shift", day) /\ turn' = 0
       ELSE GoesOn(IF turn = 999 THEN "shift" ELSE "count", day + 1)
            /\ turn' = IF turn = 999 THEN 0 ELSE turn + 1

\* Mutant: only the working day is looked for.
Shut_NotInStandstill(d) == d \notin isBusinessDay

(* A day on which no deadline ends. *)
Shut(d) == d \notin isBusinessDay \/ (Standstill /\ d \in courtStandstill)

(* The end moves to the next working day: at most 60 turns, in criminal       *)
(* procedure 16, in debt collection as often as it takes.                     *)
ShiftEnd ==
    /\ at = "shift"
    /\ UNCHANGED counted
    /\ IF Shut(day) /\ ~(Standstill /\ turn = 60) /\ ~(frist.regime = "stpo" /\ turn = 16)
       THEN GoesOn("shift", day + 1) /\ turn' = turn + 1
       ELSE GoesOn(IF frist.regime = "schkg" THEN "extend" ELSE "done", day) /\ turn' = 0

(* schkg: what is served in the holidays of debt enforcement takes effect on  *)
(* the first day after them.                                                  *)
EffectiveDay ==
    /\ at = "effective"
    /\ UNCHANGED <<counted, turn>>
    /\ IF day \in debtEnforcementHoliday
       THEN GoesOn("effective", day + 1)
       ELSE GoesOn("shift", day + frist.days)

(* An end in those holidays is moved behind them ... *)
ExtendEnd ==
    /\ at = "extend"
    /\ UNCHANGED <<counted, turn>>
    /\ IF day \in debtEnforcementHoliday THEN GoesOn("behind", day + 1) ELSE GoesOn("done", day)

LeaveHoliday ==
    /\ at = "behind"
    /\ UNCHANGED <<counted, turn>>
    /\ IF day \in debtEnforcementHoliday THEN GoesOn("behind", day + 1) ELSE GoesOn("third", day - 1)

(* ... to the third working day. *)
ThirdDay ==
    /\ at = "third"
    /\ UNCHANGED turn
    /\ counted' = IF day + 1 \in isBusinessDay THEN counted + 1 ELSE counted
    /\ GoesOn(IF counted' < 3 THEN "third" ELSE "done", day + 1)

DeadlineNext ==
    \/ NextDelivery
    \/ CountDay \/ ShiftEnd
    \/ EffectiveDay \/ ExtendEnd \/ LeaveHoliday \/ ThirdDay

DeadlineSpec == DeadlineInit /\ [][DeadlineNext]_deadlineVars

-----------------------------------------------------------------------------
(* What the law says. *)

FirstFrom(d, S) == CHOOSE e \in S : e >= d /\ \A x \in d..(e - 1) : x \notin S

(* Art. 142, 145, 146 ZPO; Art. 22a VwVG, Art. 46 BGG: as many days outside   *)
(* the standstill as the deadline has, and then the first working day that    *)
(* does not stand still.                                                      *)
WithStandstill ==
    \E full \in (delivery + 1)..day :
        /\ full \notin courtStandstill
        /\ Cardinality(((delivery + 1)..full) \ courtStandstill) = frist.days
        /\ day = FirstFrom(full, isBusinessDay \ courtStandstill)

(* Art. 31, 56, 63 SchKG: from the delivery or the first day after the        *)
(* holidays; an end in the holidays is extended to the third working day      *)
(* after them.                                                                *)
WithEnforcementHolidays ==
    LET free == Calendar \ debtEnforcementHoliday
        end == FirstFrom(FirstFrom(delivery, free) + frist.days, isBusinessDay)
        behind == FirstFrom(end, free)
    IN IF end \in free THEN day = end
       ELSE day \in isBusinessDay /\ Cardinality((behind..day) \cap isBusinessDay) = 3

(* However the loops run across standstills, holidays and the turn of the     *)
(* year, and whichever guard ends them, the deadline ends on the day that the *)
(* articles give which the code names: Art. 90 StPO without any standstill,   *)
(* the fiction of delivery after calendar days.                               *)
EndsAsTheLawSays ==
    at = "done" /\ delivery >= FirstDay =>
        CASE Standstill -> WithStandstill
          [] frist.regime = "stpo" -> day = FirstFrom(delivery + frist.days, isBusinessDay)
          [] frist.regime = "schkg" -> WithEnforcementHolidays
          [] frist.regime = "fiction" -> day = delivery + frist.days

(* Being served a day later never makes a deadline end earlier, but in debt   *)
(* enforcement, where Art. 63 extends the ends that fall in the holidays and  *)
(* not those that fall right after them.                                      *)
LaterServiceLaterEnd ==
    at = "done" /\ frist.regime # "schkg" => last <= day
====
