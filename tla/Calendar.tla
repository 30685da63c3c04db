-------------------------------- MODULE Calendar --------------------------------
(***************************************************************************)
(* When a repeating chore is due: one series, whose current occurrence is  *)
(* completed or cancelled and makes the next one.  Time is counted in half *)
(* days from the midnight in which day 0 begins; day 0 is the first of a   *)
(* month and a Sunday.  Household leaves the times out.                    *)
(***************************************************************************)
EXTENDS Integers, Sequences, FiniteSetsExt

CONSTANTS Months,     \* the lengths of the months, in days
          Horizon,   \* bound: no time goes beyond it
          Steps       \* bound: how many half days may pass at a time

\* The loops of the code give up after 1000 intervals of a day or more.
ASSUME CalendarAssumption ==
    /\ Months \in Seq(28..31) /\ Horizon \in 0..2000 /\ Steps \subseteq Nat

VARIABLES repeat,   \* the recurrence of the series, with what is left of it
          due,      \* when its current occurrence is due
          clock,    \* now
          over,     \* whether the series has ended
          holiday,  \* the last day of the holiday block that was applied last, or -1
          origin,   \* history: the last due time that was set by hand or by a holiday
          made,     \* history: of a series with a count, its occurrences since that was set
          quota     \* history: how many were asked for then

calendar == <<repeat, due, clock, over, holiday, origin, made, quota>>

Types == {"daily", "weekly", "monthly", "every x days", "custom weekly", "none"}
Repeat == [type: Types, every: Nat \ {0}, days: SUBSET (0..6), from: {"due", "done"},
           ends: {"never", "after", "on"}, left: Nat, until: Nat]

CalendarTypeOK ==
    /\ repeat \in Repeat /\ {due, clock, origin} \subseteq Nat
    /\ over \in BOOLEAN /\ holiday \in Nat \cup {-1} /\ {made, quota} \subseteq Nat

-----------------------------------------------------------------------------
(* Times                                                                     *)

Day(t) == t \div 2
StartOf(d) == 2 * d
Weekday(t) == Day(t) % 7

FirstOf[m \in 0..Len(Months)] == IF m = 0 THEN 0 ELSE FirstOf[m - 1] + Months[m]
ASSUME MonthsAssumption == Horizon < StartOf(FirstOf[Len(Months)])
MonthOf(t) == Max({m \in 0..(Len(Months) - 1) : FirstOf[m] <= Day(t)})
DayOfMonth(t) == Day(t) - FirstOf[MonthOf(t)]

\* calculateRecurringDueAt.  A month that has no such day passes it on to the next.
Following(t) ==
    CASE repeat.type = "daily" -> t + 2
      [] repeat.type = "weekly" -> t + 14
      [] repeat.type = "every x days" -> t + 2 * repeat.every
      [] repeat.type = "custom weekly" -> Min({u \in {t + 2 * k : k \in 1..7} : Weekday(u) \in repeat.days})
      [] repeat.type = "monthly" -> t + 2 * Months[MonthOf(t) + 1]
Recurs == repeat.type # "none" /\ (repeat.type = "custom weekly" => repeat.days # {})

HalfInterval ==
    CASE repeat.type = "weekly" -> 7
      [] repeat.type = "monthly" -> 30
      [] repeat.type = "every x days" -> repeat.every
      [] OTHER -> 1

\* t advanced, one interval at a time, to the first time that is not before least.
AtLeast(t, least) ==
    LET from[u \in Nat] == IF u >= least THEN u ELSE from[Following(u)]
    IN  from[t]

-----------------------------------------------------------------------------
(* createRecurringInstance                                                   *)

\* From the completion or the due time, as the recurrence says.
Base(how) == IF how = "completion" /\ repeat.from = "done" THEN clock ELSE due

\* The end is looked at before the times in the past are skipped.
RunsOut(how) ==
    \/ repeat.ends = "after" /\ repeat.left = 0
    \/ repeat.ends = "on" /\ Following(Base(how)) > repeat.until

\* As if a series that is behind went on from now.
CaughtUpFromNow(how) ==
    IF Following(Base(how)) > clock THEN Following(Base(how)) ELSE Following(clock)
CaughtUp(how) == AtLeast(Following(Base(how)), clock + 1)
\* As if the next occurrence could follow at once.
SpacedOnce(how) == CaughtUp(how)
Spaced(how) ==
    IF how = "completion" /\ repeat.from = "due"
    THEN AtLeast(CaughtUp(how), clock + HalfInterval)
    ELSE CaughtUp(how)

\* Applied blocks have begun, and do not overlap: the last one alone can matter.
OffHoliday(t) == IF Day(t) <= holiday THEN StartOf(holiday + 1) ELSE t
NextDueAt(how) == OffHoliday(Spaced(how))

\* As if the last occurrence were not counted.
CountedAlways == IF repeat.ends = "after" /\ repeat.left > 1 THEN repeat.left - 1 ELSE repeat.left
Counted == IF repeat.ends = "after" THEN repeat.left - 1 ELSE repeat.left

Close(how) ==
    /\ ~over
    /\ \/ /\ Recurs /\ ~RunsOut(how) /\ NextDueAt(how) <= Horizon
          /\ due' = NextDueAt(how)
          /\ made' = IF repeat.ends = "after" THEN made + 1 ELSE made
          /\ repeat' = [repeat EXCEPT !.left = Counted]
          /\ origin' = IF due' # Spaced(how) \/ Base(how) # due THEN due' ELSE origin
          /\ UNCHANGED over
       \/ /\ ~Recurs \/ RunsOut(how)
          /\ over' = TRUE /\ UNCHANGED <<due, made, repeat, origin>>
    /\ UNCHANGED <<clock, holiday, quota>>

\* closeCycle cancels what is open and makes nothing new.
CloseCycle ==
    /\ ~over /\ over' = TRUE
    /\ UNCHANGED <<repeat, due, clock, holiday, origin, made, quota>>

-----------------------------------------------------------------------------
(* Edits                                                                     *)

\* updateInstance: any due time; the end settings are kept or set anew, and an end
\* date has to be later than the due time.
Reschedule(t) ==
    /\ ~over
    /\ due' = t /\ origin' = t
    /\ UNCHANGED <<repeat, clock, over, holiday, made, quota>>
EndAfter(n) ==
    /\ ~over /\ Recurs /\ n > 0
    /\ repeat' = [repeat EXCEPT !.ends = "after", !.left = n - 1]
    /\ made' = 1 /\ quota' = n
    /\ UNCHANGED <<due, clock, over, holiday, origin>>
EndOn(t) ==
    /\ ~over /\ Recurs /\ t > due
    /\ repeat' = [repeat EXCEPT !.ends = "on", !.until = t, !.left = 0]
    /\ UNCHANGED <<due, clock, over, holiday, origin, made, quota>>

\* A holiday begins today and defers the occurrence that is due in it, or leaves it.
BeginHoliday(last, defers) ==
    /\ holiday < Day(clock) /\ last > Day(clock) /\ holiday' = last
    /\ IF defers /\ ~over /\ Day(clock) <= Day(due) /\ Day(due) <= last
       THEN due' = StartOf(last + 1) /\ origin' = due'
       ELSE UNCHANGED <<due, origin>>
    /\ UNCHANGED <<repeat, clock, over, made, quota>>

Elapse(n) ==
    /\ clock + n <= Horizon /\ clock' = clock + n
    /\ UNCHANGED <<repeat, due, over, holiday, origin, made, quota>>

CalendarInit ==
    /\ over = FALSE /\ holiday = -1 /\ origin = due
    /\ made = 1 /\ quota = repeat.left + 1

\* The steps of a run in which only what is in some is done.
CalendarNext(some) ==
    \/ \E n \in Steps : Elapse(n)
    \/ Close("completion")
    \/ "cancel" \in some /\ (Close("cancellation") \/ CloseCycle)
    \/ "edit" \in some /\ \/ \E n \in 1..3 : Reschedule(clock + n) \/ EndAfter(n)
                          \/ EndOn(due + 9)
    \/ "holiday" \in some /\ \E n \in 1..2, defers \in BOOLEAN : BeginHoliday(Day(clock) + n, defers)

-----------------------------------------------------------------------------
(* Safety                                                                    *)

\* However late or early it is completed, a series that counts from its due times
\* keeps its rhythm: its interval, its weekdays, or its day of the month if every
\* month has such a day.
Period == CASE repeat.type = "daily" -> 2 [] repeat.type = "weekly" -> 14 [] OTHER -> 2 * repeat.every
OnTheGrid ==
    repeat.from = "due" /\ due # origin =>
        CASE repeat.type \in {"daily", "weekly", "every x days"} -> (due - origin) % Period = 0
          [] repeat.type = "custom weekly" -> Weekday(due) \in repeat.days /\ (due - origin) % 2 = 0
          [] repeat.type = "monthly" -> DayOfMonth(origin) < 28 => DayOfMonth(due) = DayOfMonth(origin)

\* A series that ends after a number of occurrences has that many, completed or
\* cancelled, unless it is closed before.
EndsAsTold == repeat.ends = "after" => made + repeat.left = quota

\* After a completion the next occurrence is due at least half an interval later, and
\* none is left out that would have been.  It is not after the end date, unless the
\* completion was late.  A holiday may move it.
Longest == CASE repeat.type = "monthly" -> 62 [] repeat.type = "custom weekly" -> 14 [] OTHER -> Period
Spacing ==
    (/\ due' # due /\ ~over' /\ repeat.from = "due" /\ Day(due') # holiday + 1
     /\ Close("completion")) =>
        /\ due' > clock /\ due' >= clock + HalfInterval
        /\ due' <= due + Longest \/ due' < clock + HalfInterval + Longest
        /\ repeat.ends = "on" /\ due' > repeat.until => clock > due
Cadence == [][Spacing]_calendar
=================================================================================
