------------------------------ MODULE Schedule ------------------------------
(***************************************************************************)
(* When an action may run: the working schedule of the safety gate, the    *)
(* due time of a delayed step, the scheduler's working window, and the     *)
(* allocator that spreads a batch of enrollments over days.  All are pure  *)
(* functions of local time; each is checked against what it should return  *)
(* on every schedule of a short week of short days.                        *)
(*                                                                         *)
(* A time is a number of half hours since local midnight of day 0, a day   *)
(* has Hours hours, and day d is the weekday d % Week.  Clock changes are  *)
(* not modelled.                                                           *)
(***************************************************************************)
EXTENDS Integers, Sequences, FiniteSets, FiniteSetsExt

CONSTANTS
    Hours,      \* hours in a day
    Week,       \* days in a week
    Cap,        \* the daily cap of the first step's action type
    MaxLedger,  \* bound: first-step cursors enrolled before
    MaxClaims   \* bound: enrollments of the batch

ASSUME ScheduleAssumption ==
    /\ Hours \in Nat \ {0} /\ Week \in Nat \ {0} /\ Cap \in Nat \ {0}
    /\ MaxLedger \in Nat /\ MaxClaims \in Nat

None == -1
Day == 2 * Hours
DayOf(t) == t \div Day
HourOf(t) == (t % Day) \div 2
At(d, h) == d * Day + 2 * h
Weekday(d) == d % Week

-----------------------------------------------------------------------------
(* safety-gate.ts *)

\* A window whose start is not before its end disables the hour gate.
HourGateOn(s) == s.hoursStart < s.hoursEnd
StartHour(s) == IF HourGateOn(s) THEN s.hoursStart ELSE 0

InWindow(t, s) ==
    /\ Weekday(DayOf(t)) \in s.days
    /\ ~HourGateOn(s) \/ HourOf(t) \in s.hoursStart .. s.hoursEnd - 1

\* scheduleDefer: None inside the window, else the first window start of an
\* active day ahead, or a week out when no day is active.
ScheduleDefer(t, s) ==
    LET starts == {At(DayOf(t) + i, StartHour(s)) : i \in 0 .. Week}
        open == {c \in starts : c > t /\ Weekday(DayOf(c)) \in s.days} IN
    IF InWindow(t, s) THEN None
    ELSE IF open # {} THEN Min(open) ELSE At(DayOf(t) + Week, StartHour(s))

-----------------------------------------------------------------------------
(* advance.ts *)

\* dueAfterDelay: due at once, exact within a day, else the window start of the
\* target calendar day or of the next active day.
DueAfterDelay(t, delay, s) ==
    LET raw == t + delay
        mornings == {At(DayOf(raw) + i, s.hoursStart) : i \in 0 .. Week}
        active == {c \in mornings : Weekday(DayOf(c)) \in s.days} IN
    IF delay <= 0 THEN None
    ELSE IF delay < Day THEN raw
    ELSE IF active # {} THEN Min(active) ELSE At(DayOf(raw) + Week + 1, s.hoursStart)

-----------------------------------------------------------------------------
(* working-hours.ts; the window is hours and days as above *)

IsWithinWorkingHours(t, s) ==
    Weekday(DayOf(t)) \in s.days /\ HourOf(t) >= s.hoursStart /\ HourOf(t) < s.hoursEnd

\* One turn of nextWorkingInstant's loop outside the window: to today's start
\* hour, the minutes kept, or an hour on.
Advance(t, s) ==
    IF Weekday(DayOf(t)) \in s.days /\ HourOf(t) < s.hoursStart
    THEN t + 2 * (s.hoursStart - HourOf(t))
    ELSE t + 2

\* The search is capped at two weeks of hours.
NextWorkingInstant(t, s) ==
    LET n == 2 * Week * Hours
        cursor[i \in 0 .. n] ==
          IF i = 0 THEN t
          ELSE LET c == cursor[i - 1] IN IF IsWithinWorkingHours(c, s) THEN c ELSE Advance(c, s)
    IN  cursor[n]

-----------------------------------------------------------------------------
(* stagger.ts *)

VARIABLES now, sched, ledger, given

vars == <<now, sched, ledger, given>>

\* Day keys: an overdue or immediate entry counts against today.
DayKey(at) == DayOf(IF at > now THEN at ELSE now)

Count(seq, d) == Cardinality({i \in DOMAIN seq : DayKey(seq[i]) = d})

\* Fault: what was handed out is not booked.
OccupancyLedger(d) == Count(ledger, d)

\* The occupancy map: the ledger of committed cursors and what was handed out.
Occupancy(d) == Count(ledger, d) + Count(given, d)

\* The slot of day offset n, and an offset by which some slot must be free.
Slot(n) == IF n = 0 THEN None ELSE DueAfterDelay(now, n * Day, sched)
Horizon == (Week + 1) * (MaxLedger + MaxClaims + 1)

\* next(): the first offset whose day has room.
NextSlot == Slot(Min({n \in 0 .. Horizon : Occupancy(DayKey(Slot(n))) < Cap}))

Claim ==
    /\ Len(given) < MaxClaims
    /\ given' = Append(given, NextSlot)
    /\ UNCHANGED <<now, sched, ledger>>

Schedules == [hoursStart : 0 .. Hours - 1, hoursEnd : 0 .. Hours, days : SUBSET (0 .. Week - 1)]

\* The ledger holds due times already given out: none, or a window start.
Init ==
    /\ now \in 0 .. Week * Day - 1
    /\ sched \in Schedules
    /\ \E n \in 0 .. MaxLedger, first \in 0 .. Week :
         ledger = [i \in 1 .. n |-> IF first = 0 THEN None
                                    ELSE DueAfterDelay(now, first * Day, sched)]
    /\ given = <<>>

Next == Claim

Spec == Init /\ [][Next]_vars

-----------------------------------------------------------------------------
(* Properties *)

\* scheduleDefer answers the earliest sendable moment: none when it is now,
\* else the next half hour at which the window is open.
DeferIsEarliest ==
    sched.days # {} =>
        LET d == ScheduleDefer(now, sched) IN
        IF d = None THEN InWindow(now, sched)
        ELSE /\ d > now /\ InWindow(d, sched)
             /\ \A t \in now .. d - 1 : ~InWindow(t, sched)

\* A step delayed by days comes due in the future, on an active day no earlier
\* than asked for, none skipped, and the gate will not defer it again.
DelayLandsInWindow ==
    \A n \in 1 .. Week :
        LET due == DueAfterDelay(now, n * Day, sched) IN
        sched.days # {} =>
            /\ due > now /\ DayOf(due) >= DayOf(now) + n
            /\ Weekday(DayOf(due)) \in sched.days
            /\ \A d \in DayOf(now) + n .. DayOf(due) - 1 : Weekday(d) \notin sched.days
            /\ HourGateOn(sched) => ScheduleDefer(due, sched) = None

\* Both halves of the gate's calendar: when a refused action comes back, and
\* when a delayed step is due.
WorkingTimeIsFound == DeferIsEarliest /\ DelayLandsInWindow

\* The day on which the gate lets an entry run.
FiringDay(at) ==
    LET t == IF at > now THEN at ELSE now
        d == ScheduleDefer(t, sched) IN
    DayOf(IF d = None THEN t ELSE d)

\* No assignment pushes a day past the cap, with the exception the allocator
\* leaves: a batch enrolled on a day off, or after hours, fills "today", which
\* the gate puts off to the next active morning on top of that morning's own.
StaggerDoublesOnlyFromDayOff ==
    sched.days # {} =>
        \A d \in {FiringDay(given[i]) : i \in DOMAIN given} :
            LET firing == {i \in DOMAIN given : FiringDay(given[i]) = d}
                today  == {i \in firing : DayKey(given[i]) = DayOf(now)} IN
            /\ Cardinality(firing \ today) <= Cap
            /\ Cardinality(firing) <= Cap \/ FiringDay(None) # DayOf(now)
=============================================================================
