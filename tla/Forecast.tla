------------------------------ MODULE Forecast ------------------------------
(***************************************************************************)
(* The Scheduled table of the web desk: when queued sends of one account   *)
(* and one action type are forecast to go out.  Sends with a known time    *)
(* keep it; the backlog that is due now is laddered over working days, up  *)
(* to the daily cap, behind what today has already used.                   *)
(*                                                                         *)
(* Rows arrive as the query returns them: by due time, those without one   *)
(* first.                                                                  *)
(***************************************************************************)
EXTENDS Schedule

CONSTANT MaxRows  \* bound: rows of the table

ASSUME ForecastAssumption == MaxRows \in Nat

VARIABLES
    rows,  \* the queued cursors: state and due time
    used,  \* sends of this type today
    cap    \* the cap, 0 when the action type is switched off

forecastVars == <<rows, used, cap>>

-----------------------------------------------------------------------------
(* queries.ts: the forecast *)

\* projWindowStart: the copy of dueAfterDelay the read model keeps.
ProjWindowStart(t, delay, s) ==
    LET raw == t + delay
        mornings == {At(DayOf(raw) + i, s.hoursStart) : i \in 0 .. Week}
        active == {c \in mornings : Weekday(DayOf(c)) \in s.days} IN
    IF delay <= 0 THEN None
    ELSE IF delay < Day THEN raw
    ELSE IF active # {} THEN Min(active) ELSE At(DayOf(raw) + Week + 1, s.hoursStart)

IsBacklog(r) == r.state = "in_progress" /\ r.at <= now

\* Fault: the ladder starts from an empty day, whatever went out already.
SeededUnused(d) ==
    Cardinality({i \in DOMAIN rows : ~IsBacklog(rows[i]) /\ rows[i].at # None /\ DayKey(rows[i].at) = d})

\* The seed of a day: what was sent today, and every row with a time.
Seeded(d) ==
    Cardinality({i \in DOMAIN rows : ~IsBacklog(rows[i]) /\ rows[i].at # None /\ DayKey(rows[i].at) = d})
    + (IF d = DayOf(now) THEN used ELSE 0)

Rung(n) == IF n = 0 THEN None ELSE ProjWindowStart(now, n * Day, sched)

Rungs == 0 .. (Week + 1) * (2 * MaxRows + Cap + 1)

\* DaySlotter.next, with what it handed out so far: the first day with room,
\* or a week out when the type is off.
DaySlot(out) ==
    LET taken(d) == Seeded(d) + Cardinality({i \in DOMAIN out : IsBacklog(rows[i]) /\ DayKey(out[i]) = d}) IN
    IF cap <= 0 THEN ProjWindowStart(now, Week * Day, sched)
    ELSE Rung(Min({n \in Rungs : taken(DayKey(Rung(n))) < cap}))

\* projectScheduledSends: one projected time per row, in their order.
ProjectScheduledSends ==
    LET out[i \in 0 .. Len(rows)] ==
          IF i = 0 THEN <<>>
          ELSE Append(out[i - 1], IF IsBacklog(rows[i]) THEN DaySlot(out[i - 1]) ELSE rows[i].at)
    IN  out[Len(rows)]

\* getScheduled: the cursors that are in progress or hold a draft, in order.
GetScheduled ==
    /\ Len(rows) < MaxRows
    /\ \E state \in {"in_progress", "awaiting_approval"},
          at \in {None, now} \cup {DueAfterDelay(now, n * Day, sched) : n \in 1 .. 2} :
        /\ \A i \in DOMAIN rows : rows[i].at <= at
        /\ rows' = Append(rows, [state |-> state, at |-> at])
    /\ UNCHANGED <<used, cap>>

ForecastInit == rows = <<>> /\ used \in 0 .. Cap /\ cap \in {0, Cap} /\ (cap = 0 => used = 0)
ForecastIdle == rows = <<>> /\ used = 0 /\ cap = Cap

ForecastNext == GetScheduled /\ UNCHANGED vars

ForecastSpec == Init /\ ForecastInit /\ [][ForecastNext]_<<vars, forecastVars>>

-----------------------------------------------------------------------------
(* The table tells what dispatch will do with the backlog: a day gets no more
   than the cap, counting what went out today and every send that already has
   a time; no working day is passed over while it has room; and the one that
   has waited longest goes first. *)
ForecastFillsDays ==
    LET sends == ProjectScheduledSends
        back  == {i \in DOMAIN rows : IsBacklog(rows[i])}
        real(d) == (IF d = DayOf(now) THEN used ELSE 0)
                   + Cardinality({i \in DOMAIN rows : /\ i \in back \/ rows[i].at # None
                                                      /\ DayKey(sends[i]) = d}) IN
    cap > 0 =>
        \A i \in back :
            LET d == DayKey(sends[i]) IN
            /\ real(d) <= cap
            /\ \A e \in DayOf(now) .. d - 1 :
                   e = DayOf(now) \/ Weekday(e) \in sched.days => real(e) >= cap
            /\ \A j \in back : i < j => d <= DayKey(sends[j])
=============================================================================
