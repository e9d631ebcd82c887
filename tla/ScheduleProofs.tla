--------------------------- MODULE ScheduleProofs ---------------------------
(***************************************************************************)
(* Theorems about Schedule, Forecast, Pacing, StepEditor, Feed, LiveReads  *)
(* and Views: the working calendar, the allocator of a batch, the forecast *)
(* of a backlog, the pacing of queued work, the sequence a campaign runs,  *)
(* the feeds of activity and errors, the reads of LinkedIn's lists and the *)
(* pages of the client, for every length of day and week, every cap and    *)
(* bound, and every set of writers, people and threads.                    *)
(***************************************************************************)
EXTENDS Forecast, Pacing, StepEditor, Feed, LiveReads, Views, Recursion, FiniteSetTheorems, SequenceTheorems
-----------------------------------------------------------------------------
(* The calendar: division, days and weekdays *)

LEMMA DayFacts == Hours \in Nat \ {0} /\ Day \in Nat \ {0} /\ Day = 2 * Hours /\ Week \in Nat \ {0}
BY ScheduleAssumption DEF Day

LEMMA Division ==
    ASSUME NEW t \in Int, NEW k \in Nat \ {0}
    PROVE  /\ t \div k \in Int /\ t % k \in 0 .. k - 1
           /\ t = (t \div k) * k + (t % k)
OBVIOUS

LEMMA DivisionIsUnique ==
    ASSUME NEW k \in Nat \ {0}, NEW q \in Int, NEW r \in 0 .. k - 1
    PROVE  (q * k + r) \div k = q /\ (q * k + r) % k = r
OBVIOUS

LEMMA Smaller ==
    ASSUME NEW k \in Nat \ {0}, NEW p \in Int, NEW q \in Int, p < q
    PROVE  p * k + k <= q * k /\ p * k \in Int /\ q * k \in Int
<1>1. q = p + 1 + (q - p - 1) /\ q - p - 1 \in Nat
  OBVIOUS
<1> QED  BY <1>1

LEMMA WeekdayReached ==
    ASSUME NEW d \in Nat, NEW w \in 0 .. Week - 1
    PROVE  \E i \in 0 .. Week - 1 : Weekday(d + i) = w
<1> DEFINE q == d \div Week
           r == d % Week
<1>1. Week \in Nat \ {0} /\ w \in Int
  BY DayFacts
<1>2. q \in Int /\ r \in 0 .. Week - 1 /\ d = q * Week + r
  BY <1>1, Division
<1> HIDE DEF q, r
<1>3. CASE r <= w
  <2>1. w - r \in 0 .. Week - 1 /\ d + (w - r) = q * Week + w
    BY <1>1, <1>2, <1>3
  <2>2. (q * Week + w) % Week = w
    BY <1>1, <1>2, DivisionIsUnique
  <2> QED  BY <2>1, <2>2 DEF Weekday
<1>4. CASE w < r
  <2>1. w - r + Week \in 0 .. Week - 1 /\ d + (w - r + Week) = (q + 1) * Week + w
    BY <1>1, <1>2, <1>4
  <2>2. ((q + 1) * Week + w) % Week = w
    BY <1>1, <1>2, DivisionIsUnique
  <2> QED  BY <2>1, <2>2 DEF Weekday
<1> QED  BY <1>1, <1>2, <1>3, <1>4

\* A time is its day and the half hours since midnight.
LEMMA TimeSplits ==
    ASSUME NEW t \in Nat
    PROVE  /\ DayOf(t) \in Nat /\ t % Day \in 0 .. Day - 1 /\ t = DayOf(t) * Day + (t % Day)
           /\ HourOf(t) \in 0 .. Hours - 1 /\ 2 * HourOf(t) <= t % Day /\ t % Day < 2 * HourOf(t) + 2
<1>1. Day \in Nat \ {0} /\ Day = 2 * Hours /\ Hours \in Nat \ {0}
  BY DayFacts
<1>2. t \div Day \in Int /\ t % Day \in 0 .. Day - 1 /\ t = (t \div Day) * Day + (t % Day)
  <2> DEFINE k == Day
  <2>1. k \in Nat \ {0} /\ t \in Int
    BY <1>1
  <2> HIDE DEF k
  <2>2. t \div k \in Int /\ t % k \in 0 .. k - 1 /\ t = (t \div k) * k + (t % k)
    BY <2>1
  <2> QED  BY <2>2 DEF k
<1>3. t \div Day >= 0
  <2>1. ASSUME t \div Day < 0 PROVE FALSE
    <3>1. (t \div Day) * Day + Day <= 0 * Day
      BY <1>1, <1>2, <2>1, Smaller
    <3> QED  BY <1>1, <1>2, <3>1
  <2> QED  BY <1>2, <2>1
<1> DEFINE m == t % Day
<1>4. m \div 2 \in Int /\ m % 2 \in 0 .. 1 /\ m = (m \div 2) * 2 + (m % 2) /\ m \in 0 .. Day - 1
  BY <1>2
<1> HIDE DEF m
<1>5. HourOf(t) = m \div 2
  BY DEF HourOf, m
<1>6. m \div 2 \in 0 .. Hours - 1 /\ 2 * (m \div 2) <= m /\ m < 2 * (m \div 2) + 2
  BY <1>1, <1>4
<1> QED  BY <1>2, <1>3, <1>5, <1>6 DEF DayOf, m

\* The start of hour h of day d.
LEMMA AtFacts ==
    ASSUME NEW d \in Nat, NEW h \in 0 .. Hours - 1
    PROVE  At(d, h) \in Nat /\ DayOf(At(d, h)) = d /\ HourOf(At(d, h)) = h
<1>1. Day \in Nat \ {0} /\ Day = 2 * Hours /\ Hours \in Nat \ {0}
  BY DayFacts
<1>2. 2 * h \in 0 .. Day - 1
  BY <1>1
<1>3. (d * Day + 2 * h) \div Day = d /\ (d * Day + 2 * h) % Day = 2 * h
  <2> DEFINE r == 2 * h
  <2>1. r \in 0 .. Day - 1
    BY <1>2
  <2> HIDE DEF r
  <2>2. (d * Day + r) \div Day = d /\ (d * Day + r) % Day = r
    BY <1>1, <2>1
  <2> QED  BY <2>2 DEF r
<1>4. (2 * h) \div 2 = h
  OBVIOUS
<1> QED  BY <1>1, <1>3, <1>4 DEF At, DayOf, HourOf

\* The order of times is that of days, and of hours within a day.
LEMMA DayOrder ==
    ASSUME NEW t \in Nat, NEW u \in Nat, t <= u
    PROVE  DayOf(t) <= DayOf(u) /\ (DayOf(t) = DayOf(u) => HourOf(t) <= HourOf(u))
<1>1. Day \in Nat \ {0}
  BY DayFacts
<1>2. /\ DayOf(t) \in Nat /\ t % Day \in 0 .. Day - 1 /\ t = DayOf(t) * Day + (t % Day)
      /\ HourOf(t) \in Nat /\ 2 * HourOf(t) <= t % Day /\ t % Day < 2 * HourOf(t) + 2
      /\ DayOf(u) \in Nat /\ u % Day \in 0 .. Day - 1 /\ u = DayOf(u) * Day + (u % Day)
      /\ HourOf(u) \in Nat /\ 2 * HourOf(u) <= u % Day /\ u % Day < 2 * HourOf(u) + 2
  BY TimeSplits
<1>3. ASSUME DayOf(u) < DayOf(t) PROVE FALSE
  <2>1. DayOf(u) * Day + Day <= DayOf(t) * Day /\ DayOf(u) * Day \in Int /\ DayOf(t) * Day \in Int
    BY <1>1, <1>2, <1>3, Smaller
  <2> QED  BY <1>1, <1>2, <2>1
<1>4. ASSUME DayOf(t) = DayOf(u) PROVE HourOf(t) <= HourOf(u)
  <2>1. t % Day <= u % Day
    BY <1>1, <1>2, <1>4
  <2> QED  BY <1>2, <2>1
<1> QED  BY <1>2, <1>3, <1>4

\* A morning lies after a time exactly when its day or, on that day, its hour does.
LEMMA MorningOrder ==
    ASSUME NEW t \in Nat, NEW d \in Nat, NEW h \in 0 .. Hours - 1
    PROVE  At(d, h) <= t <=> DayOf(t) > d \/ (DayOf(t) = d /\ h <= HourOf(t))
<1>1. At(d, h) \in Nat /\ DayOf(At(d, h)) = d /\ HourOf(At(d, h)) = h
  BY AtFacts
<1>2. Day \in Nat \ {0} /\ h \in Nat
  BY DayFacts
<1>3. /\ DayOf(t) \in Nat /\ t % Day \in 0 .. Day - 1 /\ t = DayOf(t) * Day + (t % Day)
      /\ HourOf(t) \in Nat /\ 2 * HourOf(t) <= t % Day
  BY TimeSplits
<1>4. At(d, h) <= t => DayOf(t) > d \/ (DayOf(t) = d /\ h <= HourOf(t))
  <2>1. At(d, h) <= t => d <= DayOf(t) /\ (d = DayOf(t) => h <= HourOf(t))
    BY <1>1, DayOrder
  <2> QED  BY <1>3, <2>1
<1>5. DayOf(t) = d /\ h <= HourOf(t) => At(d, h) <= t
  BY <1>2, <1>3 DEF At
<1>6. ASSUME DayOf(t) > d PROVE At(d, h) <= t
  <2>1. ~(t <= At(d, h)) \/ DayOf(t) <= d
    BY <1>1, DayOrder
  <2> QED  BY <1>1, <1>3, <1>6, <2>1
<1> QED  BY <1>4, <1>5, <1>6

-----------------------------------------------------------------------------
(* When the gate opens *)

LEMMA ScheduleFacts ==
    ASSUME NEW s \in Schedules
    PROVE  /\ s.hoursStart \in 0 .. Hours - 1 /\ s.hoursEnd \in 0 .. Hours /\ s.days \subseteq 0 .. Week - 1
           /\ StartHour(s) \in 0 .. Hours - 1
<1>1. s.hoursStart \in 0 .. Hours - 1 /\ s.hoursEnd \in 0 .. Hours /\ s.days \subseteq 0 .. Week - 1
  BY DEF Schedules
<1>2. 0 \in 0 .. Hours - 1
  BY DayFacts
<1> QED  BY <1>1, <1>2 DEF StartHour

LEMMA ActiveAhead ==
    ASSUME NEW s \in Schedules, s.days # {}, NEW d \in Nat
    PROVE  \E i \in 0 .. Week - 1 : Weekday(d + i) \in s.days
<1>1. PICK w \in s.days : w \in 0 .. Week - 1
  BY ScheduleFacts
<1> QED  BY <1>1, WeekdayReached

\* The window of a day opens at its start hour.
LEMMA WindowFacts ==
    ASSUME NEW s \in Schedules, NEW d \in Nat, Weekday(d) \in s.days
    PROVE  /\ InWindow(At(d, StartHour(s)), s)
           /\ InWindow(At(d, s.hoursStart), s)
           /\ \A u \in Nat : DayOf(u) = d /\ InWindow(u, s) => At(d, StartHour(s)) <= u
<1>1. /\ s.hoursStart \in 0 .. Hours - 1 /\ s.hoursEnd \in 0 .. Hours /\ StartHour(s) \in 0 .. Hours - 1
      /\ Hours \in Nat
  BY ScheduleFacts, DayFacts
<1>2. HourGateOn(s) => StartHour(s) = s.hoursStart /\ s.hoursStart \in s.hoursStart .. s.hoursEnd - 1
  BY <1>1 DEF HourGateOn, StartHour
<1>3. InWindow(At(d, StartHour(s)), s) /\ InWindow(At(d, s.hoursStart), s)
  <2>1. \A h \in {StartHour(s), s.hoursStart} : DayOf(At(d, h)) = d /\ HourOf(At(d, h)) = h
    BY <1>1, AtFacts
  <2> QED  BY <1>2, <2>1 DEF InWindow
<1>4. ASSUME NEW u \in Nat, DayOf(u) = d, InWindow(u, s) PROVE At(d, StartHour(s)) <= u
  <2>1. HourOf(u) \in Nat
    BY TimeSplits
  <2>2. StartHour(s) <= HourOf(u)
    <3>1. CASE HourGateOn(s)
      BY <1>1, <1>2, <1>4, <2>1, <3>1 DEF InWindow
    <3>2. CASE ~HourGateOn(s)
      BY <2>1, <3>2 DEF StartHour
    <3> QED  BY <3>1, <3>2
  <2> QED  BY <1>1, <1>4, <2>2, MorningOrder
<1> QED  BY <1>3, <1>4

\* The window of a day does not close and open again.
LEMMA WindowIsOneStretch ==
    ASSUME NEW s \in Schedules, NEW t \in Nat, NEW u \in Nat, t <= u, DayOf(t) = DayOf(u),
           InWindow(u, s), At(DayOf(t), StartHour(s)) <= t
    PROVE  InWindow(t, s)
<1>1. HourOf(t) \in Nat /\ HourOf(u) \in Nat /\ HourOf(t) <= HourOf(u) /\ DayOf(t) \in Nat
  BY TimeSplits, DayOrder
<1>2. StartHour(s) \in 0 .. Hours - 1 /\ s.hoursStart \in Nat /\ s.hoursEnd \in Nat
  BY ScheduleFacts, DayFacts
<1>3. StartHour(s) <= HourOf(t)
  BY <1>1, <1>2, MorningOrder
<1>4. Weekday(DayOf(t)) \in s.days /\ (~HourGateOn(s) \/ HourOf(u) \in s.hoursStart .. s.hoursEnd - 1)
  BY DEF InWindow
<1> QED  BY <1>1, <1>2, <1>3, <1>4 DEF InWindow, StartHour

\* scheduleDefer: outside the window, the start of the next active day's.
LEMMA DeferFacts ==
    ASSUME NEW s \in Schedules, s.days # {}, NEW t \in Nat, ~InWindow(t, s)
    PROVE  LET d == ScheduleDefer(t, s) IN
           d \in Nat /\ d > t /\ InWindow(d, s) /\ \A u \in t .. d - 1 : ~InWindow(u, s)
<1> DEFINE D == DayOf(t)
           h == StartHour(s)
           starts == {At(D + i, h) : i \in 0 .. Week}
           open == {c \in starts : c > t /\ Weekday(DayOf(c)) \in s.days}
           d == Min(open)
<1>1. D \in Nat /\ h \in 0 .. Hours - 1 /\ Week \in Nat \ {0}
  BY TimeSplits, ScheduleFacts, DayFacts
<1>2. \A i \in 0 .. Week : At(D + i, h) \in Nat /\ DayOf(At(D + i, h)) = D + i
  <2> HIDE DEF D, h
  <2> SUFFICES ASSUME NEW i \in 0 .. Week PROVE At(D + i, h) \in Nat /\ DayOf(At(D + i, h)) = D + i
    OBVIOUS
  <2>1. D + i \in Nat
    BY <1>1
  <2> QED  BY <1>1, <2>1, AtFacts
<1>3. open \in SUBSET Nat /\ open # {}
  <2>1. open \in SUBSET Nat
    BY <1>2
  <2>2. PICK j \in 0 .. Week - 1 : Weekday((D + 1) + j) \in s.days
    <3>1. D + 1 \in Nat
      BY <1>1
    <3> QED  BY <3>1, ActiveAhead
  <2>3. j + 1 \in 0 .. Week /\ Weekday(D + (j + 1)) \in s.days /\ D + (j + 1) \in Nat
    <3>1. D + 1 + j = D + (j + 1)
      BY <1>1
    <3> QED  BY <1>1, <2>2, <3>1
  <2>4. ~(At(D + (j + 1), h) <= t)
    BY <1>1, <2>3, MorningOrder
  <2>5. At(D + (j + 1), h) \in open
    BY <1>2, <2>3, <2>4
  <2> QED  BY <2>1, <2>5
<1>4. d \in open /\ \A c \in open : d <= c
  BY <1>3, LeastOf
<1>5. ScheduleDefer(t, s) = d
  BY <1>3 DEF ScheduleDefer
<1>6. PICK i \in 0 .. Week : d = At(D + i, h) /\ d > t /\ Weekday(DayOf(d)) \in s.days
  BY <1>4
<1>7. d \in Nat /\ DayOf(d) = D + i /\ D + i \in Nat
  BY <1>1, <1>2, <1>6
<1> HIDE DEF d
<1>8. InWindow(d, s)
  BY <1>6, <1>7, WindowFacts
<1>9. ASSUME NEW u \in t .. d - 1, InWindow(u, s) PROVE FALSE
  <2>1. u \in Nat /\ t <= u /\ u <= d /\ u < d
    BY <1>7, <1>9
  <2>2. DayOf(u) \in Nat /\ D <= DayOf(u) /\ DayOf(u) <= D + i /\ Weekday(DayOf(u)) \in s.days
    BY <1>7, <1>9, <2>1, TimeSplits, DayOrder DEF InWindow
  <2> DEFINE c == At(DayOf(u), h)
  <2>3. c \in Nat /\ c <= u /\ DayOf(c) = DayOf(u)
    BY <1>1, <1>9, <2>1, <2>2, WindowFacts, AtFacts
  <2>4. CASE c > t
    <3>1. DayOf(u) - D \in 0 .. Week /\ DayOf(u) = D + (DayOf(u) - D)
      BY <1>1, <1>6, <2>2
    <3>2. c \in starts
      BY <3>1
    <3>3. c \in open
      BY <2>2, <2>3, <2>4, <3>2
    <3> QED  BY <1>4, <1>7, <2>1, <2>3, <3>3
  <2>5. CASE ~(c > t)
    <3>1. c <= t
      BY <2>3, <2>5
    <3>2. DayOf(u) <= D
      BY <1>1, <2>2, <3>1, MorningOrder
    <3>3. DayOf(u) = D
      BY <1>1, <2>2, <3>2
    <3> QED  BY <1>9, <2>1, <3>1, <3>3, WindowIsOneStretch
  <2> QED  BY <2>4, <2>5
<1> QED  BY <1>5, <1>6, <1>7, <1>8, <1>9

\* A number of days on, the day is as many later.
LEMMA DaysOn ==
    ASSUME NEW t \in Nat, NEW n \in Nat
    PROVE  t + n * Day \in Nat /\ DayOf(t + n * Day) = DayOf(t) + n
<1> DEFINE D == DayOf(t)
           r == t % Day
           q == D + n
<1>1. /\ Day \in Nat \ {0} /\ D \in Nat /\ r \in 0 .. Day - 1 /\ t = D * Day + r
  BY TimeSplits, DayFacts
<1>2. n * Day \in Nat
  BY <1>1
<1>3. q \in Int /\ t + n * Day = q * Day + r
  <2> HIDE DEF D, r
  <2>1. (D + n) * Day = D * Day + n * Day /\ D * Day \in Nat
    BY <1>1
  <2> QED  BY <1>1, <1>2, <2>1
<1> HIDE DEF q, r
<1>4. (q * Day + r) \div Day = q
  BY <1>1, <1>3, DivisionIsUnique
<1> QED  BY <1>2, <1>3, <1>4 DEF DayOf, q

\* dueAfterDelay, for whole days: the morning of the first active day from the
\* one asked for.
LEMMA DelayFacts ==
    ASSUME NEW s \in Schedules, s.days # {}, NEW t \in Nat, NEW n \in Nat \ {0}
    PROVE  LET due == DueAfterDelay(t, n * Day, s)
               D   == DayOf(t) + n IN
           /\ due \in Nat /\ due > t /\ InWindow(due, s)
           /\ DayOf(due) \in D .. D + Week - 1 /\ Weekday(DayOf(due)) \in s.days
           /\ \A d \in D .. DayOf(due) - 1 : Weekday(d) \notin s.days
<1> DEFINE raw == t + n * Day
           D == DayOf(t) + n
           h == s.hoursStart
           mornings == {At(D + i, h) : i \in 0 .. Week}
           active == {c \in mornings : Weekday(DayOf(c)) \in s.days}
           due == Min(active)
<1>1. DayOf(t) \in Nat /\ D \in Nat /\ h \in 0 .. Hours - 1 /\ Week \in Nat \ {0} /\ Day \in Nat \ {0}
  <2>1. DayOf(t) \in Nat
    BY TimeSplits
  <2>2. h \in 0 .. Hours - 1
    BY ScheduleFacts
  <2> QED  BY <2>1, <2>2, DayFacts
<1>2. DayOf(raw) = D
  <2>1. n \in Nat
    OBVIOUS
  <2> QED  BY <2>1, DaysOn
<1>3. n * Day \in Nat /\ ~(n * Day <= 0) /\ ~(n * Day < Day)
  <2>1. n = 1 \/ 1 < n
    OBVIOUS
  <2>2. 1 < n => 1 * Day + Day <= n * Day /\ n * Day \in Int
    BY <1>1, Smaller
  <2> QED  BY <1>1, <2>1, <2>2
<1> HIDE DEF D
<1>4. \A i \in 0 .. Week : At(D + i, h) \in Nat /\ DayOf(At(D + i, h)) = D + i
  BY <1>1, AtFacts
<1>5. active \in SUBSET Nat /\ active # {}
  <2>1. PICK j \in 0 .. Week - 1 : Weekday(D + j) \in s.days
    BY <1>1, ActiveAhead
  <2>2. j \in 0 .. Week
    BY <1>1
  <2>3. At(D + j, h) \in active
    BY <1>4, <2>1, <2>2
  <2> QED  BY <1>4, <2>3
<1>6. due \in active /\ \A c \in active : due <= c
  BY <1>5, LeastOf
<1>7. DueAfterDelay(t, n * Day, s) = due
  BY <1>2, <1>3, <1>5 DEF DueAfterDelay
<1>8. PICK i \in 0 .. Week : due = At(D + i, h) /\ Weekday(DayOf(due)) \in s.days
  BY <1>6
<1>9. due \in Nat /\ DayOf(due) = D + i /\ D + i \in Nat
  BY <1>1, <1>4, <1>8
<1> HIDE DEF due
<1>10. InWindow(due, s)
  BY <1>8, <1>9, WindowFacts
<1>11. ASSUME NEW d \in D .. D + i - 1, Weekday(d) \in s.days PROVE FALSE
  <2>1. d - D \in 0 .. Week /\ D + (d - D) = d /\ d \in Nat
    BY <1>1, <1>8
  <2>2. At(d, h) \in active /\ At(d, h) \in Nat /\ DayOf(At(d, h)) = d
    BY <1>4, <1>11, <2>1
  <2>3. due <= At(d, h)
    BY <1>6, <2>2
  <2>4. D + i <= d
    BY <1>9, <2>2, <2>3, DayOrder
  <2> QED  BY <1>1, <1>11, <2>1, <2>4
<1>12. i # Week
  <2>1. PICK j \in 0 .. Week - 1 : Weekday(D + j) \in s.days
    BY <1>1, ActiveAhead
  <2>2. ASSUME i = Week PROVE FALSE
    <3>1. D + j \in D .. D + i - 1
      BY <1>1, <2>2
    <3> QED  BY <1>11, <2>1, <3>1
  <2> QED  BY <2>2
<1>13. due > t
  <2>1. ~(due <= t)
    <3>1. due <= t => D + i <= DayOf(t)
      BY <1>9, DayOrder
    <3> QED  BY <1>1, <3>1 DEF D
  <2> QED  BY <1>9, <2>1
<1>14. DayOf(due) \in D .. D + Week - 1
  BY <1>1, <1>8, <1>9, <1>12
<1>15. \A d \in D .. DayOf(due) - 1 : Weekday(d) \notin s.days
  <2> SUFFICES ASSUME NEW d \in D .. DayOf(due) - 1 PROVE Weekday(d) \notin s.days
    OBVIOUS
  <2>1. d \in D .. D + i - 1
    BY <1>1, <1>9
  <2> QED  BY <1>11, <2>1
<1>16. Weekday(DayOf(due)) \in s.days
  BY <1>8
<1> DEFINE answer == DueAfterDelay(t, n * Day, s)
<1>17. answer = due
  BY <1>7
<1> HIDE DEF answer
<1>18. /\ answer \in Nat /\ answer > t /\ InWindow(answer, s)
       /\ DayOf(answer) \in D .. D + Week - 1 /\ Weekday(DayOf(answer)) \in s.days
       /\ \A d \in D .. DayOf(answer) - 1 : Weekday(d) \notin s.days
  BY <1>9, <1>10, <1>13, <1>14, <1>15, <1>16, <1>17
<1> QED  BY <1>18 DEF D, answer

\* With no active day too, a delayed step gets a time.
LEMMA DelayIsATime ==
    ASSUME NEW s \in Schedules, NEW t \in Nat, NEW delay \in Int
    PROVE  DueAfterDelay(t, delay, s) \in Int
<1> DEFINE raw == t + delay
           D == DayOf(raw)
           h == s.hoursStart
           mornings == {At(D + i, h) : i \in 0 .. Week}
           active == {c \in mornings : Weekday(DayOf(c)) \in s.days}
<1>1. h \in 0 .. Hours - 1 /\ Week \in Nat \ {0} /\ Day \in Nat \ {0}
  BY ScheduleFacts, DayFacts
<1>2. CASE delay <= 0
  BY <1>2 DEF DueAfterDelay, None
<1>3. CASE delay > 0
  <2>1. raw \in Nat
    BY <1>3
  <2>2. D \in Nat
    BY <2>1, TimeSplits
  <2>3. \A i \in 0 .. Week + 1 : At(D + i, h) \in Nat
    BY <1>1, <2>2, AtFacts
  <2>4. active \in SUBSET Nat /\ At(D + Week + 1, h) \in Nat
    BY <1>1, <2>2, <2>3
  <2>5. active # {} => Min(active) \in Nat
    BY <2>4, LeastOf
  <2> QED  BY <1>3, <2>1, <2>4, <2>5 DEF DueAfterDelay
<1> QED  BY <1>2, <1>3

CalendarOK == now \in Nat /\ sched \in Schedules

\* A refused action comes back at the first half hour the gate is open, and a
\* step delayed by days comes due on the first active day from the one asked
\* for, inside its window (WorkingTimeIsFound, a part of PacingHolds), for
\* every window, set of days, and length of day and week.
LEMMA WorkingTimeIsExact == CalendarOK => WorkingTimeIsFound
<1> SUFFICES ASSUME CalendarOK PROVE WorkingTimeIsFound
  OBVIOUS
<1> USE DEF CalendarOK
<1>1. DeferIsEarliest
  <2> SUFFICES ASSUME sched.days # {}
               PROVE  LET d == ScheduleDefer(now, sched) IN
                      IF d = None THEN InWindow(now, sched)
                      ELSE /\ d > now /\ InWindow(d, sched)
                           /\ \A t \in now .. d - 1 : ~InWindow(t, sched)
    BY DEF DeferIsEarliest
  <2>1. CASE InWindow(now, sched)
    BY <2>1 DEF ScheduleDefer
  <2>2. CASE ~InWindow(now, sched)
    <3>1. /\ ScheduleDefer(now, sched) \in Nat /\ ScheduleDefer(now, sched) > now
          /\ InWindow(ScheduleDefer(now, sched), sched)
          /\ \A t \in now .. ScheduleDefer(now, sched) - 1 : ~InWindow(t, sched)
      BY <2>2, DeferFacts
    <3> QED  BY <3>1 DEF None
  <2> QED  BY <2>1, <2>2
<1>2. DelayLandsInWindow
  <2> SUFFICES ASSUME NEW n \in 1 .. Week, sched.days # {}
               PROVE  LET due == DueAfterDelay(now, n * Day, sched) IN
                      /\ due > now /\ DayOf(due) >= DayOf(now) + n
                      /\ Weekday(DayOf(due)) \in sched.days
                      /\ \A d \in DayOf(now) + n .. DayOf(due) - 1 : Weekday(d) \notin sched.days
                      /\ HourGateOn(sched) => ScheduleDefer(due, sched) = None
    BY DEF DelayLandsInWindow
  <2> DEFINE due == DueAfterDelay(now, n * Day, sched)
  <2>1. n \in Nat \ {0} /\ DayOf(now) \in Nat /\ Week \in Nat
    BY DayFacts, TimeSplits
  <2>2. /\ due \in Nat /\ due > now /\ InWindow(due, sched)
        /\ DayOf(due) \in DayOf(now) + n .. DayOf(now) + n + Week - 1 /\ Weekday(DayOf(due)) \in sched.days
        /\ \A d \in DayOf(now) + n .. DayOf(due) - 1 : Weekday(d) \notin sched.days
    BY <2>1, DelayFacts
  <2> HIDE DEF due
  <2>3. DayOf(due) >= DayOf(now) + n
    BY <2>1, <2>2
  <2>4. ScheduleDefer(due, sched) = None
    BY <2>2 DEF ScheduleDefer
  <2> QED  BY <2>2, <2>3, <2>4 DEF due
<1> QED  BY <1>1, <1>2 DEF WorkingTimeIsFound

-----------------------------------------------------------------------------
(* The allocator *)

\* What an entry of the ledger or of the batch is: none, or a time ahead at
\* which the window is open.
Entry(at) == at = None \/ (at \in Nat /\ at > now /\ InWindow(at, sched))

BatchTypes ==
    /\ CalendarOK
    /\ ledger \in Seq(Int) /\ Len(ledger) <= MaxLedger
    /\ given \in Seq(Int) /\ Len(given) <= MaxClaims

BatchFits ==
    /\ \A i \in DOMAIN given : Entry(given[i])
    /\ \A d \in Nat : Count(given, d) <= Cap

StaggerInv == CalendarOK /\ (sched.days # {} => BatchTypes /\ BatchFits)

LEMMA CountFacts ==
    ASSUME NEW seq \in Seq(Int), NEW d
    PROVE  /\ IsFiniteSet({i \in DOMAIN seq : DayKey(seq[i]) = d})
           /\ Count(seq, d) \in Nat
           /\ Count(seq, d) > 0 => \E i \in DOMAIN seq : DayKey(seq[i]) = d
<1> DEFINE S == {i \in DOMAIN seq : DayKey(seq[i]) = d}
<1>1. Len(seq) \in Nat /\ DOMAIN seq = 1 .. Len(seq)
  OBVIOUS
<1>2. IsFiniteSet(DOMAIN seq)
  BY <1>1, FS_Interval
<1>3. S \in SUBSET DOMAIN seq
  OBVIOUS
<1>4. IsFiniteSet(S) /\ Cardinality(S) \in Nat
  BY <1>2, <1>3, FS_Subset, FS_CardinalityType
<1>5. Count(seq, d) = Cardinality(S)
  BY DEF Count
<1>6. S # {} => \E i \in DOMAIN seq : DayKey(seq[i]) = d
  OBVIOUS
<1> HIDE DEF S
<1>7. Cardinality(S) > 0 => S # {}
  <2>1. Cardinality({}) = 0
    BY FS_EmptySet
  <2>2. CASE S = {}
    BY <2>1, <2>2
  <2> QED  BY <2>2
<1>8. IsFiniteSet(S) /\ Count(seq, d) \in Nat /\ (Count(seq, d) > 0 => \E i \in DOMAIN seq : DayKey(seq[i]) = d)
  BY <1>4, <1>5, <1>6, <1>7
<1> QED  BY <1>8 DEF S

\* The slot of day offset n lies on a day from the n-th to the one a week on.
LEMMA SlotFacts ==
    ASSUME CalendarOK, sched.days # {}, NEW n \in Nat
    PROVE  /\ Slot(n) \in Int /\ Entry(Slot(n))
           /\ DayKey(Slot(n)) \in DayOf(now) + n .. DayOf(now) + n + Week - 1
<1>1. now \in Nat /\ sched \in Schedules /\ DayOf(now) \in Nat /\ Week \in Nat \ {0}
  BY TimeSplits, DayFacts DEF CalendarOK
<1>2. CASE n = 0
  <2>1. Slot(n) = None
    BY <1>2 DEF Slot
  <2>2. DayKey(None) = DayOf(now)
    BY <1>1 DEF DayKey, None
  <2>3. DayOf(now) \in DayOf(now) + n .. DayOf(now) + n + Week - 1
    BY <1>1, <1>2
  <2> QED  BY <2>1, <2>2, <2>3 DEF Entry, None
<1>3. CASE n # 0
  <2> DEFINE due == DueAfterDelay(now, n * Day, sched)
  <2>1. n \in Nat \ {0}
    BY <1>3
  <2>2. /\ due \in Nat /\ due > now /\ InWindow(due, sched)
        /\ DayOf(due) \in DayOf(now) + n .. DayOf(now) + n + Week - 1
    BY <1>1, <2>1, DelayFacts
  <2>3. Slot(n) = due
    BY <1>3 DEF Slot
  <2> HIDE DEF due
  <2>4. DayKey(due) = DayOf(due)
    BY <2>2 DEF DayKey
  <2> QED  BY <2>2, <2>3, <2>4 DEF Entry
<1> QED  BY <1>2, <1>3

\* Some day within the horizon has room: the slots a week apart are on
\* different days, one more of them than there are entries, and a full day
\* holds at least one.
LEMMA RoomIsFound ==
    ASSUME BatchTypes, sched.days # {}, Len(given) < MaxClaims
    PROVE  \E n \in 0 .. Horizon : Occupancy(DayKey(Slot(n))) < Cap
<1> DEFINE M == MaxLedger + MaxClaims
           D == DayOf(now)
           f(k) == DayKey(Slot(k * Week))
           L == Len(ledger)
           day(j) == DayKey(IF j <= L THEN ledger[j] ELSE given[j - L])
           T == 1 .. L + Len(given)
<1>1. /\ CalendarOK /\ now \in Nat /\ D \in Nat /\ Week \in Nat \ {0} /\ Cap \in Nat \ {0}
      /\ MaxLedger \in Nat /\ MaxClaims \in Nat /\ M \in Nat
      /\ ledger \in Seq(Int) /\ given \in Seq(Int) /\ L \in Nat /\ Len(given) \in Nat
      /\ L + Len(given) < M + 1 /\ L + Len(given) \in Nat
  <2>1. /\ CalendarOK /\ ledger \in Seq(Int) /\ L <= MaxLedger /\ given \in Seq(Int)
    BY DEF BatchTypes
  <2>2. now \in Nat
    BY <2>1 DEF CalendarOK
  <2>3. D \in Nat
    BY <2>2, TimeSplits
  <2>4. L \in Nat /\ Len(given) \in Nat /\ MaxLedger \in Nat /\ MaxClaims \in Nat
    BY <2>1, ScheduleAssumption
  <2>5. M \in Nat /\ L + Len(given) < M + 1 /\ L + Len(given) \in Nat
    BY <2>1, <2>4
  <2>6. Week \in Nat \ {0} /\ Cap \in Nat \ {0}
    BY ScheduleAssumption
  <2> QED  BY <2>1, <2>2, <2>3, <2>4, <2>5, <2>6
<1> HIDE DEF M, D, L
<1>2. ASSUME NEW k \in 0 .. M
      PROVE  k * Week \in 0 .. Horizon /\ f(k) \in D + k * Week .. D + k * Week + Week - 1
  <2>1. k * Week \in Nat
    BY <1>1
  <2>2. k * Week <= Horizon
    <3> DEFINE w == Week
               p == M + 1
    <3>1. w \in Nat /\ p \in Nat /\ k \in Nat /\ k <= p
      BY <1>1
    <3> HIDE DEF w, p
    <3>2. p = k + (p - k) /\ p - k \in Nat
      BY <3>1
    <3>3. (w + 1) * p = k * w + (p - k) * w + p /\ (p - k) * w \in Nat /\ k * w \in Nat
      BY <3>1, <3>2
    <3>4. k * w <= (w + 1) * p
      BY <3>1, <3>3
    <3> QED  BY <3>4 DEF w, p, M, Horizon
  <2>3. Horizon \in Int
    BY <1>1 DEF Horizon
  <2> DEFINE n == k * Week
  <2>4. f(k) = DayKey(Slot(n)) /\ n \in Nat
    BY <2>1
  <2> HIDE DEF n, f
  <2>5. DayKey(Slot(n)) \in DayOf(now) + n .. DayOf(now) + n + Week - 1
    BY <1>1, <2>4, SlotFacts
  <2>6. f(k) \in D + n .. D + n + Week - 1
    BY <2>4, <2>5 DEF D
  <2> QED  BY <2>1, <2>2, <2>3, <2>6 DEF n
<1>3. ASSUME NEW k \in 0 .. M, NEW l \in 0 .. M, k < l PROVE f(k) # f(l)
  <2>1. k * Week + Week <= l * Week /\ k * Week \in Int /\ l * Week \in Int
    BY <1>1, <1>3, Smaller
  <2>2. f(k) \in D + k * Week .. D + k * Week + Week - 1 /\ f(l) \in D + l * Week .. D + l * Week + Week - 1
    BY <1>2
  <2> DEFINE p == k * Week
             q == l * Week
             a == f(k)
             b == f(l)
  <2>3. /\ p + Week <= q /\ p \in Int /\ q \in Int
        /\ a \in D + p .. D + p + Week - 1 /\ b \in D + q .. D + q + Week - 1
    BY <2>1, <2>2
  <2> HIDE DEF p, q, a, b
  <2>4. a # b
    BY <1>1, <2>3
  <2> QED  BY <2>4 DEF a, b
<1> SUFFICES ASSUME \A n \in 0 .. Horizon : ~(Occupancy(DayKey(Slot(n))) < Cap)
             PROVE  FALSE
  OBVIOUS
<1>4. ASSUME NEW k \in 0 .. M PROVE \E j \in T : day(j) = f(k)
  <2>1. ~(Occupancy(f(k)) < Cap)
    BY <1>2
  <2> HIDE DEF f
  <2>2. Count(ledger, f(k)) \in Nat /\ Count(given, f(k)) \in Nat
    BY <1>1, CountFacts
  <2>3. Count(ledger, f(k)) > 0 \/ Count(given, f(k)) > 0
    BY <1>1, <2>1, <2>2 DEF Occupancy
  <2>4. CASE Count(ledger, f(k)) > 0
    <3>1. PICK i \in DOMAIN ledger : DayKey(ledger[i]) = f(k)
      BY <1>1, <2>4, CountFacts
    <3>2. i \in T /\ i <= L
      BY SMTT(60), <1>1, <3>1 DEF L
    <3>3. day(i) = f(k)
      BY <3>1, <3>2
    <3> QED  BY <3>2, <3>3
  <2>5. CASE Count(given, f(k)) > 0
    <3>1. PICK i \in DOMAIN given : DayKey(given[i]) = f(k)
      BY <1>1, <2>5, CountFacts
    <3>2. i \in 1 .. Len(given) /\ L \in Nat /\ Len(given) \in Nat
      BY SMTT(60), <1>1, <3>1 DEF L
    <3>3. i \in Nat /\ 1 <= i /\ i <= Len(given)
      BY <3>2
    <3>4. i + L \in T
      BY <3>2, <3>3
    <3>5. ~(i + L <= L) /\ (i + L) - L = i
      BY <3>2, <3>3
    <3> QED  BY <3>1, <3>4, <3>5
  <2> QED  BY <2>3, <2>4, <2>5
<1> DEFINE g == [k \in 0 .. M |-> CHOOSE j \in T : day(j) = f(k)]
<1>5. \A k \in 0 .. M : g[k] \in T /\ day(g[k]) = f(k)
  <2> HIDE DEF f, day, T
  <2> QED  BY <1>4
<1>6. g \in [0 .. M -> T]
  BY <1>5
<1>7. /\ IsFiniteSet(0 .. M) /\ Cardinality(0 .. M) = M + 1
      /\ IsFiniteSet(T) /\ Cardinality(T) = L + Len(given)
  <2>1. IsFiniteSet(0 .. M) /\ Cardinality(0 .. M) = M + 1
    <3>1. 0 \in Int /\ M \in Int /\ ~(0 > M) /\ M - 0 + 1 = M + 1
      BY <1>1
    <3> QED  BY <3>1, FS_Interval
  <2> DEFINE n == L + Len(given)
  <2>2. n \in Nat
    BY <1>1
  <2> HIDE DEF n
  <2>3. IsFiniteSet(1 .. n) /\ Cardinality(1 .. n) = n
    BY <2>2, FS_Interval
  <2> QED  BY <2>1, <2>3 DEF n
<1> HIDE DEF g, f, day, T
<1>8. PICK k \in 0 .. M, l \in 0 .. M : k # l /\ g[k] = g[l]
  <2>1. Cardinality(T) < Cardinality(0 .. M)
    BY <1>1, <1>7
  <2> QED  BY <1>6, <1>7, <2>1, FS_PigeonHole
<1>9. f(k) = f(l)
  BY <1>5, <1>8
<1>10. k < l \/ l < k
  BY <1>8
<1> QED  BY <1>3, <1>9, <1>10

LEMMA NextSlotFacts ==
    ASSUME BatchTypes, sched.days # {}, Len(given) < MaxClaims
    PROVE  /\ NextSlot \in Int /\ Entry(NextSlot)
           /\ DayKey(NextSlot) \in Nat /\ Occupancy(DayKey(NextSlot)) < Cap
<1> DEFINE free == {n \in 0 .. Horizon : Occupancy(DayKey(Slot(n))) < Cap}
<1>1. free \in SUBSET Nat /\ free # {}
  BY RoomIsFound
<1>2. Min(free) \in free
  BY <1>1, LeastOf
<1> DEFINE m == Min(free)
<1>3. NextSlot = Slot(m)
  BY DEF NextSlot
<1>4. m \in Nat /\ Occupancy(DayKey(Slot(m))) < Cap
  BY <1>2
<1> HIDE DEF m
<1>5. CalendarOK /\ DayOf(now) \in Nat /\ Week \in Nat
  BY TimeSplits, DayFacts DEF BatchTypes, CalendarOK
<1>6. /\ Slot(m) \in Int /\ Entry(Slot(m))
      /\ DayKey(Slot(m)) \in DayOf(now) + m .. DayOf(now) + m + Week - 1
  BY <1>4, <1>5, SlotFacts
<1> QED  BY <1>3, <1>4, <1>5, <1>6

\* Appending adds one to the count of its own day.
LEMMA CountAppends ==
    ASSUME NEW seq \in Seq(Int), NEW at \in Int, NEW d
    PROVE  Count(Append(seq, at), d) = Count(seq, d) + (IF DayKey(at) = d THEN 1 ELSE 0)
<1> DEFINE more == Append(seq, at)
           S == {i \in DOMAIN seq : DayKey(seq[i]) = d}
           n == Len(seq) + 1
<1>1. /\ Len(seq) \in Nat /\ DOMAIN seq = 1 .. Len(seq) /\ DOMAIN more = 1 .. n
      /\ more[n] = at /\ \A i \in 1 .. Len(seq) : more[i] = seq[i]
  OBVIOUS
<1>2. IsFiniteSet(S) /\ Cardinality(S) \in Nat
  BY CountFacts DEF Count
<1>3. n \notin S
  BY <1>1
<1> HIDE DEF more
<1>4. {i \in DOMAIN more : DayKey(more[i]) = d} = IF DayKey(at) = d THEN S \cup {n} ELSE S
  BY <1>1
<1>5. Cardinality(S \cup {n}) = Cardinality(S) + 1
  BY <1>2, <1>3, FS_AddElement
<1>6. Count(more, d) = Cardinality(S) + (IF DayKey(at) = d THEN 1 ELSE 0)
  <2>1. Count(more, d) = Cardinality({i \in DOMAIN more : DayKey(more[i]) = d})
    BY DEF Count
  <2> HIDE DEF S, n
  <2>2. CASE DayKey(at) = d
    BY <1>4, <1>5, <2>1, <2>2
  <2>3. CASE DayKey(at) # d
    <3>1. {i \in DOMAIN more : DayKey(more[i]) = d} = S
      BY <1>4, <2>3
    <3>2. Count(more, d) = Cardinality(S)
      BY <2>1, <3>1
    <3> QED  BY <1>2, <2>3, <3>2
  <2> QED  BY <2>2, <2>3
<1>7. Count(seq, d) = Cardinality(S)
  BY DEF Count
<1> QED  BY <1>6, <1>7 DEF more

LEMMA StaggerHolds == Spec => []StaggerInv
<1>1. Init => StaggerInv
  <2> SUFFICES ASSUME Init PROVE StaggerInv
    OBVIOUS
  <2>1. CalendarOK
    <3>1. Week * Day \in Nat
      BY DayFacts
    <3> QED  BY <3>1 DEF Init, CalendarOK
  <2>2. given = <<>> /\ given \in Seq(Int) /\ Len(given) = 0 /\ DOMAIN given = {}
    BY DEF Init
  <2>3. PICK n \in 0 .. MaxLedger, first \in 0 .. Week :
           ledger = [i \in 1 .. n |-> IF first = 0 THEN None ELSE DueAfterDelay(now, first * Day, sched)]
    BY DEF Init
  <2> DEFINE at == IF first = 0 THEN None ELSE DueAfterDelay(now, first * Day, sched)
  <2>4. n \in Nat /\ n <= MaxLedger /\ ledger = [i \in 1 .. n |-> at]
    BY <2>3, ScheduleAssumption
  <2>5. at \in Int
    <3>1. CASE first = 0
      BY <3>1 DEF None
    <3>2. CASE first # 0
      <4>1. first \in Nat \ {0} /\ now \in Nat /\ sched \in Schedules
        BY <2>1, <3>2, DayFacts DEF CalendarOK
      <4> DEFINE delay == first * Day
      <4>2. delay \in Int
        BY <4>1, DayFacts
      <4> HIDE DEF delay
      <4>3. DueAfterDelay(now, delay, sched) \in Int
        BY <4>1, <4>2, DelayIsATime
      <4> QED  BY <3>2, <4>3 DEF delay
    <3> QED  BY <3>1, <3>2
  <2> HIDE DEF at
  <2>6. ledger \in Seq(Int) /\ Len(ledger) = n
    BY <2>4, <2>5
  <2>7. \A d \in Nat : Count(given, d) <= Cap
    <3>1. \A d : {i \in DOMAIN given : DayKey(given[i]) = d} = {}
      BY <2>2
    <3> QED  BY <3>1, FS_EmptySet, ScheduleAssumption DEF Count
  <2> QED  BY <2>1, <2>2, <2>4, <2>6, <2>7, ScheduleAssumption DEF StaggerInv, BatchTypes, BatchFits
<1>2. StaggerInv /\ [Next]_vars => StaggerInv'
  <2> SUFFICES ASSUME StaggerInv, [Next]_vars PROVE StaggerInv'
    OBVIOUS
  <2>1. CASE UNCHANGED vars
    BY <2>1 DEF vars, StaggerInv, BatchTypes, BatchFits, CalendarOK, Entry, Count, DayKey
  <2>2. CASE Claim
    <3>0. now' = now /\ sched' = sched /\ ledger' = ledger /\ CalendarOK /\ CalendarOK'
      BY <2>2 DEF Claim, StaggerInv, CalendarOK
    <3> SUFFICES ASSUME sched.days # {}, BatchTypes, BatchFits PROVE BatchTypes' /\ BatchFits'
      BY <3>0 DEF StaggerInv
    <3>1. /\ given' = Append(given, NextSlot) /\ now' = now /\ sched' = sched /\ ledger' = ledger
          /\ Len(given) < MaxClaims /\ given \in Seq(Int) /\ Len(given) \in Nat /\ CalendarOK
      BY <2>2 DEF Claim, BatchTypes
    <3>2. NextSlot \in Int
      BY <3>1, NextSlotFacts
    <3>3. /\ given' \in Seq(Int) /\ Len(given') = Len(given) + 1 /\ DOMAIN given' = 1 .. Len(given) + 1
          /\ given'[Len(given) + 1] = NextSlot
          /\ \A i \in 1 .. Len(given) : given'[i] = given[i]
      BY <3>1, <3>2
    <3>4. BatchTypes'
      BY <3>0, <3>1, <3>3, ScheduleAssumption DEF BatchTypes
    <3>5. BatchFits'
      <4> SUFFICES /\ \A i \in DOMAIN given' : Entry(given[i])'
                   /\ \A d \in Nat : Count(given, d)' <= Cap
        BY DEF BatchFits
      <4>1. Entry(NextSlot) /\ DayKey(NextSlot) \in Nat /\ Occupancy(DayKey(NextSlot)) < Cap
        BY <3>1, NextSlotFacts
      <4>2. /\ \A i \in DOMAIN given : Entry(given[i])
            /\ \A d \in Nat : Count(given, d) <= Cap
        BY DEF BatchFits
      <4>3. ASSUME NEW i \in DOMAIN given' PROVE Entry(given[i])'
        <5>1. Entry(given'[i])
          <6>1. CASE i = Len(given) + 1
            BY <3>3, <4>1, <6>1
          <6>2. CASE i # Len(given) + 1
            <7>1. i \in DOMAIN given /\ given'[i] = given[i]
              BY <3>1, <3>3, <6>2
            <7> QED  BY <4>2, <7>1
          <6> QED  BY <6>1, <6>2
        <5> QED  BY <3>1, <5>1 DEF Entry
      <4>4. ASSUME NEW d \in Nat PROVE Count(given, d)' <= Cap
        <5>1. Count(given, d)' = Count(Append(given, NextSlot), d)
          BY <3>1 DEF Count, DayKey
        <5>2. Count(Append(given, NextSlot), d) = Count(given, d) + (IF DayKey(NextSlot) = d THEN 1 ELSE 0)
          BY <3>1, <3>2, CountAppends
        <5>3. Count(given, d) \in Nat /\ Count(ledger, d) \in Nat /\ Cap \in Nat
          BY <3>1, CountFacts, ScheduleAssumption DEF BatchTypes
        <5>4. DayKey(NextSlot) = d => Count(given, d) < Cap
          BY <4>1, <5>3 DEF Occupancy
        <5> QED  BY <4>2, <5>1, <5>2, <5>3, <5>4
      <4> QED  BY <4>3, <4>4
    <3> QED  BY <3>4, <3>5
  <2> QED  BY <2>1, <2>2 DEF Next
<1> QED  BY <1>1, <1>2, PTL DEF Spec

\* An entry ahead fires on its own day: its time is in the window.
LEMMA EntryFires ==
    ASSUME CalendarOK, NEW at, Entry(at), at # None
    PROVE  FiringDay(at) = DayKey(at)
<1>1. at \in Nat /\ at > now /\ InWindow(at, sched)
  BY DEF Entry
<1>2. ScheduleDefer(at, sched) = None
  BY <1>1 DEF ScheduleDefer
<1> QED  BY <1>1, <1>2 DEF FiringDay, DayKey

\* A batch pushes no day past the cap of the first step, whatever was enrolled
\* before it, except the morning after a day off (StaggerDoublesOnlyFromDayOff),
\* for every cap, ledger, batch size and schedule.
THEOREM BatchesFitTheirDays == Spec => []StaggerDoublesOnlyFromDayOff
<1>1. StaggerInv => StaggerDoublesOnlyFromDayOff
  <2> SUFFICES ASSUME StaggerInv, sched.days # {}, NEW d \in {FiringDay(given[i]) : i \in DOMAIN given}
               PROVE  LET firing == {i \in DOMAIN given : FiringDay(given[i]) = d}
                          today  == {i \in firing : DayKey(given[i]) = DayOf(now)} IN
                      /\ Cardinality(firing \ today) <= Cap
                      /\ Cardinality(firing) <= Cap \/ FiringDay(None) # DayOf(now)
    BY DEF StaggerDoublesOnlyFromDayOff
  <2> DEFINE firing == {i \in DOMAIN given : FiringDay(given[i]) = d}
             today  == {i \in firing : DayKey(given[i]) = DayOf(now)}
             own == {i \in DOMAIN given : DayKey(given[i]) = d}
  <2>1. /\ CalendarOK /\ now \in Nat /\ given \in Seq(Int) /\ Cap \in Nat
        /\ \A i \in DOMAIN given : Entry(given[i])
        /\ \A e \in Nat : Count(given, e) <= Cap
    BY ScheduleAssumption DEF StaggerInv, BatchTypes, BatchFits, CalendarOK
  <2>2. DayKey(None) = DayOf(now) /\ DayOf(now) \in Nat
    <3>1. DayKey(None) = DayOf(now)
      BY <2>1 DEF DayKey, None
    <3> QED  BY <2>1, <3>1, TimeSplits
  <2>3. \A i \in DOMAIN given : given[i] # None => FiringDay(given[i]) = DayKey(given[i])
    BY <2>1, EntryFires
  <2>4. \A i \in DOMAIN given : DayKey(given[i]) \in Nat
    <3> TAKE i \in DOMAIN given
    <3>1. (IF given[i] > now THEN given[i] ELSE now) \in Nat
      BY <2>1
    <3> QED  BY <3>1, TimeSplits DEF DayKey
  <2>5. IsFiniteSet(own) /\ Cardinality(own) \in Nat /\ Cardinality(own) = Count(given, d)
    BY <2>1, CountFacts DEF Count
  <2> HIDE DEF own
  <2>6. ASSUME NEW S \in SUBSET own PROVE Cardinality(S) <= Cap
    <3>1. IsFiniteSet(S) /\ Cardinality(S) <= Cardinality(own) /\ Cardinality(S) \in Nat
      BY <2>5, FS_Subset, FS_CardinalityType
    <3>2. CASE own = {}
      <4>1. S = {}
        BY <3>2
      <4> QED  BY <2>1, <4>1, FS_EmptySet
    <3>3. CASE own # {}
      <4>1. d \in Nat
        BY <2>4, <3>3 DEF own
      <4> QED  BY <2>1, <2>5, <3>1, <4>1
    <3> QED  BY <3>2, <3>3
  <2>7. firing \ today \in SUBSET own
    BY <2>2, <2>3 DEF own
  <2>8. FiringDay(None) = DayOf(now) => firing \in SUBSET own
    BY <2>2, <2>3 DEF own
  <2>9. Cardinality(firing \ today) <= Cap
    BY <2>6, <2>7
  <2>10. Cardinality(firing) <= Cap \/ FiringDay(None) # DayOf(now)
    BY <2>6, <2>8
  <2> QED  BY <2>9, <2>10
<1> QED  BY <1>1, StaggerHolds, PTL


-----------------------------------------------------------------------------
(* The working window of the pacing scheduler *)

\* Either half of hour h of day d.
LEMMA HalfHourFacts ==
    ASSUME NEW d \in Nat, NEW h \in 0 .. Hours - 1, NEW r \in 0 .. 1
    PROVE  LET t == At(d, h) + r IN t \in Nat /\ DayOf(t) = d /\ HourOf(t) = h
<1>1. Day \in Nat \ {0} /\ Day = 2 * Hours /\ Hours \in Nat \ {0} /\ h \in Nat
  BY DayFacts
<1> DEFINE q == 2 * h + r
<1>2. q \in 0 .. Day - 1 /\ q \div 2 = h
  BY <1>1
<1>3. At(d, h) + r = d * Day + q /\ d * Day \in Nat
  BY <1>1 DEF At
<1> HIDE DEF q
<1>4. (d * Day + q) \div Day = d /\ (d * Day + q) % Day = q
  BY <1>1, <1>2, DivisionIsUnique
<1>5. d * Day + q \in Nat
  BY <1>1, <1>2, <1>3
<1> QED  BY <1>2, <1>3, <1>4, <1>5 DEF DayOf, HourOf

\* A time is one of the halves of its hour.
LEMMA HalfHours ==
    ASSUME NEW t \in Nat
    PROVE  \E r \in 0 .. 1 : t = At(DayOf(t), HourOf(t)) + r
<1>1. /\ DayOf(t) \in Nat /\ t % Day \in Nat /\ t = DayOf(t) * Day + (t % Day)
      /\ HourOf(t) \in Nat /\ 2 * HourOf(t) <= t % Day /\ t % Day < 2 * HourOf(t) + 2
  BY TimeSplits, DayFacts
<1> DEFINE q == t % Day
           p == DayOf(t) * Day
           r == q - 2 * HourOf(t)
<1>2. p \in Nat
  BY <1>1, DayFacts
<1>3. t = p + q /\ q \in Nat
  BY <1>1
<1>4. r \in 0 .. 1
  BY <1>1
<1>5. t = p + 2 * HourOf(t) + r
  <2> HIDE DEF p
  <2> QED  BY <1>1, <1>2, <1>3
<1> QED  BY <1>4, <1>5 DEF At

\* The halves of the first hour of an active day's window are working time.
LEMMA WindowOpens ==
    ASSUME NEW s \in Schedules, HourGateOn(s), NEW d \in Nat, Weekday(d) \in s.days, NEW r \in 0 .. 1
    PROVE  At(d, s.hoursStart) + r \in Nat /\ IsWithinWorkingHours(At(d, s.hoursStart) + r, s)
<1>1. s.hoursStart \in 0 .. Hours - 1
  BY ScheduleFacts
<1> DEFINE t == At(d, s.hoursStart) + r
<1>2. t \in Nat /\ DayOf(t) = d /\ HourOf(t) = s.hoursStart
  BY <1>1, HalfHourFacts
<1>3. s.hoursStart >= s.hoursStart /\ s.hoursStart < s.hoursEnd
  BY <1>1, DayFacts DEF HourGateOn
<1> QED  BY <1>2, <1>3 DEF IsWithinWorkingHours

\* One turn of the search: it stays in working time, and otherwise either finds
\* it or goes an hour on, past nothing but the hour it was at.
LEMMA TurnFacts ==
    ASSUME NEW s \in Schedules, HourGateOn(s), NEW t \in Nat, ~IsWithinWorkingHours(t, s)
    PROVE  /\ Advance(t, s) \in Nat /\ Advance(t, s) >= t
           /\ IsWithinWorkingHours(Advance(t, s), s) \/ Advance(t, s) = t + 2
<1>1. CASE Weekday(DayOf(t)) \in s.days /\ HourOf(t) < s.hoursStart
  <2>1. PICK r \in 0 .. 1 : t = At(DayOf(t), HourOf(t)) + r
    BY HalfHours
  <2>2. DayOf(t) \in Nat /\ HourOf(t) \in Nat /\ s.hoursStart \in Nat /\ Day \in Nat
    BY TimeSplits, ScheduleFacts, DayFacts
  <2> DEFINE p == DayOf(t) * Day
             c == At(DayOf(t), s.hoursStart) + r
  <2>3. p \in Nat
    BY <2>2
  <2>4. t = p + 2 * HourOf(t) + r /\ c = p + 2 * s.hoursStart + r
    BY <2>1 DEF At
  <2> HIDE DEF p
  <2>5. t + 2 * (s.hoursStart - HourOf(t)) = c /\ c >= t
    BY <1>1, <2>2, <2>3, <2>4
  <2>6. Advance(t, s) = c
    BY <1>1, <2>5 DEF Advance
  <2>7. c \in Nat /\ IsWithinWorkingHours(c, s)
    BY <1>1, <2>2, WindowOpens
  <2> QED  BY <2>5, <2>6, <2>7
<1>2. CASE ~(Weekday(DayOf(t)) \in s.days /\ HourOf(t) < s.hoursStart)
  BY <1>2 DEF Advance
<1> QED  BY <1>1, <1>2

\* The search of nextWorkingInstant, n turns of it.
SearchTurns(t, s, n) ==
    \E f \in [0 .. n -> Nat] :
        /\ f[0] = t /\ NextWorkingInstant(t, s) = f[n]
        /\ \A i \in 1 .. n :
              f[i] = IF IsWithinWorkingHours(f[i - 1], s) THEN f[i - 1] ELSE Advance(f[i - 1], s)

\* The search is what its recursive function says, turn by turn.
LEMMA SearchUnfolds ==
    ASSUME NEW s \in Schedules, NEW t \in Nat, NEW n \in Nat, n = 2 * Week * Hours
    PROVE  SearchTurns(t, s, n)
<1> DEFINE Turn(c) == IF IsWithinWorkingHours(c, s) THEN c ELSE Advance(c, s)
           Rec(g) == [i \in 0 .. n |-> IF i = 0 THEN t ELSE Turn(g[i - 1])]
           F == [p \in (1 .. n) \X Nat |-> Turn(p[2])]
<1>1. NextWorkingInstant(t, s) = (CHOOSE g : g = Rec(g))[n]
  BY DEF NextWorkingInstant
<1>2. \A c \in Nat : Turn(c) \in Nat
  <2> TAKE c \in Nat
  <2>1. HourOf(c) \in Nat /\ s.hoursStart \in Nat
    BY TimeSplits, ScheduleFacts
  <2> QED  BY <2>1 DEF Advance
<1> HIDE DEF Turn
<1>3. \E g : g = Rec(g)
  <2>1. F \in [(1 .. n) \X Nat -> Nat]
    BY <1>2
  <2>2. \A i \in 1 .. n, c \in Nat : F[<<i, c>>] = Turn(c)
    OBVIOUS
  <2> HIDE DEF F
  <2>3. PICK f \in [0 .. n -> Nat] : f[0] = t /\ \A i \in 1 .. n : f[i] = F[<<i, f[i - 1]>>]
    <3>1. Repeats(n, Nat, t, F)
      BY <2>1, RecursionExists
    <3> QED  BY <3>1 DEF Repeats
  <2>4. ASSUME NEW i \in 0 .. n PROVE f[i] = IF i = 0 THEN t ELSE Turn(f[i - 1])
    <3>1. CASE i = 0
      BY <2>3, <3>1
    <3>2. CASE i # 0
      <4>1. i \in 1 .. n /\ i - 1 \in 0 .. n
        BY <3>2
      <4> QED  BY <2>2, <2>3, <3>2, <4>1
    <3> QED  BY <3>1, <3>2
  <2>5. f = Rec(f)
    BY <2>3, <2>4
  <2> QED  BY <2>5
<1> DEFINE f == CHOOSE g : g = Rec(g)
<1>4. f = Rec(f)
  BY <1>3
<1> HIDE DEF f
<1>5. 0 \in 0 .. n /\ n \in 0 .. n /\ \A i \in 1 .. n : i \in 0 .. n /\ i - 1 \in 0 .. n /\ i # 0
  OBVIOUS
<1>6. DOMAIN f = 0 .. n /\ f[0] = t /\ \A i \in 1 .. n : f[i] = Turn(f[i - 1])
  BY <1>4, <1>5
<1>7. \A i \in 0 .. n : f[i] \in Nat
  <2> DEFINE G == {i \in 0 .. n : f[i] \in Nat}
  <2>1. G \in SUBSET (0 .. n) /\ 0 \in G
    BY <1>5, <1>6
  <2>2. \A i \in 1 .. n : i - 1 \in G => i \in G
    BY <1>2, <1>5, <1>6
  <2>3. G = 0 .. n
    <3> HIDE DEF G
    <3> QED  BY <2>1, <2>2, StepByStep
  <2> QED  BY <2>3
<1>8. f \in [0 .. n -> Nat]
  <2>1. f = [i \in 0 .. n |-> f[i]]
    BY <1>4
  <2> QED  BY <1>7, <2>1
<1>9. NextWorkingInstant(t, s) = f[n]
  BY <1>1 DEF f
<1> QED  BY <1>6, <1>8, <1>9 DEF Turn, SearchTurns

\* A working window opens ahead, within twice the turns the search may take.
LEMMA WindowAhead ==
    ASSUME NEW s \in Schedules, s.days # {}, NEW t \in Nat, NEW n \in Nat, n = 2 * Week * Hours
    PROVE  \E d \in Nat : Weekday(d) \in s.days /\ t < At(d, s.hoursStart) /\ At(d, s.hoursStart) < t + 2 * n
<1> DEFINE D == DayOf(t)
           h == s.hoursStart
<1>1. /\ D \in Nat /\ t % Day \in Nat /\ t % Day < Day /\ t = D * Day + (t % Day)
      /\ Day \in Nat \ {0} /\ Day = 2 * Hours /\ Hours \in Nat \ {0} /\ Week \in Nat \ {0}
      /\ h \in Nat /\ h < Hours
  <2>1. D \in Nat /\ t % Day \in 0 .. Day - 1 /\ t = D * Day + (t % Day)
    BY TimeSplits
  <2>2. h \in 0 .. Hours - 1
    BY ScheduleFacts
  <2> HIDE DEF D, h
  <2> QED  BY <2>1, <2>2, DayFacts
<1>2. PICK i \in 0 .. Week - 1 : Weekday(D + 1 + i) \in s.days
  <2>1. D + 1 \in Nat
    BY <1>1
  <2> QED  BY <2>1, ActiveAhead
<1> DEFINE w == D + 1 + i
           p == D * Day
           k == i * Day
           m == Week * Day
<1>3. p \in Nat /\ k \in Nat /\ m \in Nat /\ k + Day <= m
  <2>1. i + 1 + (Week - 1 - i) = Week /\ Week - 1 - i \in Nat /\ i \in Nat
    BY <1>1
  <2>2. (Week - 1 - i) * Day \in Nat /\ i * Day \in Nat
    BY <1>1, <2>1
  <2>3. Week * Day = i * Day + Day + (Week - 1 - i) * Day
    BY <1>1, <2>1
  <2> QED  BY <1>1, <2>2, <2>3
<1>4. w * Day = p + Day + k
  BY <1>1
<1>5. n = m
  BY <1>1
<1>6. At(w, h) = p + Day + k + 2 * h
  BY <1>4 DEF At
<1>7. t = p + (t % Day)
  BY <1>1
<1> DEFINE q == t % Day
<1>8. q \in Nat /\ q < Day /\ t = p + q
  BY <1>1, <1>7
<1>9. w \in Nat /\ Weekday(w) \in s.days
  BY <1>1, <1>2
<1> HIDE DEF p, k, m, q, D
<1>10. \A a, half \in Nat : /\ a = p + 2 * half + k + 2 * h
                            /\ q < 2 * half /\ k + 2 * half <= m /\ h < half
                            => p + q < a /\ a < p + q + 2 * m
  <2> HIDE DEF h
  <2>1. p \in Nat /\ q \in Nat /\ k \in Nat /\ m \in Nat /\ h \in Nat
    BY <1>1, <1>3, <1>8
  <2> QED  BY ONLY <2>1
<1> HIDE DEF h, w
<1>11. At(w, h) \in Nat
  BY <1>1, <1>3, <1>6
<1>12. t < At(w, h) /\ At(w, h) < t + 2 * m
  BY <1>1, <1>3, <1>6, <1>8, <1>10, <1>11
<1> QED  BY <1>5, <1>9, <1>12 DEF h

\* The search finds working time, never before what was asked.
LEMMA SearchFindsWork ==
    ASSUME NEW s \in Schedules, HourGateOn(s), s.days # {}, NEW t \in Nat
    PROVE  LET w == NextWorkingInstant(t, s) IN
           w \in Nat /\ w >= t /\ IsWithinWorkingHours(w, s)
<1> DEFINE n == 2 * Week * Hours
<1>1. n \in Nat
  BY DayFacts
<1>2. PICK d \in Nat : Weekday(d) \in s.days /\ At(d, s.hoursStart) < t + 2 * n /\ t < At(d, s.hoursStart)
  BY <1>1, WindowAhead
<1>3. PICK f \in [0 .. n -> Nat] :
              /\ f[0] = t /\ NextWorkingInstant(t, s) = f[n]
              /\ \A i \in 1 .. n :
                    f[i] = IF IsWithinWorkingHours(f[i - 1], s) THEN f[i - 1] ELSE Advance(f[i - 1], s)
  <2>1. SearchTurns(t, s, n)
    BY <1>1, SearchUnfolds
  <2> HIDE DEF n
  <2> QED  BY <2>1 DEF SearchTurns
<1> HIDE DEF n
<1> DEFINE T == At(d, s.hoursStart)
           G == {i \in 0 .. n : /\ f[i] >= t
                                /\ \/ IsWithinWorkingHours(f[i], s)
                                   \/ f[i] >= t + 2 * i /\ f[i] < T}
<1>4. T \in Nat
  <2>1. s.hoursStart \in 0 .. Hours - 1
    BY ScheduleFacts
  <2> QED  BY <2>1, AtFacts
<1>5. IsWithinWorkingHours(T, s) /\ IsWithinWorkingHours(T + 1, s)
  <2>1. 0 \in 0 .. 1 /\ 1 \in 0 .. 1 /\ T + 0 = T
    BY <1>4
  <2>2. \A r \in 0 .. 1 : IsWithinWorkingHours(T + r, s)
    BY <1>2, WindowOpens
  <2> HIDE DEF T
  <2>3. IsWithinWorkingHours(T + 0, s)
    BY <2>1, <2>2
  <2> QED  BY <2>1, <2>2, <2>3
<1>6. t < T /\ T < t + 2 * n
  BY <1>2
<1> HIDE DEF T
<1>7. 0 \in G
  BY <1>1, <1>3, <1>6
<1>8. ASSUME NEW i \in 1 .. n, i - 1 \in G PROVE i \in G
  <2>1. f[i - 1] \in Nat /\ f[i] \in Nat /\ i \in 0 .. n /\ i - 1 \in 0 .. n
    BY <1>1
  <2>2. CASE IsWithinWorkingHours(f[i - 1], s)
    BY <1>3, <1>8, <2>1, <2>2
  <2>3. CASE ~IsWithinWorkingHours(f[i - 1], s)
    <3>1. f[i] = Advance(f[i - 1], s) /\ f[i - 1] >= t /\ f[i - 1] >= t + 2 * (i - 1) /\ f[i - 1] < T
      BY <1>3, <1>8, <2>3
    <3>2. f[i] >= f[i - 1] /\ (IsWithinWorkingHours(f[i], s) \/ f[i] = f[i - 1] + 2)
      BY <2>1, <2>3, <3>1, TurnFacts
    <3>3. CASE IsWithinWorkingHours(f[i], s)
      BY <2>1, <3>1, <3>2, <3>3
    <3>4. CASE f[i] = f[i - 1] + 2
      <4>1. f[i] < T \/ f[i] = T \/ f[i] = T + 1
        BY SMTT(60), <1>4, <2>1, <3>1, <3>4
      <4>2. f[i] >= t + 2 * i
        BY <2>1, <3>1, <3>4
      <4> QED  BY <1>5, <2>1, <3>1, <3>2, <4>1, <4>2
    <3> QED  BY <3>2, <3>3, <3>4
  <2> QED  BY <2>2, <2>3
<1>9. G = 0 .. n
  <2>1. G \in SUBSET (0 .. n)
    OBVIOUS
  <2> HIDE DEF G
  <2> QED  BY <1>1, <1>7, <1>8, <2>1, StepByStep
<1>10. n \in G /\ n \in 0 .. n
  BY <1>1, <1>9
<1>11. f[n] \in Nat
  BY <1>10
<1> QED  BY <1>1, <1>3, <1>4, <1>6, <1>10, <1>11

-----------------------------------------------------------------------------
(* The order of the queue, and the turns of its selection *)

Below(q, a) == {b \in DOMAIN q : Sooner(q, b, a)}

\* The queue is ordered strictly: no two places, and every action in one.
LEMMA OrderIsStrict ==
    ASSUME NEW n \in Nat, NEW q \in [1 .. n -> QueuedActions]
    PROVE  /\ \A a \in 1 .. n : ~Sooner(q, a, a)
           /\ \A a, b \in 1 .. n : a = b \/ Sooner(q, a, b) \/ Sooner(q, b, a)
           /\ \A a, b, c \in 1 .. n : Sooner(q, a, b) /\ Sooner(q, b, c) => Sooner(q, a, c)
<1>1. \A a \in 1 .. n : q[a].at \in Int
  BY DEF QueuedActions
<1> QED  BY <1>1 DEF Sooner

\* An action's place is the number of actions before it.
LEMMA PlacesDiffer ==
    ASSUME NEW n \in Nat, NEW q \in [1 .. n -> QueuedActions]
    PROVE  /\ \A a \in 1 .. n : Cardinality(Below(q, a)) \in 0 .. n - 1
           /\ \A a, b \in 1 .. n : Cardinality(Below(q, a)) = Cardinality(Below(q, b)) => a = b
<1>1. DOMAIN q = 1 .. n /\ IsFiniteSet(1 .. n) /\ Cardinality(1 .. n) = n
  BY FS_Interval
<1>2. \A a \in 1 .. n : Below(q, a) \in SUBSET (1 .. n) /\ a \notin Below(q, a)
  BY <1>1, OrderIsStrict DEF Below
<1>3. ASSUME NEW a \in 1 .. n
      PROVE  IsFiniteSet(Below(q, a)) /\ Cardinality(Below(q, a)) \in 0 .. n - 1
  <2>1. /\ IsFiniteSet(Below(q, a)) /\ Cardinality(Below(q, a)) <= n
        /\ (Cardinality(Below(q, a)) = n => Below(q, a) = 1 .. n)
    BY <1>1, <1>2, FS_Subset
  <2>2. Cardinality(Below(q, a)) \in Nat
    BY <2>1, FS_CardinalityType
  <2> QED  BY <1>2, <2>1, <2>2
<1>4. ASSUME NEW a \in 1 .. n, NEW b \in 1 .. n, Sooner(q, a, b)
      PROVE  Cardinality(Below(q, a)) < Cardinality(Below(q, b))
  <2>1. Below(q, a) \in SUBSET Below(q, b) /\ a \in Below(q, b)
    BY <1>1, <1>4, OrderIsStrict DEF Below
  <2>2. /\ Cardinality(Below(q, a)) <= Cardinality(Below(q, b))
        /\ (Cardinality(Below(q, b)) = Cardinality(Below(q, a)) => Below(q, b) = Below(q, a))
    BY <1>3, <2>1, FS_Subset
  <2> QED  BY <1>2, <1>3, <2>1, <2>2
<1>5. ASSUME NEW a \in 1 .. n, NEW b \in 1 .. n, a # b
      PROVE  Cardinality(Below(q, a)) # Cardinality(Below(q, b))
  <2>1. Sooner(q, a, b) \/ Sooner(q, b, a)
    BY <1>5, OrderIsStrict
  <2> QED  BY <1>3, <1>4, <2>1
<1> QED  BY <1>3, <1>5

\* The ordered queue holds every action of the queue and nothing else.
LEMMA OrderIsWhole ==
    ASSUME NEW n \in Nat, NEW q \in [1 .. n -> QueuedActions]
    PROVE  /\ Ordered(q) \in [1 .. n -> 1 .. n]
           /\ \A a \in 1 .. n : \E i \in 1 .. n : Ordered(q)[i] = a
<1> DEFINE place == [a \in 1 .. n |-> Cardinality(Below(q, a))]
           T == 0 .. n - 1
<1>1. DOMAIN q = 1 .. n
  OBVIOUS
<1>2. place \in Injection(1 .. n, T)
  <2>1. place \in [1 .. n -> T] /\ \A a, b \in 1 .. n : place[a] = place[b] => a = b
    BY PlacesDiffer
  <2> HIDE DEF place
  <2> QED  BY <2>1 DEF Injection, IsInjective
<1>3. IsFiniteSet(T) /\ Cardinality(T) = n /\ IsFiniteSet(1 .. n) /\ Cardinality(1 .. n) = n
  BY FS_Interval
<1>4. place \in Surjection(1 .. n, T)
  <2> HIDE DEF place, T
  <2> QED  BY <1>2, <1>3, FS_Injection
<1>5. \A k \in T : \E a \in 1 .. n : Cardinality(Below(q, a)) = k
  BY <1>4 DEF Surjection
<1>6. ASSUME NEW i \in 1 .. n
      PROVE  Ordered(q)[i] \in 1 .. n /\ Cardinality(Below(q, Ordered(q)[i])) = i - 1
  <2>1. i - 1 \in T
    OBVIOUS
  <2>2. \E a \in DOMAIN q : Cardinality({b \in DOMAIN q : Sooner(q, b, a)}) = i - 1
    BY <1>1, <1>5, <2>1 DEF Below
  <2>3. Ordered(q)[i] = CHOOSE a \in DOMAIN q : Cardinality({b \in DOMAIN q : Sooner(q, b, a)}) = i - 1
    BY <1>1 DEF Ordered
  <2> QED  BY <1>1, <2>2, <2>3 DEF Below
<1>7. Ordered(q) \in [1 .. n -> 1 .. n]
  <2> DEFINE nth(i) == CHOOSE a \in DOMAIN q : Cardinality({b \in DOMAIN q : Sooner(q, b, a)}) = i - 1
  <2>1. Ordered(q) = [i \in DOMAIN q |-> nth(i)]
    BY DEF Ordered
  <2> HIDE DEF nth
  <2>2. \A i \in 1 .. n : nth(i) \in 1 .. n
    BY <1>1, <1>6, <2>1
  <2> QED  BY <1>1, <2>1, <2>2
<1>8. ASSUME NEW a \in 1 .. n PROVE \E i \in 1 .. n : Ordered(q)[i] = a
  <2> DEFINE i == Cardinality(Below(q, a)) + 1
  <2>1. i \in 1 .. n /\ i - 1 = Cardinality(Below(q, a))
    <3>1. Cardinality(Below(q, a)) \in 0 .. n - 1
      BY PlacesDiffer
    <3> QED  BY <3>1
  <2>2. Ordered(q)[i] \in 1 .. n /\ Cardinality(Below(q, Ordered(q)[i])) = Cardinality(Below(q, a))
    BY <1>6, <2>1
  <2>3. Ordered(q)[i] = a
    BY <2>2, PlacesDiffer
  <2> QED  BY <2>1, <2>3
<1> QED  BY <1>7, <1>8

\* The selection of dueActions, turn by turn.
SelectionTurns(q, had, n) ==
    \E f \in [0 .. n -> SUBSET (1 .. n)] :
        /\ f[0] = {} /\ DueActions(q, had) = f[n]
        /\ \A i \in 1 .. n :
              f[i] = IF Selects(q, had, f[i - 1], Ordered(q)[i])
                     THEN f[i - 1] \cup {Ordered(q)[i]} ELSE f[i - 1]

\* The selection is what its recursive function says.
LEMMA SelectionUnfolds ==
    ASSUME NEW n \in Nat, NEW q \in [1 .. n -> QueuedActions], NEW had,
           IsWithinWorkingHours(now, sched)
    PROVE  SelectionTurns(q, had, n)
<1> DEFINE order == Ordered(q)
           Turn(i, d) == IF Selects(q, had, d, order[i]) THEN d \cup {order[i]} ELSE d
           Rec(g) == [i \in 0 .. n |-> IF i = 0 THEN {} ELSE Turn(i, g[i - 1])]
           S == SUBSET (1 .. n)
           F == [p \in (1 .. n) \X S |-> Turn(p[1], p[2])]
<1>1. order \in [1 .. n -> 1 .. n]
  BY OrderIsWhole
<1>2. Len(q) = n
  OBVIOUS
<1>3. DueActions(q, had) = (CHOOSE g : g = Rec(g))[n]
  BY <1>2 DEF DueActions
<1> HIDE DEF order
<1>4. \A i \in 1 .. n, d \in S : Turn(i, d) \in S
  BY <1>1
<1>5. {} \in S
  OBVIOUS
<1> HIDE DEF Turn, S
<1>6. \E g : g = Rec(g)
  <2>1. F \in [(1 .. n) \X S -> S]
    BY <1>4
  <2>2. \A i \in 1 .. n, d \in S : F[<<i, d>>] = Turn(i, d)
    OBVIOUS
  <2> HIDE DEF F
  <2>3. PICK f \in [0 .. n -> S] : f[0] = {} /\ \A i \in 1 .. n : f[i] = F[<<i, f[i - 1]>>]
    <3>1. Repeats(n, S, {}, F)
      BY <1>5, <2>1, RecursionExists
    <3> QED  BY <3>1 DEF Repeats
  <2>4. ASSUME NEW i \in 0 .. n PROVE f[i] = IF i = 0 THEN {} ELSE Turn(i, f[i - 1])
    <3>1. CASE i = 0
      BY <2>3, <3>1
    <3>2. CASE i # 0
      <4>1. i \in 1 .. n /\ i - 1 \in 0 .. n
        BY <3>2
      <4> QED  BY <2>2, <2>3, <3>2, <4>1
    <3> QED  BY <3>1, <3>2
  <2>5. f = Rec(f)
    BY <2>3, <2>4
  <2> QED  BY <2>5
<1> DEFINE f == CHOOSE g : g = Rec(g)
<1>7. f = Rec(f)
  BY <1>6
<1> HIDE DEF f
<1>8. 0 \in 0 .. n /\ n \in 0 .. n /\ \A i \in 1 .. n : i \in 0 .. n /\ i - 1 \in 0 .. n /\ i # 0
  OBVIOUS
<1>9. DOMAIN f = 0 .. n /\ f[0] = {} /\ \A i \in 1 .. n : f[i] = Turn(i, f[i - 1])
  BY <1>7, <1>8
<1>10. \A i \in 0 .. n : f[i] \in S
  <2> DEFINE G == {i \in 0 .. n : f[i] \in S}
  <2>1. G \in SUBSET (0 .. n) /\ 0 \in G
    BY <1>5, <1>8, <1>9
  <2>2. \A i \in 1 .. n : i - 1 \in G => i \in G
    BY <1>4, <1>8, <1>9
  <2>3. G = 0 .. n
    <3> HIDE DEF G
    <3> QED  BY <2>1, <2>2, StepByStep
  <2> QED  BY <2>3
<1>11. f \in [0 .. n -> S]
  <2>1. f = [i \in 0 .. n |-> f[i]]
    BY <1>7
  <2> QED  BY <1>10, <2>1
<1>12. DueActions(q, had) = f[n]
  BY <1>3 DEF f
<1> QED  BY <1>9, <1>11, <1>12 DEF Turn, S, SelectionTurns, order

\* How much of the cap a type has used, with a batch d.
Spent(q, had, d, type) == had + Cardinality(OfType(q, d, type))

\* A batch takes what the order offers, within keys and caps, and leaves out
\* only what these leave no room for.
LEMMA SelectionIsExact ==
    ASSUME NEW n \in Nat, NEW q \in [1 .. n -> QueuedActions], NEW had \in 0 .. Cap,
           IsWithinWorkingHours(now, sched)
    PROVE  LET due == DueActions(q, had) IN
           /\ due \in SUBSET (1 .. n)
           /\ \A x, y \in due : q[x].key = q[y].key => x = y
           /\ \A x \in due : Spent(q, had, due, q[x].type) <= Cap
           /\ \A x \in 1 .. n \ due :
                 q[x].at <= 0 /\ q[x].allow =>
                     Spent(q, had, due, q[x].type) >= Cap \/ \E y \in due : q[y].key = q[x].key
<1> DEFINE order == Ordered(q)
           S == SUBSET (1 .. n)
           Offered(x, d) ==
              q[x].at <= 0 /\ q[x].allow =>
                  x \in d \/ Spent(q, had, d, q[x].type) >= Cap \/ \E y \in d : q[y].key = q[x].key
           Fits(d) == /\ \A x, y \in d : q[x].key = q[y].key => x = y
                      /\ \A x \in d : Spent(q, had, d, q[x].type) <= Cap
<1>1. PICK f \in [0 .. n -> S] :
        /\ f[0] = {} /\ DueActions(q, had) = f[n]
        /\ \A i \in 1 .. n :
              f[i] = IF Selects(q, had, f[i - 1], order[i]) THEN f[i - 1] \cup {order[i]} ELSE f[i - 1]
  <2>1. SelectionTurns(q, had, n)
    BY SelectionUnfolds
  <2> QED  BY <2>1 DEF SelectionTurns
<1>2. order \in [1 .. n -> 1 .. n] /\ \A a \in 1 .. n : \E i \in 1 .. n : order[i] = a
  BY OrderIsWhole
<1> HIDE DEF order
<1>3. Cap \in Nat /\ had \in Nat
  BY ScheduleAssumption
<1>4. ASSUME NEW d \in S, NEW type
      PROVE  IsFiniteSet(OfType(q, d, type)) /\ Spent(q, had, d, type) \in Nat
  <2>1. OfType(q, d, type) \in SUBSET (1 .. n) /\ IsFiniteSet(1 .. n)
    <3>1. OfType(q, d, type) \in SUBSET (1 .. n)
      BY DEF OfType
    <3> QED  BY <3>1, FS_Interval
  <2>2. IsFiniteSet(OfType(q, d, type)) /\ Cardinality(OfType(q, d, type)) \in Nat
    BY <2>1, FS_Subset, FS_CardinalityType
  <2> QED  BY <1>3, <2>2 DEF Spent
<1>5. ASSUME NEW d \in S, NEW e \in S, d \subseteq e, NEW type
      PROVE  Spent(q, had, d, type) <= Spent(q, had, e, type)
  <2>1. OfType(q, d, type) \in SUBSET OfType(q, e, type)
    BY <1>5 DEF OfType
  <2>2. Cardinality(OfType(q, d, type)) <= Cardinality(OfType(q, e, type))
    BY <1>4, <2>1, FS_Subset
  <2>3. Cardinality(OfType(q, d, type)) \in Nat /\ Cardinality(OfType(q, e, type)) \in Nat
    BY <1>4, FS_CardinalityType
  <2> QED  BY <1>3, <2>2, <2>3 DEF Spent
<1>6. ASSUME NEW d \in S, NEW e \in S, d \subseteq e, NEW x \in 1 .. n, Offered(x, d)
      PROVE  Offered(x, e)
  <2>1. Spent(q, had, d, q[x].type) <= Spent(q, had, e, q[x].type)
    BY <1>5, <1>6
  <2>2. Spent(q, had, d, q[x].type) \in Nat /\ Spent(q, had, e, q[x].type) \in Nat
    BY <1>4
  <2> QED  BY <1>3, <1>6, <2>1, <2>2
<1>7. ASSUME NEW d \in S, Fits(d), NEW a \in 1 .. n, Selects(q, had, d, a)
      PROVE  Fits(d \cup {a})
  <2> DEFINE e == d \cup {a}
  <2>1. /\ \A b \in d : q[b].key # q[a].key
        /\ Spent(q, had, d, q[a].type) < Cap
    BY <1>7 DEF Selects, Spent
  <2>2. \A x, y \in e : q[x].key = q[y].key => x = y
    BY <1>7, <2>1
  <2>3. OfType(q, e, q[a].type) = OfType(q, d, q[a].type) \cup {a}
    BY DEF OfType
  <2>4. Spent(q, had, e, q[a].type) <= Spent(q, had, d, q[a].type) + 1
    <3> DEFINE T == OfType(q, d, q[a].type)
               k == Cardinality(T)
               m == Cardinality(T \cup {a})
    <3>1. IsFiniteSet(T)
      BY <1>4
    <3>2. k \in Nat /\ m \in Nat /\ m <= k + 1
      <4> HIDE DEF T
      <4>1. IsFiniteSet(T \cup {a}) /\ m = IF a \in T THEN k ELSE k + 1
        BY <3>1, FS_AddElement
      <4>2. k \in Nat /\ m \in Nat
        BY <3>1, <4>1, FS_CardinalityType
      <4> HIDE DEF k, m
      <4> QED  BY <4>1, <4>2
    <3>3. Spent(q, had, e, q[a].type) = had + m /\ Spent(q, had, d, q[a].type) = had + k
      BY <2>3 DEF Spent
    <3> HIDE DEF k, m
    <3> QED  BY <1>3, <3>2, <3>3
  <2>5. e \in S
    OBVIOUS
  <2>6. ASSUME NEW x \in e PROVE Spent(q, had, e, q[x].type) <= Cap
    <3>1. CASE q[x].type = q[a].type
      <4>1. Spent(q, had, e, q[a].type) \in Nat /\ Spent(q, had, d, q[a].type) \in Nat
        BY <1>4, <2>5
      <4> QED  BY <1>3, <2>1, <2>4, <3>1, <4>1
    <3>2. CASE q[x].type # q[a].type
      <4>1. OfType(q, e, q[x].type) = OfType(q, d, q[x].type) /\ x \in d
        BY <3>2 DEF OfType
      <4> QED  BY <1>7, <4>1 DEF Spent
    <3> QED  BY <3>1, <3>2
  <2> QED  BY <2>2, <2>6
<1> DEFINE G == {i \in 0 .. n : Fits(f[i]) /\ \A j \in 1 .. i : Offered(order[j], f[i])}
<1>8. G \in SUBSET (0 .. n) /\ 0 \in G
  <2>1. 0 \in 0 .. n /\ 1 .. 0 = {}
    OBVIOUS
  <2> QED  BY <1>1, <2>1
<1>9. ASSUME NEW i \in 1 .. n, i - 1 \in G PROVE i \in G
  <2> DEFINE d == f[i - 1]
             e == f[i]
             a == order[i]
  <2>1. i \in 0 .. n /\ i - 1 \in 0 .. n
    OBVIOUS
  <2>2. d \in S /\ e \in S /\ a \in 1 .. n /\ Fits(d) /\ \A j \in 1 .. i - 1 : Offered(order[j], d)
    BY <1>1, <1>2, <1>9, <2>1
  <2>3. e = IF Selects(q, had, d, a) THEN d \cup {a} ELSE d
    BY <1>1
  <2> HIDE DEF d, e
  <2>4. d \subseteq e
    BY <2>3
  <2>5. Fits(e)
    <3>1. CASE Selects(q, had, d, a)
      <4>1. Fits(d \cup {a})
        <5> HIDE DEF Fits, a
        <5> QED  BY <1>7, <2>2, <3>1
      <4> QED  BY <2>3, <3>1, <4>1
    <3>2. CASE ~Selects(q, had, d, a)
      BY <2>2, <2>3, <3>2
    <3> QED  BY <3>1, <3>2
  <2>6. Offered(a, d) \/ a \in e
    <3>1. CASE Selects(q, had, d, a)
      BY <2>3, <3>1
    <3>2. CASE ~Selects(q, had, d, a)
      <4>1. Spent(q, had, d, q[a].type) \in Nat
        BY <1>4, <2>2
      <4>2. q[a].at <= 0 /\ q[a].allow =>
               ~(Spent(q, had, d, q[a].type) < Cap) \/ \E y \in d : q[y].key = q[a].key
        BY <3>2 DEF Selects, Spent
      <4> QED  BY <1>3, <4>1, <4>2
    <3> QED  BY <3>1, <3>2
  <2>7. Offered(a, e)
    <3>1. CASE Offered(a, d)
      <4> HIDE DEF Offered, a
      <4> QED  BY <1>6, <2>2, <2>4, <3>1
    <3>2. CASE a \in e
      <4> HIDE DEF a
      <4> QED  BY <3>2
    <3> QED  BY <2>6, <3>1, <3>2
  <2>8. ASSUME NEW j \in 1 .. i PROVE Offered(order[j], e)
    <3>1. CASE j = i
      BY <2>7, <3>1
    <3>2. CASE j # i
      <4>1. j \in 1 .. i - 1 /\ j \in 1 .. n
        BY <3>2
      <4>2. order[j] \in 1 .. n /\ Offered(order[j], d)
        BY <1>2, <2>2, <4>1
      <4> HIDE DEF Offered
      <4> QED  BY <1>6, <2>2, <2>4, <4>2
    <3> QED  BY <3>1, <3>2
  <2> QED  BY <2>1, <2>5, <2>8 DEF e
<1>10. n \in G
  <2>1. G = 0 .. n
    <3> HIDE DEF G
    <3> QED  BY <1>8, <1>9, StepByStep
  <2> QED  BY SMTT(60), <2>1
<1> DEFINE due == f[n]
<1>11. due \in S /\ Fits(due) /\ \A j \in 1 .. n : Offered(order[j], due)
  <2>1. n \in 0 .. n
    OBVIOUS
  <2> QED  BY <1>1, <1>10, <2>1
<1> HIDE DEF due, Offered
<1>12. \A x \in 1 .. n : Offered(x, due)
  BY <1>2, <1>11
<1>13. DueActions(q, had) = due
  BY <1>1 DEF due
<1> QED  BY <1>11, <1>12, <1>13 DEF Offered

-----------------------------------------------------------------------------
(* What the scheduler hands out *)

Paced(entry) ==
    /\ entry.asked \in Nat /\ entry.gap \in Nat
    /\ entry.notBefore = NextRunAt(entry.asked, entry.gap)

Answered(b) ==
    \E n \in Nat, had \in 0 .. Cap : \E q \in [1 .. n -> QueuedActions] :
        b = [queue |-> q, used |-> had, due |-> DueActions(q, had)]

\* Every follow-up was paced, and every batch selected, with the schedule and
\* the time they are read with.
PacingInv ==
    /\ CalendarOK
    /\ queue \in Seq([asked : Nat, gap : Nat, notBefore : Int]) /\ \A i \in DOMAIN queue : Paced(queue[i])
    /\ batch # <<>> => Answered(batch[1])

\* The search answers with a time, whatever the schedule.
LEMMA SearchIsATime ==
    ASSUME NEW s \in Schedules, NEW t \in Nat
    PROVE  NextWorkingInstant(t, s) \in Nat
<1> DEFINE n == 2 * Week * Hours
<1>1. n \in Nat
  BY DayFacts
<1>2. SearchTurns(t, s, n)
  BY <1>1, SearchUnfolds
<1> HIDE DEF n
<1>3. n \in 0 .. n
  BY <1>1
<1> QED  BY <1>2, <1>3 DEF SearchTurns

\* A paced follow-up.
LEMMA RunTime ==
    ASSUME CalendarOK, NEW at \in Nat, NEW gap \in Nat
    PROVE  LET from == IF at > now THEN at ELSE now
               w    == NextWorkingInstant(from, sched)
               t    == NextRunAt(at, gap) IN
           /\ t \in Nat
           /\ HourGateOn(sched) /\ sched.days # {} =>
                 /\ w \in from .. t /\ IsWithinWorkingHours(w, sched)
                 /\ t >= w + gap /\ IsWithinWorkingHours(t, sched)
<1> DEFINE from == IF at > now THEN at ELSE now
           w    == NextWorkingInstant(from, sched)
           t    == NextRunAt(at, gap)
<1>1. sched \in Schedules /\ now \in Nat /\ from \in Nat
  BY DEF CalendarOK
<1>2. t = NextWorkingInstant(w + gap, sched)
  BY DEF NextRunAt
<1> HIDE DEF from, t
<1>3. w \in Nat
  BY <1>1, SearchIsATime
<1>4. HourGateOn(sched) /\ sched.days # {} => w >= from /\ IsWithinWorkingHours(w, sched)
  BY <1>1, SearchFindsWork
<1> HIDE DEF w
<1>5. w + gap \in Nat
  BY <1>3
<1>6. t \in Nat
  BY <1>1, <1>2, <1>5, SearchIsATime
<1>7. HourGateOn(sched) /\ sched.days # {} => t >= w + gap /\ IsWithinWorkingHours(t, sched)
  BY <1>1, <1>2, <1>5, SearchFindsWork
<1> QED  BY <1>1, <1>3, <1>4, <1>5, <1>6, <1>7 DEF from, w, t

LEMMA PacingInvHolds == PacingSpec => []PacingInv
<1>1. Init /\ PacingInit => PacingInv
  <2>1. Week * Day \in Nat
    BY DayFacts
  <2> QED  BY <2>1 DEF Init, PacingInit, PacingInv, CalendarOK
<1>2. PacingInv /\ [PacingNext]_<<vars, pacingVars>> => PacingInv'
  <2> SUFFICES ASSUME PacingInv, [PacingNext]_<<vars, pacingVars>> PROVE PacingInv'
    OBVIOUS
  <2>1. UNCHANGED vars
    BY DEF PacingNext, vars
  <2>2. CalendarOK' /\ now \in Nat /\ CalendarOK
    BY <2>1 DEF PacingInv, CalendarOK, vars
  <2>3. \A at, gap : NextRunAt(at, gap)' = NextRunAt(at, gap)
    BY <2>1 DEF NextRunAt, vars
  <2>4. CASE UNCHANGED pacingVars
    BY <2>1, <2>2, <2>4 DEF PacingInv, pacingVars, vars, Paced, Answered, NextRunAt, DueActions
  <2>5. CASE EnqueueFollowUp
    <3>1. PICK at \in (IF now = 0 THEN 0 ELSE now - 1) .. now + Day, gap \in Gaps :
             queue' = Append(queue, [asked |-> at, gap |-> gap, notBefore |-> NextRunAt(at, gap)])
      BY <2>5 DEF EnqueueFollowUp
    <3> DEFINE entry == [asked |-> at, gap |-> gap, notBefore |-> NextRunAt(at, gap)]
    <3>2. at \in Nat /\ gap \in Nat
      BY <2>2, DayFacts, PacingAssumption DEF Gaps
    <3>3. NextRunAt(at, gap) \in Int
      BY <2>2, <3>2, RunTime
    <3>4. entry \in [asked : Nat, gap : Nat, notBefore : Int] /\ Paced(entry)
      BY <3>2, <3>3 DEF Paced
    <3> HIDE DEF entry
    <3>5. /\ queue' \in Seq([asked : Nat, gap : Nat, notBefore : Int])
          /\ \A i \in DOMAIN queue' : queue'[i] = entry \/ (i \in DOMAIN queue /\ queue'[i] = queue[i])
      BY SMTT(60), <3>1, <3>4 DEF PacingInv, entry
    <3>6. \A i \in DOMAIN queue' : Paced(queue'[i])
      BY <3>4, <3>5 DEF PacingInv
    <3> QED  BY ZenonT(60), <2>1, <2>2, <2>5, <3>5, <3>6
                DEF PacingInv, EnqueueFollowUp, vars, Paced, Answered, NextRunAt, DueActions
  <2>6. CASE CallDueActions
    <3>1. PICK n \in 0 .. MaxBatch, had \in 0 .. Cap : \E q \in [1 .. n -> QueuedActions] :
             batch' = <<[queue |-> q, used |-> had, due |-> DueActions(q, had)]>>
      BY <2>6 DEF CallDueActions
    <3>2. Answered(batch'[1])
      BY <3>1, PacingAssumption DEF Answered
    <3> QED  BY <2>1, <2>2, <2>6, <3>2 DEF PacingInv, CallDueActions, vars, Paced, Answered, NextRunAt, DueActions
  <2> QED  BY <2>4, <2>5, <2>6 DEF PacingNext, vars, pacingVars
<1> QED  BY <1>1, <1>2, PTL DEF PacingSpec

\* Work is paced exactly (PacingHolds: scheduler.ts nextRunAt and dueActions,
\* working-hours.ts, safety-gate.ts scheduleDefer and advance.ts
\* dueAfterDelay): a deferral and a delay find the first working moment, jitter
\* never carries a follow-up out of hours, and a batch of due actions keeps its
\* keys apart, fits the budget and leaves out only what does not, for every
\* schedule, queue, budget and jitter.
THEOREM WorkIsPacedExactly == PacingSpec => []PacingHolds
<1>1. PacingInv => PacedIntoWindow
  <2> SUFFICES ASSUME PacingInv, sched.days # {}, HourGateOn(sched), NEW i \in DOMAIN queue
               PROVE  LET t == queue[i].notBefore
                          from == IF queue[i].asked > now THEN queue[i].asked ELSE now
                          first == Min({u \in from .. t : IsWithinWorkingHours(u, sched)}) IN
                      IsWithinWorkingHours(t, sched) /\ t >= first + queue[i].gap
    BY DEF PacedIntoWindow
  <2> DEFINE t == queue[i].notBefore
             from == IF queue[i].asked > now THEN queue[i].asked ELSE now
             w == NextWorkingInstant(from, sched)
             moments == {u \in from .. t : IsWithinWorkingHours(u, sched)}
  <2>1. CalendarOK /\ queue[i].asked \in Nat /\ queue[i].gap \in Nat
        /\ t = NextRunAt(queue[i].asked, queue[i].gap)
    BY DEF PacingInv, Paced
  <2>2. /\ t \in Nat /\ w \in from .. t /\ IsWithinWorkingHours(w, sched)
        /\ t >= w + queue[i].gap /\ IsWithinWorkingHours(t, sched)
    BY <2>1, RunTime
  <2>3. from \in Nat
    BY <2>1 DEF CalendarOK
  <2>4. moments \in SUBSET Nat /\ w \in moments
    BY <2>2, <2>3
  <2>5. Min(moments) \in Nat /\ Min(moments) <= w
    <3> HIDE DEF moments, w
    <3> QED  BY <2>4, LeastOf
  <2> HIDE DEF moments, w
  <2> QED  BY <2>1, <2>2, <2>3, <2>4, <2>5 DEF moments
<1>2. PacingInv => BatchIsExact
  <2> SUFFICES ASSUME PacingInv, batch # <<>> PROVE BatchIsExact
    BY DEF BatchIsExact
  <2> DEFINE b == batch[1]
  <2>1. PICK n \in Nat, had \in 0 .. Cap : \E q \in [1 .. n -> QueuedActions] :
           b = [queue |-> q, used |-> had, due |-> DueActions(q, had)]
    BY DEF PacingInv, Answered
  <2>2. PICK q \in [1 .. n -> QueuedActions] :
           b = [queue |-> q, used |-> had, due |-> DueActions(q, had)]
    BY <2>1
  <2>3. b.queue = q /\ b.used = had /\ b.due = DueActions(q, had) /\ DOMAIN q = 1 .. n
    BY <2>2
  <2> HIDE DEF b
  <2>4. CASE ~IsWithinWorkingHours(now, sched)
    <3>1. b.due = {}
      BY <2>3, <2>4 DEF DueActions
    <3> QED  BY <2>4, <3>1 DEF BatchIsExact, b
  <2>5. CASE IsWithinWorkingHours(now, sched)
    <3> DEFINE due == DueActions(q, had)
    <3>1. /\ \A x, y \in due : q[x].key = q[y].key => x = y
          /\ \A x \in due : Spent(q, had, due, q[x].type) <= Cap
          /\ \A x \in 1 .. n \ due :
                q[x].at <= 0 /\ q[x].allow =>
                    Spent(q, had, due, q[x].type) >= Cap \/ \E y \in due : q[y].key = q[x].key
      BY <2>5, SelectionIsExact
    <3> HIDE DEF due
    <3> QED  BY <2>3, <2>5, <3>1 DEF BatchIsExact, Spent, b, due
  <2> QED  BY <2>4, <2>5
<1>3. PacingInv => WorkingTimeIsFound
  BY WorkingTimeIsExact DEF PacingInv
<1> QED  BY <1>1, <1>2, <1>3, PacingInvHolds, PTL DEF PacingHolds

-----------------------------------------------------------------------------
(* The forecast: the rungs of its ladder *)

\* The day of a rung: today, or the first active day so many days on.
LEMMA RungDays ==
    ASSUME CalendarOK, NEW n \in Nat
    PROVE  LET d == DayKey(Rung(n))
               D == DayOf(now) IN
           /\ Rung(n) \in Int /\ d \in Nat /\ D \in Nat
           /\ n = 0 => d = D
           /\ n # 0 /\ sched.days = {} => d = D + n + Week + 1
           /\ n # 0 /\ sched.days # {} =>
                 /\ d \in D + n .. D + n + Week - 1 /\ Weekday(d) \in sched.days
                 /\ \A e \in D + n .. d - 1 : Weekday(e) \notin sched.days
<1> DEFINE d == DayKey(Rung(n))
           D == DayOf(now)
<1>1. now \in Nat /\ sched \in Schedules /\ D \in Nat /\ Day \in Nat \ {0} /\ Week \in Nat \ {0}
  BY TimeSplits, DayFacts DEF CalendarOK
<1>2. CASE n = 0
  <2>1. Rung(n) = -1
    BY <1>2 DEF Rung, None
  <2>2. d = D
    BY <1>1, <2>1 DEF DayKey
  <2> QED  BY <1>1, <1>2, <2>1, <2>2
<1>3. CASE n # 0
  <2>1. n \in Nat \ {0} /\ n * Day \in Int
    BY <1>1, <1>3
  <2>2. Rung(n) = DueAfterDelay(now, n * Day, sched)
    BY <1>3 DEF Rung, ProjWindowStart, DueAfterDelay
  <2>3. CASE sched.days # {}
    <3> DEFINE t == Rung(n)
    <3>1. t \in Nat /\ t > now /\ DayOf(t) \in D + n .. D + n + Week - 1 /\ Weekday(DayOf(t)) \in sched.days
          /\ \A e \in D + n .. DayOf(t) - 1 : Weekday(e) \notin sched.days
      BY <1>1, <2>1, <2>2, <2>3, DelayFacts
    <3>2. d = DayOf(t)
      BY <3>1 DEF DayKey
    <3> HIDE DEF d, t, D
    <3>3. d \in Nat
      BY <1>1, <3>1, <3>2
    <3> QED  BY <1>1, <1>3, <2>3, <3>1, <3>2, <3>3 DEF t, d, D
  <2>4. CASE sched.days = {}
    <3> DEFINE raw == now + n * Day
               e == D + n + Week + 1
               h == sched.hoursStart
    <3>1. raw \in Nat /\ DayOf(raw) = D + n
      BY <1>1, DaysOn
    <3>2. n * Day >= Day
      <4>1. 0 * Day + Day <= n * Day
        BY <1>1, <2>1, Smaller
      <4> QED  BY <1>1, <4>1
    <3>3. ~(n * Day <= 0) /\ ~(n * Day < Day)
      BY <1>1, <2>1, <3>2
    <3>4. Rung(n) = At(e, h)
      BY <2>2, <2>4, <3>1, <3>3 DEF DueAfterDelay
    <3>5. e \in Nat /\ h \in 0 .. Hours - 1
      BY <1>1, ScheduleFacts
    <3> HIDE DEF e, h
    <3>6. At(e, h) \in Nat /\ DayOf(At(e, h)) = e
      BY <3>5, AtFacts
    <3>7. At(e, h) > now
      <4>1. ~(At(e, h) <= now)
        <5>1. e > D
          BY <1>1 DEF e
        <5> QED  BY <1>1, <3>5, <5>1, MorningOrder
      <4> QED  BY <1>1, <3>6, <4>1
    <3>8. d = e
      BY <3>4, <3>6, <3>7 DEF DayKey
    <3> QED  BY <1>1, <1>3, <2>4, <3>4, <3>5, <3>6, <3>8 DEF e
  <2> QED  BY <2>3, <2>4
<1> QED  BY <1>2, <1>3

\* The rungs go up.
LEMMA RungsAscend ==
    ASSUME CalendarOK, NEW m \in Nat, NEW n \in Nat, m <= n
    PROVE  DayKey(Rung(m)) <= DayKey(Rung(n))
<1> DEFINE a == DayKey(Rung(m))
           b == DayKey(Rung(n))
           D == DayOf(now)
<1>1. CASE m = 0 \/ m = n
  BY <1>1, RungDays, DayFacts
<1>2. CASE m # 0 /\ m # n /\ sched.days = {}
  <2>1. n # 0 /\ a = D + m + Week + 1 /\ b = D + n + Week + 1 /\ D \in Nat /\ Week \in Nat
    BY <1>2, RungDays, DayFacts
  <2> HIDE DEF a, b, D
  <2> QED  BY <2>1 DEF a, b
<1>3. CASE m # 0 /\ m # n /\ sched.days # {}
  <2>1. n # 0
    BY <1>3
  <2>2. /\ a \in D + m .. D + m + Week - 1 /\ \A e \in D + m .. a - 1 : Weekday(e) \notin sched.days
        /\ a \in Nat /\ D \in Nat
    BY <1>3, RungDays
  <2>3. b \in D + n .. D + n + Week - 1 /\ Weekday(b) \in sched.days /\ b \in Nat
    BY <1>3, <2>1, RungDays
  <2> HIDE DEF a, b, D
  <2>4. ~(b < a)
    BY <2>2, <2>3, DayFacts
  <2>5. a <= b
    BY <2>2, <2>3, <2>4
  <2> QED  BY <2>5 DEF a, b
<1> QED  BY <1>1, <1>2, <1>3

\* Rungs a week apart, the first of them left out, are of different days.
LEMMA RungsApart ==
    ASSUME CalendarOK, NEW k \in Nat \ {0}, NEW l \in Nat \ {0}, k < l
    PROVE  DayKey(Rung(k * Week)) # DayKey(Rung(l * Week))
<1> DEFINE p == k * Week
           q == l * Week
           a == DayKey(Rung(p))
           b == DayKey(Rung(q))
           D == DayOf(now)
<1>1. Week \in Nat \ {0} /\ p \in Nat /\ q \in Nat /\ p + Week <= q /\ p # 0
  <2>1. Week \in Nat \ {0}
    BY DayFacts
  <2>2. 0 * Week + Week <= k * Week
    BY <2>1, Smaller
  <2>3. p + Week <= q /\ p \in Int /\ q \in Int
    BY <2>1, Smaller
  <2> QED  BY <2>1, <2>2, <2>3
<1> HIDE DEF p, q
<1>2. q # 0
  BY <1>1
<1>3. CASE sched.days = {}
  <2>1. a = D + p + Week + 1 /\ b = D + q + Week + 1 /\ D \in Nat
    BY <1>1, <1>2, <1>3, RungDays
  <2> HIDE DEF a, b, D
  <2>2. a # b
    BY <1>1, <2>1
  <2> QED  BY <2>2 DEF a, b, p, q
<1>4. CASE sched.days # {}
  <2>1. a \in D + p .. D + p + Week - 1 /\ b \in D + q .. D + q + Week - 1 /\ D \in Nat
    BY <1>1, <1>2, <1>4, RungDays
  <2> HIDE DEF a, b, D
  <2>2. a # b
    BY <1>1, <2>1
  <2> QED  BY <2>2 DEF a, b, p, q
<1> QED  BY <1>3, <1>4

\* Today and every active day ahead has its rung.
LEMMA RungOfDay ==
    ASSUME CalendarOK, NEW e \in Nat, e >= DayOf(now), e = DayOf(now) \/ Weekday(e) \in sched.days
    PROVE  e - DayOf(now) \in Nat /\ DayKey(Rung(e - DayOf(now))) = e
<1> DEFINE D == DayOf(now)
           n == e - D
           d == DayKey(Rung(n))
<1>1. D \in Nat
  BY TimeSplits DEF CalendarOK
<1>2. n \in Nat /\ e = D + n
  BY <1>1
<1> HIDE DEF n
<1>3. CASE n = 0
  <2>1. d = D
    BY <1>2, <1>3, RungDays
  <2> QED  BY <1>1, <1>2, <1>3, <2>1 DEF n
<1>4. CASE n # 0
  <2>1. sched.days # {}
    BY <1>1, <1>2, <1>4
  <2>2. /\ d \in D + n .. D + n + Week - 1 /\ Weekday(d) \in sched.days /\ d \in Nat
        /\ \A x \in D + n .. d - 1 : Weekday(x) \notin sched.days
    BY <1>2, <1>4, <2>1, RungDays
  <2>3. Weekday(e) \in sched.days
    BY <1>1, <1>2, <1>4
  <2> HIDE DEF d, D
  <2>4. ~(e < d)
    BY <1>1, <1>2, <2>2, <2>3
  <2>5. d = e
    BY <1>1, <1>2, <2>2, <2>4, DayFacts
  <2> QED  BY <1>2, <2>5 DEF n, d, D
<1> QED  BY <1>3, <1>4

-----------------------------------------------------------------------------
(* The forecast: the days the ladder has taken *)

ScheduledRows == [state : {"in_progress", "awaiting_approval"}, at : Int]

\* The table, its bound, and a cap that today's sends have not passed.
ForecastOK ==
    /\ CalendarOK
    /\ rows \in Seq(ScheduledRows) /\ Len(rows) <= MaxRows
    /\ used \in 0 .. Cap /\ cap \in {0, Cap}

Laddered(out, d) == {i \in DOMAIN out : IsBacklog(rows[i]) /\ DayKey(out[i]) = d}

Taken(out, d) == Seeded(d) + Cardinality(Laddered(out, d))

\* The rows with a time, and today's sends, are counted.
LEMMA SeededFacts ==
    ASSUME ForecastOK, NEW d
    PROVE  /\ Seeded(d) \in Nat
           /\ Seeded(d) > 0 /\ d # DayOf(now) =>
                 \E i \in DOMAIN rows : ~IsBacklog(rows[i]) /\ DayKey(rows[i].at) = d
<1> DEFINE S == {i \in DOMAIN rows : ~IsBacklog(rows[i]) /\ rows[i].at # None /\ DayKey(rows[i].at) = d}
<1>1. used \in Nat
  BY ScheduleAssumption DEF ForecastOK
<1>2. IsFiniteSet(S) /\ Cardinality(S) \in Nat
  <2>1. DOMAIN rows = 1 .. Len(rows) /\ Len(rows) \in Nat
    BY DEF ForecastOK
  <2>2. IsFiniteSet(DOMAIN rows)
    BY <2>1, FS_Interval
  <2>3. S \in SUBSET DOMAIN rows
    OBVIOUS
  <2> HIDE DEF S
  <2> QED  BY <2>2, <2>3, FS_Subset, FS_CardinalityType
<1>3. Seeded(d) = Cardinality(S) + (IF d = DayOf(now) THEN used ELSE 0)
  BY DEF Seeded
<1>4. S = {} => Cardinality(S) = 0
  <2> HIDE DEF S
  <2> QED  BY FS_EmptySet
<1>5. Seeded(d) > 0 /\ d # DayOf(now) => S # {}
  <2> HIDE DEF S
  <2> QED  BY <1>2, <1>3, <1>4
<1>6. Seeded(d) \in Nat
  <2> HIDE DEF S
  <2> QED  BY <1>1, <1>2, <1>3
<1> QED  BY <1>5, <1>6

LEMMA LadderedFacts ==
    ASSUME NEW out \in Seq(Int), NEW d
    PROVE  /\ IsFiniteSet(Laddered(out, d)) /\ Cardinality(Laddered(out, d)) \in Nat
           /\ Cardinality(Laddered(out, d)) > 0 => Laddered(out, d) # {}
<1>1. DOMAIN out = 1 .. Len(out) /\ Len(out) \in Nat
  OBVIOUS
<1>2. IsFiniteSet(DOMAIN out)
  BY <1>1, FS_Interval
<1>3. Laddered(out, d) \in SUBSET DOMAIN out
  BY DEF Laddered
<1>4. IsFiniteSet(Laddered(out, d)) /\ Cardinality(Laddered(out, d)) \in Nat
  BY <1>2, <1>3, FS_Subset, FS_CardinalityType
<1> QED  BY <1>4, FS_EmptySet

\* One more time is one more send of its day, if its row is due.
LEMMA LadderedAppends ==
    ASSUME NEW out \in Seq(Int), NEW x \in Int, NEW d
    PROVE  Cardinality(Laddered(Append(out, x), d)) =
             Cardinality(Laddered(out, d))
             + (IF IsBacklog(rows[Len(out) + 1]) /\ DayKey(x) = d THEN 1 ELSE 0)
<1> DEFINE more == Append(out, x)
           n == Len(out) + 1
           T == Laddered(out, d)
<1>1. /\ Len(out) \in Nat /\ DOMAIN out = 1 .. Len(out) /\ DOMAIN more = 1 .. n
      /\ more[n] = x /\ \A i \in 1 .. Len(out) : more[i] = out[i]
  OBVIOUS
<1>2. n \notin T
  BY <1>1 DEF Laddered
<1>3. Laddered(more, d) = IF IsBacklog(rows[n]) /\ DayKey(x) = d THEN T \cup {n} ELSE T
  <2> HIDE DEF more
  <2> QED  BY <1>1 DEF Laddered
<1>4. IsFiniteSet(T) /\ Cardinality(T) \in Nat
  BY LadderedFacts
<1> HIDE DEF T, more, n
<1>5. Cardinality(T \cup {n}) = Cardinality(T) + 1
  BY <1>2, <1>4, FS_AddElement
<1>6. Cardinality(Laddered(more, d)) = Cardinality(T) + (IF IsBacklog(rows[n]) /\ DayKey(x) = d THEN 1 ELSE 0)
  BY <1>3, <1>4, <1>5
<1> QED  BY <1>6 DEF T, more, n

LEMMA TakenFacts ==
    ASSUME ForecastOK, NEW out \in Seq(Int), NEW d
    PROVE  Taken(out, d) \in Nat
BY SeededFacts, LadderedFacts DEF Taken

LEMMA TakenAppends ==
    ASSUME ForecastOK, NEW out \in Seq(Int), NEW x \in Int, NEW d
    PROVE  Taken(Append(out, x), d) =
             Taken(out, d) + (IF IsBacklog(rows[Len(out) + 1]) /\ DayKey(x) = d THEN 1 ELSE 0)
<1>1. Seeded(d) \in Nat /\ Cardinality(Laddered(out, d)) \in Nat
  BY SeededFacts, LadderedFacts
<1>2. Cardinality(Laddered(Append(out, x), d)) =
        Cardinality(Laddered(out, d)) + (IF IsBacklog(rows[Len(out) + 1]) /\ DayKey(x) = d THEN 1 ELSE 0)
  BY LadderedAppends
<1> QED  BY <1>1, <1>2 DEF Taken

LEMMA CountTo == ASSUME NEW n \in Nat PROVE IsFiniteSet(1 .. n) /\ Cardinality(1 .. n) = n
BY FS_Interval

\* Some rung has room: those a week apart are of different days, there is one
\* more of them than there are rows, and a full day holds a row.
LEMMA RungFree ==
    ASSUME ForecastOK, cap > 0, NEW out \in Seq(Int), Len(out) <= Len(rows)
    PROVE  \E n \in Rungs : Taken(out, DayKey(Rung(n))) < cap
<1> DEFINE M == Len(rows)
           f(k) == DayKey(Rung(k * Week))
           day(i) == DayKey(IF IsBacklog(rows[i]) THEN out[i] ELSE rows[i].at)
           K == 1 .. M + 1
           T == 1 .. M
<1>1. /\ CalendarOK /\ M \in Nat /\ M <= MaxRows /\ MaxRows \in Nat /\ DOMAIN rows = 1 .. M
      /\ Len(out) \in Nat /\ Len(out) <= M /\ DOMAIN out = 1 .. Len(out)
      /\ Week \in Nat \ {0} /\ Cap \in Nat \ {0} /\ cap \in Nat \ {0}
  BY ScheduleAssumption, ForecastAssumption DEF ForecastOK
<1>2. DayOf(now) \in Nat
  BY <1>1, TimeSplits DEF CalendarOK
<1> HIDE DEF M
<1>3. ASSUME NEW k \in K PROVE k * Week \in Rungs /\ k * Week \in Nat \ {0} /\ f(k) # DayOf(now)
  <2>1. k \in Nat \ {0} /\ k <= MaxRows + 1
    BY <1>1
  <2>2. k * Week \in Nat /\ k * Week # 0
    <3>1. 0 * Week + Week <= k * Week /\ k * Week \in Int
      BY <1>1, <2>1, Smaller
    <3> QED  BY <1>1, <3>1
  <2>3. k * Week <= (Week + 1) * (2 * MaxRows + Cap + 1)
    <3> DEFINE w == Week
               p == 2 * MaxRows + Cap + 1
    <3>1. w \in Nat /\ p \in Nat /\ k \in Nat /\ k <= p
      BY <1>1, <2>1
    <3> HIDE DEF w, p
    <3>2. p = k + (p - k) /\ p - k \in Nat
      BY <3>1
    <3>3. (w + 1) * p = k * w + (p - k) * w + p /\ (p - k) * w \in Nat /\ k * w \in Nat
      BY <3>1, <3>2
    <3>4. k * w <= (w + 1) * p
      BY <3>1, <3>3
    <3> QED  BY <3>4 DEF w, p
  <2>4. k * Week \in Rungs
    <3>1. (Week + 1) * (2 * MaxRows + Cap + 1) \in Int
      BY <1>1
    <3> QED  BY <2>2, <2>3, <3>1 DEF Rungs
  <2> DEFINE n == k * Week
             d == DayKey(Rung(n))
             D == DayOf(now)
  <2>5. n \in Nat /\ n # 0
    BY <2>2
  <2> HIDE DEF n
  <2>6. d \in Nat /\ d >= D + n
    <3>1. CASE sched.days = {}
      <4>1. d = D + n + Week + 1
        BY <1>1, <2>5, <3>1, RungDays
      <4> QED  BY <1>1, <1>2, <2>5, <4>1
    <3>2. CASE sched.days # {}
      <4>1. d \in D + n .. D + n + Week - 1
        BY <1>1, <2>5, <3>2, RungDays
      <4> QED  BY <1>1, <1>2, <2>5, <4>1
    <3> QED  BY <3>1, <3>2
  <2>7. d # D
    BY <1>2, <2>5, <2>6
  <2> QED  BY <2>2, <2>4, <2>7 DEF n
<1>4. ASSUME NEW k \in K, NEW l \in K, k # l PROVE f(k) # f(l)
  <2>1. k \in Nat \ {0} /\ l \in Nat \ {0} /\ (k < l \/ l < k)
    BY <1>1, <1>4
  <2> QED  BY <1>1, <2>1, RungsApart
<1> SUFFICES ASSUME \A n \in Rungs : ~(Taken(out, DayKey(Rung(n))) < cap)
             PROVE  FALSE
  OBVIOUS
<1>5. ASSUME NEW k \in K PROVE \E i \in T : day(i) = f(k)
  <2>1. ~(Taken(out, f(k)) < cap) /\ f(k) # DayOf(now)
    BY <1>3
  <2> HIDE DEF f
  <2>2. Seeded(f(k)) \in Nat /\ Cardinality(Laddered(out, f(k))) \in Nat
    BY SeededFacts, LadderedFacts
  <2>3. Seeded(f(k)) > 0 \/ Cardinality(Laddered(out, f(k))) > 0
    BY <1>1, <2>1, <2>2 DEF Taken
  <2>4. CASE Seeded(f(k)) > 0
    <3>1. PICK i \in DOMAIN rows : ~IsBacklog(rows[i]) /\ DayKey(rows[i].at) = f(k)
      BY <2>1, <2>4, SeededFacts
    <3> QED  BY <1>1, <3>1
  <2>5. CASE Cardinality(Laddered(out, f(k))) > 0
    <3>1. Laddered(out, f(k)) # {}
      BY <2>5, LadderedFacts
    <3>2. PICK i \in DOMAIN out : IsBacklog(rows[i]) /\ DayKey(out[i]) = f(k)
      BY <3>1 DEF Laddered
    <3>3. i \in T
      BY <1>1, <3>2
    <3> QED  BY <3>2, <3>3
  <2> QED  BY <2>3, <2>4, <2>5
<1> DEFINE g == [k \in K |-> CHOOSE i \in T : day(i) = f(k)]
<1>6. \A k \in K : g[k] \in T /\ day(g[k]) = f(k)
  <2> HIDE DEF f, day, T
  <2> QED  BY <1>5
<1>7. g \in [K -> T]
  BY <1>6
<1>8. IsFiniteSet(K) /\ Cardinality(K) = M + 1 /\ IsFiniteSet(T) /\ Cardinality(T) = M
  <2>1. M \in Nat /\ M + 1 \in Nat
    BY <1>1
  <2> QED  BY <2>1, CountTo
<1> HIDE DEF g, f, day, K, T
<1>9. PICK k \in K, l \in K : k # l /\ g[k] = g[l]
  <2>1. Cardinality(T) < Cardinality(K)
    BY <1>1, <1>8
  <2> QED  BY <1>7, <1>8, <2>1, FS_PigeonHole
<1> QED  BY <1>4, <1>6, <1>9

\* The next rung of the ladder is the first one with room.
LEMMA DaySlotFacts ==
    ASSUME ForecastOK, cap > 0, NEW out \in Seq(Int), Len(out) <= Len(rows)
    PROVE  \E m \in Nat :
              /\ DaySlot(out) = Rung(m) /\ Taken(out, DayKey(Rung(m))) < cap
              /\ \A n \in 0 .. m - 1 : Taken(out, DayKey(Rung(n))) >= cap
<1> DEFINE free == {n \in Rungs : Taken(out, DayKey(Rung(n))) < cap}
           m == Min(free)
<1>1. Rungs \subseteq Nat /\ \A k \in Rungs, n \in Nat : n <= k => n \in Rungs
  <2> DEFINE top == (Week + 1) * (2 * MaxRows + Cap + 1)
  <2>1. top \in Int
    BY ScheduleAssumption, ForecastAssumption
  <2>2. Rungs = 0 .. top
    BY DEF Rungs
  <2> HIDE DEF top
  <2> QED  BY <2>1, <2>2
<1>2. free # {} /\ free \in SUBSET Nat
  BY <1>1, RungFree
<1>3. m \in free /\ \A n \in free : m <= n
  <2> HIDE DEF free
  <2> QED  BY <1>2, LeastOf
<1>4. DaySlot(out) = Rung(m)
  <2>1. ~(cap <= 0)
    BY ScheduleAssumption DEF ForecastOK
  <2> QED  BY <2>1 DEF DaySlot, Taken, Laddered
<1>5. m \in Nat /\ Taken(out, DayKey(Rung(m))) < cap
  BY <1>1, <1>3
<1>6. ASSUME NEW n \in 0 .. m - 1 PROVE Taken(out, DayKey(Rung(n))) >= cap
  <2> DEFINE k == m
  <2>1. k \in Nat /\ k \in Rungs /\ \A j \in free : k <= j
    BY <1>3, <1>5
  <2>2. n \in 0 .. k - 1
    OBVIOUS
  <2> HIDE DEF k
  <2>3. n \in Nat /\ n <= k /\ ~(k <= n)
    BY <2>1, <2>2
  <2>4. n \in Rungs
    BY <1>1, <2>1, <2>3
  <2>5. ~(Taken(out, DayKey(Rung(n))) < cap)
    BY <2>1, <2>3, <2>4
  <2>6. Taken(out, DayKey(Rung(n))) \in Nat /\ cap \in Nat
    BY TakenFacts, ScheduleAssumption DEF ForecastOK
  <2> QED  BY <2>5, <2>6
<1> HIDE DEF m
<1> QED  BY <1>4, <1>5, <1>6

\* A due row's send is on a rung, no rung below it has room, its day is within
\* the cap, and it is no later than the sends of the rows after it.
OnLadder(out, j) ==
    /\ \E m \in Nat : out[j] = Rung(m) /\ \A n \in 0 .. m - 1 : Taken(out, DayKey(Rung(n))) >= cap
    /\ Taken(out, DayKey(out[j])) <= cap
    /\ \A k \in DOMAIN out : k > j /\ IsBacklog(rows[k]) => DayKey(out[j]) <= DayKey(out[k])

Ladder(out) ==
    /\ out \in Seq(Int) /\ Len(out) <= Len(rows)
    /\ \A j \in DOMAIN out : IF IsBacklog(rows[j]) THEN OnLadder(out, j) ELSE out[j] = rows[j].at

Projected(out) ==
    LET i == Len(out) + 1 IN Append(out, IF IsBacklog(rows[i]) THEN DaySlot(out) ELSE rows[i].at)

\* One more row keeps the ladder.
LEMMA LadderGrows ==
    ASSUME ForecastOK, cap > 0, NEW out, Ladder(out), Len(out) < Len(rows)
    PROVE  Ladder(Projected(out)) /\ Len(Projected(out)) = Len(out) + 1
<1> DEFINE i == Len(out) + 1
           x == IF IsBacklog(rows[i]) THEN DaySlot(out) ELSE rows[i].at
           more == Append(out, x)
<1>1. /\ out \in Seq(Int) /\ Len(out) \in Nat /\ DOMAIN out = 1 .. Len(out)
      /\ Len(rows) \in Nat /\ i \in 1 .. Len(rows) /\ rows[i] \in ScheduledRows
      /\ cap \in Nat /\ CalendarOK
  <2>1. out \in Seq(Int) /\ rows \in Seq(ScheduledRows) /\ CalendarOK
    BY DEF Ladder, ForecastOK
  <2>2. cap \in Nat
    BY ScheduleAssumption DEF ForecastOK
  <2> QED  BY <2>1, <2>2
<1>2. PICK m \in Nat :
        /\ DaySlot(out) = Rung(m) /\ Taken(out, DayKey(Rung(m))) < cap
        /\ \A n \in 0 .. m - 1 : Taken(out, DayKey(Rung(n))) >= cap
  BY <1>1, DaySlotFacts
<1>3. x \in Int
  <2>1. rows[i].at \in Int
    BY <1>1 DEF ScheduledRows
  <2>2. Rung(m) \in Int
    BY <1>1, RungDays
  <2> QED  BY <1>2, <2>1, <2>2
<1> HIDE DEF i
<1>4. /\ more \in Seq(Int) /\ Len(more) = i /\ DOMAIN more = 1 .. i /\ i = Len(out) + 1
      /\ more[i] = x /\ \A j \in 1 .. Len(out) : more[j] = out[j]
  <2> HIDE DEF x
  <2> QED  BY <1>1, <1>3 DEF i
<1>5. \A d : Taken(out, d) \in Nat /\ Taken(more, d) \in Nat
             /\ Taken(more, d) = Taken(out, d) + (IF IsBacklog(rows[i]) /\ DayKey(x) = d THEN 1 ELSE 0)
  <2> HIDE DEF x
  <2> TAKE d
  <2>1. Taken(more, d) = Taken(out, d) + (IF IsBacklog(rows[i]) /\ DayKey(x) = d THEN 1 ELSE 0)
    BY <1>1, <1>3, TakenAppends DEF i
  <2>2. Taken(out, d) \in Nat /\ Taken(more, d) \in Nat
    BY <1>1, <1>4, TakenFacts
  <2> QED  BY <2>1, <2>2
<1>6. IsBacklog(rows[i]) => x = Rung(m)
  BY <1>2
<1>7. ~IsBacklog(rows[i]) => x = rows[i].at
  OBVIOUS
<1> HIDE DEF x, more
<1>8. ASSUME NEW d, NEW n \in Nat, Taken(out, d) >= n PROVE Taken(more, d) >= n
  <2>1. Taken(out, d) \in Nat /\ (Taken(more, d) = Taken(out, d) \/ Taken(more, d) = Taken(out, d) + 1)
    BY <1>5
  <2> QED  BY <1>8, <2>1
<1>9. ASSUME NEW j \in 1 .. Len(out), IsBacklog(rows[j]) PROVE OnLadder(more, j)
  <2>1. OnLadder(out, j) /\ more[j] = out[j] /\ j \in DOMAIN more
    BY <1>1, <1>4, <1>9 DEF Ladder
  <2>2. PICK l \in Nat : out[j] = Rung(l) /\ \A n \in 0 .. l - 1 : Taken(out, DayKey(Rung(n))) >= cap
    BY <2>1 DEF OnLadder
  <2>3. \A n \in 0 .. l - 1 : Taken(more, DayKey(Rung(n))) >= cap
    BY <1>1, <1>8, <2>2
  <2>4. Taken(more, DayKey(more[j])) <= cap
    <3> DEFINE d == DayKey(out[j])
    <3>1. Taken(out, d) <= cap
      BY <2>1 DEF OnLadder
    <3>2. IsBacklog(rows[i]) /\ DayKey(x) = d => Taken(out, d) < cap
      BY <1>2, <1>6
    <3>3. Taken(more, d) <= cap
      <4> HIDE DEF d
      <4> QED  BY <1>1, <1>5, <3>1, <3>2
    <3> QED  BY <2>1, <3>3
  <2>5. ASSUME NEW k \in DOMAIN more, k > j, IsBacklog(rows[k]) PROVE DayKey(more[j]) <= DayKey(more[k])
    <3>1. CASE k = i
      <4>1. l <= m
        <5>1. ~(m \in 0 .. l - 1)
          <6>1. ~(Taken(out, DayKey(Rung(m))) >= cap)
            BY <1>1, <1>2, <1>5
          <6> QED  BY <2>2, <6>1
        <5> QED  BY <5>1
      <4>2. DayKey(Rung(l)) <= DayKey(Rung(m))
        BY <1>1, <4>1, RungsAscend
      <4> QED  BY <1>4, <1>6, <2>1, <2>2, <2>5, <3>1, <4>2
    <3>2. CASE k # i
      <4>1. k \in 1 .. Len(out)
        BY SMTT(60), <1>1, <1>4, <3>2
      <4> QED  BY <1>1, <1>4, <2>1, <2>5, <4>1 DEF OnLadder
    <3> QED  BY <3>1, <3>2
  <2> QED  BY <2>1, <2>2, <2>3, <2>4, <2>5 DEF OnLadder
<1>10. ASSUME IsBacklog(rows[i]) PROVE OnLadder(more, i)
  <2>1. more[i] = Rung(m) /\ x = Rung(m)
    BY <1>4, <1>6, <1>10
  <2>2. \A n \in 0 .. m - 1 : Taken(more, DayKey(Rung(n))) >= cap
    BY <1>1, <1>2, <1>8
  <2>3. Taken(more, DayKey(more[i])) <= cap
    <3> DEFINE d == DayKey(Rung(m))
    <3>1. Taken(out, d) < cap /\ Taken(out, d) \in Nat /\ Taken(more, d) = Taken(out, d) + 1
      BY <1>2, <1>5, <1>10, <2>1
    <3> HIDE DEF d
    <3>2. Taken(more, d) <= cap
      BY <1>1, <3>1
    <3> QED  BY <2>1, <3>2 DEF d
  <2>4. \A k \in DOMAIN more : ~(k > i)
    BY <1>1, <1>4
  <2> QED  BY <2>1, <2>2, <2>3, <2>4 DEF OnLadder
<1>11. \A j \in DOMAIN more : IF IsBacklog(rows[j]) THEN OnLadder(more, j) ELSE more[j] = rows[j].at
  <2> TAKE j \in DOMAIN more
  <2>1. CASE j = i
    BY <1>4, <1>7, <1>10, <2>1
  <2>2. CASE j # i
    <3>1. j \in 1 .. Len(out)
      BY <1>1, <1>4, <2>2
    <3> QED  BY <1>1, <1>4, <1>9, <3>1 DEF Ladder
  <2> QED  BY <2>1, <2>2
<1>12. Ladder(more) /\ Len(more) = Len(out) + 1
  BY <1>1, <1>4, <1>11 DEF Ladder
<1> QED  BY <1>12 DEF more, x, i, Projected

-----------------------------------------------------------------------------
(* The forecast of the whole table *)

\* The table as the recursive function of projectScheduledSends builds it.
LEMMA ProjectionUnfolds ==
    ASSUME ForecastOK, cap > 0
    PROVE  Ladder(ProjectScheduledSends) /\ Len(ProjectScheduledSends) = Len(rows)
<1> DEFINE N == Len(rows)
           Turn(i, o) == Append(o, IF IsBacklog(rows[i]) THEN DaySlot(o) ELSE rows[i].at)
           Rec(g) == [i \in 0 .. N |-> IF i = 0 THEN <<>> ELSE Turn(i, g[i - 1])]
           S == {o \in Seq(Int) : Ladder(o)}
           F == [p \in (1 .. N) \X S |-> IF Len(p[2]) = p[1] - 1 THEN Turn(p[1], p[2]) ELSE p[2]]
<1>1. N \in Nat
  BY DEF ForecastOK
<1>2. <<>> \in S /\ Len(<<>>) = 0
  BY <1>1 DEF Ladder
<1>3. ProjectScheduledSends = (CHOOSE g : g = Rec(g))[N]
  BY DEF ProjectScheduledSends
<1> HIDE DEF N
<1>4. ASSUME NEW i \in 1 .. N, NEW o \in S, Len(o) = i - 1
      PROVE  Turn(i, o) \in S /\ Len(Turn(i, o)) = i
  <2>1. Turn(i, o) = Projected(o)
    BY <1>4 DEF Projected
  <2>2. Ladder(o) /\ Len(o) < Len(rows) /\ Len(o) + 1 = i
    BY <1>1, <1>4 DEF N
  <2>3. Ladder(Projected(o)) /\ Len(Projected(o)) = Len(o) + 1
    BY <2>2, LadderGrows
  <2>4. Projected(o) \in Seq(Int)
    BY <2>3 DEF Ladder
  <2> QED  BY <2>1, <2>2, <2>3, <2>4
<1> HIDE DEF Turn, S
<1>5. \E g : g = Rec(g)
  <2>1. F \in [(1 .. N) \X S -> S]
    BY <1>4
  <2>2. \A i \in 1 .. N, o \in S : Len(o) = i - 1 => F[<<i, o>>] = Turn(i, o)
    OBVIOUS
  <2> HIDE DEF F
  <2>3. PICK f \in [0 .. N -> S] : f[0] = <<>> /\ \A i \in 1 .. N : f[i] = F[<<i, f[i - 1]>>]
    <3>1. Repeats(N, S, <<>>, F)
      BY <1>1, <1>2, <2>1, RecursionExists
    <3> QED  BY <3>1 DEF Repeats
  <2> DEFINE G == {i \in 0 .. N : Len(f[i]) = i}
  <2>4. G \in SUBSET (0 .. N) /\ 0 \in G
    BY <1>1, <1>2, <2>3
  <2>5. ASSUME NEW i \in 1 .. N, i - 1 \in G PROVE i \in G
    <3>1. i \in 0 .. N /\ i - 1 \in 0 .. N
      BY <1>1
    <3>2. f[i - 1] \in S /\ Len(f[i - 1]) = i - 1
      BY <2>3, <2>5, <3>1
    <3>3. f[i] = Turn(i, f[i - 1])
      BY <2>2, <2>3, <3>2
    <3> QED  BY <1>4, <3>1, <3>2, <3>3
  <2>6. G = 0 .. N
    <3> HIDE DEF G
    <3> QED  BY <1>1, <2>4, <2>5, StepByStep
  <2>7. ASSUME NEW i \in 0 .. N PROVE f[i] = IF i = 0 THEN <<>> ELSE Turn(i, f[i - 1])
    <3>1. CASE i = 0
      BY <2>3, <3>1
    <3>2. CASE i # 0
      <4>1. i \in 1 .. N /\ i - 1 \in 0 .. N
        BY <1>1, <3>2
      <4>2. f[i - 1] \in S /\ Len(f[i - 1]) = i - 1
        BY <2>3, <2>6, <4>1
      <4> QED  BY <2>2, <2>3, <3>2, <4>1, <4>2
    <3> QED  BY <3>1, <3>2
  <2>8. f = Rec(f)
    BY <2>3, <2>7
  <2> QED  BY <2>8
<1> DEFINE f == CHOOSE g : g = Rec(g)
<1>6. f = Rec(f)
  BY <1>5
<1> HIDE DEF f
<1>7. 0 \in 0 .. N /\ N \in 0 .. N /\ \A i \in 1 .. N : i \in 0 .. N /\ i - 1 \in 0 .. N /\ i # 0
  BY <1>1
<1>8. f[0] = <<>> /\ \A i \in 1 .. N : f[i] = Turn(i, f[i - 1])
  BY <1>6, <1>7
<1> DEFINE G == {i \in 0 .. N : f[i] \in S /\ Len(f[i]) = i}
<1>9. G \in SUBSET (0 .. N) /\ 0 \in G
  BY <1>2, <1>7, <1>8
<1>10. \A i \in 1 .. N : i - 1 \in G => i \in G
  BY <1>4, <1>7, <1>8
<1>11. G = 0 .. N
  <2> HIDE DEF G
  <2> QED  BY <1>1, <1>9, <1>10, StepByStep
<1>12. f[N] \in S /\ Len(f[N]) = N
  BY <1>7, <1>11
<1> QED  BY <1>3, <1>12 DEF f, S, N

LEMMA ForecastTypes == ForecastSpec => []ForecastOK
<1>1. Init /\ ForecastInit => ForecastOK
  <2>1. Week * Day \in Nat
    BY DayFacts
  <2> QED  BY <2>1, ScheduleAssumption, ForecastAssumption DEF Init, ForecastInit, ForecastOK, CalendarOK
<1>2. ForecastOK /\ [ForecastNext]_<<vars, forecastVars>> => ForecastOK'
  <2> SUFFICES ASSUME ForecastOK, [ForecastNext]_<<vars, forecastVars>> PROVE ForecastOK'
    OBVIOUS
  <2>1. CASE UNCHANGED <<vars, forecastVars>>
    BY <2>1 DEF ForecastOK, CalendarOK, vars, forecastVars
  <2>2. CASE ForecastNext
    <3>1. /\ Len(rows) < MaxRows /\ UNCHANGED <<used, cap>> /\ UNCHANGED <<now, sched>>
          /\ \E state \in {"in_progress", "awaiting_approval"},
                at \in {None, now} \cup {DueAfterDelay(now, n * Day, sched) : n \in 1 .. 2} :
                   rows' = Append(rows, [state |-> state, at |-> at])
      BY <2>2 DEF ForecastNext, GetScheduled, vars
    <3>2. PICK state \in {"in_progress", "awaiting_approval"},
               at \in {None, now} \cup {DueAfterDelay(now, n * Day, sched) : n \in 1 .. 2} :
                   rows' = Append(rows, [state |-> state, at |-> at])
      BY <3>1
    <3>3. now \in Nat /\ sched \in Schedules /\ rows \in Seq(ScheduledRows) /\ MaxRows \in Nat
      BY ForecastAssumption DEF ForecastOK, CalendarOK
    <3>4. \A n \in 1 .. 2 : DueAfterDelay(now, n * Day, sched) \in Int
      <4> TAKE n \in 1 .. 2
      <4>1. n * Day \in Int
        BY DayFacts
      <4> QED  BY <3>3, <4>1, DelayIsATime
    <3>5. at \in Int
      <4>1. -1 \in Int /\ now \in Int
        BY <3>3
      <4> QED  BY <3>4, <4>1 DEF None
    <3>6. [state |-> state, at |-> at] \in ScheduledRows
      BY <3>5 DEF ScheduledRows
    <3>7. rows' \in Seq(ScheduledRows) /\ Len(rows') = Len(rows) + 1
      BY <3>2, <3>3, <3>6
    <3>8. Len(rows) \in Nat /\ Len(rows') <= MaxRows
      BY <3>1, <3>3, <3>7
    <3> QED  BY <3>1, <3>7, <3>8 DEF ForecastOK, CalendarOK
  <2> QED  BY <2>1, <2>2
<1> QED  BY <1>1, <1>2, PTL DEF ForecastSpec

(* The Scheduled table tells what dispatch will do with the backlog
   (ForecastFillsDays: queries.ts projectScheduledSends): a day gets no more
   than the cap, no working day with room is passed over, and who has waited
   longest goes first, for every table, cap, schedule and length of week. *)
THEOREM ForecastTellsDispatch == ForecastSpec => []ForecastFillsDays
<1>1. ASSUME ForecastOK PROVE ForecastFillsDays
  <2> DEFINE sends == ProjectScheduledSends
             back == {i \in DOMAIN rows : IsBacklog(rows[i])}
             real(d) == (IF d = DayOf(now) THEN used ELSE 0)
                        + Cardinality({i \in DOMAIN rows : /\ i \in back \/ rows[i].at # None
                                                           /\ DayKey(sends[i]) = d})
  <2> SUFFICES ASSUME cap > 0, NEW i \in back
               PROVE  LET d == DayKey(sends[i]) IN
                      /\ real(d) <= cap
                      /\ \A e \in DayOf(now) .. d - 1 :
                             e = DayOf(now) \/ Weekday(e) \in sched.days => real(e) >= cap
                      /\ \A j \in back : i < j => d <= DayKey(sends[j])
    BY DEF ForecastFillsDays
  <2>1. /\ Ladder(sends) /\ sends \in Seq(Int) /\ DOMAIN sends = DOMAIN rows
        /\ CalendarOK /\ DayOf(now) \in Nat /\ used \in Nat /\ cap \in Nat
    <3>1. Ladder(sends) /\ Len(sends) = Len(rows)
      BY <1>1, ProjectionUnfolds
    <3> HIDE DEF sends
    <3>2. sends \in Seq(Int)
      BY <3>1 DEF Ladder
    <3>3. CalendarOK /\ used \in Nat /\ cap \in Nat /\ rows \in Seq(ScheduledRows)
      BY <1>1, ScheduleAssumption DEF ForecastOK
    <3>4. DayOf(now) \in Nat
      BY <3>3, TimeSplits DEF CalendarOK
    <3>5. DOMAIN sends = DOMAIN rows
      BY <3>1, <3>2, <3>3
    <3> QED  BY <3>1, <3>2, <3>3, <3>4, <3>5
  <2> HIDE DEF sends
  <2>2. \A j \in DOMAIN rows : IF IsBacklog(rows[j]) THEN OnLadder(sends, j) ELSE sends[j] = rows[j].at
    BY <2>1 DEF Ladder
  <2>3. ASSUME NEW d PROVE real(d) = Taken(sends, d)
    <3> DEFINE A == {j \in DOMAIN rows : ~IsBacklog(rows[j]) /\ rows[j].at # None /\ DayKey(rows[j].at) = d}
               B == Laddered(sends, d)
               C == {j \in DOMAIN rows : /\ j \in back \/ rows[j].at # None
                                         /\ DayKey(sends[j]) = d}
               u == IF d = DayOf(now) THEN used ELSE 0
    <3>1. C = A \cup B /\ A \cap B = {}
      BY <2>1, <2>2 DEF Laddered
    <3>2. IsFiniteSet(A) /\ Cardinality(A) \in Nat
      <4>1. IsFiniteSet(DOMAIN sends)
        <5>1. DOMAIN sends = 1 .. Len(sends) /\ Len(sends) \in Nat
          BY <2>1
        <5> QED  BY <5>1, FS_Interval
      <4>2. A \in SUBSET DOMAIN sends
        BY <2>1
      <4> HIDE DEF A
      <4> QED  BY <4>1, <4>2, FS_Subset, FS_CardinalityType
    <3>3. IsFiniteSet(B) /\ Cardinality(B) \in Nat
      BY <2>1, LadderedFacts
    <3>4. Seeded(d) = Cardinality(A) + u /\ Taken(sends, d) = Seeded(d) + Cardinality(B)
      BY DEF Seeded, Taken
    <3>5. u \in Nat
      BY <2>1
    <3>6. real(d) = u + Cardinality(C)
      OBVIOUS
    <3> HIDE DEF A, B, C, u, real
    <3>7. Cardinality(A \cup B) = Cardinality(A) + Cardinality(B)
      <4>1. Cardinality(A \cup B) = Cardinality(A) + Cardinality(B) - Cardinality(A \cap B)
        BY <3>2, <3>3, FS_Union
      <4>2. Cardinality(A \cap B) = 0
        BY <3>1, FS_EmptySet
      <4> QED  BY <3>2, <3>3, <4>1, <4>2
    <3> QED  BY <3>1, <3>2, <3>3, <3>4, <3>5, <3>6, <3>7
  <2> DEFINE d == DayKey(sends[i])
  <2>4. i \in DOMAIN sends /\ OnLadder(sends, i)
    BY <2>1, <2>2
  <2>5. PICK m \in Nat : sends[i] = Rung(m) /\ \A n \in 0 .. m - 1 : Taken(sends, DayKey(Rung(n))) >= cap
    BY <2>4 DEF OnLadder
  <2> HIDE DEF real
  <2>6. real(d) <= cap
    BY <2>3, <2>4 DEF OnLadder
  <2>7. ASSUME NEW e \in DayOf(now) .. d - 1, e = DayOf(now) \/ Weekday(e) \in sched.days
        PROVE  real(e) >= cap
    <3> DEFINE n == e - DayOf(now)
    <3>1. d = DayKey(Rung(m)) /\ d \in Nat
      BY <2>1, <2>5, RungDays
    <3>2. e \in Nat /\ e >= DayOf(now) /\ e < d
      BY <2>1, <3>1
    <3>3. n \in Nat /\ DayKey(Rung(n)) = e
      BY <2>1, <2>7, <3>2, RungOfDay
    <3> HIDE DEF n, d
    <3>4. ~(m <= n)
      <4>1. m <= n => d <= e
        BY <2>1, <3>1, <3>3, RungsAscend
      <4> QED  BY <3>1, <3>2, <4>1
    <3>5. n \in 0 .. m - 1
      BY <3>3, <3>4
    <3> QED  BY <2>3, <2>5, <3>3, <3>5
  <2>8. ASSUME NEW j \in back, i < j PROVE d <= DayKey(sends[j])
    BY <2>1, <2>4, <2>8 DEF OnLadder
  <2> QED  BY <2>6, <2>7, <2>8
<1> QED  BY <1>1, ForecastTypes, PTL

-----------------------------------------------------------------------------
(* The sequence under its writers: the invariant *)

IsList(s) == \E n \in Nat : s = [i \in 1 .. n |-> s[i]]

DefinerType ==
    [pc : {"idle", "delete", "insert"}, todo : SUBSET Nat, list : Lists, order : Nat, alone : BOOLEAN]

EditorTypes ==
    /\ defining \in [Definers -> DefinerType]
    /\ IsFiniteSet(DOMAIN stepRows) /\ DOMAIN stepRows \subseteq Nat
    /\ stepRows = [o \in DOMAIN stepRows |-> stepRows[o]]
    /\ IsList(flow.steps) /\ IsList(flow.list) /\ IsList(asked)
    /\ flow = [steps |-> flow.steps, put |-> flow.put, list |-> flow.list]
    /\ tangled \in BOOLEAN

\* A call nobody disturbed is the only one, and has deleted or inserted all the
\* rows there are so far; a disturbed one left the sequence tangled.
DefinerInv ==
    \A c \in Definers :
        LET d == defining[c] IN
        /\ d.pc # "idle" => d.order < Len(d.list)
        /\ d.pc = "delete" => d.order = 0
        /\ d.pc # "idle" /\ d.alone =>
              /\ \A e \in Definers \ {c} : defining[e].pc = "idle"
              /\ d.pc = "delete" => d.todo = DOMAIN stepRows
              /\ d.pc = "insert" => stepRows = [o \in 0 .. d.order - 1 |-> d.list[o + 1]]
        /\ d.pc # "idle" /\ ~d.alone => tangled

WholeInv == Defining = {} /\ ~tangled => stepRows = RowsOf(asked)

LeadType ==
    [state : {"in_progress", "completed", "gone"}, at : Nat, reading : BOOLEAN, read : Nat,
     whole : BOOLEAN, of : Nat]

LeadInv ==
    /\ lead \in LeadType
    /\ lead.reading => lead.state # "completed" /\ (lead.whole => lead.read = lead.of)
    /\ lead.state = "completed" /\ lead.whole => lead.at >= lead.of

EditorInv == EditorTypes /\ DefinerInv /\ WholeInv /\ LeadInv

\* A list is a sequence.
LEMMA ListIsSeq ==
    ASSUME NEW s, IsList(s)
    PROVE  Len(s) \in Nat /\ DOMAIN s = 1 .. Len(s) /\ s = [i \in 1 .. Len(s) |-> s[i]]
<1>1. PICK n \in Nat : s = [i \in 1 .. n |-> s[i]]
  BY DEF IsList
<1> DEFINE S == {s[i] : i \in 1 .. n}
<1>2. s \in [1 .. n -> S]
  <2>1. \A i \in 1 .. n : s[i] \in S
    OBVIOUS
  <2> HIDE DEF S
  <2> QED  BY <1>1, <2>1
<1>3. s \in Seq(S)
  BY <1>2, SeqDef
<1> HIDE DEF S
<1> QED  BY <1>1, <1>3, LenProperties

LEMMA ListsAreLists ==
    ASSUME NEW s \in Lists PROVE IsList(s)
<1>1. PICK n \in 0 .. MaxSteps : s \in [1 .. n -> Steps]
  BY DEF Lists
<1>2. n \in Nat
  BY <1>1, StepsAssumption
<1> QED  BY <1>1, <1>2 DEF IsList

LEMMA IdleIsTyped == NotDefining \in DefinerType /\ NotDefining.pc = "idle"
<1>1. <<>> \in [1 .. 0 -> Steps]
  OBVIOUS
<1>2. 0 \in 0 .. MaxSteps
  BY StepsAssumption
<1>3. <<>> \in Lists
  BY <1>1, <1>2 DEF Lists
<1> QED  BY <1>3 DEF NotDefining, DefinerType

LEMMA EmptyIsList == IsList(<<>>) /\ Len(<<>>) = 0
<1>1. <<>> = [i \in 1 .. 0 |-> <<>>[i]]
  OBVIOUS
<1> QED  BY <1>1 DEF IsList

LEMMA RowsFacts ==
    ASSUME NEW s, IsList(s)
    PROVE  /\ DOMAIN RowsOf(s) = 0 .. Len(s) - 1 /\ IsFiniteSet(DOMAIN RowsOf(s)) /\ DOMAIN RowsOf(s) \subseteq Nat
           /\ RowsOf(s) = [o \in DOMAIN RowsOf(s) |-> RowsOf(s)[o]]
<1>1. Len(s) \in Nat
  BY ListIsSeq
<1>2. IsFiniteSet(0 .. Len(s) - 1)
  BY <1>1, FS_Interval
<1> QED  BY <1>1, <1>2 DEF RowsOf

\* Dispatch reads the list somebody wrote, when its rows are all there are.
LEMMA ReadsTheList ==
    ASSUME NEW s, IsList(s), stepRows = RowsOf(s)
    PROVE  ListCampaignSteps = s
<1> DEFINE n == Len(s)
           D == DOMAIN stepRows
           nth(i) == CHOOSE o \in D : Cardinality({p \in D : p < o}) = i - 1
<1>1. n \in Nat /\ s = [i \in 1 .. n |-> s[i]]
  BY ListIsSeq
<1> HIDE DEF n
<1>2. D = 0 .. n - 1 /\ \A o \in D : stepRows[o] = s[o + 1]
  BY DEF RowsOf, n
<1>3. Cardinality(D) = n
  BY SMTT(60), <1>1, <1>2, FS_Interval
<1>4. \A o \in D : Cardinality({p \in D : p < o}) = o
  <2> SUFFICES ASSUME NEW o \in D PROVE Cardinality({p \in D : p < o}) = o
    OBVIOUS
  <2>1. o \in Nat /\ {p \in D : p < o} = 0 .. o - 1
    BY <1>1, <1>2
  <2>2. Cardinality(0 .. o - 1) = o
    BY <2>1, FS_Interval
  <2> QED  BY <2>1, <2>2
<1>5. \A i \in 1 .. n : nth(i) = i - 1
  <2> SUFFICES ASSUME NEW i \in 1 .. n PROVE nth(i) = i - 1
    OBVIOUS
  <2>1. i - 1 \in D /\ Cardinality({p \in D : p < i - 1}) = i - 1
    <3>1. i - 1 \in D
      BY <1>1, <1>2
    <3> QED  BY <1>4, <3>1
  <2>2. nth(i) \in D /\ Cardinality({p \in D : p < nth(i)}) = i - 1
    BY <2>1
  <2> HIDE DEF nth
  <2> QED  BY <1>4, <2>2
<1>6. ListCampaignSteps = [i \in 1 .. Cardinality(D) |-> stepRows[nth(i)]]
  BY DEF ListCampaignSteps
<1> HIDE DEF D, nth
<1>7. \A i \in 1 .. n : stepRows[nth(i)] = s[i]
  BY <1>1, <1>2, <1>5
<1> QED  BY <1>1, <1>3, <1>6, <1>7

\* However the rows stand, what a reader gets is a list with a length.
LEMMA ReadsSomeList ==
    ASSUME EditorTypes
    PROVE  IsList(ListCampaignSteps)
<1>1. Cardinality(DOMAIN stepRows) \in Nat
  BY FS_CardinalityType DEF EditorTypes
<1> QED  BY <1>1 DEF ListCampaignSteps, IsList

LEMMA EnabledCount ==
    ASSUME NEW s, IsList(s)
    PROVE  Cardinality(EnabledOf(s)) \in Nat
<1>1. IsFiniteSet(DOMAIN s)
  BY ListIsSeq, FS_Interval
<1>2. EnabledOf(s) \subseteq DOMAIN s
  BY DEF EnabledOf
<1> QED  BY <1>1, <1>2, FS_Subset, FS_CardinalityType

LEMMA NonEmptyList ==
    ASSUME NEW s, IsList(s), s # <<>> PROVE Len(s) \in Nat \ {0}
<1>1. Len(s) \in Nat /\ s = [i \in 1 .. Len(s) |-> s[i]]
  BY ListIsSeq
<1>2. ASSUME Len(s) = 0 PROVE s = <<>>
  BY <1>1, <1>2
<1> QED  BY <1>1, <1>2

LEMMA BeginKeeps ==
    ASSUME EditorInv, NEW c \in Definers, NEW list \in Lists, DefineCampaignSteps(c, list)
    PROVE  EditorInv'
<1> DEFINE new == [pc |-> "delete", todo |-> DOMAIN stepRows, list |-> list, order |-> 0,
                   alone |-> Defining = {}]
<1>1. /\ defining' = [d \in Definers |-> IF d = c THEN new ELSE [defining[d] EXCEPT !.alone = FALSE]]
      /\ tangled' = (tangled \/ Defining # {})
      /\ list # <<>> /\ defining[c].pc = "idle"
      /\ UNCHANGED <<stepRows, exists, flow, lead, asked>>
  BY DEF DefineCampaignSteps, Begin, Definable
<1>2. new \in DefinerType /\ new.pc = "delete" /\ new.todo = DOMAIN stepRows /\ new.list = list
        /\ new.order = 0 /\ (new.alone <=> Defining = {})
  <2>1. DOMAIN stepRows \in SUBSET Nat
    BY DEF EditorInv, EditorTypes
  <2> QED  BY <2>1 DEF DefinerType
<1> HIDE DEF new
<1>3. /\ defining' \in [Definers -> DefinerType] /\ defining'[c] = new
      /\ \A d \in Definers \ {c} : /\ defining'[d].pc = defining[d].pc /\ defining'[d].order = defining[d].order
                                   /\ defining'[d].list = defining[d].list /\ ~defining'[d].alone
  <2>1. \A d \in Definers : defining[d] \in DefinerType
    BY DEF EditorInv, EditorTypes
  <2>2. \A d \in Definers \ {c} : defining'[d] = [defining[d] EXCEPT !.alone = FALSE]
    BY <1>1
  <2>3. \A d \in Definers \ {c} : defining'[d] \in DefinerType
    BY ZenonT(60), <2>1, <2>2 DEF DefinerType
  <2>4. defining'[c] = new
    BY <1>1
  <2>5. \A d \in Definers : defining'[d] \in DefinerType
    BY <1>2, <2>3, <2>4
  <2>6. defining' = [d \in Definers |-> defining'[d]]
    BY <1>1
  <2>7. defining' \in [Definers -> DefinerType]
    BY <2>5, <2>6
  <2>8. \A d \in Definers \ {c} : /\ defining'[d].pc = defining[d].pc /\ defining'[d].order = defining[d].order
                                  /\ defining'[d].list = defining[d].list /\ ~defining'[d].alone
    BY ZenonT(60), <2>1, <2>2 DEF DefinerType
  <2> QED  BY <2>4, <2>7, <2>8
<1>4. EditorTypes'
  BY <1>1, <1>3 DEF EditorInv, EditorTypes
<1>5. Len(list) \in Nat \ {0}
  BY <1>1, ListsAreLists, NonEmptyList
<1>6. DefinerInv'
  <2>1. Defining = {} => \A e \in Definers \ {c} : defining[e].pc = "idle"
    BY DEF Defining
  <2>2. Defining # {} => tangled'
    BY <1>1
  <2>3. \A d \in Definers \ {c} : defining[d].pc # "idle" => tangled'
    BY <2>2 DEF Defining
  <2>4. \A d \in Definers : /\ defining[d].pc # "idle" => defining[d].order < Len(defining[d].list)
                            /\ defining[d].pc = "delete" => defining[d].order = 0
    BY DEF EditorInv, DefinerInv
  <2>5. 0 < Len(list)
    BY <1>5
  <2> SUFFICES ASSUME NEW d \in Definers
               PROVE  LET e == defining'[d] IN
                      /\ e.pc # "idle" => e.order < Len(e.list)
                      /\ e.pc = "delete" => e.order = 0
                      /\ e.pc # "idle" /\ e.alone =>
                            /\ \A f \in Definers \ {d} : defining'[f].pc = "idle"
                            /\ e.pc = "delete" => e.todo = DOMAIN stepRows'
                            /\ e.pc = "insert" => stepRows' = [o \in 0 .. e.order - 1 |-> e.list[o + 1]]
                      /\ e.pc # "idle" /\ ~e.alone => tangled'
    BY DEF DefinerInv
  <2>6. CASE d = c
    BY <1>1, <1>2, <1>3, <2>1, <2>2, <2>5, <2>6
  <2>7. CASE d # c
    BY <1>3, <2>3, <2>4, <2>7
  <2> QED  BY <2>6, <2>7
<1>7. WholeInv'
  <2>1. c \in Defining'
    BY <1>2, <1>3 DEF Defining
  <2> QED  BY <2>1 DEF WholeInv
<1>8. LeadInv'
  BY <1>1 DEF EditorInv, LeadInv
<1> QED  BY <1>4, <1>6, <1>7, <1>8 DEF EditorInv

LEMMA WithTodo ==
    ASSUME NEW d \in DefinerType, NEW T \in SUBSET Nat
    PROVE  [d EXCEPT !.todo = T] \in DefinerType
BY DEF DefinerType

LEMMA DeleteKeeps ==
    ASSUME EditorInv, NEW c \in Definers, DeleteCampaignStep(c)
    PROVE  EditorInv'
<1>1. defining[c].pc = "delete" /\ UNCHANGED <<exists, flow, lead, asked, tangled>>
  BY DEF DeleteCampaignStep
<1>2. /\ defining \in [Definers -> DefinerType] /\ IsFiniteSet(DOMAIN stepRows) /\ DOMAIN stepRows \subseteq Nat
      /\ stepRows = [o \in DOMAIN stepRows |-> stepRows[o]]
      /\ defining[c].order = 0 /\ defining[c].order < Len(defining[c].list)
  BY <1>1 DEF EditorInv, EditorTypes, DefinerInv
<1>3. CASE defining[c].todo = {}
  <2>1. defining' = [defining EXCEPT ![c].pc = "insert"] /\ UNCHANGED stepRows
    BY <1>3 DEF DeleteCampaignStep
  <2> DEFINE new == [defining[c] EXCEPT !.pc = "insert"]
  <2>2. new \in DefinerType /\ new.pc = "insert" /\ new.order = 0 /\ new.list = defining[c].list
          /\ new.alone = defining[c].alone
    BY <1>2 DEF DefinerType
  <2>3. defining' = [defining EXCEPT ![c] = new]
    BY <2>1
  <2> HIDE DEF new
  <2>4. /\ defining' \in [Definers -> DefinerType] /\ defining'[c] = new
        /\ \A d \in Definers \ {c} : defining'[d] = defining[d]
    BY <1>2, <2>2, <2>3
  <2>5. EditorTypes'
    BY <1>1, <2>1, <2>4 DEF EditorInv, EditorTypes
  <2>6. defining[c].alone => stepRows = [o \in 0 .. new.order - 1 |-> new.list[o + 1]]
    <3> SUFFICES ASSUME defining[c].alone PROVE stepRows = [o \in 0 .. 0 - 1 |-> new.list[o + 1]]
      BY <2>2
    <3>1. DOMAIN stepRows = {}
      BY <1>1, <1>3 DEF EditorInv, DefinerInv
    <3> QED  BY <1>2, <3>1
  <2>7. \A d \in Definers : defining'[d].pc = "idle" <=> defining[d].pc = "idle"
    BY <1>1, <2>2, <2>4
  <2>8. DefinerInv'
    BY <1>1, <1>2, <2>1, <2>2, <2>4, <2>6, <2>7 DEF EditorInv, DefinerInv
  <2>9. WholeInv'
    BY <1>1, <2>1, <2>7 DEF EditorInv, WholeInv, Defining
  <2>10. LeadInv'
    BY <1>1 DEF EditorInv, LeadInv
  <2> QED  BY <2>5, <2>8, <2>9, <2>10 DEF EditorInv
<1>4. CASE defining[c].todo # {}
  <2>1. PICK o :
          /\ stepRows' = [p \in DOMAIN stepRows \ {o} |-> stepRows[p]]
          /\ defining' = [d \in Definers |-> [defining[d] EXCEPT !.todo = @ \ {o}]]
    BY <1>4 DEF DeleteCampaignStep
  <2>2. \A d \in Definers : /\ defining'[d] = [defining[d] EXCEPT !.todo = defining[d].todo \ {o}]
                            /\ defining[d] \in DefinerType
    BY <1>2, <2>1
  <2>3. \A d \in Definers : /\ defining'[d].pc = defining[d].pc /\ defining'[d].order = defining[d].order
                            /\ defining'[d].list = defining[d].list /\ defining'[d].alone = defining[d].alone
                            /\ defining'[d].todo = defining[d].todo \ {o}
    BY ZenonT(60), <2>2 DEF DefinerType
  <2>4. \A d \in Definers : defining'[d] \in DefinerType
    <3> SUFFICES ASSUME NEW d \in Definers PROVE defining'[d] \in DefinerType
      OBVIOUS
    <3> DEFINE T == defining[d].todo \ {o}
    <3>1. T \in SUBSET Nat /\ defining[d] \in DefinerType
      BY <2>2 DEF DefinerType
    <3>2. defining'[d] = [defining[d] EXCEPT !.todo = T]
      BY <2>2
    <3> HIDE DEF T
    <3> QED  BY <3>1, <3>2, WithTodo
  <2>5. defining' = [d \in Definers |-> defining'[d]]
    BY <2>1
  <2>6. defining' \in [Definers -> DefinerType]
    BY <2>4, <2>5
  <2>7. /\ DOMAIN stepRows' = DOMAIN stepRows \ {o} /\ IsFiniteSet(DOMAIN stepRows')
        /\ stepRows' = [p \in DOMAIN stepRows' |-> stepRows'[p]]
    BY <1>2, <2>1, FS_Subset
  <2>8. EditorTypes'
    BY <1>1, <1>2, <2>6, <2>7 DEF EditorInv, EditorTypes
  <2>9. DefinerInv'
    <3>1. \A d \in Definers : defining[d].pc = "insert" => ~defining[d].alone
      BY <1>1 DEF EditorInv, DefinerInv
    <3>2. \A d \in Definers : defining[d].pc # "idle" =>
              /\ defining[d].order < Len(defining[d].list)
              /\ ~defining[d].alone => tangled
              /\ defining[d].alone => \A e \in Definers \ {d} : defining[e].pc = "idle"
              /\ defining[d].pc = "delete" => defining[d].order = 0
              /\ defining[d].pc = "delete" /\ defining[d].alone => defining[d].todo = DOMAIN stepRows
      BY DEF EditorInv, DefinerInv
    <3> QED  BY <1>1, <2>3, <2>7, <3>1, <3>2 DEF DefinerInv
  <2>10. WholeInv'
    <3>1. c \in Defining'
      BY <1>1, <2>3 DEF Defining
    <3> QED  BY <3>1 DEF WholeInv
  <2>11. LeadInv'
    BY <1>1 DEF EditorInv, LeadInv
  <2> QED  BY <2>8, <2>9, <2>10, <2>11 DEF EditorInv
<1> QED  BY <1>3, <1>4

LEMMA UpsertKeeps ==
    ASSUME EditorInv, NEW c \in Definers, UpsertCampaignStep(c)
    PROVE  EditorInv'
<1> DEFINE d == defining[c]
<1>1. d.pc = "insert" /\ UNCHANGED <<exists, flow, lead>>
  BY DEF UpsertCampaignStep
<1>2. /\ defining \in [Definers -> DefinerType] /\ d \in DefinerType
      /\ IsFiniteSet(DOMAIN stepRows) /\ DOMAIN stepRows \subseteq Nat
      /\ stepRows = [o \in DOMAIN stepRows |-> stepRows[o]]
  BY DEF EditorInv, EditorTypes
<1>3. /\ d.list \in Lists /\ IsList(d.list) /\ Len(d.list) \in Nat /\ d.order \in Nat /\ d.alone \in BOOLEAN
      /\ d.order < Len(d.list)
      /\ d.alone => /\ \A e \in Definers \ {c} : defining[e].pc = "idle"
                    /\ stepRows = [o \in 0 .. d.order - 1 |-> d.list[o + 1]]
      /\ ~d.alone => tangled
  <2>1. d.list \in Lists /\ d.order \in Nat /\ d.alone \in BOOLEAN
    BY <1>2 DEF DefinerType
  <2>2. d.order < Len(d.list)
    BY <1>1 DEF EditorInv, DefinerInv
  <2>3. d.alone => /\ \A e \in Definers \ {c} : defining[e].pc = "idle"
                   /\ stepRows = [o \in 0 .. d.order - 1 |-> d.list[o + 1]]
    BY <1>1 DEF EditorInv, DefinerInv
  <2>4. ~d.alone => tangled
    BY <1>1 DEF EditorInv, DefinerInv
  <2> QED  BY <2>1, <2>2, <2>3, <2>4, ListsAreLists, ListIsSeq
<1>4. NotDefining \in DefinerType /\ NotDefining.pc = "idle"
  BY IdleIsTyped
<1>5. LeadInv'
  BY <1>1 DEF EditorInv, LeadInv
<1>6. CASE ~(exists /\ d.order \notin DOMAIN stepRows)
  <2>1. defining' = [defining EXCEPT ![c] = NotDefining] /\ tangled' = TRUE /\ UNCHANGED <<stepRows, asked>>
    BY <1>6 DEF UpsertCampaignStep
  <2>2. /\ defining' \in [Definers -> DefinerType] /\ defining'[c].pc = "idle"
        /\ \A e \in Definers \ {c} : defining'[e] = defining[e]
    BY <1>2, <1>4, <2>1
  <2>3. EditorTypes'
    BY <1>1, <2>1, <2>2 DEF EditorInv, EditorTypes
  <2>4. DefinerInv'
    BY <2>1, <2>2 DEF EditorInv, DefinerInv
  <2>5. WholeInv'
    BY <2>1 DEF WholeInv
  <2> QED  BY <1>5, <2>3, <2>4, <2>5 DEF EditorInv
<1>7. CASE exists /\ d.order \notin DOMAIN stepRows
  <2> DEFINE last == d.order + 1 = Len(d.list)
             next == [d EXCEPT !.order = d.order + 1]
  <2>1. /\ stepRows' = [o \in DOMAIN stepRows \cup {d.order} |->
                          IF o = d.order THEN d.list[o + 1] ELSE stepRows[o]]
        /\ asked' = IF last /\ d.alone THEN d.list ELSE asked
        /\ tangled' = (tangled /\ ~(last /\ d.alone))
    BY <1>7 DEF UpsertCampaignStep
  <2>2. defining' = [defining EXCEPT ![c] = IF last THEN NotDefining ELSE next]
    BY <1>7 DEF UpsertCampaignStep
  <2>3. /\ next \in DefinerType /\ next.pc = "insert" /\ next.list = d.list /\ next.order = d.order + 1
        /\ (next.alone <=> d.alone)
    BY <1>1, <1>2 DEF DefinerType
  <2> HIDE DEF next
  <2>4. /\ DOMAIN stepRows' = DOMAIN stepRows \cup {d.order} /\ IsFiniteSet(DOMAIN stepRows')
        /\ DOMAIN stepRows' \subseteq Nat
        /\ stepRows' = [o \in DOMAIN stepRows' |-> stepRows'[o]]
    BY ZenonT(60), <1>2, <1>3, <2>1, FS_AddElement
  <2>5. tangled' \in BOOLEAN /\ IsList(asked')
    BY <1>3, <2>1 DEF EditorInv, EditorTypes
  <2>6. d.alone => stepRows' = [o \in 0 .. d.order |-> d.list[o + 1]]
    <3> SUFFICES ASSUME d.alone PROVE stepRows' = [o \in 0 .. d.order |-> d.list[o + 1]]
      OBVIOUS
    <3>1. stepRows = [o \in 0 .. d.order - 1 |-> d.list[o + 1]] /\ d.order \in Nat
      BY <1>3
    <3> HIDE DEF d
    <3>2. DOMAIN stepRows' = 0 .. d.order
      BY <2>4, <3>1
    <3>3. \A o \in 0 .. d.order : stepRows'[o] = d.list[o + 1]
      BY <2>1, <3>1
    <3> QED  BY <2>4, <3>2, <3>3
  <2>7. CASE last
    <3>1. /\ defining' \in [Definers -> DefinerType] /\ defining'[c].pc = "idle"
          /\ \A e \in Definers \ {c} : defining'[e] = defining[e]
      BY <1>2, <1>4, <2>2, <2>7
    <3>2. EditorTypes'
      BY <1>1, <2>4, <2>5, <3>1 DEF EditorInv, EditorTypes
    <3>3. CASE d.alone
      <4>1. \A e \in Definers : defining'[e].pc = "idle"
        BY <1>3, <3>1, <3>3
      <4>2. DefinerInv'
        BY <4>1 DEF DefinerInv
      <4>3. WholeInv'
        <5>1. asked' = d.list /\ stepRows' = [o \in 0 .. d.order |-> d.list[o + 1]]
          BY <2>1, <2>6, <2>7, <3>3
        <5>2. d.order = Len(d.list) - 1
          BY <1>3, <2>7
        <5> HIDE DEF d
        <5> QED  BY <5>1, <5>2 DEF WholeInv, RowsOf
      <4> QED  BY <1>5, <3>2, <4>2, <4>3 DEF EditorInv
    <3>4. CASE ~d.alone
      <4>1. tangled'
        BY <1>3, <2>1, <3>4
      <4>2. \A e \in Definers \ {c} : defining[e].pc # "idle" => ~defining[e].alone
        BY <1>1 DEF EditorInv, DefinerInv
      <4>3. DefinerInv'
        BY <3>1, <4>1, <4>2 DEF EditorInv, DefinerInv
      <4> QED  BY <1>5, <3>2, <4>1, <4>3 DEF EditorInv, WholeInv
    <3> QED  BY <3>3, <3>4
  <2>8. CASE ~last
    <3>1. /\ defining' \in [Definers -> DefinerType] /\ defining'[c] = next
          /\ \A e \in Definers \ {c} : defining'[e] = defining[e]
      BY <1>2, <2>2, <2>3, <2>8
    <3>2. EditorTypes'
      BY <1>1, <2>4, <2>5, <3>1 DEF EditorInv, EditorTypes
    <3>3. next.order < Len(next.list) /\ next.order - 1 = d.order
      BY <1>3, <2>3, <2>8
    <3>4. tangled' = tangled
      BY <2>1, <2>8 DEF EditorInv, EditorTypes
    <3>5. \A e \in Definers \ {c} : defining[e].pc # "idle" => ~defining[e].alone
      BY <1>1 DEF EditorInv, DefinerInv
    <3>6. DefinerInv'
      <4> SUFFICES ASSUME NEW e \in Definers
                   PROVE  LET f == defining'[e] IN
                          /\ f.pc # "idle" => f.order < Len(f.list)
                          /\ f.pc = "delete" => f.order = 0
                          /\ f.pc # "idle" /\ f.alone =>
                                /\ \A g \in Definers \ {e} : defining'[g].pc = "idle"
                                /\ f.pc = "delete" => f.todo = DOMAIN stepRows'
                                /\ f.pc = "insert" => stepRows' = [o \in 0 .. f.order - 1 |-> f.list[o + 1]]
                          /\ f.pc # "idle" /\ ~f.alone => tangled'
        BY DEF DefinerInv
      <4>1. CASE e = c
        <5>1. /\ defining'[e] = next /\ next.pc = "insert" /\ next.order < Len(next.list)
              /\ ~next.alone => tangled'
          BY <1>3, <2>3, <3>1, <3>3, <3>4, <4>1
        <5>2. next.alone => /\ \A g \in Definers \ {e} : defining'[g].pc = "idle"
                            /\ stepRows' = [o \in 0 .. next.order - 1 |-> next.list[o + 1]]
          BY <1>3, <2>3, <2>6, <3>1, <3>3, <4>1
        <5> QED  BY <5>1, <5>2
      <4>2. CASE e # c
        <5>1. defining'[e] = defining[e] /\ tangled' = tangled
                /\ (defining[e].pc # "idle" => ~defining[e].alone)
          BY <3>1, <3>4, <3>5, <4>2
        <5>2. /\ defining[e].pc # "idle" => defining[e].order < Len(defining[e].list)
              /\ defining[e].pc = "delete" => defining[e].order = 0
              /\ defining[e].pc # "idle" /\ ~defining[e].alone => tangled
          BY DEF EditorInv, DefinerInv
        <5> QED  BY <5>1, <5>2
      <4> QED  BY <4>1, <4>2
    <3>7. c \in Defining'
      BY <2>3, <3>1 DEF Defining
    <3> QED  BY <1>5, <3>2, <3>6, <3>7 DEF EditorInv, WholeInv
  <2> QED  BY <2>7, <2>8
<1> QED  BY <1>6, <1>7

LEMMA StopKeeps ==
    ASSUME EditorInv, RuntimeStops PROVE EditorInv'
<1>1. /\ defining' = [c \in Definers |-> NotDefining] /\ tangled' = TRUE
      /\ UNCHANGED <<stepRows, exists, flow, lead, asked>>
  BY DEF RuntimeStops
<1>2. NotDefining \in DefinerType /\ NotDefining.pc = "idle"
  BY IdleIsTyped
<1>3. EditorTypes'
  BY <1>1, <1>2 DEF EditorInv, EditorTypes
<1>4. DefinerInv' /\ WholeInv'
  BY <1>1, <1>2 DEF DefinerInv, WholeInv
<1>5. LeadInv'
  BY <1>1 DEF EditorInv, LeadInv
<1> QED  BY <1>3, <1>4, <1>5 DEF EditorInv

\* A step of the form only.
LEMMA FormKeeps ==
    ASSUME EditorInv, NEW s, NEW l, NEW p, IsList(s), IsList(l),
           flow' = [steps |-> s, put |-> p, list |-> l],
           UNCHANGED <<stepRows, defining, lead, asked, tangled>>
    PROVE  EditorInv'
<1>1. EditorTypes'
  BY DEF EditorInv, EditorTypes
<1>2. DefinerInv' /\ WholeInv' /\ LeadInv'
  BY DEF EditorInv, DefinerInv, WholeInv, LeadInv, Defining
<1> QED  BY <1>1, <1>2 DEF EditorInv

\* Somebody else's writers are told that the rows are no longer theirs.
LEMMA Overwritten ==
    ASSUME EditorInv, defining' = [d \in Definers |-> [defining[d] EXCEPT !.todo = {}, !.alone = FALSE]],
           tangled' = (Defining # {})
    PROVE  /\ defining' \in [Definers -> DefinerType] /\ Defining' = Defining
           /\ DefinerInv'
<1>1. \A d \in Definers : /\ defining[d] \in DefinerType
                          /\ defining'[d] = [defining[d] EXCEPT !.todo = {}, !.alone = FALSE]
  BY DEF EditorInv, EditorTypes
<1>2. \A d \in Definers : /\ defining'[d].pc = defining[d].pc /\ defining'[d].order = defining[d].order
                          /\ defining'[d].list = defining[d].list /\ ~defining'[d].alone
  BY <1>1 DEF DefinerType
<1>3. \A d \in Definers : defining'[d] \in DefinerType
  <2>1. ASSUME NEW e \in DefinerType PROVE [e EXCEPT !.todo = {}, !.alone = FALSE] \in DefinerType
    BY ZenonT(60) DEF DefinerType
  <2> QED  BY <1>1, <2>1
<1>4. defining' = [d \in Definers |-> defining'[d]]
  OBVIOUS
<1>5. Defining' = Defining
  BY ZenonT(60), <1>2 DEF Defining
<1>6. DefinerInv'
  BY ZenonT(60), <1>2 DEF EditorInv, DefinerInv, Defining
<1> QED  BY <1>3, <1>4, <1>5, <1>6

LEMMA ReplaceKeeps ==
    ASSUME EditorInv, ReplaceSteps PROVE EditorInv'
<1>1. /\ stepRows' = RowsOf(flow.list) /\ flow' = [flow EXCEPT !.put = "stored"]
      /\ defining' = [d \in Definers |-> [defining[d] EXCEPT !.todo = {}, !.alone = FALSE]]
      /\ asked' = IF Defining = {} THEN flow.list ELSE asked
      /\ tangled' = (Defining # {}) /\ UNCHANGED lead
  BY DEF ReplaceSteps
<1>2. IsList(flow.steps) /\ IsList(flow.list) /\ IsList(asked)
        /\ flow = [steps |-> flow.steps, put |-> flow.put, list |-> flow.list]
  BY DEF EditorInv, EditorTypes
<1>3. defining' \in [Definers -> DefinerType] /\ Defining' = Defining /\ DefinerInv'
  BY <1>1, Overwritten
<1>4. flow' = [steps |-> flow.steps, put |-> "stored", list |-> flow.list]
  BY <1>1, <1>2
<1>5. EditorTypes'
  BY <1>1, <1>2, <1>3, <1>4, RowsFacts DEF EditorTypes
<1>6. WholeInv'
  BY <1>1, <1>3 DEF WholeInv
<1>7. LeadInv'
  BY <1>1 DEF EditorInv, LeadInv
<1> QED  BY <1>3, <1>5, <1>6, <1>7 DEF EditorInv

LEMMA DeleteCampaignKeeps ==
    ASSUME EditorInv, DeleteCampaign PROVE EditorInv'
<1>1. /\ stepRows' = RowsOf(<<>>) /\ asked' = <<>> /\ lead' = [lead EXCEPT !.state = "gone"]
      /\ defining' = [d \in Definers |-> [defining[d] EXCEPT !.todo = {}, !.alone = FALSE]]
      /\ tangled' = (Defining # {}) /\ UNCHANGED flow
  BY ZenonT(60) DEF DeleteCampaign
<1>2. defining' \in [Definers -> DefinerType] /\ Defining' = Defining /\ DefinerInv'
  BY <1>1, Overwritten
<1>3. EditorTypes'
  BY <1>1, <1>2, RowsFacts, EmptyIsList DEF EditorInv, EditorTypes
<1>4. WholeInv'
  BY <1>1 DEF WholeInv
<1>5. LeadInv'
  <2>1. lead \in LeadType /\ (lead.reading => (lead.whole => lead.read = lead.of))
    BY DEF EditorInv, LeadInv
  <2>2. /\ lead' \in LeadType /\ lead'.state = "gone" /\ (lead'.reading <=> lead.reading)
        /\ (lead'.whole <=> lead.whole) /\ lead'.read = lead.read /\ lead'.of = lead.of
    BY <1>1, <2>1 DEF LeadType
  <2> QED  BY <2>1, <2>2 DEF LeadInv
<1> QED  BY <1>2, <1>3, <1>4, <1>5 DEF EditorInv

LEMMA LeadReadsKeeps ==
    ASSUME EditorInv, LeadReads PROVE EditorInv'
<1> DEFINE n == Cardinality(EnabledOf(ListCampaignSteps))
           of == Cardinality(EnabledOf(asked))
           whole == Defining = {} /\ ~tangled
<1>1. /\ lead.state = "in_progress"
      /\ lead' = [lead EXCEPT !.reading = TRUE, !.read = n, !.whole = whole, !.of = of]
      /\ UNCHANGED <<stepRows, defining, flow, asked, tangled>>
  BY DEF LeadReads
<1>2. n \in Nat /\ of \in Nat
  BY ReadsSomeList, EnabledCount DEF EditorInv, EditorTypes
<1>3. whole => n = of
  BY ReadsTheList DEF EditorInv, EditorTypes, WholeInv
<1> HIDE DEF n, of, whole
<1>4. whole \in BOOLEAN
  BY DEF whole
<1>5. lead \in LeadType
  BY DEF EditorInv, LeadInv
<1>6. /\ lead' \in LeadType /\ lead'.state = "in_progress" /\ (lead'.whole <=> whole)
      /\ lead'.read = n /\ lead'.of = of
  BY <1>1, <1>2, <1>4, <1>5 DEF LeadType
<1>7. LeadInv'
  BY <1>3, <1>6 DEF LeadInv
<1>8. EditorTypes' /\ DefinerInv' /\ WholeInv'
  BY <1>1 DEF EditorInv, EditorTypes, DefinerInv, WholeInv, Defining
<1> QED  BY <1>7, <1>8 DEF EditorInv

LEMMA LeadAdvancesKeeps ==
    ASSUME EditorInv, LeadAdvances PROVE EditorInv'
<1> DEFINE n == lead.read
           at == IF lead.at < n THEN lead.at + 1 ELSE lead.at
           state == IF lead.state = "gone" \/ n = 0 \/ lead.at + 1 < n THEN lead.state ELSE "completed"
<1>1. /\ lead.reading /\ UNCHANGED <<stepRows, defining, flow, asked, tangled>>
      /\ lead' = [lead EXCEPT !.reading = FALSE, !.read = 0, !.at = at, !.state = state]
  BY DEF LeadAdvances
<1>2. /\ lead \in LeadType /\ n \in Nat /\ lead.at \in Nat /\ lead.of \in Nat
      /\ lead.state \in {"in_progress", "gone"} /\ (lead.whole => n = lead.of)
  BY <1>1 DEF EditorInv, LeadInv, LeadType
<1>3. at \in Nat /\ state \in {"in_progress", "completed", "gone"} /\ (state = "completed" => at >= n)
  BY <1>2
<1> HIDE DEF at, state
<1>4. /\ lead' \in LeadType /\ ~lead'.reading /\ lead'.at = at /\ lead'.state = state
      /\ lead'.of = lead.of /\ (lead'.whole <=> lead.whole)
  BY <1>1, <1>2, <1>3 DEF LeadType
<1>5. LeadInv'
  BY <1>2, <1>3, <1>4 DEF LeadInv
<1>6. EditorTypes' /\ DefinerInv' /\ WholeInv'
  BY <1>1 DEF EditorInv, EditorTypes, DefinerInv, WholeInv, Defining
<1> QED  BY <1>5, <1>6 DEF EditorInv

LEMMA EditorInvInit == EditorInit => EditorInv
<1> SUFFICES ASSUME EditorInit PROVE EditorInv
  OBVIOUS
<1>1. PICK list \in Lists : stepRows = RowsOf(list) /\ asked = list
  BY DEF EditorInit
<1>2. NotDefining \in DefinerType /\ NotDefining.pc = "idle"
  BY IdleIsTyped
<1>3. IsList(list) /\ IsList(<<>>)
  BY ListsAreLists, EmptyIsList
<1>4. EditorTypes
  BY <1>1, <1>2, <1>3, RowsFacts DEF EditorInit, EditorTypes
<1>5. DefinerInv /\ WholeInv
  BY <1>1, <1>2 DEF EditorInit, DefinerInv, WholeInv
<1>6. LeadInv
  BY DEF EditorInit, LeadInv, LeadType
<1> QED  BY <1>4, <1>5, <1>6 DEF EditorInv

LEMMA EditorInvStep == EditorInv /\ [EditorNext]_editorVars => EditorInv'
<1> SUFFICES ASSUME EditorInv, [EditorNext]_editorVars PROVE EditorInv'
  OBVIOUS
<1>0. /\ IsList(flow.steps) /\ IsList(flow.list)
      /\ flow = [steps |-> flow.steps, put |-> flow.put, list |-> flow.list]
  BY DEF EditorInv, EditorTypes
<1>1. CASE FlowOpen
  <2>1. flow' = [steps |-> ListCampaignSteps, put |-> flow.put, list |-> flow.list]
    BY <1>0, <1>1 DEF FlowOpen
  <2>2. IsList(ListCampaignSteps)
    BY ReadsSomeList DEF EditorInv
  <2> QED  BY <1>0, <1>1, <2>1, <2>2, FormKeeps DEF FlowOpen
<1>2. CASE Mutate
  <2>1. PICK next \in Lists : flow' = [flow EXCEPT !.steps = next]
    BY <1>2 DEF Mutate
  <2>2. flow' = [steps |-> next, put |-> flow.put, list |-> flow.list]
    BY <1>0, <2>1
  <2> QED  BY <1>0, <1>2, <2>2, FormKeeps, ListsAreLists DEF Mutate
<1>3. CASE SaveFlow
  <2>1. flow' = [steps |-> flow.steps, put |-> "sent", list |-> flow.steps]
    BY <1>0, <1>3 DEF SaveFlow
  <2> QED  BY <1>0, <1>3, <2>1, FormKeeps DEF SaveFlow
<1>4. CASE SaveAnswered
  <2>1. \E s \in {flow.steps, flow.list} : flow' = [steps |-> s, put |-> "none", list |-> <<>>]
    BY <1>4 DEF SaveAnswered
  <2> QED  BY <1>0, <1>4, <2>1, FormKeeps, EmptyIsList DEF SaveAnswered
<1>5. CASE ReplaceRefused
  <2>1. flow' = [steps |-> flow.steps, put |-> "refused", list |-> flow.list]
    BY <1>0, <1>5 DEF ReplaceRefused
  <2> QED  BY <1>0, <1>5, <2>1, FormKeeps DEF ReplaceRefused
<1>6. CASE UNCHANGED editorVars
  <2>1. flow' = [steps |-> flow.steps, put |-> flow.put, list |-> flow.list]
    BY <1>0, <1>6 DEF editorVars
  <2> QED  BY <1>0, <1>6, <2>1, FormKeeps DEF editorVars
<1> QED  BY <1>1, <1>2, <1>3, <1>4, <1>5, <1>6, BeginKeeps, DeleteKeeps, UpsertKeeps, StopKeeps,
            ReplaceKeeps, DeleteCampaignKeeps, LeadReadsKeeps, LeadAdvancesKeeps, Zenon
         DEF EditorNext

\* Between rewrites a campaign runs a list somebody wrote, and a lead ends only
\* past its last enabled step (SequenceIsWhole), for any number of writers.
THEOREM CampaignRunsWhatWasWritten == EditorSpec => []SequenceIsWhole
<1>1. EditorInv => SequenceIsWhole
  BY DEF EditorInv, WholeInv, LeadInv, SequenceIsWhole
<1>2. EditorSpec => []EditorInv
  BY EditorInvInit, EditorInvStep, PTL DEF EditorSpec
<1> QED  BY <1>1, <1>2, PTL

-----------------------------------------------------------------------------
(* The activity page *)

Rows(s) == IsFiniteSet(s) /\ \A i \in s : i.at \in Nat

\* Each row of the request's beginning is still there, perhaps as a later one.
RowsLive ==
    /\ instant \in Nat /\ Rows(items) /\ Rows(feed.read) /\ \A i \in items : i.at <= instant
    /\ \A b \in before : b.at \in Nat /\ b.kind \in {"action", "reply", "accept", "failure"}
    /\ feed.pc # "idle" =>
          \A b \in before : \E i \in items : i.id = b.id /\ i.kind = b.kind /\ i.at >= b.at

Asked ==
    IF feed.pc = "reply" THEN {"action"}
    ELSE IF feed.pc = "accept" THEN {"action", "reply"}
    ELSE IF feed.pc = "merge" THEN {"action", "reply", "accept"}
    ELSE {}

\* What a set of rows must hold of a row b: the row, or a limit of newer ones.
Holds(s, b) ==
    \/ \E i \in s : i.id = b.id /\ i.at >= b.at
    \/ \E t \in SUBSET s : Cardinality(t) = FeedLimit /\ \A i \in t : i.at >= b.at

ReadSoFar == \A b \in before : b.kind \in Asked => Holds(feed.read, b)

FeedTypes ==
    /\ feed = [pc |-> feed.pc, read |-> feed.read, page |-> feed.page]
    /\ feed.pc \in {"idle", "action", "reply", "accept", "merge", "done"}
    /\ \A i \in items : /\ i = [id |-> i.id, kind |-> i.kind, at |-> i.at, result |-> i.result]
                        /\ i.kind \in {"action", "reply", "accept", "failure"}

FeedInv == FeedTypes /\ RowsLive /\ ReadSoFar /\ PageIsWhole

LEMMA MinOfTwo ==
    ASSUME NEW a \in Nat, NEW b \in Nat
    PROVE  Min({a, b}) = IF a <= b THEN a ELSE b
BY DEF Min

\* The newest n rows hold every row, or are full of newer ones.
LEMMA NewestHolds ==
    ASSUME NEW s, Rows(s), NEW t \in Newest(s, FeedLimit)
    PROVE  /\ Rows(t) /\ t \subseteq s
           /\ \A i \in s \ t : Cardinality(t) = FeedLimit /\ \A j \in t : j.at >= i.at
<1>1. /\ t \subseteq s /\ Cardinality(t) = Min({FeedLimit, Cardinality(s)})
      /\ \A i \in t, j \in s \ t : i.at >= j.at
  BY DEF Newest
<1>2. IsFiniteSet(t) /\ Cardinality(t) \in Nat /\ Cardinality(s) \in Nat /\ FeedLimit \in Nat
  BY <1>1, FS_Subset, FS_CardinalityType, FeedAssumption DEF Rows
<1>3. ASSUME NEW i \in s \ t PROVE Cardinality(t) = FeedLimit
  <2>1. Cardinality(t) # Cardinality(s)
    BY <1>1, <1>3, FS_Subset DEF Rows
  <2> QED  BY <1>1, <1>2, <2>1, MinOfTwo
<1> QED  BY <1>1, <1>2, <1>3 DEF Rows

LEMMA HoldsMore ==
    ASSUME NEW s, NEW r, s \subseteq r, NEW b, Holds(s, b) PROVE Holds(r, b)
BY DEF Holds

LEMMA InsertKeeps ==
    ASSUME FeedInv, NEW kind \in {"action", "reply", "accept", "failure"}, Insert(kind)
    PROVE  FeedInv'
<1> DEFINE new == [id |-> Cardinality(items) + 1, kind |-> kind, at |-> instant,
                   result |-> IF kind = "action" THEN "pending" ELSE "done"]
<1>1. items' = items \cup {new} /\ UNCHANGED <<feed, before, instant>>
  BY DEF Insert, Write
<1>2. /\ new.at = instant /\ new.kind = kind
      /\ new = [id |-> new.id, kind |-> new.kind, at |-> new.at, result |-> new.result]
  OBVIOUS
<1> HIDE DEF new
<1>3. instant \in Nat /\ Rows(items) /\ \A i \in items : i.at <= instant
  BY DEF FeedInv, RowsLive
<1>4. Rows(items') /\ \A i \in items' : i.at <= instant
  BY <1>1, <1>2, <1>3, FS_AddElement DEF Rows
<1>5. RowsLive'
  BY <1>1, <1>4 DEF FeedInv, RowsLive
<1>6. FeedTypes'
  BY <1>1, <1>2 DEF FeedInv, FeedTypes
<1> QED  BY <1>1, <1>5, <1>6 DEF FeedInv, ReadSoFar, PageIsWhole, Asked

LEMMA SetResultKeeps ==
    ASSUME FeedInv, NEW i \in items, NEW result, SetResult(i, result)
    PROVE  FeedInv'
<1> DEFINE new == [i EXCEPT !.at = instant, !.result = result]
<1>1. items' = (items \ {i}) \cup {new} /\ UNCHANGED <<feed, before, instant>>
  BY DEF SetResult, Write
<1>2. instant \in Nat /\ Rows(items) /\ (\A j \in items : j.at <= instant) /\ i.at \in Nat /\ i.at <= instant
  BY DEF FeedInv, RowsLive, Rows
<1>3. /\ new.at = instant /\ new.kind = i.kind /\ new.id = i.id
      /\ new = [id |-> new.id, kind |-> new.kind, at |-> new.at, result |-> new.result]
  <2>1. \E id, kind, at, res : i = [id |-> id, kind |-> kind, at |-> at, result |-> res]
    BY DEF FeedInv, FeedTypes
  <2>2. PICK id, kind, at, res : i = [id |-> id, kind |-> kind, at |-> at, result |-> res]
    BY <2>1
  <2> DEFINE moved == [i EXCEPT !.at = instant]
  <2>3. moved = [id |-> id, kind |-> kind, at |-> instant, result |-> res]
    BY <2>2
  <2>4. new = [moved EXCEPT !.result = result]
    OBVIOUS
  <2> HIDE DEF moved, new
  <2>5. new = [id |-> id, kind |-> kind, at |-> instant, result |-> result]
    BY <2>3, <2>4
  <2> QED  BY <2>2, <2>5
<1> HIDE DEF new
<1>4. Rows(items') /\ \A j \in items' : j.at <= instant
  <2>1. IsFiniteSet(items \ {i})
    BY <1>2, FS_RemoveElement DEF Rows
  <2> QED  BY <1>1, <1>2, <1>3, <2>1, FS_AddElement DEF Rows
<1>5. RowsLive'
  <2>1. ASSUME feed.pc # "idle", NEW b \in before
        PROVE  \E j \in items' : j.id = b.id /\ j.kind = b.kind /\ j.at >= b.at
    <3>1. b.at \in Nat
      BY DEF FeedInv, RowsLive
    <3>2. PICK j \in items : j.id = b.id /\ j.kind = b.kind /\ j.at >= b.at
      BY <2>1 DEF FeedInv, RowsLive
    <3>3. CASE j = i
      BY <1>1, <1>2, <1>3, <3>1, <3>2, <3>3
    <3>4. CASE j # i
      BY <1>1, <3>2, <3>4
    <3> QED  BY <3>3, <3>4
  <2> QED  BY <1>1, <1>4, <2>1 DEF FeedInv, RowsLive
<1>6. FeedTypes'
  BY <1>1, <1>3 DEF FeedInv, FeedTypes
<1> QED  BY <1>1, <1>5, <1>6 DEF FeedInv, ReadSoFar, PageIsWhole, Asked

LEMMA ReadFeedKeeps ==
    ASSUME FeedInv, ReadFeed PROVE FeedInv'
<1> DEFINE mine == {i \in items : i.kind = feed.pc}
<1>1. PICK these \in Newest(mine, FeedLimit) :
          feed' = [feed EXCEPT !.pc = After[feed.pc], !.read = feed.read \cup these]
  BY DEF ReadFeed
<1>2. feed.pc \in {"action", "reply", "accept"} /\ UNCHANGED <<items, instant, before>>
  BY DEF ReadFeed, After
<1>3. /\ feed'.pc = After[feed.pc] /\ feed'.read = feed.read \cup these
      /\ feed' = [pc |-> feed'.pc, read |-> feed'.read, page |-> feed'.page]
  BY <1>1 DEF FeedInv, FeedTypes
<1>4. /\ feed'.pc \in {"reply", "accept", "merge"}
      /\ Asked' = Asked \cup {feed.pc}
  BY <1>2, <1>3 DEF After, Asked
<1>5. Rows(mine) /\ Rows(feed.read)
  <2>1. mine \subseteq items
    OBVIOUS
  <2> QED  BY <2>1, FS_Subset DEF FeedInv, RowsLive, Rows
<1>6. Rows(these) /\ \A i \in mine \ these : Cardinality(these) = FeedLimit /\ \A j \in these : j.at >= i.at
  <2> HIDE DEF mine
  <2> QED  BY <1>1, <1>5, NewestHolds
<1>7. Rows(feed'.read)
  BY ZenonT(60), <1>3, <1>5, <1>6, FS_Union DEF Rows
<1>8. RowsLive'
  BY <1>2, <1>4, <1>7 DEF FeedInv, RowsLive
<1>9. ASSUME NEW b \in before, b.kind = feed.pc PROVE Holds(these, b)
  <2>1. PICK i \in items : i.id = b.id /\ i.kind = b.kind /\ i.at >= b.at /\ i.at \in Nat /\ b.at \in Nat
    BY <1>2 DEF FeedInv, RowsLive, Rows
  <2>2. i \in mine
    BY <1>9, <2>1
  <2>3. CASE i \in these
    BY <2>1, <2>3 DEF Holds
  <2>4. CASE i \notin these
    <3>1. Cardinality(these) = FeedLimit /\ \A j \in these : j.at >= i.at /\ j.at \in Nat
      BY <1>6, <2>2, <2>4 DEF Rows
    <3>2. \A j \in these : j.at >= b.at
      BY <2>1, <3>1
    <3> QED  BY <3>1, <3>2 DEF Holds
  <2> QED  BY <2>3, <2>4
<1>10. ReadSoFar'
  <2> SUFFICES ASSUME NEW b \in before, b.kind \in Asked \cup {feed.pc} PROVE Holds(feed'.read, b)
    BY <1>2, <1>4 DEF ReadSoFar, Holds
  <2>1. CASE b.kind \in Asked
    BY <1>3, <2>1, HoldsMore DEF FeedInv, ReadSoFar
  <2>2. CASE b.kind = feed.pc
    BY <1>3, <1>9, <2>2, HoldsMore
  <2> QED  BY <2>1, <2>2
<1>11. FeedTypes' /\ PageIsWhole'
  BY <1>2, <1>3, <1>4 DEF FeedInv, FeedTypes, PageIsWhole
<1> QED  BY <1>8, <1>10, <1>11 DEF FeedInv

\* The page: the newest of what was read.
LEMMA MergeFeedKeeps ==
    ASSUME FeedInv, MergeFeed PROVE FeedInv'
<1>1. PICK these \in Newest(feed.read, FeedLimit) : feed' = [pc |-> "done", read |-> {}, page |-> these]
  BY DEF MergeFeed, MergePage
<1>2. feed.pc = "merge" /\ UNCHANGED <<items, instant, before>>
  BY DEF MergeFeed
<1>3. Rows(feed.read) /\ FeedLimit \in Nat
  BY FeedAssumption DEF FeedInv, RowsLive
<1>4. /\ Rows(these) /\ these \subseteq feed.read
      /\ \A i \in feed.read \ these : Cardinality(these) = FeedLimit /\ \A j \in these : j.at >= i.at
  BY <1>1, <1>3, NewestHolds
<1>5. ASSUME NEW b \in before, b.kind # "failure", b.id \notin {i.id : i \in these}
      PROVE  Cardinality(these) = FeedLimit /\ \A i \in these : i.at >= b.at
  <2>1. Holds(feed.read, b) /\ b.at \in Nat
    BY <1>2, <1>5 DEF FeedInv, ReadSoFar, RowsLive, Asked
  <2>2. \A i \in feed.read : i.at \in Nat
    BY <1>3 DEF Rows
  <2>3. ASSUME NEW i \in feed.read, i.id = b.id, i.at >= b.at
        PROVE  Cardinality(these) = FeedLimit /\ \A j \in these : j.at >= b.at
    <3>1. i \notin these
      BY <1>5, <2>3
    <3>2. Cardinality(these) = FeedLimit /\ \A j \in these : j.at >= i.at /\ j.at \in Nat
      BY <1>4, <2>3, <3>1 DEF Rows
    <3> QED  BY <2>1, <2>2, <2>3, <3>2
  <2>4. ASSUME NEW t \in SUBSET feed.read, Cardinality(t) = FeedLimit, \A i \in t : i.at >= b.at
        PROVE  Cardinality(these) = FeedLimit /\ \A j \in these : j.at >= b.at
    <3>1. CASE t \subseteq these
      <4>1. IsFiniteSet(these) /\ IsFiniteSet(t)
        BY <1>4, <3>1, FS_Subset DEF Rows
      <4>2. Cardinality(these) <= FeedLimit
        <5>1. Cardinality(these) = Min({FeedLimit, Cardinality(feed.read)})
          BY <1>1 DEF Newest
        <5>2. Cardinality(feed.read) \in Nat
          BY <1>3, FS_CardinalityType DEF Rows
        <5> QED  BY <1>3, <5>1, <5>2, MinOfTwo
      <4>3. Cardinality(these) \in Nat /\ FeedLimit <= Cardinality(these)
        BY <2>4, <3>1, <4>1, FS_Subset, FS_CardinalityType
      <4>4. Cardinality(these) = Cardinality(t)
        BY <1>3, <2>4, <4>2, <4>3
      <4>5. these = t
        BY <3>1, <4>1, <4>4, FS_Subset
      <4> QED  BY <2>4, <4>5
    <3>2. CASE ~(t \subseteq these)
      <4>1. PICK i \in t : i \in feed.read \ these
        BY <3>2
      <4>2. Cardinality(these) = FeedLimit /\ \A j \in these : j.at >= i.at /\ j.at \in Nat
        BY <1>4, <4>1 DEF Rows
      <4> QED  BY <2>1, <2>2, <2>4, <4>1, <4>2
    <3> QED  BY <3>1, <3>2
  <2> QED  BY <2>1, <2>3, <2>4 DEF Holds
<1>6. feed'.pc = "done" /\ feed'.read = {} /\ feed'.page = these
  BY <1>1
<1>7. PageIsWhole'
  BY <1>2, <1>5, <1>6 DEF PageIsWhole
<1>8. Rows({})
  BY FS_EmptySet DEF Rows
<1>9. RowsLive'
  BY <1>2, <1>6, <1>8 DEF FeedInv, RowsLive
<1>10. FeedTypes' /\ ReadSoFar'
  BY <1>1, <1>2, <1>6 DEF FeedInv, FeedTypes, ReadSoFar, Asked
<1> QED  BY <1>7, <1>9, <1>10 DEF FeedInv

LEMMA FeedInvStep == FeedInv /\ [FeedNext]_feedVars => FeedInv'
<1> SUFFICES ASSUME FeedInv, [FeedNext]_feedVars PROVE FeedInv'
  OBVIOUS
<1> USE DEF FeedInv
<1>1. CASE GetActivity
  <2>1. /\ feed' = [NoFeed EXCEPT !.pc = "action"] /\ before' = items /\ UNCHANGED <<items, instant>>
    BY <1>1 DEF GetActivity
  <2>2. /\ feed'.pc = "action" /\ feed'.read = {}
        /\ feed' = [pc |-> feed'.pc, read |-> feed'.read, page |-> feed'.page]
    BY <2>1 DEF NoFeed
  <2>3. Rows({}) /\ \A i \in items : i.at \in Nat
    BY FS_EmptySet DEF Rows, RowsLive
  <2>4. RowsLive'
    BY SMTT(60), <2>1, <2>2, <2>3 DEF RowsLive, FeedTypes
  <2> QED  BY <2>1, <2>2, <2>4 DEF FeedTypes, ReadSoFar, Asked, PageIsWhole
<1>2. CASE GetErrors
  <2>1. before' = items /\ feed.pc = "idle" /\ UNCHANGED <<items, instant, feed>>
    BY <1>2 DEF GetErrors
  <2>2. \A i \in items : i.at \in Nat
    BY DEF Rows, RowsLive
  <2>3. RowsLive'
    BY <2>1, <2>2 DEF RowsLive, FeedTypes
  <2> QED  BY <2>1, <2>3 DEF FeedTypes, ReadSoFar, Asked, PageIsWhole
<1>3. CASE TimePasses
  <2>1. instant' = instant + 1 /\ UNCHANGED <<items, feed, before>>
    BY <1>3 DEF TimePasses, Write
  <2>2. instant' \in Nat /\ \A i \in items : i.at <= instant'
    BY <2>1 DEF RowsLive, Rows
  <2> QED  BY <2>1, <2>2 DEF RowsLive, FeedTypes, ReadSoFar, Asked, PageIsWhole
<1>4. CASE ReadErrors \/ SumErrors \/ UNCHANGED feedVars
  <2>1. UNCHANGED <<items, instant, feed, before>>
    BY <1>4 DEF ReadErrors, SumErrors, feedVars
  <2> QED  BY <2>1 DEF RowsLive, FeedTypes, ReadSoFar, Asked, PageIsWhole
<1> QED  BY <1>1, <1>2, <1>3, <1>4, InsertKeeps, SetResultKeeps, ReadFeedKeeps, MergeFeedKeeps
         DEF FeedNext

-----------------------------------------------------------------------------
(* The errors feed *)

LEMMA MaxOfTwo ==
    ASSUME NEW a \in Nat, NEW b \in Nat
    PROVE  Max({a, b}) = IF a <= b THEN b ELSE a
BY DEF Max

ErrorKinds == {"failure", "action"}

Entries == [count : Nat, first : Nat, last : Nat]

OfKind(s, kind) == {i \in s : i.kind = kind}

\* An entry tells how many rows there are, and between which times.
Tells(entry, s) ==
    /\ entry.count = Cardinality(s)
    /\ \A i \in s : entry.first <= i.at /\ i.at <= entry.last

\* A finite set is listed once and wholly.
LEMMA ListIsWhole ==
    ASSUME NEW s, IsFiniteSet(s)
    PROVE  LET item == SetToSeq(s)
               n    == Cardinality(s) IN
           /\ n \in Nat /\ item \in [1 .. n -> s]
           /\ \A j, k \in 1 .. n : item[j] = item[k] => j = k
           /\ \A i \in s : \E j \in 1 .. n : item[j] = i
<1> DEFINE item == SetToSeq(s)
           n == Cardinality(s)
<1>1. n \in Nat /\ ExistsBijection(1 .. n, s)
  BY FS_CardinalityType
<1>2. \E f \in [1 .. n -> s] : IsInjective(f)
  BY <1>1 DEF ExistsBijection, Bijection, Injection
<1>3. item \in [1 .. n -> s] /\ IsInjective(item)
  BY <1>2 DEF SetToSeq
<1> HIDE DEF item, n
<1>4. IsFiniteSet(1 .. n) /\ Cardinality(1 .. n) = n
  BY <1>1, FS_Interval
<1>5. item \in Injection(1 .. n, s)
  BY <1>3 DEF Injection
<1>6. item \in Surjection(1 .. n, s)
  BY <1>4, <1>5, FS_Injection DEF n
<1> QED  BY <1>1, <1>3, <1>6 DEF IsInjective, Surjection, item, n

\* One more row under its entry.
LEMMA CountedTells ==
    ASSUME NEW entry \in Entries, NEW s, Rows(s), Tells(entry, s), NEW i, i \notin s, i.at \in Nat
    PROVE  Counted(entry, i.at) \in Entries /\ Tells(Counted(entry, i.at), s \cup {i})
<1>1. /\ Cardinality(s \cup {i}) = Cardinality(s) + 1 /\ Cardinality(s) \in Nat
      /\ (Cardinality(s) = 0 => s = {})
  BY FS_AddElement, FS_CardinalityType, FS_EmptySet DEF Rows
<1>2. entry.count \in Nat /\ entry.first \in Nat /\ entry.last \in Nat
  BY DEF Entries
<1> DEFINE new == Counted(entry, i.at)
<1>3. CASE entry.count = 0
  <2>1. new = [count |-> 1, first |-> i.at, last |-> i.at]
    BY <1>3 DEF Counted
  <2>2. s = {}
    BY <1>1, <1>3 DEF Tells
  <2> QED  BY <1>1, <1>2, <1>3, <2>1, <2>2 DEF Tells, Entries
<1>4. CASE entry.count # 0
  <2>1. new = [count |-> entry.count + 1, first |-> Min({entry.first, i.at}), last |-> Max({entry.last, i.at})]
    BY <1>4 DEF Counted
  <2>2. /\ Min({entry.first, i.at}) = IF entry.first <= i.at THEN entry.first ELSE i.at
        /\ Max({entry.last, i.at}) = IF entry.last <= i.at THEN i.at ELSE entry.last
    BY <1>2, MinOfTwo, MaxOfTwo
  <2>3. /\ new.count = entry.count + 1 /\ new.first \in Nat /\ new.last \in Nat
        /\ new.first <= entry.first /\ new.first <= i.at /\ entry.last <= new.last /\ i.at <= new.last
        /\ new = [count |-> new.count, first |-> new.first, last |-> new.last]
    BY <1>2, <2>1, <2>2
  <2> HIDE DEF new
  <2>4. new \in Entries
    BY <1>2, <2>3 DEF Entries
  <2>5. ASSUME NEW j \in s PROVE new.first <= j.at /\ j.at <= new.last
    BY <1>2, <2>3 DEF Tells, Rows
  <2>6. Tells(new, s \cup {i})
    BY <1>1, <2>3, <2>5 DEF Tells
  <2> QED  BY <2>4, <2>6 DEF new
<1> QED  BY <1>3, <1>4

\* The rollup tells of every row under its kind.
LEMMA RollupTells ==
    ASSUME NEW s, Rows(s), \A i \in s : i.kind \in ErrorKinds
    PROVE  \A kind \in ErrorKinds : Tells(Rollup(s)[kind], OfKind(s, kind))
<1> DEFINE item == SetToSeq(s)
           n == Cardinality(s)
           None0 == [count |-> 0, first |-> 0, last |-> 0]
           start == [kind \in ErrorKinds |-> None0]
           Sums == [ErrorKinds -> Entries]
           Turn(m, sum) == [sum EXCEPT ![item[m].kind] = Counted(sum[item[m].kind], item[m].at)]
           Rec(g) == [m \in 0 .. n |-> IF m = 0 THEN start ELSE Turn(m, g[m - 1])]
<1>1. /\ n \in Nat /\ item \in [1 .. n -> s]
      /\ \A j, k \in 1 .. n : item[j] = item[k] => j = k
      /\ \A i \in s : \E j \in 1 .. n : item[j] = i
  BY ListIsWhole DEF Rows
<1>2. Rollup(s) = (CHOOSE g : g = Rec(g))[n]
  BY DEF Rollup, ErrorKinds
<1>3. \A m \in 1 .. n : item[m].kind \in ErrorKinds /\ item[m].at \in Nat /\ item[m] \in s
  BY <1>1 DEF Rows
<1> HIDE DEF item, n
<1>4. start \in Sums
  BY DEF Entries
<1>5. ASSUME NEW m \in 1 .. n, NEW sum \in Sums PROVE Turn(m, sum) \in Sums
  <2>1. Counted(sum[item[m].kind], item[m].at) \in Entries
    <3>1. sum[item[m].kind] \in Entries /\ item[m].at \in Nat
      BY <1>3, <1>5
    <3> HIDE DEF Sums
    <3> DEFINE e == sum[item[m].kind]
               at == item[m].at
    <3>2. e \in Entries /\ at \in Nat
      BY <3>1
    <3> HIDE DEF e, at
    <3>3. e.count \in Nat /\ e.first \in Nat /\ e.last \in Nat
      BY <3>2 DEF Entries
    <3>4. Min({e.first, at}) \in Nat /\ Max({e.last, at}) \in Nat
      BY <3>2, <3>3, MinOfTwo, MaxOfTwo
    <3>5. Counted(e, at) \in Entries
      BY <3>2, <3>3, <3>4 DEF Counted, Entries
    <3> QED  BY <3>5 DEF e, at
  <2> QED  BY <1>3, <2>1
<1> HIDE DEF start, Sums
<1>6. \E g : g = Rec(g)
  <2> DEFINE F == [p \in (1 .. n) \X Sums |-> Turn(p[1], p[2])]
  <2> HIDE DEF Turn
  <2>1. F \in [(1 .. n) \X Sums -> Sums]
    BY <1>5
  <2>2. \A m \in 1 .. n, sum \in Sums : F[<<m, sum>>] = Turn(m, sum)
    OBVIOUS
  <2> HIDE DEF F
  <2>3. PICK f \in [0 .. n -> Sums] : f[0] = start /\ \A m \in 1 .. n : f[m] = F[<<m, f[m - 1]>>]
    <3>1. Repeats(n, Sums, start, F)
      BY <1>1, <1>4, <2>1, RecursionExists
    <3> QED  BY <3>1 DEF Repeats
  <2>4. ASSUME NEW m \in 0 .. n PROVE f[m] = IF m = 0 THEN start ELSE Turn(m, f[m - 1])
    <3>1. CASE m = 0
      BY <2>3, <3>1
    <3>2. CASE m # 0
      <4>1. m \in 1 .. n /\ m - 1 \in 0 .. n
        BY <1>1, <3>2
      <4> QED  BY <2>2, <2>3, <3>2, <4>1
    <3> QED  BY <3>1, <3>2
  <2>5. f = Rec(f)
    BY SMTT(60), <2>3, <2>4
  <2> QED  BY <2>5
<1> DEFINE f == CHOOSE g : g = Rec(g)
<1>7. f = Rec(f)
  BY <1>6
<1> HIDE DEF f, Turn
<1>8. f[0] = start /\ \A m \in 1 .. n : f[m] = Turn(m, f[m - 1])
  <2>1. 0 \in 0 .. n /\ \A m \in 1 .. n : m \in 0 .. n /\ m # 0
    BY <1>1
  <2> QED  BY <1>7, <2>1
<1> DEFINE Seen(m) == {item[j] : j \in 1 .. m}
           G == {m \in 0 .. n : /\ f[m] \in Sums /\ Rows(Seen(m))
                                /\ \A kind \in ErrorKinds : Tells(f[m][kind], OfKind(Seen(m), kind))}
<1>9. 0 \in G
  <2>1. Seen(0) = {} /\ 0 \in 0 .. n
    BY <1>1
  <2>2. Rows({}) /\ Cardinality({}) = 0
    BY FS_EmptySet DEF Rows
  <2>3. \A kind \in ErrorKinds : f[0][kind] = None0 /\ OfKind({}, kind) = {}
    BY <1>8 DEF start, OfKind
  <2>4. \A kind \in ErrorKinds : Tells(f[0][kind], OfKind({}, kind))
    BY <2>2, <2>3 DEF Tells
  <2>5. f[0] \in Sums
    BY <1>4, <1>8
  <2> HIDE DEF Seen
  <2>6. Rows(Seen(0)) /\ \A kind \in ErrorKinds : Tells(f[0][kind], OfKind(Seen(0), kind))
    BY <2>1, <2>2, <2>4
  <2> QED  BY <2>1, <2>5, <2>6
<1>10. ASSUME NEW m \in 1 .. n, m - 1 \in G PROVE m \in G
  <2> DEFINE i == item[m]
             old == Seen(m - 1)
             sum == f[m - 1]
  <2>1. /\ sum \in Sums /\ Rows(old) /\ m \in 0 .. n /\ m \in Nat
        /\ \A kind \in ErrorKinds : Tells(sum[kind], OfKind(old, kind))
    BY <1>10
  <2>2. Seen(m) = old \cup {i}
    <3>1. 1 .. m = (1 .. m - 1) \cup {m}
      OBVIOUS
    <3> QED  BY <3>1
  <2>3. i \notin old
    <3>1. \A j \in 1 .. m - 1 : j \in 1 .. n /\ j # m
      BY <1>1
    <3> QED  BY <1>1, <3>1
  <2>4. i.kind \in ErrorKinds /\ i.at \in Nat
    BY <1>3
  <2>5. f[m] = [sum EXCEPT ![i.kind] = Counted(sum[i.kind], i.at)] /\ f[m] \in Sums
    BY <1>5, <1>8, <2>1 DEF Turn
  <2> HIDE DEF i, old, sum, Seen
  <2>6. Rows(old \cup {i})
    BY <2>1, <2>4, FS_AddElement DEF Rows
  <2>7. ASSUME NEW kind \in ErrorKinds PROVE Tells(f[m][kind], OfKind(old \cup {i}, kind))
    <3>1. CASE kind = i.kind
      <4>1. f[m][kind] = Counted(sum[kind], i.at) /\ sum[kind] \in Entries
        BY <2>1, <2>4, <2>5, <3>1 DEF Sums
      <4>2. OfKind(old \cup {i}, kind) = OfKind(old, kind) \cup {i} /\ i \notin OfKind(old, kind)
        BY <2>3, <3>1 DEF OfKind
      <4>3. Rows(OfKind(old, kind))
        <5>1. OfKind(old, kind) \subseteq old
          BY DEF OfKind
        <5> QED  BY <2>1, <5>1, FS_Subset DEF Rows
      <4>4. Tells(sum[kind], OfKind(old, kind))
        BY <2>1
      <4>5. Tells(Counted(sum[kind], i.at), OfKind(old, kind) \cup {i})
        BY <2>4, <4>1, <4>2, <4>3, <4>4, CountedTells
      <4> QED  BY <4>1, <4>2, <4>5
    <3>2. CASE kind # i.kind
      <4>1. f[m][kind] = sum[kind]
        BY <2>1, <2>5, <3>2 DEF Sums
      <4>2. OfKind(old \cup {i}, kind) = OfKind(old, kind)
        BY <3>2 DEF OfKind
      <4> QED  BY <2>1, <4>1, <4>2
    <3> QED  BY <3>1, <3>2
  <2> QED  BY <2>1, <2>2, <2>5, <2>6, <2>7
<1>11. n \in G
  <2>1. G \in SUBSET (0 .. n) /\ n \in 0 .. n
    BY <1>1
  <2> HIDE DEF G
  <2> QED  BY <1>1, <1>9, <1>10, <2>1, StepByStep
<1>12. Seen(n) = s
  BY <1>1
<1>13. Rollup(s) = f[n]
  BY <1>2 DEF f
<1> HIDE DEF Seen
<1> QED  BY <1>11, <1>12, <1>13

\* A row that records a failure, which nothing changes any more.
Settled(i) == i.kind = "failure" \/ (i.kind = "action" /\ i.result = "failed")

ErrorsInv ==
    /\ errors = [pc |-> errors.pc, read |-> errors.read, rollup |-> errors.rollup]
    /\ errors.pc \in {"idle", "failure", "action", "rollup", "done"}
    /\ errors.read \subseteq items /\ \A i \in errors.read : Settled(i)
    /\ errors.pc # "idle" => \A b \in before : Settled(b) => b \in items
    /\ errors.pc \in {"action", "rollup", "done"} => Wrong(before, "failure") \subseteq errors.read
    /\ errors.pc \in {"rollup", "done"} => Wrong(before, "action") \subseteq errors.read
    /\ errors.pc = "done" =>
          \A kind \in ErrorKinds : Tells(errors.rollup[kind], OfKind(errors.read, kind))

LEMMA ErrorsInvStep == FeedInv /\ ErrorsInv /\ [FeedNext]_feedVars => ErrorsInv'
<1> SUFFICES ASSUME FeedInv, ErrorsInv, [FeedNext]_feedVars PROVE ErrorsInv'
  OBVIOUS
<1> USE DEF ErrorsInv
<1>1. instant \in Nat /\ ErrorHours \in Nat /\ Rows(items) /\ \A b \in before : b.at \in Nat
  BY FeedAssumption DEF FeedInv, RowsLive
<1>2. CASE \E kind \in {"action", "reply", "accept", "failure"} : Insert(kind)
  <2>1. items \subseteq items' /\ UNCHANGED <<instant, errors, before>>
    BY <1>2 DEF Insert, Write
  <2> QED  BY <2>1 DEF Wrong
<1>3. ASSUME NEW i \in items, NEW result \in {"done", "failed"}, SetResult(i, result) PROVE ErrorsInv'
  <2>1. ~Settled(i)
    BY <1>3 DEF SetResult, Settled
  <2>2. items \ {i} \subseteq items' /\ UNCHANGED <<instant, errors, before>>
    BY <1>3 DEF SetResult, Write
  <2>3. errors.read \subseteq items'
    BY <2>1, <2>2
  <2> QED  BY <2>1, <2>2, <2>3 DEF Wrong
<1>4. CASE TimePasses
  <2>1. instant' = instant + 1 /\ UNCHANGED <<items, errors, before>>
    BY <1>4 DEF TimePasses, Write
  <2>2. \A kind : Wrong(before, kind)' \subseteq Wrong(before, kind)
    BY <1>1, <2>1 DEF Wrong
  <2> QED  BY <2>1, <2>2
<1>5. CASE GetActivity
  <2>1. errors.pc = "idle" /\ UNCHANGED <<items, errors>>
    BY <1>5 DEF GetActivity
  <2> QED  BY <2>1
<1>6. CASE ReadFeed \/ MergeFeed
  BY <1>6 DEF ReadFeed, MergeFeed, Wrong
<1>7. CASE GetErrors
  <2>1. errors' = [NoErrors EXCEPT !.pc = "failure"] /\ before' = items /\ UNCHANGED items
    BY <1>7 DEF GetErrors
  <2>2. errors' = [pc |-> "failure", read |-> {}, rollup |-> <<>>]
    BY <2>1 DEF NoErrors
  <2>3. errors'.pc = "failure" /\ errors'.read = {}
    BY <2>2
  <2>4. errors' = [pc |-> errors'.pc, read |-> errors'.read, rollup |-> errors'.rollup]
    BY <2>2
  <2> QED  BY <2>1, <2>3, <2>4
<1>8. CASE ReadErrors
  <2>1. /\ errors.pc \in {"failure", "action"} /\ UNCHANGED <<items, instant, before>>
        /\ errors' = [errors EXCEPT !.pc = IF errors.pc = "failure" THEN "action" ELSE "rollup",
                                    !.read = errors.read \cup Wrong(items, errors.pc)]
    BY <1>8 DEF ReadErrors
  <2>2. /\ errors'.pc = IF errors.pc = "failure" THEN "action" ELSE "rollup"
        /\ errors'.read = errors.read \cup Wrong(items, errors.pc)
        /\ errors' = [pc |-> errors'.pc, read |-> errors'.read, rollup |-> errors'.rollup]
    BY <2>1
  <2>3. Wrong(items, errors.pc) \subseteq items /\ \A i \in Wrong(items, errors.pc) : Settled(i)
    BY <2>1 DEF Wrong, Settled
  <2>4. Wrong(before, errors.pc) \subseteq Wrong(items, errors.pc)
    BY <2>1 DEF Wrong, Settled
  <2>5. \A kind : Wrong(before, kind)' = Wrong(before, kind)
    BY <2>1 DEF Wrong
  <2> QED  BY <2>1, <2>2, <2>3, <2>4, <2>5
<1>9. CASE SumErrors
  <2>1. /\ errors.pc = "rollup" /\ UNCHANGED <<items, instant, before>>
        /\ errors' = [errors EXCEPT !.pc = "done", !.rollup = Rollup(errors.read)]
    BY <1>9 DEF SumErrors
  <2>2. /\ errors'.pc = "done" /\ errors'.read = errors.read /\ errors'.rollup = Rollup(errors.read)
        /\ errors' = [pc |-> errors'.pc, read |-> errors'.read, rollup |-> errors'.rollup]
    BY <2>1
  <2>3. Rows(errors.read)
    BY <1>1, FS_Subset DEF Rows
  <2>4. \A i \in errors.read : i.kind \in ErrorKinds
    BY DEF Settled, ErrorKinds
  <2>5. \A kind \in ErrorKinds : Tells(Rollup(errors.read)[kind], OfKind(errors.read, kind))
    BY <2>3, <2>4, RollupTells
  <2>6. \A kind : Wrong(before, kind)' = Wrong(before, kind)
    BY <2>1 DEF Wrong
  <2> QED  BY <2>1, <2>2, <2>5, <2>6
<1>10. CASE UNCHANGED feedVars
  BY <1>10 DEF feedVars, Wrong
<1> QED  BY <1>2, <1>3, <1>4, <1>5, <1>6, <1>7, <1>8, <1>9, <1>10 DEF FeedNext

LEMMA ErrorsAreWhole == FeedInv /\ ErrorsInv => RollupIsWhole
<1> SUFFICES ASSUME FeedInv, ErrorsInv, errors.pc = "done", NEW kind \in {"failure", "action"}
             PROVE  LET entry == errors.rollup[kind]
                        old   == Wrong(before, kind) IN
                    /\ entry.count \in Cardinality(old) .. Cardinality(items)
                    /\ \A at \in Ats(old) : entry.first <= at /\ at <= entry.last
  BY DEF RollupIsWhole
<1> DEFINE mine == OfKind(errors.read, kind)
           old == Wrong(before, kind)
<1>1. Tells(errors.rollup[kind], mine)
  BY DEF ErrorsInv, ErrorKinds
<1>2. old \subseteq mine /\ mine \subseteq items
  BY DEF ErrorsInv, Wrong, OfKind
<1>3. IsFiniteSet(items)
  BY DEF FeedInv, RowsLive, Rows
<1> HIDE DEF mine, old
<1>4. IsFiniteSet(mine) /\ IsFiniteSet(old)
  BY <1>2, <1>3, FS_Subset
<1>5. /\ Cardinality(old) <= Cardinality(mine) /\ Cardinality(mine) <= Cardinality(items)
      /\ Cardinality(old) \in Nat /\ Cardinality(mine) \in Nat /\ Cardinality(items) \in Nat
  BY <1>2, <1>3, <1>4, FS_Subset, FS_CardinalityType
<1>6. \A at \in Ats(old) : \E i \in mine : i.at = at
  BY <1>2 DEF Ats
<1> QED  BY <1>1, <1>5, <1>6 DEF Tells, old

(* What the operator reads of activity and errors has no hole (FeedIsComplete),
   whatever is written between the queries, whatever the limit and the window. *)
THEOREM FeedsHaveNoHole == FeedSpec => []FeedIsComplete
<1>1. FeedInit => FeedInv /\ ErrorsInv
  <2> SUFFICES ASSUME FeedInit PROVE FeedInv /\ ErrorsInv
    OBVIOUS
  <2>1. /\ items = {} /\ instant = 0 /\ before = {}
        /\ feed = [pc |-> "idle", read |-> {}, page |-> {}]
        /\ errors = [pc |-> "idle", read |-> {}, rollup |-> <<>>]
    BY DEF FeedInit, NoFeed, NoErrors
  <2>2. Rows({})
    BY FS_EmptySet DEF Rows
  <2>3. FeedInv
    BY <2>1, <2>2 DEF FeedInv, FeedTypes, RowsLive, ReadSoFar, Asked, PageIsWhole
  <2> QED  BY <2>1, <2>3 DEF ErrorsInv
<1>2. FeedInv /\ ErrorsInv => FeedIsComplete
  BY ErrorsAreWhole DEF FeedInv, FeedIsComplete
<1> QED  BY <1>1, <1>2, FeedInvStep, ErrorsInvStep, PTL DEF FeedSpec

-----------------------------------------------------------------------------
(* The reads of LinkedIn's lists *)

\* Nobody is ranked twice.
RankedOnce(s) == \A p, q \in 1 .. Len(s) : s[p] = s[q] /\ s[p] # Promo => p = q

\* e finds everybody shown at first in the ranking of now, in the same order,
\* and whoever is above the next start is a result.
Follows(e) ==
    /\ e \in [1 .. Len(shown) -> 1 .. Len(hits)]
    /\ \A i \in 1 .. Len(shown) : hits[e[i]] = shown[i]
    /\ \A i, j \in 1 .. Len(shown) : i < j => e[i] < e[j]
    /\ \A i \in 1 .. Len(shown) : e[i] <= people.start /\ shown[i] # Promo => shown[i] \in ToSet(people.results)

NoGap ==
    \A i, j \in DOMAIN shown :
        i < j /\ shown[i] # Promo /\ shown[j] \in ToSet(people.results) => shown[i] \in ToSet(people.results)

SearchTypes ==
    /\ hits \in Seq(Cards \cup {Promo}) /\ shown \in Seq(Cards \cup {Promo})
    /\ people = [pc |-> people.pc, start |-> people.start, results |-> people.results]
    /\ people.results \in Seq(Cards \cup {Promo}) /\ people.start \in Nat
    /\ Promo \notin ToSet(people.results) /\ RankedOnce(hits)
    /\ people.pc = "paging" => Len(people.results) < Wanted

SearchInv ==
    /\ SearchTypes
    /\ people.pc = "paging" /\ ~left => \E e : Follows(e)
    /\ ~left => NoGap

\* Every connection older than the last pass has been seen.
OlderAreSeen ==
    /\ network \in Seq(Cards \cup {Promo}) /\ arrived \in 0 .. Len(network) /\ flooded \in BOOLEAN
    /\ ~flooded => \A k \in arrived + 1 .. Len(network) : network[k] \in found \cup {Promo}

LEMMA SliceFacts ==
    ASSUME NEW D, NEW s \in Seq(D), NEW start \in Nat, NEW n \in Nat
    PROVE  LET c == Slice(s, start, n) IN
           /\ c \in Seq(D) /\ Len(c) <= n
           /\ \A x \in 1 .. Len(c) : start + x \in 1 .. Len(s) /\ c[x] = s[start + x]
           /\ \A p \in 1 .. Len(s) : start < p /\ p <= start + n => p - start \in 1 .. Len(c)
<1> DEFINE m == Min({n, Max({Len(s) - start, 0})})
<1>1. Len(s) \in Nat
  OBVIOUS
<1>2. Max({Len(s) - start, 0}) = IF Len(s) <= start THEN 0 ELSE Len(s) - start
  BY <1>1 DEF Max
<1>3. m = IF n <= Max({Len(s) - start, 0}) THEN n ELSE Max({Len(s) - start, 0})
  <2> DEFINE k == Max({Len(s) - start, 0})
  <2>1. k \in Nat
    BY <1>1, <1>2
  <2> HIDE DEF k
  <2>2. Min({n, k}) = IF n <= k THEN n ELSE k
    BY <2>1 DEF Min
  <2> QED  BY <2>2 DEF k
<1>4. /\ m \in Nat /\ m <= n /\ \A x \in 1 .. m : start + x \in 1 .. Len(s)
      /\ \A p \in 1 .. Len(s) : start < p /\ p <= start + n => p - start \in 1 .. m
  <2> DEFINE k == Max({Len(s) - start, 0})
             l == Len(s)
  <2>1. l \in Nat /\ k = (IF l <= start THEN 0 ELSE l - start) /\ m = (IF n <= k THEN n ELSE k)
    BY <1>1, <1>2, <1>3
  <2> HIDE DEF m, k, l
  <2>2. m \in Nat /\ m <= n /\ (m # 0 => start + m <= l)
    BY <2>1
  <2>3. \A x \in 1 .. m : start + x \in 1 .. l
    BY <2>1, <2>2
  <2>4. \A p \in 1 .. l : start < p /\ p <= start + n => p - start \in 1 .. m
    BY <2>1
  <2> QED  BY <2>2, <2>3, <2>4 DEF l
<1> HIDE DEF m
<1>5. Slice(s, start, n) = [i \in 1 .. m |-> s[start + i]]
  BY DEF Slice, m
<1>6. \A x \in 1 .. m : s[start + x] \in D
  BY <1>4
<1>7. Slice(s, start, n) \in Seq(D) /\ Len(Slice(s, start, n)) = m
  BY <1>4, <1>5, <1>6
<1> QED  BY <1>4, <1>5, <1>7

LEMMA InsertFacts ==
    ASSUME NEW D, NEW s \in Seq(D), NEW i \in 1 .. Len(s) + 1, NEW c \in D
    PROVE  LET t == InsertAt(s, i, c) IN
           /\ t \in Seq(D) /\ Len(t) = Len(s) + 1 /\ t[i] = c
           /\ \A p \in 1 .. i - 1 : t[p] = s[p]
           /\ \A p \in i .. Len(s) : t[p + 1] = s[p]
<1> DEFINE a == SubSeq(s, 1, i - 1)
           b == SubSeq(s, i, Len(s))
<1>1. /\ a \in Seq(D) /\ Len(a) = i - 1 /\ \A p \in 1 .. i - 1 : a[p] = s[p]
      /\ b \in Seq(D) /\ Len(b) = Len(s) - i + 1 /\ \A p \in 1 .. Len(s) - i + 1 : b[p] = s[i + p - 1]
  BY SMTT(60)
<1>2. InsertAt(s, i, c) = a \o <<c>> \o b
  BY DEF InsertAt
<1> HIDE DEF a, b
<1>3. i \in Nat /\ Len(s) \in Nat
  OBVIOUS
<1>4. /\ a \o <<c>> \in Seq(D) /\ Len(a \o <<c>>) = i /\ (a \o <<c>>)[i] = c
      /\ \A p \in 1 .. i - 1 : (a \o <<c>>)[p] = s[p]
  BY <1>1, <1>3
<1> DEFINE d == a \o <<c>>
<1> HIDE DEF d
<1>5. d \in Seq(D) /\ Len(d) = i /\ d[i] = c /\ \A p \in 1 .. i - 1 : d[p] = s[p]
  BY <1>4 DEF d
<1>6. /\ d \o b \in Seq(D) /\ Len(d \o b) = Len(s) + 1 /\ (d \o b)[i] = c
      /\ \A p \in 1 .. i - 1 : (d \o b)[p] = s[p]
  <2>1. d \o b \in Seq(D) /\ Len(d \o b) = Len(s) + 1
    <3>1. d \in Seq(D) /\ b \in Seq(D)
      BY <1>1, <1>5
    <3>2. d \o b \in Seq(D) /\ Len(d \o b) = Len(d) + Len(b)
      BY <3>1
    <3>3. Len(d) + Len(b) = Len(s) + 1
      BY <1>1, <1>3, <1>5
    <3> QED  BY <3>2, <3>3
  <2>2. \A p \in 1 .. i : (d \o b)[p] = d[p]
    BY <1>1, <1>3, <1>5
  <2>3. i \in 1 .. i /\ \A p \in 1 .. i - 1 : p \in 1 .. i
    BY <1>3
  <2> QED  BY <1>5, <2>1, <2>2, <2>3
<1>7. ASSUME NEW p \in i .. Len(s) PROVE (d \o b)[p + 1] = s[p]
  <2>1. p + 1 - i \in 1 .. Len(b) /\ i + (p + 1 - i) - 1 = p /\ p + 1 > i
    BY SMTT(60), <1>1, <1>3
  <2>2. (d \o b)[p + 1] = b[p + 1 - i]
    BY <1>1, <1>3, <1>5, <2>1
  <2> QED  BY <1>1, <2>1, <2>2
<1> QED  BY <1>2, <1>6, <1>7 DEF d

LEMMA RemoveFacts ==
    ASSUME NEW D, NEW s \in Seq(D), NEW i \in 1 .. Len(s)
    PROVE  LET t == RemoveAt(s, i) IN
           /\ t \in Seq(D) /\ Len(t) = Len(s) - 1
           /\ \A p \in 1 .. i - 1 : t[p] = s[p]
           /\ \A p \in i .. Len(s) - 1 : t[p] = s[p + 1]
<1> DEFINE a == SubSeq(s, 1, i - 1)
           b == SubSeq(s, i + 1, Len(s))
<1>1. /\ a \in Seq(D) /\ Len(a) = i - 1 /\ \A p \in 1 .. i - 1 : a[p] = s[p]
      /\ b \in Seq(D) /\ Len(b) = Len(s) - i /\ \A p \in 1 .. Len(s) - i : b[p] = s[i + p]
  OBVIOUS
<1>2. RemoveAt(s, i) = a \o b
  BY DEF RemoveAt
<1> HIDE DEF a, b
<1>3. i \in Nat /\ Len(s) \in Nat /\ i <= Len(s)
  OBVIOUS
<1>4. a \o b \in Seq(D) /\ Len(a \o b) = Len(s) - 1 /\ \A p \in 1 .. i - 1 : (a \o b)[p] = s[p]
  BY <1>1, <1>3
<1>5. ASSUME NEW p \in i .. Len(s) - 1 PROVE (a \o b)[p] = s[p + 1]
  <2>1. p - (i - 1) \in 1 .. Len(b) /\ i + (p - (i - 1)) = p + 1
    BY SMTT(60), <1>1, <1>3
  <2>2. (a \o b)[p] = b[p - (i - 1)]
    BY SMTT(60), <1>1, <1>3, <2>1
  <2> QED  BY <1>1, <2>1, <2>2
<1> QED  BY <1>2, <1>4, <1>5

\* fresh holds the people of the page after start that are not among the old
\* ones, in the order of the ranking: g tells the place of each.
NewOnes(fresh, start, old, g) ==
    /\ g \in [1 .. Len(fresh) -> 1 .. Len(hits)]
    /\ \A x \in 1 .. Len(fresh) : fresh[x] = hits[g[x]] /\ fresh[x] # Promo /\ g[x] \in start + 1 .. start + PageSize
    /\ \A x, y \in 1 .. Len(fresh) : x < y => g[x] < g[y]
    /\ \A p \in 1 .. Len(hits) :
          p > start /\ p <= start + PageSize /\ hits[p] # Promo /\ hits[p] \notin old
          => \E x \in 1 .. Len(fresh) : g[x] = p

\* One turn of the loop.
LEMMA PageFacts ==
    ASSUME SearchTypes,
           NEW page, page = Slice(hits, people.start, PageSize),
           NEW cards, cards = NormalizeSearchResponse(page),
           NEW fresh, fresh = Unseen(cards, ToSet(people.results))
    PROVE  fresh \in Seq(Cards \cup {Promo}) /\ \E g : NewOnes(fresh, people.start, ToSet(people.results), g)
<1> DEFINE D == Cards \cup {Promo}
           start == people.start
           old == ToSet(people.results)
           S == ToSet(page) \ {Promo}
           T == ToSet(cards) \ old
<1>1. hits \in Seq(D) /\ start \in Nat /\ PageSize \in Nat
  BY ReadsAssumption DEF SearchTypes
<1>2. /\ page \in Seq(D) /\ Len(page) <= PageSize
      /\ \A x \in 1 .. Len(page) : start + x \in 1 .. Len(hits) /\ page[x] = hits[start + x]
      /\ \A p \in 1 .. Len(hits) : start < p /\ p <= start + PageSize => p - start \in 1 .. Len(page)
  <2>1. page = Slice(hits, start, PageSize)
    OBVIOUS
  <2> HIDE DEF D, start
  <2>2. LET c == Slice(hits, start, PageSize) IN
        /\ c \in Seq(D) /\ Len(c) <= PageSize
        /\ \A x \in 1 .. Len(c) : start + x \in 1 .. Len(hits) /\ c[x] = hits[start + x]
        /\ \A p \in 1 .. Len(hits) : start < p /\ p <= start + PageSize => p - start \in 1 .. Len(c)
    BY <1>1, SliceFacts, Zenon
  <2> QED  BY <2>1, <2>2, Zenon
<1>3. cards = Chosen(page, S) /\ fresh = Chosen(cards, T)
  BY DEF NormalizeSearchResponse, Unseen
<1>4. ToSet(cards) = ToSet(page) \cap S
  <2> HIDE DEF S, D
  <2>a. page \in Seq(D) /\ cards = Chosen(page, S)
    BY <1>2, <1>3
  <2>1. /\ cards \in Seq(D)
        /\ {cards[x] : x \in 1 .. Len(cards)} = {page[p] : p \in 1 .. Len(page)} \cap S
    BY <2>a, ChosenMembers
  <2>2. DOMAIN cards = 1 .. Len(cards) /\ DOMAIN page = 1 .. Len(page)
    BY <1>2, <2>1
  <2> QED  BY <2>1, <2>2 DEF ToSet
<1>5. ASSUME NEW x \in 1 .. Len(page)
      PROVE  page[x] \in S \cap T <=> page[x] # Promo /\ page[x] \notin old
  <2>1. page[x] \in ToSet(page)
    BY <1>2 DEF ToSet
  <2> HIDE DEF old
  <2> QED  BY <1>4, <2>1
<1>6. fresh \in Seq(D) /\ \E g : Picks(page, Len(page), S \cap T, fresh, g)
  <2>1. fresh = Chosen(Chosen(page, S), T)
    BY <1>3
  <2> HIDE DEF S, T, D
  <2>2. page \in Seq(D)
    BY <1>2
  <2>3. /\ Chosen(Chosen(page, S), T) \in Seq(D)
        /\ \E g : Picks(page, Len(page), S \cap T, Chosen(Chosen(page, S), T), g)
    BY <2>2, ChosenTwice
  <2> QED  BY <2>1, <2>3
<1>7. PICK h : Picks(page, Len(page), S \cap T, fresh, h)
  BY <1>6
<1> HIDE DEF S, T, D, old, start
<1> DEFINE g == [x \in 1 .. Len(fresh) |-> start + h[x]]
<1>8. \A x \in 1 .. Len(fresh) : /\ h[x] \in 1 .. Len(page) /\ g[x] = start + h[x] /\ g[x] \in 1 .. Len(hits)
                                 /\ fresh[x] = hits[g[x]] /\ fresh[x] # Promo
                                 /\ g[x] \in start + 1 .. start + PageSize
  BY SMTT(60), <1>1, <1>2, <1>5, <1>7 DEF Picks
<1>9. g \in [1 .. Len(fresh) -> 1 .. Len(hits)]
  BY <1>8
<1> HIDE DEF g
<1>10. \A x, y \in 1 .. Len(fresh) : x < y => g[x] < g[y]
  BY <1>1, <1>2, <1>7, <1>8 DEF Picks
<1>11. ASSUME NEW p \in 1 .. Len(hits), p > start, p <= start + PageSize, hits[p] # Promo, hits[p] \notin old
       PROVE  \E x \in 1 .. Len(fresh) : g[x] = p
  <2>1. p - start \in 1 .. Len(page) /\ start + (p - start) = p
    BY <1>1, <1>2, <1>11
  <2>2. page[p - start] \in S \cap T
    BY <1>2, <1>5, <1>11, <2>1
  <2>3. PICK x \in 1 .. Len(fresh) : h[x] = p - start
    BY <1>7, <2>1, <2>2 DEF Picks
  <2> QED  BY <1>8, <2>1, <2>3
<1> QED
  <2>1. NewOnes(fresh, start, old, g)
    BY <1>8, <1>9, <1>10, <1>11 DEF NewOnes
  <2> QED  BY <1>6, <2>1 DEF D, old, start

LEMMA SearchPageKeeps ==
    ASSUME SearchInv, ReadSearchPage PROVE SearchInv'
<1> DEFINE D == Cards \cup {Promo}
           start == people.start
           old == people.results
           page == Slice(hits, start, PageSize)
           cards == NormalizeSearchResponse(page)
           fresh == Unseen(cards, ToSet(old))
           all == old \o fresh
           new == Slice(all, 0, Wanted)
           done == \/ start + PageSize >= Wanted \/ cards = <<>>
                   \/ Len(new) >= Wanted \/ fresh = <<>>
<1>1. /\ people.pc = "paging" /\ UNCHANGED <<hits, shown, left>>
      /\ people' = [pc |-> IF done THEN "done" ELSE "paging", start |-> start + PageSize, results |-> new]
  BY DEF ReadSearchPage
<1>2. /\ hits \in Seq(D) /\ shown \in Seq(D) /\ old \in Seq(D) /\ start \in Nat /\ PageSize \in Nat /\ Wanted \in Nat
      /\ Promo \notin ToSet(old) /\ RankedOnce(hits) /\ Len(old) < Wanted
  BY <1>1, ReadsAssumption DEF SearchInv, SearchTypes
<1>3. fresh \in Seq(D) /\ \E g : NewOnes(fresh, start, ToSet(old), g)
  <2>1. /\ page = Slice(hits, people.start, PageSize) /\ cards = NormalizeSearchResponse(page)
        /\ fresh = Unseen(cards, ToSet(people.results)) /\ SearchTypes
    BY DEF SearchInv
  <2> HIDE DEF page, cards, fresh
  <2> QED  BY <2>1, PageFacts DEF start, old
<1>g. PICK g : NewOnes(fresh, start, ToSet(old), g)
  BY <1>3
<1>4. /\ g \in [1 .. Len(fresh) -> 1 .. Len(hits)]
      /\ \A x \in 1 .. Len(fresh) : fresh[x] = hits[g[x]] /\ fresh[x] # Promo /\ g[x] \in start + 1 .. start + PageSize
      /\ \A x, y \in 1 .. Len(fresh) : x < y => g[x] < g[y]
      /\ \A p \in 1 .. Len(hits) :
            p > start /\ p <= start + PageSize /\ hits[p] # Promo /\ hits[p] \notin ToSet(old)
            => \E x \in 1 .. Len(fresh) : g[x] = p
  BY <1>g DEF NewOnes
<1>5. people'.pc = (IF done THEN "done" ELSE "paging") /\ people'.start = start + PageSize /\ people'.results = new
  BY <1>1
<1> HIDE DEF D, cards, page
<1> HIDE DEF fresh
<1> DEFINE k == Len(old)
<1>6. /\ k \in Nat /\ k < Wanted /\ all \in Seq(D) /\ Len(all) = k + Len(fresh) /\ Len(fresh) \in Nat
      /\ \A x \in 1 .. k : all[x] = old[x]
      /\ \A x \in 1 .. Len(fresh) : all[k + x] = fresh[x]
  BY <1>2, <1>3
<1> HIDE DEF all
<1>7. /\ new \in Seq(D) /\ Len(new) <= Wanted
      /\ \A x \in 1 .. Len(new) : 0 + x \in 1 .. Len(all) /\ new[x] = all[0 + x]
      /\ \A p \in 1 .. Len(all) : 0 < p /\ p <= 0 + Wanted => p - 0 \in 1 .. Len(new)
  BY <1>2, <1>6, SliceFacts
<1> HIDE DEF new
<1>8. /\ \A x \in 1 .. Len(new) : x \in 1 .. Len(all) /\ new[x] = all[x]
      /\ \A x \in 1 .. Len(all) : x <= Wanted => x \in 1 .. Len(new)
      /\ Len(new) \in Nat
  <2>1. Len(new) \in Nat
    BY <1>7
  <2>2. ASSUME NEW x \in 1 .. Len(new) PROVE x \in 1 .. Len(all) /\ new[x] = all[x]
    <3>1. 0 + x = x
      BY <2>1
    <3> QED  BY <1>7, <3>1
  <2>3. ASSUME NEW x \in 1 .. Len(all), x <= Wanted PROVE x \in 1 .. Len(new)
    <3>1. Len(all) \in Nat
      BY <1>6
    <3>2. x - 0 = x /\ 0 < x /\ x <= 0 + Wanted
      BY <1>2, <2>3, <3>1
    <3> QED  BY <1>7, <3>2
  <2> QED  BY <2>1, <2>2, <2>3
<1>9. /\ DOMAIN old = 1 .. k /\ DOMAIN new = 1 .. Len(new) /\ DOMAIN shown = 1 .. Len(shown)
  BY <1>2, <1>7
<1>10. ToSet(old) \subseteq ToSet(new)
  <2> SUFFICES ASSUME NEW x \in 1 .. k PROVE \E y \in 1 .. Len(new) : new[y] = old[x]
    BY <1>9 DEF ToSet
  <2>1. x \in 1 .. Len(all) /\ x <= Wanted
    BY <1>2, <1>6
  <2> QED  BY <1>6, <1>8, <2>1
<1>11. \A y \in 1 .. Len(new) : y \in 1 .. k \/ (y - k \in 1 .. Len(fresh) /\ new[y] = fresh[y - k])
  <2> SUFFICES ASSUME NEW y \in 1 .. Len(new), y \notin 1 .. k
               PROVE  y - k \in 1 .. Len(fresh) /\ new[y] = fresh[y - k]
    OBVIOUS
  <2>1. y - k \in 1 .. Len(fresh) /\ k + (y - k) = y
    BY <1>6, <1>8
  <2> QED  BY <1>6, <1>8, <2>1
<1>12. Promo \notin ToSet(new)
  <2> SUFFICES ASSUME NEW y \in 1 .. Len(new) PROVE new[y] # Promo
    BY <1>9 DEF ToSet
  <2>1. CASE y \in 1 .. k
    BY <1>2, <1>6, <1>8, <1>9, <2>1 DEF ToSet
  <2>2. CASE y \notin 1 .. k
    BY SMTT(60), <1>4, <1>11, <2>2
  <2> QED  BY <2>1, <2>2
<1>13. SearchTypes'
  BY <1>1, <1>2, <1>5, <1>7, <1>8, <1>12 DEF SearchInv, SearchTypes, RankedOnce, D
<1>14. ASSUME ~left, NEW i \in 1 .. Len(shown), NEW j \in 1 .. Len(shown), i < j, shown[i] # Promo, shown[j] \in ToSet(new)
       PROVE  shown[i] \in ToSet(new)
  <2>1. PICK e : Follows(e)
    BY <1>1, <1>14 DEF SearchInv
  <2>2. PICK y \in 1 .. Len(new) : new[y] = shown[j]
    BY <1>9, <1>14 DEF ToSet
  <2>3. CASE y \in 1 .. k
    <3>1. shown[j] \in ToSet(old)
      BY <1>6, <1>8, <1>9, <2>2, <2>3 DEF ToSet
    <3> QED  BY <1>9, <1>10, <1>14, <3>1 DEF SearchInv, NoGap
  <2>4. CASE y \notin 1 .. k
    <3> DEFINE x == y - k
    <3>1. x \in 1 .. Len(fresh) /\ shown[j] = fresh[x] /\ k + x = y
      BY <1>6, <1>8, <1>11, <2>2, <2>4
    <3> HIDE DEF x
    <3>2. g[x] \in 1 .. Len(hits) /\ hits[g[x]] = shown[j] /\ shown[j] # Promo
      BY <1>4, <3>1
    <3>3. e[j] = g[x] /\ e[i] < e[j] /\ e[i] \in 1 .. Len(hits) /\ hits[e[i]] = shown[i]
      BY <1>2, <1>14, <2>1, <3>2 DEF Follows, RankedOnce
    <3>4. CASE e[i] <= start
      BY <1>10, <1>14, <2>1, <3>4 DEF Follows
    <3>5. CASE shown[i] \in ToSet(old)
      BY <1>10, <3>5
    <3>6. CASE e[i] > start /\ shown[i] \notin ToSet(old)
      <4>1. g[x] <= start + PageSize
        BY SMTT(60), <1>2, <1>4, <3>1
      <4>2. PICK u \in 1 .. Len(fresh) : g[u] = e[i]
        <5>1. e[i] <= start + PageSize
          <6>1. e[i] \in Int /\ g[x] \in Int /\ start + PageSize \in Int /\ e[i] < g[x]
            BY SMTT(60), <1>2, <3>2, <3>3
          <6> QED  BY <4>1, <6>1
        <5> QED  BY <1>4, <1>14, <3>3, <3>6, <5>1
      <4>3. u < x
        <5>0. e[i] < g[x] /\ e[i] \in Int /\ g[x] \in Int
          BY <3>2, <3>3
        <5>1. ~(x < u) /\ u # x
          <6>1. x < u => g[x] < g[u]
            BY <1>4, <3>1, <4>2
          <6> QED  BY <4>2, <5>0, <6>1
        <5> QED  BY <3>1, <5>1
      <4>4. k + u \in 1 .. Len(new) /\ new[k + u] = shown[i]
        <5>1. k + u \in 1 .. Len(all) /\ k + u <= Wanted
          <6>1. y <= Wanted /\ k + u < y /\ k + u >= 1 /\ y <= Len(all)
            <7>1. y \in 1 .. Len(new) /\ y \in 1 .. Len(all) /\ Len(new) <= Wanted
              BY <1>7, <1>8, <2>2
            <7>2. Len(new) \in Nat /\ Len(all) \in Nat /\ Wanted \in Nat /\ k \in Nat /\ Len(fresh) \in Nat
              BY <1>2, <1>6, <1>7, <1>8
            <7> QED  BY SMTT(60), <3>1, <4>3, <7>1, <7>2
          <6> QED  BY <1>2, <1>6, <1>8, <6>1
        <5>2. k + u \in 1 .. Len(new) /\ new[k + u] = all[k + u]
          BY <1>8, <5>1
        <5>3. all[k + u] = fresh[u]
          BY <1>6, <4>2
        <5>4. fresh[u] = hits[e[i]]
          BY <1>4, <4>2
        <5> QED  BY <3>3, <5>2, <5>3, <5>4
      <4> QED  BY <1>9, <4>4 DEF ToSet
    <3>7. e[i] \in Int /\ start \in Int
      BY <1>2, <3>3
    <3> QED  BY <3>4, <3>5, <3>6, <3>7
  <2> QED  BY <2>3, <2>4
<1>15. ASSUME ~left, ~done, NEW e, Follows(e)
       PROVE  Follows(e)'
  <2>1. SUFFICES ASSUME NEW i \in 1 .. Len(shown), e[i] <= start + PageSize, shown[i] # Promo
                 PROVE  shown[i] \in ToSet(new)
    BY <1>1, <1>5, <1>15 DEF Follows
  <2>2. e[i] \in 1 .. Len(hits) /\ hits[e[i]] = shown[i]
    BY <1>15 DEF Follows
  <2>3. CASE e[i] <= start \/ shown[i] \in ToSet(old)
    BY <1>10, <1>15, <2>1, <2>3 DEF Follows
  <2>4. CASE ~(e[i] <= start) /\ shown[i] \notin ToSet(old)
    <3>1. e[i] > start
      BY <1>2, <2>2, <2>4
    <3>2. PICK u \in 1 .. Len(fresh) : g[u] = e[i]
      BY <1>4, <2>1, <2>2, <2>4, <3>1
    <3>3. Len(new) < Wanted
      BY <1>2, <1>8, <1>15
    <3>4. k + u \in 1 .. Len(all) /\ k + u <= Wanted
      <4>1. Len(all) <= Wanted
        <5>1. SUFFICES ASSUME Wanted < Len(all) PROVE FALSE
          BY <1>2, <1>6
        <5>2. Wanted \in 1 .. Len(all)
          BY <1>2, <1>6, <5>1
        <5> QED  BY <1>2, <1>8, <3>3, <5>2
      <4> QED  BY SMTT(60), <1>2, <1>6, <4>1
    <3>5. k + u \in 1 .. Len(new) /\ new[k + u] = shown[i]
      <4>1. k + u \in 1 .. Len(new) /\ new[k + u] = all[k + u]
        <5> HIDE DEF k
        <5> QED  BY <1>8, <3>4
      <4>2. all[k + u] = fresh[u] /\ fresh[u] = hits[g[u]]
        BY <1>4, <1>6
      <4> QED  BY <2>2, <3>2, <4>1, <4>2
    <3> QED  BY <1>9, <3>5 DEF ToSet
  <2> QED  BY <2>3, <2>4
<1>16. ~left' => NoGap'
  BY <1>1, <1>5, <1>9, <1>14 DEF NoGap
<1>17. people'.pc = "paging" /\ ~left' => \E e : Follows(e)'
  BY <1>1, <1>5, <1>15 DEF SearchInv
<1> QED  BY <1>13, <1>16, <1>17 DEF SearchInv

ReadsInv == SearchInv /\ OlderAreSeen

\* A new search: everybody is where they were, and nobody is asked for yet.
LEMMA SearchBeginsWhole ==
    ASSUME SearchInv, NEW pc, people' = [NoSearch EXCEPT !.pc = pc], shown' = hits, hits' = hits
    PROVE  SearchInv'
<1>1. people'.results = <<>> /\ people'.start = 0 /\ people' = [pc |-> people'.pc, start |-> 0, results |-> <<>>]
  BY DEF NoSearch
<1>2. ToSet(<<>>) = {} /\ <<>> \in Seq(Cards \cup {Promo}) /\ Len(<<>>) = 0
  BY DEF ToSet
<1>3. SearchTypes'
  <2>1. people'.results \in Seq(Cards \cup {Promo}) /\ people'.start \in Nat /\ Promo \notin ToSet(people'.results)
    <3>1. ToSet(people'.results) = {}
      BY <1>1, <1>2, Zenon
    <3>2. people'.results \in Seq(Cards \cup {Promo})
      BY <1>1, <1>2, Zenon
    <3> QED  BY <1>1, <3>1, <3>2
  <2>2. Len(people'.results) < Wanted
    BY <1>1, <1>2, ReadsAssumption
  <2>3. people' = [pc |-> people'.pc, start |-> people'.start, results |-> people'.results]
    BY <1>1
  <2>4. hits' \in Seq(Cards \cup {Promo}) /\ shown' \in Seq(Cards \cup {Promo}) /\ RankedOnce(hits')
    BY DEF SearchInv, SearchTypes
  <2> QED  BY <2>1, <2>2, <2>3, <2>4 DEF SearchTypes, RankedOnce
<1>4. NoGap'
  BY <1>1, <1>2 DEF NoGap
<1>5. \E e : Follows(e)'
  <2>0. PICK f : f = [i \in 1 .. Len(hits) |-> i]
    OBVIOUS
  <2>1. Follows(f)'
    <3>1. /\ Len(hits) \in Nat /\ f \in [1 .. Len(hits) -> 1 .. Len(hits)]
          /\ \A i \in 1 .. Len(hits) : f[i] = i /\ ~(f[i] <= 0)
      BY <2>0 DEF SearchInv, SearchTypes
    <3>2. \A i, j \in 1 .. Len(hits) : i < j => f[i] < f[j]
      BY <3>1
    <3>3. \A i \in 1 .. Len(hits) : hits[f[i]] = hits[i]
      BY <3>1
    <3> QED  BY <1>1, <3>1, <3>2, <3>3 DEF Follows
  <2> QED  BY <2>1
<1> QED  BY <1>3, <1>4, <1>5 DEF SearchInv

\* A card comes in: whoever is below it moves down one place.
LEMMA RankedKeeps ==
    ASSUME SearchInv, Ranked PROVE SearchInv'
<1> DEFINE D == Cards \cup {Promo}
<1>1. PICK c \in (Cards \ ToSet(hits)) \cup {Promo}, i \in 1 .. Len(hits) + 1 : hits' = InsertAt(hits, i, c)
  BY DEF Ranked
<1>2. UNCHANGED <<people, shown, left>>
  BY DEF Ranked
<1>3. hits \in Seq(D) /\ Len(hits) \in Nat /\ RankedOnce(hits) /\ DOMAIN hits = 1 .. Len(hits) /\ c \in D
  BY <1>1 DEF SearchInv, SearchTypes
<1> HIDE DEF D
<1>4. /\ hits' \in Seq(D) /\ Len(hits') = Len(hits) + 1 /\ hits'[i] = c
      /\ \A p \in 1 .. i - 1 : hits'[p] = hits[p]
      /\ \A p \in i .. Len(hits) : hits'[p + 1] = hits[p]
  <2>1. PICK s, t : s = hits /\ t = hits' /\ s \in Seq(D) /\ i \in 1 .. Len(s) + 1 /\ t = InsertAt(s, i, c)
    BY <1>1, <1>3
  <2>2. /\ t \in Seq(D) /\ Len(t) = Len(s) + 1 /\ t[i] = c
        /\ \A p \in 1 .. i - 1 : t[p] = s[p]
        /\ \A p \in i .. Len(s) : t[p + 1] = s[p]
    BY SMTT(60), <1>3, <2>1, InsertFacts
  <2> QED  BY <2>1, <2>2
\* The place each place had before.
<1> DEFINE was(p) == IF p < i THEN p ELSE p - 1
<1>5. ASSUME NEW p \in 1 .. Len(hits'), p # i
      PROVE  was(p) \in 1 .. Len(hits) /\ hits'[p] = hits[was(p)]
  <2>1. CASE p < i
    <3>1. p \in 1 .. i - 1 /\ p \in 1 .. Len(hits)
      BY <1>3, <1>4, <2>1
    <3> QED  BY <1>4, <2>1, <3>1
  <2>2. CASE ~(p < i)
    <3>1. p - 1 \in i .. Len(hits) /\ (p - 1) + 1 = p /\ p - 1 \in 1 .. Len(hits)
      BY <1>3, <1>4, <1>5, <2>2
    <3>2. hits'[(p - 1) + 1] = hits[p - 1]
      BY <1>4, <3>1
    <3> QED  BY <2>2, <3>1, <3>2
  <2> QED  BY <2>1, <2>2
<1>6. \A p, q \in 1 .. Len(hits') : p # i /\ q # i /\ was(p) = was(q) => p = q
  BY <1>3, <1>4
<1>7. \A p \in 1 .. Len(hits) : hits[p] = c => c = Promo
  BY <1>1, <1>3 DEF ToSet
<1>8. RankedOnce(hits')
  <2> SUFFICES ASSUME NEW p \in 1 .. Len(hits'), NEW q \in 1 .. Len(hits'), hits'[p] = hits'[q], hits'[p] # Promo
               PROVE  p = q
    BY DEF RankedOnce
  <2> HIDE DEF was
  <2>1. CASE p # i /\ q # i
    BY <1>3, <1>5, <1>6, <2>1 DEF RankedOnce
  <2>2. CASE p = i /\ q # i
    BY <1>4, <1>5, <1>7, <2>2
  <2>3. CASE p # i /\ q = i
    BY <1>4, <1>5, <1>7, <2>3
  <2> QED  BY <2>1, <2>2, <2>3
<1>9. SearchTypes'
  BY <1>2, <1>4, <1>8 DEF SearchInv, SearchTypes, D
<1>10. ASSUME NEW e, Follows(e) PROVE \E f : Follows(f)'
  <2>0. PICK f : f = [k \in 1 .. Len(shown) |-> IF e[k] < i THEN e[k] ELSE e[k] + 1]
    OBVIOUS
  <2>1. \A k \in 1 .. Len(shown) :
           /\ e[k] \in 1 .. Len(hits) /\ hits[e[k]] = shown[k] /\ f[k] = IF e[k] < i THEN e[k] ELSE e[k] + 1
    BY <1>10, <2>0 DEF Follows
  <2>2. ASSUME NEW k \in 1 .. Len(shown)
        PROVE  f[k] \in 1 .. Len(hits') /\ hits'[f[k]] = shown[k] /\ e[k] <= f[k]
    <3>1. e[k] < i => e[k] \in 1 .. i - 1
      BY <1>3, <2>1
    <3>2. ~(e[k] < i) => e[k] \in i .. Len(hits)
      BY <1>3, <2>1
    <3>3. f[k] \in 1 .. Len(hits') /\ e[k] <= f[k]
      BY <1>3, <1>4, <2>1
    <3> QED  BY <1>4, <2>1, <3>1, <3>2, <3>3
  <2>3. \A j, k \in 1 .. Len(shown) : j < k => f[j] < f[k]
    BY <1>3, <1>10, <2>1 DEF Follows
  <2>4. f \in [1 .. Len(shown) -> 1 .. Len(hits')]
    <3>1. f = [k \in 1 .. Len(shown) |-> f[k]]
      BY <2>0
    <3> QED  BY <2>2, <3>1
  <2>5. ASSUME NEW k \in 1 .. Len(shown), f[k] <= people.start PROVE e[k] <= people.start
    <3>1. people.start \in Nat
      BY DEF SearchInv, SearchTypes
    <3> QED  BY <1>3, <1>4, <2>1, <2>2, <2>5, <3>1
  <2>6. Follows(f)'
    <3>1. ASSUME NEW k \in 1 .. Len(shown), f[k] <= people.start, shown[k] # Promo
          PROVE  shown[k] \in ToSet(people.results)
      BY <1>10, <2>5, <3>1 DEF Follows
    <3>2. \A k \in 1 .. Len(shown) : hits'[f[k]] = shown[k]
      BY <2>2
    <3> QED  BY <1>2, <2>3, <2>4, <3>1, <3>2 DEF Follows
  <2> QED  BY <2>6
<1> QED  BY <1>2, <1>9, <1>10 DEF SearchInv, NoGap

\* A card goes: the history says so.
LEMMA UnrankedKeeps ==
    ASSUME SearchInv, Unranked PROVE SearchInv'
<1> DEFINE D == Cards \cup {Promo}
<1>1. PICK i \in 1 .. Len(hits) : hits' = RemoveAt(hits, i)
  BY DEF Unranked, SearchInv, SearchTypes
<1>2. UNCHANGED <<people, shown>> /\ left'
  BY DEF Unranked
<1>3. hits \in Seq(D) /\ Len(hits) \in Nat /\ RankedOnce(hits)
  BY DEF SearchInv, SearchTypes
<1> HIDE DEF D
<1>4. /\ hits' \in Seq(D) /\ Len(hits') = Len(hits) - 1
      /\ \A p \in 1 .. i - 1 : hits'[p] = hits[p]
      /\ \A p \in i .. Len(hits) - 1 : hits'[p] = hits[p + 1]
  BY <1>1, <1>3, RemoveFacts
<1> DEFINE was(p) == IF p < i THEN p ELSE p + 1
<1>5. ASSUME NEW p \in 1 .. Len(hits')
      PROVE  was(p) \in 1 .. Len(hits) /\ hits'[p] = hits[was(p)]
  <2>1. CASE p < i
    <3>1. p \in 1 .. i - 1 /\ p \in 1 .. Len(hits)
      BY <1>3, <1>4, <2>1
    <3> QED  BY <1>4, <2>1, <3>1
  <2>2. CASE ~(p < i)
    <3>1. p \in i .. Len(hits) - 1 /\ p + 1 \in 1 .. Len(hits)
      BY <1>3, <1>4, <2>2
    <3> QED  BY <1>4, <2>2, <3>1
  <2> QED  BY <2>1, <2>2
<1>6. \A p, q \in 1 .. Len(hits') : was(p) = was(q) => p = q
  BY <1>3, <1>4
<1>7. RankedOnce(hits')
  <2> HIDE DEF was
  <2> QED  BY <1>3, <1>5, <1>6 DEF RankedOnce
<1>8. SearchTypes'
  BY <1>2, <1>4, <1>7 DEF SearchInv, SearchTypes, D
<1> QED  BY <1>2, <1>8 DEF SearchInv

LEMMA SearchInvStep ==
    ASSUME SearchInv, [ReadsNext]_readVars PROVE SearchInv'
<1>1. CASE SearchPeople
  BY <1>1, SearchBeginsWhole DEF SearchPeople
<1>2. CASE EnsureOnLinkedInFails
  BY <1>2, SearchBeginsWhole DEF EnsureOnLinkedInFails
<1>3. CASE ReadSearchPage
  BY <1>3, SearchPageKeeps
<1>4. CASE SearchPageFails
  <2>1. /\ UNCHANGED <<hits, shown, left>> /\ people'.pc # "paging"
        /\ people'.results = people.results /\ people'.start = people.start
        /\ people' = [pc |-> people'.pc, start |-> people'.start, results |-> people'.results]
    BY <1>4 DEF SearchPageFails, SearchInv, SearchTypes
  <2> QED  BY <2>1 DEF SearchInv, SearchTypes, NoGap
<1>5. CASE Ranked
  BY <1>5, RankedKeeps
<1>6. CASE Unranked
  BY <1>6, UnrankedKeeps
<1>7. CASE BudgetResets \/ ReadConnections \/ Connected \/ UNCHANGED readVars
  <2>1. UNCHANGED <<hits, people, shown, left>>
    BY <1>7 DEF BudgetResets, ReadConnections, Connected, readVars, searchVars
  <2> QED  BY <2>1 DEF SearchInv, SearchTypes, NoGap, Follows
<1> QED  BY <1>1, <1>2, <1>3, <1>4, <1>5, <1>6, <1>7 DEF ReadsNext

LEMMA OlderStep ==
    ASSUME OlderAreSeen, [ReadsNext]_readVars PROVE OlderAreSeen'
<1> DEFINE D == Cards \cup {Promo}
<1>1. network \in Seq(D) /\ Len(network) \in Nat /\ arrived \in Nat /\ arrived <= Len(network)
  BY DEF OlderAreSeen
<1>2. CASE ReadConnections
  <2> DEFINE read == Slice(network, 0, Limit)
  <2>1. /\ network' = network /\ arrived' = 0 /\ found' = found \cup (ToSet(read) \ {Promo})
        /\ flooded' = (flooded \/ arrived > Limit)
    BY <1>2 DEF ReadConnections
  <2>2. /\ read \in Seq(D) /\ \A x \in 1 .. Len(read) : read[x] = network[0 + x]
        /\ \A p \in 1 .. Len(network) : 0 < p /\ p <= 0 + Limit => p - 0 \in 1 .. Len(read)
    <3>1. 0 \in Nat /\ Limit \in Nat
      BY ReadsAssumption
    <3> HIDE DEF D
    <3> QED  BY <1>1, <3>1, SliceFacts
  <2> HIDE DEF read
  <2>3. ASSUME ~flooded', NEW k \in 1 .. Len(network) PROVE network[k] \in found' \cup {Promo}
    <3>1. CASE k \in arrived + 1 .. Len(network)
      BY <2>1, <2>3, <3>1 DEF OlderAreSeen
    <3>2. CASE k \notin arrived + 1 .. Len(network)
      <4>1. 0 < k /\ k <= 0 + Limit /\ k - 0 = k /\ 0 + k = k
        <5>1. arrived <= Limit
          <6>1. ~(arrived > Limit)
            BY <2>1, <2>3, Zenon
          <6> QED  BY <1>1, <6>1, ReadsAssumption
        <5>2. k <= arrived /\ 0 < k /\ k \in Int
          BY <1>1, <3>2
        <5> QED  BY <1>1, <5>1, <5>2, ReadsAssumption
      <4>2. k \in 1 .. Len(read) /\ read[k] = network[k]
        BY <2>2, <4>1
      <4>3. network[k] \in ToSet(read)
        BY <2>2, <4>2 DEF ToSet
      <4> QED  BY <2>1, <4>3
    <3> QED  BY <3>1, <3>2
  <2>4. 0 \in 0 .. Len(network) /\ 0 + 1 = 1 /\ flooded' \in BOOLEAN
    BY <1>1, <2>1, ReadsAssumption DEF OlderAreSeen
  <2> QED  BY <1>1, <2>1, <2>3, <2>4 DEF OlderAreSeen
<1>3. CASE Connected
  <2>1. PICK c \in (Cards \ ToSet(network)) \cup {Promo} : network' = <<c>> \o network
    BY <1>3 DEF Connected
  <2>2. arrived' = arrived + 1 /\ UNCHANGED <<found, flooded>>
    BY <1>3 DEF Connected
  <2>3. /\ network' \in Seq(D) /\ Len(network') = Len(network) + 1
        /\ \A k \in 1 .. Len(network) : network'[k + 1] = network[k]
    <3>1. c \in D
      BY <2>1
    <3> HIDE DEF D
    <3> QED  BY <1>1, <2>1, <3>1
  <2>4. ASSUME ~flooded', NEW k \in arrived' + 1 .. Len(network') PROVE network'[k] \in found' \cup {Promo}
    <3>1. k - 1 \in arrived + 1 .. Len(network) /\ k - 1 \in 1 .. Len(network) /\ (k - 1) + 1 = k
      BY <1>1, <2>2, <2>3
    <3>2. network'[(k - 1) + 1] = network[k - 1]
      BY <2>3, <3>1
    <3> QED  BY <2>2, <2>4, <3>1, <3>2 DEF OlderAreSeen
  <2>5. arrived' \in 0 .. Len(network')
    BY <1>1, <2>2, <2>3
  <2> QED  BY <2>2, <2>3, <2>4, <2>5 DEF OlderAreSeen
<1>4. CASE ~ReadConnections /\ ~Connected
  <2>1. UNCHANGED <<network, found, arrived, flooded>>
    BY <1>4 DEF ReadsNext, SearchPeople, EnsureOnLinkedInFails, ReadSearchPage, SearchPageFails, BudgetResets,
                Ranked, Unranked, readVars, acceptVars
  <2> QED  BY <2>1 DEF OlderAreSeen
<1> QED  BY <1>2, <1>3, <1>4

LEMMA ReadsBegin ==
    ASSUME ReadsInit PROVE ReadsInv
<1> DEFINE D == Cards \cup {Promo}
           s == SetToSeq(Cards)
           n == Cardinality(Cards)
<1>1. n \in Nat /\ s \in [1 .. n -> Cards] /\ \A j, k \in 1 .. n : s[j] = s[k] => j = k
  BY ReadsAssumption, ListIsWhole
<1>2. hits \in {s, <<Promo>> \o s}
  BY DEF ReadsInit
<1> HIDE DEF s, n
<1>3. s \in Seq(D) /\ Len(s) = n
  BY <1>1
<1>4. hits \in Seq(D) /\ RankedOnce(hits)
  <2>1. CASE hits = s
    BY <1>1, <1>3, <2>1 DEF RankedOnce
  <2>2. CASE hits = <<Promo>> \o s
    <3>1. hits \in Seq(D) /\ Len(hits) = n + 1 /\ hits[1] = Promo
      BY <1>1, <1>3, <2>2
    <3>2. ASSUME NEW p \in 1 .. Len(hits), p # 1 PROVE p - 1 \in 1 .. n /\ hits[p] = s[p - 1]
      BY <1>1, <1>3, <2>2, <3>1, <3>2
    <3>3. ASSUME NEW p \in 1 .. Len(hits), NEW q \in 1 .. Len(hits), hits[p] = hits[q], hits[p] # Promo
          PROVE  p = q
      <4>1. p # 1 /\ q # 1
        BY <3>1, <3>3
      <4>2. p - 1 = q - 1
        BY <1>1, <3>2, <3>3, <4>1
      <4> QED  BY <1>1, <3>1, <4>2
    <3> QED  BY <3>1, <3>3 DEF RankedOnce
  <2> QED  BY <1>2, <2>1, <2>2
<1>5. people = NoSearch /\ shown = <<>> /\ network = <<>> /\ arrived = 0 /\ flooded = FALSE
  BY DEF ReadsInit
<1>6. ToSet(<<>>) = {} /\ <<>> \in Seq(D) /\ Len(<<>>) = 0
  BY DEF ToSet
<1>7. SearchInv
  BY <1>4, <1>5, <1>6 DEF SearchInv, SearchTypes, NoSearch, NoGap
<1>8. OlderAreSeen
  <2>1. arrived \in 0 .. Len(network) /\ arrived + 1 .. Len(network) = {}
    BY <1>5, <1>6
  <2> QED  BY <1>5, <1>6, <2>1 DEF OlderAreSeen
<1> QED  BY <1>7, <1>8 DEF ReadsInv

(* A search leaves nobody out between two results, and an acceptance older than
   the last pass has been seen (ReadsLeaveNoGap), whatever the size of a page,
   the target and the limit, and however the lists move between the reads. *)
THEOREM ReadsNeverSkip == ReadsSpec => []ReadsLeaveNoGap
<1>1. ReadsInit => ReadsInv
  BY ReadsBegin
<1>2. ReadsInv /\ [ReadsNext]_readVars => ReadsInv'
  BY SearchInvStep, OlderStep DEF ReadsInv
<1>3. ReadsInv => ReadsLeaveNoGap
  <2> SUFFICES ASSUME ReadsInv PROVE ReadsLeaveNoGap
    OBVIOUS
  <2>1. ~left => NoGap
    BY DEF ReadsInv, SearchInv
  <2>2. ASSUME ~flooded PROVE ToSet(Slice(network, arrived, Len(network))) \subseteq found \cup {Promo}
    <3> DEFINE D == Cards \cup {Promo}
               old == Slice(network, arrived, Len(network))
    <3>1. network \in Seq(D) /\ Len(network) \in Nat /\ arrived \in Nat
      BY DEF ReadsInv, OlderAreSeen
    <3>2. old \in Seq(D) /\ \A x \in 1 .. Len(old) : arrived + x \in 1 .. Len(network) /\ old[x] = network[arrived + x]
      <4> HIDE DEF D
      <4> QED  BY <3>1, SliceFacts
    <3> HIDE DEF old
    <3>3. ASSUME NEW x \in 1 .. Len(old) PROVE old[x] \in found \cup {Promo}
      <4>1. arrived + x \in arrived + 1 .. Len(network)
        BY <3>1, <3>2
      <4> QED  BY <2>2, <3>2, <4>1 DEF ReadsInv, OlderAreSeen
    <3> QED  BY <3>2, <3>3 DEF ToSet, old
  <2> QED  BY <2>1, <2>2 DEF ReadsLeaveNoGap, NoGap
<1> QED  BY <1>1, <1>2, <1>3, PTL DEF ReadsSpec

-----------------------------------------------------------------------------
(* The pages of the client *)

\* An answer to the request made last is of the filter selected now, and holds
\* every write that was answered before it was asked for.
Current(r, last, sel, mine) ==
    /\ r.n \in Nat /\ r.n <= last /\ r.ver \in Nat
    /\ r.n = last => r.sel = sel /\ \A w \in mine : w <= r.ver

PanelRecord(p) == p = [sel |-> p.sel, known |-> p.known, shown |-> p.shown, mine |-> p.mine, write |-> p.write]

PanelInv ==
    /\ sent \in Nat /\ version \in 0 .. MaxChanges /\ PanelRecord(panel)
    /\ panel.write \in 0 .. version /\ panel.mine \subseteq 1 .. version
    /\ \A r \in loads : r = [sel |-> r.sel, ver |-> r.ver, n |-> r.n] /\ Current(r, sent, panel.sel, panel.mine)
    /\ Current(panel.shown, sent, panel.sel, panel.mine)

LEMMA PanelInvStep ==
    ASSUME PanelInv, [ViewsNext]_viewVars PROVE PanelInv'
<1>0. MaxChanges \in Nat
  BY ViewsAssumption
<1>t. /\ sent \in Nat /\ version \in 0 .. MaxChanges /\ PanelRecord(panel)
      /\ panel.write \in 0 .. version /\ panel.mine \subseteq 1 .. version
      /\ \A r \in loads : r = [sel |-> r.sel, ver |-> r.ver, n |-> r.n] /\ Current(r, sent, panel.sel, panel.mine)
      /\ Current(panel.shown, sent, panel.sel, panel.mine)
  BY DEF PanelInv
\* A request: what was asked for before it is no longer the last.
<1>1. ASSUME NEW sel, Load(sel), panel'.shown = panel.shown, panel'.sel = sel, version' = version,
             panel'.write \in 0 .. version, panel'.mine \subseteq 1 .. version, PanelRecord(panel')
      PROVE  PanelInv'
  <2> DEFINE new == [sel |-> sel, ver |-> Unread, n |-> sent + 1]
             mine == panel'.mine
  <2>1. sent' = sent + 1 /\ loads' = loads \cup {new}
    BY <1>1 DEF Load
  <2>2. new.n = sent + 1 /\ new.sel = sel /\ new.ver = MaxChanges + 1 /\ new = [sel |-> new.sel, ver |-> new.ver, n |-> new.n]
    BY DEF Unread
  <2> HIDE DEF new
  <2>3. \A r : Current(r, sent, panel.sel, panel.mine) => Current(r, sent + 1, sel, mine)
    BY <1>t DEF Current
  <2>4. \A w \in mine : w <= MaxChanges + 1
    BY <1>0, <1>1, <1>t
  <2> HIDE DEF mine
  <2>5. Current(new, sent + 1, sel, mine)
    BY <1>0, <1>t, <2>2, <2>4 DEF Current
  <2>6. \A r \in loads' : r = [sel |-> r.sel, ver |-> r.ver, n |-> r.n] /\ Current(r, sent', panel'.sel, panel'.mine)
    BY <1>1, <1>t, <2>1, <2>2, <2>3, <2>5 DEF mine
  <2>7. Current(panel'.shown, sent', panel'.sel, panel'.mine)
    BY <1>1, <1>t, <2>1, <2>3 DEF mine
  <2>8. sent' \in Nat
    BY <1>t, <2>1
  <2> QED  BY <1>1, <1>t, <2>6, <2>7, <2>8 DEF PanelInv
<1>2. ASSUME NEW a, SetAccountId(a) PROVE PanelInv'
  <2>1. Load(a) /\ panel' = [panel EXCEPT !.sel = a] /\ version' = version
    BY <1>2 DEF SetAccountId
  <2>2. panel'.shown = panel.shown /\ panel'.sel = a /\ panel'.write = panel.write /\ panel'.mine = panel.mine
        /\ PanelRecord(panel')
    BY <1>t, <2>1 DEF PanelRecord
  <2> QED  BY <1>1, <1>t, <2>1, <2>2
<1>3. CASE SetAccounts
  <2>1. CASE panel.sel \in Accounts \cup {All}
    <3>1. panel' = [panel EXCEPT !.known = TRUE] /\ UNCHANGED <<loads, sent, version>>
      BY <1>3, <2>1 DEF SetAccounts
    <3>2. panel'.shown = panel.shown /\ panel'.sel = panel.sel /\ panel'.write = panel.write /\ panel'.mine = panel.mine
          /\ PanelRecord(panel')
      BY <1>t, <3>1 DEF PanelRecord
    <3> QED  BY <1>t, <3>1, <3>2 DEF PanelInv
  <2>2. CASE panel.sel \notin Accounts \cup {All}
    <3>1. panel' = [panel EXCEPT !.known = TRUE, !.sel = All] /\ Load(All) /\ version' = version
      BY <1>3, <2>2 DEF SetAccounts
    <3>2. panel'.shown = panel.shown /\ panel'.sel = All /\ panel'.write = panel.write /\ panel'.mine = panel.mine
          /\ PanelRecord(panel')
      BY <1>t, <3>1 DEF PanelRecord
    <3> QED  BY <1>1, <1>t, <3>1, <3>2
  <2> QED  BY <2>1, <2>2
<1>4. CASE LoadOps
  <2>1. Load(panel.sel) /\ panel' = panel /\ version' = version
    BY <1>4 DEF LoadOps
  <2> QED  BY <1>1, <1>t, <2>1
<1>5. CASE WriteLands
  <2>1. panel' = [panel EXCEPT !.write = version + 1] /\ version' = version + 1 /\ version < MaxChanges /\ UNCHANGED <<loads, sent>>
    BY <1>5 DEF WriteLands
  <2>2. panel'.shown = panel.shown /\ panel'.sel = panel.sel /\ panel'.write = version + 1 /\ panel'.mine = panel.mine
        /\ PanelRecord(panel')
    BY <1>t, <2>1 DEF PanelRecord
  <2>3. version' \in 0 .. MaxChanges /\ panel'.write \in 0 .. version' /\ panel'.mine \subseteq 1 .. version'
    BY <1>0, <1>t, <2>1, <2>2
  <2> QED  BY <1>t, <2>1, <2>2, <2>3 DEF PanelInv
<1>6. CASE WriteAnswered
  <2>1. Load(panel.sel) /\ panel' = [panel EXCEPT !.write = 0, !.mine = @ \cup {panel.write}] /\ version' = version /\ panel.write # 0
    BY <1>6 DEF WriteAnswered
  <2>2. panel'.shown = panel.shown /\ panel'.sel = panel.sel /\ panel'.write = 0 /\ panel'.mine = panel.mine \cup {panel.write}
        /\ PanelRecord(panel')
    BY <1>t, <2>1 DEF PanelRecord
  <2>3. 0 \in 0 .. version /\ panel.write \in 1 .. version
    BY <1>t, <2>1
  <2> QED  BY <1>1, <1>t, <2>1, <2>2, <2>3
<1>7. CASE WriteThrows
  <2>1. panel' = [panel EXCEPT !.write = 0] /\ UNCHANGED <<loads, sent, version>>
    BY <1>7 DEF WriteThrows
  <2>2. panel'.shown = panel.shown /\ panel'.sel = panel.sel /\ panel'.write = 0 /\ panel'.mine = panel.mine
        /\ PanelRecord(panel')
    BY <1>t, <2>1 DEF PanelRecord
  <2>3. 0 \in 0 .. version
    BY <1>t
  <2> QED  BY <1>t, <2>1, <2>2, <2>3 DEF PanelInv
<1>8. ASSUME NEW r \in loads, ServerReads(r) PROVE PanelInv'
  <2> DEFINE new == [r EXCEPT !.ver = version]
  <2>1. loads' = (loads \ {r}) \cup {new} /\ UNCHANGED <<panel, sent, version>>
    BY <1>8 DEF ServerReads
  <2>2. new.n = r.n /\ new.sel = r.sel /\ new.ver = version /\ new = [sel |-> new.sel, ver |-> new.ver, n |-> new.n]
    BY <1>t
  <2> HIDE DEF new
  <2>3. \A w \in panel.mine : w <= version
    BY <1>t
  <2>4. Current(new, sent, panel.sel, panel.mine)
    BY <1>t, <2>2, <2>3 DEF Current
  <2> QED  BY <1>t, <2>1, <2>2, <2>4 DEF PanelInv
<1>9. ASSUME NEW r \in loads, SetRows(r) PROVE PanelInv'
  <2>1. panel' = [panel EXCEPT !.shown = r] /\ loads' = loads \ {r} /\ UNCHANGED <<sent, version>>
    BY <1>9 DEF SetRows
  <2>2. panel'.shown = r /\ panel'.sel = panel.sel /\ panel'.write = panel.write /\ panel'.mine = panel.mine
        /\ PanelRecord(panel')
    BY <1>t, <2>1 DEF PanelRecord
  <2> QED  BY <1>t, <2>1, <2>2 DEF PanelInv
<1>10. ASSUME NEW r \in loads, FetchFails(r) PROVE PanelInv'
  <2>1. loads' = loads \ {r} /\ UNCHANGED <<panel, sent, version>>
    BY <1>10 DEF FetchFails
  <2> QED  BY <1>t, <2>1 DEF PanelInv
<1>11. CASE TableStep \/ InboxStep \/ UNCHANGED viewVars
  <2>1. UNCHANGED <<panel, loads, sent, version>>
    BY <1>11 DEF TableStep, InboxStep, viewVars, panelVars
  <2> QED  BY <1>t, <2>1 DEF PanelInv
<1> QED  BY <1>2, <1>3, <1>4, <1>5, <1>6, <1>7, <1>8, <1>9, <1>10, <1>11 DEF ViewsNext, PanelStep

-----------------------------------------------------------------------------
TableInv ==
    /\ table = [rows |-> table.rows, dir |-> table.dir, query |-> table.query, page |-> table.page]
    /\ table.rows \in SUBSET Keys /\ table.page \in Nat

\* The pages that hold n rows, T to a page.
LEMMA FullPages ==
    ASSUME NEW n \in Nat, NEW T \in Nat \ {0}
    PROVE  LET q == (n + T - 1) \div T IN
           q \in Nat /\ q * T \in Nat /\ q * T <= n + T - 1 /\ n <= q * T
<1>1. PICK d : d = n + T - 1
  OBVIOUS
<1>2. d \in Nat
  BY <1>1
<1>3. PICK q, m, e : q = d \div T /\ m = q * T /\ e = d % T
  OBVIOUS
<1>4. q \in Int /\ e \in 0 .. T - 1 /\ d = q * T + e
  BY <1>2, <1>3, Division
<1>5. m \in Int /\ d = m + e
  BY <1>3, <1>4
<1>6. m <= d /\ n <= m
  BY <1>1, <1>4, <1>5
<1>7. q \in Nat
  <2>1. CASE q < 0
    <3>1. q * T + T <= 0 * T /\ 0 * T = 0
      BY <1>4, <2>1, Smaller
    <3>2. m + T <= 0
      BY <1>3, <3>1
    <3> QED  BY <1>5, <1>6, <3>2
  <2> QED  BY <1>4, <2>1
<1>8. m \in Nat
  BY <1>5, <1>6
<1> QED  BY <1>1, <1>3, <1>6, <1>7, <1>8

\* How many rows match, and how many pages hold them.
LEMMA RowsCounted ==
    ASSUME TableInv
    PROVE  LET n == Cardinality(Filtered(table))
               C == PageCount(table) IN
           /\ Filtered(table) \in SUBSET Keys /\ IsFiniteSet(Filtered(table)) /\ n \in Nat
           /\ TablePage \in Nat \ {0} /\ C \in Nat \ {0} /\ SafePage(table) \in 0 .. C - 1 /\ SafePage(table) <= table.page
           /\ n <= C * TablePage
           /\ \A p \in 1 .. C : p * TablePage \in Nat /\ (p - 1) * TablePage \in Nat
                                /\ (p - 1) * TablePage <= p * TablePage
                                /\ (p - 1) * TablePage <= n /\ (n # 0 => (p - 1) * TablePage < n)
<1> DEFINE F == Filtered(table)
           n == Cardinality(F)
           T == TablePage
           q == (n + T - 1) \div T
           C == PageCount(table)
<1>1. T \in Nat \ {0} /\ IsFiniteSet(Keys)
  BY ViewsAssumption
<1>2. F \in SUBSET Keys
  BY DEF Filtered, TableInv
<1>3. IsFiniteSet(F) /\ n \in Nat
  BY <1>1, <1>2, FS_Subset, FS_CardinalityType
<1>4. C = Max({1, q})
  BY DEF PageCount
<1> HIDE DEF T, n, F, C
<1>6. q \in Nat /\ q * T \in Nat /\ q * T <= n + T - 1 /\ n <= q * T
  <2> HIDE DEF q
  <2> QED  BY <1>1, <1>3, FullPages DEF q
<1> HIDE DEF q
<1>7. q \in Nat
  BY <1>6
<1>8. C = (IF 1 <= q THEN q ELSE 1) /\ C \in Nat \ {0}
  BY <1>4, <1>7, MaxOfTwo
<1>9. n <= C * T
  <2>1. CASE 1 <= q
    BY <1>6, <1>8, <2>1
  <2>2. CASE ~(1 <= q)
    <3>1. q = 0 /\ q * T = 0 /\ C = 1 /\ C * T = T
      BY <1>1, <1>7, <1>8, <2>2
    <3>2. n <= 0
      BY <1>6, <3>1
    <3> QED  BY <1>1, <1>3, <3>1, <3>2
  <2> QED  BY <2>1, <2>2
<1>10. ASSUME NEW p \in 1 .. C
       PROVE  /\ p * T \in Nat /\ (p - 1) * T \in Nat /\ (p - 1) * T <= p * T
              /\ (p - 1) * T <= n /\ (n # 0 => (p - 1) * T < n)
  <2> DEFINE a == (p - 1) * T
             b == p * T
             m == q * T
  <2>1. p \in Nat \ {0} /\ p - 1 \in Nat
    BY <1>8
  <2>2. a \in Nat /\ b \in Nat /\ a + T = b
    BY <1>1, <2>1
  <2>3. CASE p = 1
    <3>1. a = 0
      BY <1>1, <2>3
    <3> HIDE DEF a, b
    <3> QED  BY <1>1, <1>3, <2>2, <3>1 DEF a, b
  <2>4. CASE p # 1
    <3>1. p <= q /\ q \in Nat
      BY <1>7, <1>8, <2>1, <2>4
    <3>2. b <= m
      <4>1. CASE p = q
        BY <2>2, <4>1
      <4>2. CASE p < q
        <5>1. b + T <= m /\ m \in Int
          BY <1>1, <2>1, <3>1, <4>2, Smaller
        <5> HIDE DEF b, m
        <5> QED  BY <1>1, <2>2, <5>1
      <4> QED  BY <2>1, <3>1, <4>1, <4>2
    <3>3. m \in Int /\ m <= n + T - 1
      BY <1>6
    <3> HIDE DEF a, b, m
    <3>4. a < n
      BY <1>1, <1>3, <2>2, <3>2, <3>3
    <3> QED  BY <1>1, <1>3, <2>2, <3>4 DEF a, b
  <2> QED  BY <2>3, <2>4
<1>11. SafePage(table) \in 0 .. C - 1 /\ SafePage(table) <= table.page
  <2>1. SafePage(table) = Min({table.page, C - 1})
    BY DEF SafePage, C
  <2>2. table.page \in Nat /\ C - 1 \in Nat
    BY <1>8 DEF TableInv
  <2>3. SafePage(table) = IF table.page <= C - 1 THEN table.page ELSE C - 1
    BY <2>1, <2>2, MinOfTwo
  <2> QED  BY <1>8, <2>2, <2>3
<1> QED  BY <1>1, <1>2, <1>3, <1>8, <1>9, <1>10, <1>11 DEF T, n, F, C

LEMMA TableInvStep ==
    ASSUME TableInv, [ViewsNext]_viewVars PROVE TableInv'
<1> DEFINE C == PageCount(table)
<1>1. C \in Nat \ {0} /\ SafePage(table) \in 0 .. C - 1 /\ SafePage(table) <= table.page /\ table.page \in Nat
  BY RowsCounted DEF TableInv
<1> HIDE DEF C
<1>2. CASE Refetch
  BY <1>2 DEF Refetch, TableInv
<1>3. CASE ToggleSort
  BY <1>3 DEF ToggleSort, TableInv
<1>4. CASE SetQuery
  BY <1>4 DEF SetQuery, TableInv
<1>5. CASE Prev
  <2>1. table' = [table EXCEPT !.page = table.page - 1] /\ table.page - 1 \in Nat
    BY <1>1, <1>5 DEF Prev
  <2> QED  BY <2>1 DEF TableInv
<1>6. CASE NextPage
  <2> DEFINE m == Min({C - 1, table.page + 1})
  <2>1. m \in Nat
    BY <1>1, MinOfTwo
  <2>2. table' = [table EXCEPT !.page = m]
    BY <1>6 DEF NextPage, C
  <2> HIDE DEF m
  <2> QED  BY <2>1, <2>2 DEF TableInv
<1>7. CASE PanelStep \/ InboxStep \/ UNCHANGED viewVars
  <2>1. UNCHANGED table
    BY <1>7 DEF PanelStep, InboxStep, viewVars
  <2> QED  BY <2>1 DEF TableInv
<1> QED  BY <1>2, <1>3, <1>4, <1>5, <1>6, <1>7 DEF ViewsNext, TableStep

\* The order of the column is strict, whichever way it goes.
LEMMA ColumnOrders ==
    ASSUME NEW dir, NEW S \in SUBSET Keys
    PROVE  StrictOrder(S, InOrder(dir))
<1>1. \A a \in Keys : a \in Nat /\ Cell[a] \in Nat
  BY ViewsAssumption
<1>2. \A a, b \in S : <<a, b>> \in InOrder(dir) <=> IF dir = "none" THEN a < b ELSE Precedes(dir, a, b)
  BY DEF InOrder
<1>3. CASE dir = "none"
  BY <1>1, <1>2, <1>3 DEF StrictOrder
<1>4. CASE dir # "none"
  <2>1. \A a, b \in S : <<a, b>> \in InOrder(dir) <=> Precedes(dir, a, b)
    BY <1>2, <1>4
  <2>2. \A a \in S : ~Precedes(dir, a, a)
    BY <1>1 DEF Precedes
  <2>3. \A a, b \in S : a = b \/ Precedes(dir, a, b) \/ Precedes(dir, b, a)
    BY <1>1 DEF Precedes
  <2>4. \A a, b, c \in S : Precedes(dir, a, b) /\ Precedes(dir, b, c) => Precedes(dir, a, c)
    BY <1>1 DEF Precedes
  <2> QED  BY <2>1, <2>2, <2>3, <2>4 DEF StrictOrder
<1> QED  BY <1>3, <1>4

LEMMA CutIsList ==
    ASSUME NEW E, NEW s \in Seq(E), NEW a \in 0 .. Len(s), NEW b \in 0 .. Len(s), a <= b
    PROVE  SubSeq(s, a + 1, b) \in Seq(E)
<1>1. Len(s) \in Nat
  OBVIOUS
<1>2. PICK lo : lo = a + 1
  OBVIOUS
<1>3. lo \in 1 .. Len(s) + 1 /\ b \in lo - 1 .. Len(s)
  BY <1>1, <1>2
<1> QED  BY <1>2, <1>3, SubSeqProperties

LEMMA MapIsList ==
    ASSUME NEW l \in Nat, NEW D, NEW m \in [1 .. l -> D]
    PROVE  m \in Seq(D) /\ Len(m) = l
OBVIOUS

\* Pages laid end to end are the list they were cut from.
LEMMA PagesAddUp ==
    ASSUME NEW E, NEW s \in Seq(E), NEW C \in Nat \ {0}, NEW cut \in [0 .. C -> 0 .. Len(s)], NEW pages,
           cut[0] = 0, cut[C] = Len(s), \A i \in 1 .. C : cut[i - 1] <= cut[i],
           pages = [i \in 1 .. C |-> SubSeq(s, cut[i - 1] + 1, cut[i])]
    PROVE  FlattenSeq(pages) = s
<1> DEFINE Rec(f) == [i \in 1 .. Len(pages) |-> IF i = 1 THEN pages[i] ELSE f[i - 1] \o pages[i]]
           g == [i \in 1 .. C |-> SubSeq(s, 1, cut[i])]
<1>1. C \in 1 .. C /\ 1 \in 1 .. C /\ Len(s) \in Nat
  OBVIOUS
<1>2. Len(pages) = C
  <2>1. \A i \in 1 .. C : cut[i - 1] \in Int /\ cut[i] \in Int
    BY SMTT(60)
  <2>2. pages \in Seq(Seq(E))
    <3>1. \A i \in 1 .. C : SubSeq(s, cut[i - 1] + 1, cut[i]) \in Seq(E)
      <4> SUFFICES ASSUME NEW i \in 1 .. C PROVE SubSeq(s, cut[i - 1] + 1, cut[i]) \in Seq(E)
        OBVIOUS
      <4>1. cut[i - 1] \in 0 .. Len(s) /\ cut[i] \in 0 .. Len(s) /\ cut[i - 1] <= cut[i]
        <5>1. i - 1 \in 0 .. C /\ i \in 0 .. C
          OBVIOUS
        <5> QED  BY SMTT(60), <5>1
      <4> QED  BY <4>1, CutIsList
    <3>2. pages \in [1 .. C -> Seq(E)]
      BY <3>1
    <3> QED  BY <3>2, MapIsList
  <2>3. DOMAIN pages = 1 .. C
    OBVIOUS
  <2> QED  BY <2>2, <2>3
<1>3. FlattenSeq(pages) = (CHOOSE f : f = Rec(f))[C]
  BY <1>1, <1>2 DEF FlattenSeq
<1>4. ASSUME NEW i \in 1 .. C, i # 1 PROVE SubSeq(s, 1, cut[i - 1]) \o pages[i] = SubSeq(s, 1, cut[i])
  <2>1. i - 1 \in 0 .. C /\ i \in 0 .. C
    OBVIOUS
  <2>2. cut[i - 1] \in 1 - 1 .. Len(s) /\ cut[i] \in cut[i - 1] .. Len(s) /\ 1 \in 1 .. Len(s) + 1
    BY SMTT(60), <1>1, <2>1
  <2>3. SubSeq(s, 1, cut[i - 1]) \o SubSeq(s, cut[i - 1] + 1, cut[i]) = SubSeq(s, 1, cut[i])
    BY <2>2, ConcatAdjacentSubSeq
  <2> QED  BY <2>3
<1>5. pages[1] = SubSeq(s, 1, cut[1])
  <2>1. 1 - 1 = 0
    OBVIOUS
  <2> QED  BY SMTT(60), <1>1, <2>1
<1> HIDE DEF Rec
<1>6. \E f : f = Rec(f)
  <2>1. g = Rec(g)
    <3>1. \A i \in 1 .. C : i # 1 => i - 1 \in 1 .. C
      BY SMTT(60), <1>1
    <3>2. \A i \in 1 .. C : g[i] = SubSeq(s, 1, cut[i])
      OBVIOUS
    <3>3. \A i \in 1 .. C : g[i] = IF i = 1 THEN pages[i] ELSE g[i - 1] \o pages[i]
      BY <1>4, <1>5, <3>1, <3>2
    <3>4. g = [i \in 1 .. C |-> g[i]]
      OBVIOUS
    <3> HIDE DEF g
    <3> QED  BY <1>2, <3>3, <3>4 DEF Rec
  <2> QED  BY <2>1
<1> DEFINE f == CHOOSE h : h = Rec(h)
<1>7. f = Rec(f)
  BY <1>6
<1> HIDE DEF f, g
<1>8. \A i \in 1 .. C : f[i] = IF i = 1 THEN pages[i] ELSE f[i - 1] \o pages[i]
  BY <1>2, <1>7 DEF Rec
<1> DEFINE G == {i \in 0 .. C : i = 0 \/ f[i] = SubSeq(s, 1, cut[i])}
<1>9. ASSUME NEW i \in 1 .. C, i - 1 \in G PROVE i \in G
  <2>0. i \in 0 .. C /\ i - 1 \in 0 .. C
    OBVIOUS
  <2>1. CASE i = 1
    <3>1. f[1] = SubSeq(s, 1, cut[1])
      BY <1>1, <1>5, <1>8
    <3> QED  BY <2>0, <2>1, <3>1
  <2>2. CASE i # 1
    <3>0. i - 1 # 0
      BY <2>2
    <3>1. f[i - 1] = SubSeq(s, 1, cut[i - 1]) /\ f[i] = f[i - 1] \o pages[i]
      BY <1>8, <1>9, <2>2, <3>0
    <3>2. f[i] = SubSeq(s, 1, cut[i])
      BY <1>4, <2>2, <3>1
    <3> QED  BY <2>0, <3>2
  <2> QED  BY <2>1, <2>2
<1>10. C \in G
  <2>1. G \in SUBSET (0 .. C) /\ 0 \in G /\ C \in 0 .. C
    OBVIOUS
  <2> HIDE DEF G
  <2> QED  BY <1>9, <2>1, StepByStep
<1>11. f[C] = SubSeq(s, 1, Len(s))
  BY <1>10
<1> QED  BY <1>3, <1>11, SubSeqFull DEF f

LEMMA TableShowsAll == TableInv => TableIsWhole
<1> SUFFICES ASSUME TableInv PROVE TableIsWhole
  OBVIOUS
<1> DEFINE F == Filtered(table)
           n == Cardinality(F)
           T == TablePage
           C == PageCount(table)
           R == InOrder(table.dir)
           s == Sorted(table)
<1>1. /\ F \in SUBSET Keys /\ IsFiniteSet(F) /\ n \in Nat /\ T \in Nat \ {0} /\ C \in Nat \ {0}
      /\ SafePage(table) \in 0 .. C - 1 /\ n <= C * T
      /\ \A p \in 1 .. C : /\ p * T \in Nat /\ (p - 1) * T \in Nat /\ (p - 1) * T <= p * T
                           /\ (p - 1) * T <= n /\ (n # 0 => (p - 1) * T < n)
  BY RowsCounted
<1>2. /\ s \in [1 .. n -> F] /\ DOMAIN s = 1 .. n
      /\ \A i, j \in 1 .. n : i < j => <<s[i], s[j]>> \in R
  <2>1. s = Arranged(F, R)
    BY DEF Sorted
  <2>2. StrictOrder(F, R)
    BY <1>1, ColumnOrders
  <2> HIDE DEF F, R, s
  <2> QED  BY <1>1, <2>1, <2>2, ArrangedIsWhole DEF n
<1>3. s \in Seq(F) /\ Len(s) = n
  <2> HIDE DEF s, F, n
  <2> QED  BY <1>1, <1>2
<1> DEFINE cut == [p \in 0 .. C |-> IF p * T <= n THEN p * T ELSE n]
<1>4. ASSUME NEW p \in 1 .. C
      PROVE  PageOf(s, p - 1) = SubSeq(s, cut[p - 1] + 1, cut[p]) /\ cut[p - 1] = (p - 1) * T /\ cut[p - 1] <= cut[p]
             /\ cut[p] \in 0 .. n /\ cut[p - 1] \in 0 .. n /\ (n # 0 => cut[p - 1] < cut[p])
  <2>1. p - 1 \in 0 .. C /\ p \in 0 .. C /\ p - 1 + 1 = p
    BY <1>1
  <2>2. cut[p - 1] = (p - 1) * T /\ cut[p] = IF p * T <= n THEN p * T ELSE n
    BY <1>1, <2>1
  <2>3. PageOf(s, p - 1) = SubSeq(s, (p - 1) * T + 1, Min({p * T, n}))
    BY <1>3, <2>1 DEF PageOf
  <2> DEFINE a == (p - 1) * T
             b == p * T
  <2>4. a \in Nat /\ b \in Nat /\ a <= b /\ a <= n /\ (n # 0 => a < n)
    BY <1>1
  <2>5. a < b
    <3>1. a + T <= b
      BY <1>1, <2>1, Smaller
    <3> HIDE DEF a, b
    <3> QED  BY <1>1, <2>4, <3>1
  <2> HIDE DEF cut, n, a, b
  <2>6. Min({b, n}) = IF b <= n THEN b ELSE n
    BY <1>1, <2>4, MinOfTwo
  <2>7. cut[p - 1] = a /\ cut[p] = Min({b, n}) /\ PageOf(s, p - 1) = SubSeq(s, a + 1, Min({b, n}))
    BY <2>2, <2>3, <2>6 DEF a, b
  <2>8. cut[p] \in 0 .. n /\ a <= cut[p] /\ (n # 0 => a < cut[p])
    BY SMTT(60), <1>1, <2>4, <2>5, <2>6, <2>7
  <2>9. cut[p - 1] \in 0 .. n /\ cut[p - 1] <= cut[p] /\ (n # 0 => cut[p - 1] < cut[p])
    BY <1>1, <2>4, <2>7, <2>8
  <2>10. PageOf(s, p - 1) = SubSeq(s, cut[p - 1] + 1, cut[p])
    BY <2>7
  <2> QED  BY <2>2, <2>8, <2>9, <2>10
<1>5. cut \in [0 .. C -> 0 .. n] /\ cut[0] = 0 /\ cut[C] = n
  <2>1. 0 \in 0 .. C /\ C \in 1 .. C /\ C \in 0 .. C /\ 0 * T = 0
    BY <1>1
  <2>2. cut[0] = 0
    BY <1>1, <2>1
  <2>3. cut[C] = IF C * T <= n THEN C * T ELSE n
    BY <2>1
  <2>4. C * T \in Nat
    BY <1>1, <2>1
  <2>5. cut[C] = n
    <3> DEFINE b == C * T
    <3>1. b \in Nat /\ n <= b /\ cut[C] = IF b <= n THEN b ELSE n
      BY <1>1, <2>3, <2>4
    <3> HIDE DEF b, cut, n
    <3> QED  BY <1>1, <3>1
  <2>6. cut = [p \in 0 .. C |-> cut[p]]
    OBVIOUS
  <2> HIDE DEF cut, n
  <2>7. ASSUME NEW p \in 0 .. C PROVE cut[p] \in 0 .. n
    <3>1. CASE p = 0
      BY <1>1, <2>2, <3>1
    <3>2. CASE p # 0
      <4>1. p \in 1 .. C
        BY <1>1, <3>2
      <4> QED  BY <1>4, <4>1
    <3> QED  BY <3>1, <3>2
  <2> QED  BY <2>2, <2>5, <2>6, <2>7
<1> HIDE DEF cut, s, n, F, R, C, T
<1>6. FlattenSeq([p \in 1 .. C |-> PageOf(s, p - 1)]) = s
  <2> DEFINE pages == [p \in 1 .. C |-> PageOf(s, p - 1)]
  <2>1. pages = [p \in 1 .. C |-> SubSeq(s, cut[p - 1] + 1, cut[p])]
    BY <1>4
  <2> HIDE DEF pages
  <2>2. FlattenSeq(pages) = s
    BY ZenonT(60), <1>1, <1>3, <1>4, <1>5, <2>1, PagesAddUp
  <2> QED  BY <2>2 DEF pages
<1>7. ASSUME F # {} PROVE Visible(table) # <<>>
  <2>1. n # 0
    BY <1>1, <1>7, FS_EmptySet DEF n
  <2> DEFINE p == SafePage(table) + 1
  <2>2. p \in 1 .. C /\ SafePage(table) = p - 1
    BY <1>1
  <2>3. Visible(table) = PageOf(s, p - 1)
    BY <2>2 DEF Visible, s
  <2> HIDE DEF p
  <2>4. Visible(table) = SubSeq(s, cut[p - 1] + 1, cut[p]) /\ cut[p - 1] \in 0 .. n /\ cut[p] \in 0 .. n /\ cut[p - 1] < cut[p]
    BY <1>4, <2>1, <2>2, <2>3
  <2> DEFINE lo == cut[p - 1] + 1
             hi == cut[p]
  <2>5. lo \in 1 .. n + 1 /\ hi \in lo - 1 .. n /\ lo <= hi
    BY <1>1, <2>4
  <2>6. Visible(table) = SubSeq(s, lo, hi)
    BY <2>4
  <2> HIDE DEF lo, hi
  <2>7. Len(SubSeq(s, lo, hi)) = hi - lo + 1
    BY <1>3, <2>5, SubSeqProperties
  <2>8. Len(SubSeq(s, lo, hi)) # 0
    BY <1>1, <2>5, <2>7
  <2>9. Len(<<>>) = 0
    OBVIOUS
  <2> QED  BY <2>6, <2>8, <2>9, Zenon
<1>8. ASSUME table.dir # "none", NEW x \in 1 .. n, NEW y \in 1 .. n, x < y PROVE Cell[s[x]] # 0 \/ Cell[s[y]] = 0
  <2>1. <<s[x], s[y]>> \in R
    BY <1>2, <1>8
  <2>2. Precedes(table.dir, s[x], s[y])
    BY <1>8, <2>1 DEF R, InOrder
  <2> QED  BY <2>2 DEF Precedes
<1> QED  BY <1>2, <1>6, <1>7, <1>8 DEF TableIsWhole, s, F, C

-----------------------------------------------------------------------------
InboxRecord(i) ==
    i = [threads |-> i.threads, needs |-> i.needs, filter |-> i.filter, search |-> i.search, sel |-> i.sel,
         focus |-> i.focus, chosen |-> i.chosen, polls |-> i.polls]

InboxInv == InboxRecord(inbox) /\ inbox.threads \in Seq(Threads) /\ SelectionStays

LEMMA ListedFacts ==
    ASSUME NEW i, i.threads \in Seq(Threads)
    PROVE  /\ Nobody \notin ToSet(i.threads) /\ Nobody \notin ToSet(Listed(i))
           /\ Listed(i) # <<>> => Listed(i)[1] \in ToSet(Listed(i))
           /\ Listed(i) = <<>> => ToSet(Listed(i)) = {}
<1> DEFINE S == {t \in Threads : (i.filter = "approval" => t \in i.needs) /\ (i.search => t \in Found)}
           s == i.threads
<1>1. Nobody \notin Threads
  BY ViewsAssumption
<1>2. Listed(i) = Chosen(s, S)
  BY DEF Listed
<1> HIDE DEF S, s
<1>3. Listed(i) \in Seq(Threads)
  BY <1>2, ChosenMembers DEF s
<1> DEFINE l == Listed(i)
<1> HIDE DEF l
<1>4. l \in Seq(Threads)
  BY <1>3 DEF l
<1>5. ToSet(l) \subseteq Threads
  BY <1>4 DEF ToSet
<1>6. ToSet(i.threads) \subseteq Threads
  BY DEF ToSet
<1>7. l # <<>> => l[1] \in ToSet(l)
  <2> SUFFICES ASSUME l # <<>> PROVE l[1] \in ToSet(l)
    OBVIOUS
  <2>1. 1 \in DOMAIN l
    BY <1>4
  <2> QED  BY <2>1 DEF ToSet
<1>8. l = <<>> => ToSet(l) = {}
  BY DEF ToSet
<1> QED  BY <1>1, <1>5, <1>6, <1>7, <1>8 DEF l

\* The effect without a focus to follow: the selection is one of the list,
\* and stays if it was.
LEMMA EffectStays ==
    ASSUME NEW i, InboxRecord(i), i.threads \in Seq(Threads), i.focus \notin ToSet(i.threads)
    PROVE  LET k == Effect(i) IN
           /\ InboxRecord(k) /\ k.threads = i.threads /\ k.focus = i.focus /\ Listed(k) = Listed(i)
           /\ k.sel = Nobody <=> Listed(i) = <<>>
           /\ Listed(i) # <<>> => k.sel \in ToSet(Listed(i))
           /\ i.sel \in ToSet(Listed(i)) => k.sel = i.sel
<1> DEFINE l == Listed(i)
<1>1. /\ Nobody \notin ToSet(l) /\ (l # <<>> => l[1] \in ToSet(l)) /\ (l = <<>> => ToSet(l) = {})
  BY ListedFacts
<1>2. Effect(i) = IF l = <<>> THEN [i EXCEPT !.sel = Nobody]
                  ELSE IF i.sel \notin ToSet(l) THEN [i EXCEPT !.sel = l[1]] ELSE i
  BY DEF Effect
<1>3. ASSUME NEW x
      PROVE  LET k == [i EXCEPT !.sel = x] IN
             InboxRecord(k) /\ k.sel = x /\ k.threads = i.threads /\ k.focus = i.focus /\ Listed(k) = l
  <2> DEFINE k == [i EXCEPT !.sel = x]
  <2>1. /\ InboxRecord(k) /\ k.sel = x /\ k.threads = i.threads /\ k.focus = i.focus
        /\ k.filter = i.filter /\ k.needs = i.needs /\ k.search = i.search
    BY DEF InboxRecord
  <2> HIDE DEF k
  <2>2. Listed(k) = l
    BY <2>1 DEF Listed
  <2> QED  BY <2>1, <2>2 DEF k
<1> HIDE DEF l
<1>4. CASE l = <<>>
  BY <1>1, <1>2, <1>3, <1>4 DEF l
<1>5. CASE l # <<>> /\ i.sel \notin ToSet(l)
  BY <1>1, <1>2, <1>3, <1>5 DEF l
<1>6. CASE l # <<>> /\ i.sel \in ToSet(l)
  BY <1>1, <1>2, <1>6 DEF l
<1> QED  BY <1>4, <1>5, <1>6

LEMMA EffectSettles ==
    ASSUME NEW i, InboxRecord(i), i.threads \in Seq(Threads)
    PROVE  LET j == Effect(Effect(i)) IN
           /\ InboxRecord(j) /\ j.threads \in Seq(Threads)
           /\ j.sel = Nobody <=> Listed(j) = <<>>
           /\ i.focus # j.focus /\ i.focus \in ToSet(Listed(j)) => j.sel = i.focus
           /\ i.focus = j.focus /\ i.sel \in ToSet(Listed(j)) => j.sel = i.sel
<1> DEFINE k == Effect(i)
           j == Effect(k)
<1>0. Nobody \notin ToSet(i.threads)
  BY ListedFacts
<1>1. CASE i.focus \in ToSet(i.threads)
  <2>1. k = [i EXCEPT !.filter = "all", !.sel = i.focus, !.focus = Nobody]
    BY <1>1 DEF Effect
  <2>2. InboxRecord(k) /\ k.threads = i.threads /\ k.sel = i.focus /\ k.focus = Nobody
    BY <2>1 DEF InboxRecord
  <2> HIDE DEF k
  <2>3. k.focus \notin ToSet(k.threads) /\ k.threads \in Seq(Threads)
    BY <1>0, <2>2
  <2>4. /\ InboxRecord(j) /\ j.threads = k.threads /\ j.focus = k.focus /\ Listed(j) = Listed(k)
        /\ j.sel = Nobody <=> Listed(k) = <<>>
        /\ k.sel \in ToSet(Listed(k)) => j.sel = k.sel
    BY <2>2, <2>3, EffectStays
  <2>5. i.focus # j.focus
    BY <1>0, <1>1, <2>2, <2>4
  <2> HIDE DEF j
  <2>6. /\ InboxRecord(j) /\ j.threads \in Seq(Threads) /\ (j.sel = Nobody <=> Listed(j) = <<>>)
        /\ i.focus \in ToSet(Listed(j)) => j.sel = i.focus
    BY <2>2, <2>3, <2>4
  <2> QED  BY <2>5, <2>6 DEF j, k
<1>2. CASE i.focus \notin ToSet(i.threads)
  <2>1. /\ InboxRecord(k) /\ k.threads = i.threads /\ k.focus = i.focus /\ Listed(k) = Listed(i)
        /\ k.sel = Nobody <=> Listed(i) = <<>>
        /\ i.sel \in ToSet(Listed(i)) => k.sel = i.sel
    BY <1>2, EffectStays
  <2> HIDE DEF k
  <2>2. k.focus \notin ToSet(k.threads) /\ k.threads \in Seq(Threads)
    BY <1>2, <2>1
  <2>3. /\ InboxRecord(j) /\ j.threads = k.threads /\ j.focus = k.focus /\ Listed(j) = Listed(k)
        /\ j.sel = Nobody <=> Listed(k) = <<>>
        /\ k.sel \in ToSet(Listed(k)) => j.sel = k.sel
    BY <2>1, <2>2, EffectStays
  <2> HIDE DEF j
  <2>4. /\ InboxRecord(j) /\ j.threads \in Seq(Threads) /\ (j.sel = Nobody <=> Listed(j) = <<>>)
        /\ i.focus = j.focus /\ (i.sel \in ToSet(Listed(j)) => j.sel = i.sel)
    BY <2>1, <2>2, <2>3
  <2> QED  BY <2>4 DEF j, k
<1> QED  BY <1>1, <1>2

LEMMA RenderKeeps ==
    ASSUME NEW i, InboxRecord(i), i.threads \in Seq(Threads), NEW picked, picked # Nobody => i.sel = picked,
           Render(i, picked)
    PROVE  InboxInv'
<1> DEFINE j == Effect(Effect(i))
           c == IF i.focus # j.focus THEN i.focus ELSE picked
           x == IF c \in ToSet(Listed(j)) THEN c ELSE Nobody
<1>1. inbox' = [j EXCEPT !.chosen = x]
  BY DEF Render
<1>2. /\ InboxRecord(j) /\ j.threads \in Seq(Threads)
      /\ j.sel = Nobody <=> Listed(j) = <<>>
      /\ i.focus # j.focus /\ i.focus \in ToSet(Listed(j)) => j.sel = i.focus
      /\ i.focus = j.focus /\ i.sel \in ToSet(Listed(j)) => j.sel = i.sel
  BY EffectSettles
<1> HIDE DEF j
<1>3. x # Nobody => j.sel = x
  BY <1>2
<1> HIDE DEF x
<1>4. /\ InboxRecord(inbox') /\ inbox'.chosen = x /\ inbox'.sel = j.sel /\ inbox'.threads = j.threads
      /\ inbox'.filter = j.filter /\ inbox'.needs = j.needs /\ inbox'.search = j.search
  BY <1>1, <1>2 DEF InboxRecord
<1>5. Listed(inbox') = Listed(j)
  BY <1>4 DEF Listed
<1> QED  BY <1>2, <1>3, <1>4, <1>5 DEF InboxInv, SelectionStays

LEMMA InboxInvStep ==
    ASSUME InboxInv, [ViewsNext]_viewVars PROVE InboxInv'
<1>1. InboxRecord(inbox) /\ inbox.threads \in Seq(Threads) /\ (inbox.chosen # Nobody => inbox.sel = inbox.chosen)
  BY DEF InboxInv, SelectionStays
<1>2. CASE SetThreads
  <2>1. PICK ts \in SeqOf(Threads, Cardinality(Threads)), needs \in SUBSET Threads :
           Render([inbox EXCEPT !.threads = ts, !.needs = needs, !.polls = @ + 1], inbox.chosen)
    BY <1>2 DEF SetThreads
  <2> DEFINE i == [inbox EXCEPT !.threads = ts, !.needs = needs, !.polls = @ + 1]
  <2>2. ts \in Seq(Threads)
    BY DEF SeqOf
  <2>3. InboxRecord(i) /\ i.threads \in Seq(Threads) /\ i.sel = inbox.sel
    <3> DEFINE a == [inbox EXCEPT !.threads = ts]
               b == [a EXCEPT !.needs = needs]
    <3>1. InboxRecord(i)
      <4>1. InboxRecord(a)
        BY <1>1 DEF InboxRecord
      <4> HIDE DEF a
      <4>2. InboxRecord(b)
        BY <4>1 DEF InboxRecord
      <4> HIDE DEF b
      <4>3. InboxRecord([b EXCEPT !.polls = inbox.polls + 1])
        BY <4>2 DEF InboxRecord
      <4> QED  BY <4>3 DEF a, b
    <3>2. i.threads = ts /\ i.sel = inbox.sel
      BY <1>1 DEF InboxRecord
    <3> QED  BY <2>2, <3>1, <3>2
  <2> HIDE DEF i
  <2> QED  BY <1>1, <2>1, <2>3, RenderKeeps DEF i
<1>3. CASE SelectThread
  <2>1. PICK t \in ToSet(Listed(inbox)) : Render([inbox EXCEPT !.sel = t], t)
    BY <1>3 DEF SelectThread
  <2> DEFINE i == [inbox EXCEPT !.sel = t]
  <2>2. InboxRecord(i) /\ i.threads \in Seq(Threads) /\ i.sel = t
    BY <1>1 DEF InboxRecord
  <2> HIDE DEF i
  <2> QED  BY <2>1, <2>2, RenderKeeps DEF i
<1>4. CASE SetFilter
  <2> DEFINE i == [inbox EXCEPT !.filter = IF @ = "all" THEN "approval" ELSE "all"]
  <2>1. Render(i, inbox.chosen)
    BY <1>4 DEF SetFilter
  <2>2. InboxRecord(i) /\ i.threads \in Seq(Threads) /\ i.sel = inbox.sel
    BY <1>1 DEF InboxRecord
  <2> HIDE DEF i
  <2> QED  BY <1>1, <2>1, <2>2, RenderKeeps
<1>5. CASE SetSearch
  <2> DEFINE i == [inbox EXCEPT !.search = ~@]
  <2>1. Render(i, inbox.chosen)
    BY <1>5 DEF SetSearch
  <2>2. InboxRecord(i) /\ i.threads \in Seq(Threads) /\ i.sel = inbox.sel
    BY <1>1 DEF InboxRecord
  <2> HIDE DEF i
  <2> QED  BY <1>1, <2>1, <2>2, RenderKeeps
<1>6. CASE PanelStep \/ TableStep \/ UNCHANGED viewVars
  <2>1. UNCHANGED inbox
    BY <1>6 DEF PanelStep, TableStep, viewVars
  <2> QED  BY <2>1 DEF InboxInv, InboxRecord, SelectionStays, Listed
<1> QED  BY <1>2, <1>3, <1>4, <1>5, <1>6 DEF ViewsNext, InboxStep

ViewsInv == PanelInv /\ TableInv /\ InboxInv

LEMMA ViewsBegin ==
    ASSUME ViewsInit PROVE ViewsInv
<1>1. PanelInv
  <2>1. PICK a \in Accounts \cup {All, Unlinked} :
           /\ panel = [sel |-> a, known |-> FALSE, shown |-> [sel |-> a, ver |-> 0, n |-> 0], mine |-> {}, write |-> 0]
           /\ loads = {[sel |-> a, ver |-> Unread, n |-> 1]}
    BY DEF ViewsInit
  <2>2. sent = 1 /\ version = 0 /\ MaxChanges \in Nat
    BY ViewsAssumption DEF ViewsInit
  <2> QED  BY <2>1, <2>2 DEF PanelInv, PanelRecord, Current, Unread
<1>2. TableInv
  BY DEF ViewsInit, TableInv
<1>3. InboxInv
  <2>1. PICK t \in Threads \cup {Nobody} :
           inbox = [threads |-> <<>>, needs |-> {}, filter |-> "all", search |-> FALSE, sel |-> Nobody,
                    focus |-> t, chosen |-> Nobody, polls |-> 0]
    BY DEF ViewsInit
  <2>2. InboxRecord(inbox) /\ inbox.threads = <<>> /\ inbox.threads \in Seq(Threads) /\ inbox.chosen = Nobody /\ inbox.sel = Nobody
    BY <2>1 DEF InboxRecord
  <2>3. Listed(inbox) = <<>>
    <3> DEFINE S == {t_1 \in Threads : (inbox.filter = "approval" => t_1 \in inbox.needs) /\ (inbox.search => t_1 \in Found)}
               s == inbox.threads
               c == Chosen(s, S)
    <3>1. Listed(inbox) = c
      BY DEF Listed
    <3>2. s \in Seq(Threads) /\ Len(s) = 0 /\ 1 .. 0 = {}
      BY <2>2
    <3> HIDE DEF S, s
    <3>3. c \in Seq(Threads) /\ \E g : Picks(s, Len(s), S, c, g)
      BY <3>2, ChosenPicks
    <3> HIDE DEF c
    <3>4. PICK g : Picks(s, Len(s), S, c, g)
      BY <3>3
    <3>5. g \in [1 .. Len(c) -> 1 .. 0]
      BY <3>2, <3>4 DEF Picks
    <3>6. 1 .. Len(c) = {}
      BY <3>2, <3>5
    <3>7. c = <<>>
      <4>1. Len(c) \in Nat /\ (Len(c) # 0 => 1 \in 1 .. Len(c))
        BY <3>3
      <4>2. Len(c) = 0
        BY <3>6, <4>1
      <4> QED  BY <3>3, <4>2
    <3> QED  BY <3>1, <3>7
  <2> QED  BY <2>2, <2>3 DEF InboxInv, SelectionStays
<1> QED  BY <1>1, <1>2, <1>3 DEF ViewsInv

(* The pages show what was asked of them (ViewsShowWhatWasAsked): the answer to
   the last request is of the filter selected and holds the writes of this page,
   the table's pages hold every matching row in order, and the selection moves
   only off a conversation that is not listed; whatever the answers' order, the
   rows and the length of a page. *)
THEOREM PagesShowWhatWasAsked == ViewsSpec => []ViewsShowWhatWasAsked
<1>1. ViewsInit => ViewsInv
  BY ViewsBegin
<1>2. ViewsInv /\ [ViewsNext]_viewVars => ViewsInv'
  BY PanelInvStep, TableInvStep, InboxInvStep DEF ViewsInv
<1>3. ViewsInv => ViewsShowWhatWasAsked
  <2> SUFFICES ASSUME ViewsInv PROVE ViewsShowWhatWasAsked
    OBVIOUS
  <2>1. PanelIsCurrent
    <3>1. /\ \A w \in panel.mine : w \in Int
          /\ panel.shown.ver \in Int
          /\ panel.shown.n = sent => panel.shown.sel = panel.sel /\ \A w \in panel.mine : w <= panel.shown.ver
      BY DEF ViewsInv, PanelInv, Current
    <3> QED  BY <3>1 DEF PanelIsCurrent
  <2>2. TableIsWhole /\ SelectionStays
    BY TableShowsAll DEF ViewsInv, InboxInv
  <2> QED  BY <2>1, <2>2 DEF ViewsShowWhatWasAsked
<1> QED  BY <1>1, <1>2, <1>3, PTL DEF ViewsSpec
=============================================================================
