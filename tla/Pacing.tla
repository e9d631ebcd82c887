------------------------------- MODULE Pacing -------------------------------
(***************************************************************************)
(* The pacing scheduler: the working time given to a queued follow-up of   *)
(* the agent loop or the reply router, and the actions a tick may run at   *)
(* once.                                                                   *)
(***************************************************************************)
EXTENDS Schedule

CONSTANTS
    MaxGap,   \* the largest jitter gap, in half hours
    MaxQueue, \* bound: queued follow-ups
    MaxBatch  \* bound: queued actions of one call of dueActions

ASSUME PacingAssumption == MaxGap \in Nat /\ MaxQueue \in Nat /\ MaxBatch \in Nat

VARIABLES
    queue,  \* the follow-ups held in memory: asked for, paced to
    batch   \* the last call of dueActions: its queue, what was used, its answer

pacingVars == <<queue, batch>>

-----------------------------------------------------------------------------
(* scheduler.ts *)

\* jitterMs: a gap from the configured span.
Gaps == 0 .. MaxGap

\* Fault: the jitter may leave the window.
NextRunAtUnclamped(at, gap) ==
    NextWorkingInstant(IF at > now THEN at ELSE now, sched) + gap

\* nextRunAt: into the window, a jitter gap on, and into the window again.
NextRunAt(at, gap) ==
    NextWorkingInstant(NextWorkingInstant(IF at > now THEN at ELSE now, sched) + gap, sched)

\* enqueueFollowUp, of either port.
EnqueueFollowUp ==
    /\ Len(queue) < MaxQueue
    /\ \E at \in (IF now = 0 THEN 0 ELSE now - 1) .. now + Day, gap \in Gaps :
           queue' = Append(queue, [asked |-> at, gap |-> gap, notBefore |-> NextRunAt(at, gap)])
    /\ UNCHANGED batch

\* What the scheduler knows of an action: its type, its dedup key, its time
\* (before, at or after now) and canAct's answer.
QueuedActions == [type : {"connect", "message"}, key : 1 .. 2, at : {-1, 0, 1}, allow : BOOLEAN]

\* Earliest first, then by id.
Sooner(q, a, b) == q[a].at < q[b].at \/ (q[a].at = q[b].at /\ a < b)

Ordered(q) ==
    LET nth(i) == CHOOSE a \in DOMAIN q : Cardinality({b \in DOMAIN q : Sooner(q, b, a)}) = i - 1 IN
    [i \in DOMAIN q |-> nth(i)]

OfType(q, due, type) == {a \in due : q[a].type = type}

\* One turn of the loop: no duplicate of a selected action, due, within what
\* is left of the cap, allowed.
Selects(q, used, due, a) ==
    /\ \A b \in due : q[b].key # q[a].key
    /\ q[a].at <= 0 /\ used + Cardinality(OfType(q, due, q[a].type)) < Cap /\ q[a].allow

DueActions(q, used) ==
    LET order == Ordered(q)
        due[i \in 0 .. Len(q)] ==
          IF i = 0 THEN {}
          ELSE IF Selects(q, used, due[i - 1], order[i]) THEN due[i - 1] \cup {order[i]}
          ELSE due[i - 1]
    IN  IF IsWithinWorkingHours(now, sched) THEN due[Len(q)] ELSE {}

\* The service's dueActions, for any queue it may be handed.
CallDueActions ==
    /\ batch = <<>>
    /\ \E n \in 0 .. MaxBatch, used \in 0 .. Cap : \E q \in [1 .. n -> QueuedActions] :
           batch' = <<[queue |-> q, used |-> used, due |-> DueActions(q, used)]>>
    /\ UNCHANGED queue

PacingInit == queue = <<>> /\ batch = <<>>

PacingNext == (EnqueueFollowUp \/ CallDueActions) /\ UNCHANGED vars

PacingSpec == Init /\ PacingInit /\ [][PacingNext]_<<vars, pacingVars>>

-----------------------------------------------------------------------------
(* A paced follow-up runs inside the working window, not before it was asked
   for, and at least the gap after the first moment it could have run:
   jitter never carries it out of hours. *)
PacedIntoWindow ==
    sched.days # {} /\ HourGateOn(sched) =>
        \A i \in DOMAIN queue :
            LET t == queue[i].notBefore
                from == IF queue[i].asked > now THEN queue[i].asked ELSE now
                first == Min({u \in from .. t : IsWithinWorkingHours(u, sched)}) IN
            IsWithinWorkingHours(t, sched) /\ t >= first + queue[i].gap

(* A batch holds no two actions of one key and, with what was used before, no
   more of a type than the cap; and it leaves no room: an allowed, due action
   is left out only for a batch that holds its key or has spent its type's
   cap, and out of hours nothing runs. *)
BatchIsExact ==
    batch # <<>> =>
        LET b == batch[1]
            spent(type) == b.used + Cardinality(OfType(b.queue, b.due, type)) >= Cap IN
        /\ \A x, y \in b.due : b.queue[x].key = b.queue[y].key => x = y
        /\ \A x \in b.due : b.used + Cardinality(OfType(b.queue, b.due, b.queue[x].type)) <= Cap
        /\ \A x \in DOMAIN b.queue \ b.due :
               IsWithinWorkingHours(now, sched) /\ b.queue[x].at <= 0 /\ b.queue[x].allow =>
                   spent(b.queue[x].type) \/ \E y \in b.due : b.queue[y].key = b.queue[x].key
        /\ ~IsWithinWorkingHours(now, sched) => b.due = {}

\* Working time and budget are handed out exactly: a deferral and a delay find
\* the first working moment, follow-ups are paced into the window and a batch
\* fits the budget.
PacingHolds == WorkingTimeIsFound /\ PacedIntoWindow /\ BatchIsExact
=============================================================================
