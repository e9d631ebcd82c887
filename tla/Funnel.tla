------------------------------- MODULE Funnel -------------------------------
(***************************************************************************)
(* The campaign funnel: enrollment cursors, target stages and outbound     *)
(* messages, driven by the dispatch tick, the acceptance tick, the reply   *)
(* tick, the operator's approvals and removals, and invite withdrawals.    *)
(*                                                                         *)
(* All of them run in one event loop and meet only in the store, so they   *)
(* interleave at every await.  An action here is the code between two such *)
(* points that matter: what a handler read before an await (a listApproved *)
(* row, a due cursor, a parked enrollment) is kept in its own variables    *)
(* and used, stale or not, after it.  One account is modelled: accounts    *)
(* share no funnel state.                                                  *)
(***************************************************************************)
EXTENDS Naturals, Sequences, FiniteSets, Vocabulary

CONSTANTS
    Targets,          \* target rows (one enrollment each)
    Persons,          \* people; a person may be a target of several campaigns
    Campaigns,
    PersonOf,         \* [Targets -> Persons], the canonical profile key
    CampaignOf,       \* [Targets -> Campaigns]
    AutonomyOf,       \* [Campaigns -> AutonomyLevels]
    Steps,            \* the enabled steps: <<[type, wait], ...>>
    MsgIds,           \* outbound message rows that may be created
    Operators,        \* concurrent approve/reject calls
    Intents,          \* what the classifier may answer
    MaxSendAttempts,  \* tick.ts MAX_SEND_ATTEMPTS
    MaxInbound,       \* bound: messages a person writes to us
    MaxFaults,        \* bound: process crashes and lost acknowledgements
    None              \* "no row"

ASSUME FunnelAssumption ==
    /\ PersonOf \in [Targets -> Persons]
    /\ CampaignOf \in [Targets -> Campaigns]
    /\ AutonomyOf \in [Campaigns -> AutonomyLevels]
    /\ Steps \in Seq([type : StepTypes, wait : BOOLEAN])
    /\ Intents \subseteq ReplyIntents
    /\ MaxSendAttempts \in Nat /\ MaxInbound \in Nat /\ MaxFaults \in Nat
    /\ None \notin Targets \cup MsgIds
    /\ IsFiniteSet(Targets)

VARIABLES
    stage,       \* targets.stage
    cursor,      \* target_progress: state, currentStep, and whether nextStepAt has passed
    msg,         \* outbound messages: status, target, the step it was drafted for, failed rows
    suppressed,  \* people named by a target_suppressed event
    link,        \* LinkedIn's view of us and a person: "none", "pending", "connected",
                 \* or "withdrawn" (an invite taken back locks the person for weeks)
    inbound,     \* messages each person has written to us
    seen,        \* how many of those the reply tick's in-memory seen-set holds
    outstanding, \* StoreBackedOutstandingInvites.pending
    dpc, phase, sendQ, stepQ, cur,   \* the dispatch tick in flight
    accQ,        \* parked enrollments the acceptance tick found connected
    replyQ,      \* active enrollments the reply tick has still to look at
    route,       \* classify-and-route calls in flight, per caller
    op,          \* approve/reject calls in flight
    wd,          \* withdrawal in flight
    landed,      \* history: outbound actions that reached LinkedIn, per target and step
    late,        \* history: messages that reached a person who had already written to us
    faults       \* history: crashes and lost acknowledgements so far

store   == <<stage, cursor, msg, suppressed>>
world   == <<link, inbound>>
disp    == <<dpc, phase, sendQ, stepQ, cur>>
history == <<landed, late, faults>>
vars == <<store, world, seen, outstanding, disp, accQ, replyQ, route, op, wd, history>>

StepIdx == 0 .. Len(Steps)
TypeAt(k) == Steps[k + 1].type
Person(t) == PersonOf[t]
Level(t) == AutonomyOf[CampaignOf[t]]
Idle == [msg |-> None, tgt |-> None, step |-> 0, res |-> "none"]
NoRoute == [pc |-> "idle", tgt |-> None]
NoOp == [pc |-> "idle", msg |-> None, verdict |-> "none"]
NoWd == [pc |-> "idle", tgt |-> None]
Callers == {"dispatch", "reply"}

-----------------------------------------------------------------------------
(* Store operations *)

\* advanceAfterStep: onto the next step, or completed when k was the last.
AdvanceAfterStep(k) ==
    IF k + 1 >= Len(Steps)
    THEN [state |-> "completed", step |-> k + 1, due |-> TRUE]
    ELSE [state |-> "in_progress", step |-> k + 1, due |-> ~Steps[k + 2].wait]

\* stopFunnel, first update: an ACTIVE cursor goes terminal, any other stays.
Stopped(c, terminal) ==
    IF c.state \in ActiveProgressStates
    THEN [c EXCEPT !.state = terminal, !.due = TRUE]
    ELSE c

\* stopFunnel, second update: the target's undelivered messages are cancelled.
CancelMessages(ms, t) ==
    [m \in MsgIds |->
        IF ms[m].tgt = t /\ ms[m].status \in CancelableMessageStatuses
        THEN [ms[m] EXCEPT !.status = "cancelled"] ELSE ms[m]]

StopFunnel(t, terminal) ==
    /\ cursor' = [cursor EXCEPT ![t] = Stopped(@, terminal)]
    /\ msg' = CancelMessages(msg, t)

PullTargetFromFunnel(t) == StopFunnel(t, "replied")
ExcludeTargetFromFunnel(t) == StopFunnel(t, "skipped")

SetStatus(m, status) == msg' = [msg EXCEPT ![m].status = status]
SetStage(t, s) == stage' = [stage EXCEPT ![t] = s]

\* advanceTargetProgress: an UPDATE by id, whatever the row holds by now.
SetState(t, s) == cursor' = [cursor EXCEPT ![t].state = s, ![t].due = TRUE]

-----------------------------------------------------------------------------
(* What an executed action does on LinkedIn *)

\* A connect lands only where no invite is pending and no connection exists.
CanLand(t, type) == type = "connect" => link[Person(t)] = "none"

AlreadyPending(t, type) == type = "connect" /\ link[Person(t)] = "pending"

Lands(t, k) ==
    LET p == Person(t) IN
    /\ link' = IF TypeAt(k) = "connect" THEN [link EXCEPT ![p] = "pending"] ELSE link
    /\ landed' = [landed EXCEPT ![t][k] = @ + 1]
    /\ late' = IF TypeAt(k) = "message" /\ inbound[p] > 0
               THEN [late EXCEPT ![p] = @ + 1] ELSE late

\* A failed action row counts against every open message of that target and type.
CountFailure(ms, t, type) ==
    [m \in MsgIds |->
        IF ms[m].tgt = t /\ TypeAt(ms[m].step) = type
        THEN [ms[m] EXCEPT !.fails = @ + 1] ELSE ms[m]]

-----------------------------------------------------------------------------
(* The dispatch tick: approved messages first *)

\* runTick begins with a snapshot of the approved rows.
TickStart ==
    /\ dpc = "idle"
    /\ dpc' = "sends"
    /\ sendQ' = {m \in MsgIds : msg[m].status = "approved"}
    /\ UNCHANGED <<store, world, seen, outstanding, phase, stepQ, cur, accQ,
                   replyQ, route, op, wd, history>>

Dequeue(m) ==
    /\ dpc = "sends" /\ m \in sendQ
    /\ sendQ' = sendQ \ {m}

SendReturns == UNCHANGED <<dpc, phase, stepQ, cur>>
Others == <<accQ, replyQ, route, op, wd>>

\* canAct said defer or deny: the row stays approved.
SendGateClosed(m) ==
    /\ Dequeue(m) /\ SendReturns
    /\ UNCHANGED <<store, world, seen, outstanding, Others, history>>

\* The give-up cap: abandon the send, unless the whole lane is failing.
GiveUpApproved(m) ==
    /\ SetStatus(m, "cancelled")
    /\ SetState(msg[m].tgt, "failed")

\* The lane fails for several targets and lands nothing: hold the queue.
HaltSendLane == UNCHANGED <<msg, cursor>>

SendExhausted(m) ==
    /\ Dequeue(m) /\ SendReturns
    /\ msg[m].fails >= MaxSendAttempts
    /\ GiveUpApproved(m) \/ HaltSendLane
    /\ UNCHANGED <<stage, suppressed, world, seen, outstanding, Others, history>>

\* Pre-send guards: an approval overtaken by a reply, a removal or a Stop.
CancelReason(m) ==
    LET t == msg[m].tgt IN
    \/ Person(t) \in suppressed
    \/ TypeAt(msg[m].step) = "message" /\ (cursor[t].state = "replied" \/ stage[t] = "lost")

SendCancelled(m) ==
    /\ Dequeue(m) /\ SendReturns
    /\ msg[m].fails < MaxSendAttempts /\ CancelReason(m)
    /\ cursor' = [cursor EXCEPT ![msg[m].tgt] = Stopped(@, "replied")]
    /\ msg' = CancelMessages([msg EXCEPT ![m].status = "cancelled"], msg[m].tgt)
    /\ UNCHANGED <<stage, suppressed, world, seen, outstanding, Others, history>>

\* The notBefore hold of a pre-drafted message, and the way to the executor.
SendReady(m) ==
    LET t == msg[m].tgt
        isMessage == TypeAt(msg[m].step) = "message" IN
    /\ Dequeue(m)
    /\ msg[m].fails < MaxSendAttempts /\ ~CancelReason(m)
    /\ isMessage => cursor[t].due
    /\ dpc' = IF isMessage THEN "sendProbe" ELSE "sendExec"
    /\ cur' = [Idle EXCEPT !.msg = m, !.tgt = t, !.step = msg[m].step]
    /\ UNCHANGED <<store, world, seen, outstanding, phase, stepQ, Others, history>>

SendHeld(m) ==
    /\ Dequeue(m) /\ SendReturns
    /\ msg[m].fails < MaxSendAttempts /\ ~CancelReason(m)
    /\ TypeAt(msg[m].step) = "message" /\ ~cursor[msg[m].tgt].due
    /\ UNCHANGED <<store, world, seen, outstanding, Others, history>>

Goto(pc) == dpc' = pc /\ UNCHANGED <<phase, sendQ, stepQ, cur>>
Return(pc) == dpc' = pc /\ cur' = Idle /\ UNCHANGED <<phase, sendQ, stepQ>>

\* Fault: a refused send goes back into this tick's queue.
SendFailedRetries ==
    /\ dpc = "sendExec"
    /\ dpc' = "sends" /\ cur' = Idle /\ sendQ' = sendQ \cup {cur.msg}
    /\ UNCHANGED <<phase, stepQ, store, world, seen, outstanding, Others, history>>

\* The executor refused at token mint, or the send failed: still approved.
SendFailed ==
    /\ dpc = "sendExec" /\ Return("sends")
    /\ \/ UNCHANGED msg
       \/ msg' = CountFailure(msg, cur.tgt, TypeAt(cur.step))
    /\ UNCHANGED <<stage, cursor, suppressed, world, seen, outstanding, Others, history>>

\* The send reached LinkedIn but the drive threw afterwards: a failed row.
SendLostAck ==
    /\ dpc = "sendExec" /\ faults < MaxFaults
    /\ CanLand(cur.tgt, TypeAt(cur.step))
    /\ Lands(cur.tgt, cur.step)
    /\ msg' = CountFailure(msg, cur.tgt, TypeAt(cur.step))
    /\ faults' = faults + 1
    /\ Return("sends")
    /\ UNCHANGED <<stage, cursor, suppressed, inbound, seen, outstanding, Others>>

\* The action row says success; a connect joins the outstanding pile.
SendLanded ==
    /\ dpc = "sendExec"
    /\ CanLand(cur.tgt, TypeAt(cur.step))
    /\ Lands(cur.tgt, cur.step)
    /\ outstanding' = outstanding + (IF TypeAt(cur.step) = "connect" THEN 1 ELSE 0)
    /\ Goto("sendMark")
    /\ UNCHANGED <<store, inbound, seen, Others, faults>>

\* The executor's no-op: an invite to this person was already pending.
SendSkipped ==
    /\ dpc = "sendExec" /\ AlreadyPending(cur.tgt, TypeAt(cur.step))
    /\ Goto("sendSkip")
    /\ UNCHANGED <<store, world, seen, outstanding, Others, history>>

\* Fault: the row is left 'approved'.
SendMarkForgets ==
    /\ dpc = "sendMark" /\ Goto("sendPark")
    /\ UNCHANGED <<store, world, seen, outstanding, Others, history>>

SendMark ==
    /\ dpc = "sendMark"
    /\ SetStatus(cur.msg, "sent")
    /\ Goto("sendPark")
    /\ UNCHANGED <<stage, cursor, suppressed, world, seen, outstanding, Others, history>>

\* After a send: a connect parks for acceptance, anything else advances, and
\* both only if the cursor still waits for this approval.
SendPark ==
    /\ dpc = "sendPark" /\ Return("sends")
    /\ LET t == cur.tgt
           connect == TypeAt(cur.step) = "connect" IN
       /\ SetStage(t, IF connect THEN "invited" ELSE stage[t])
       /\ cursor' = [cursor EXCEPT ![t] =
                       IF @.state # "awaiting_approval" THEN @
                       ELSE IF connect
                       THEN [@ EXCEPT !.state = "awaiting_connection", !.due = TRUE]
                       ELSE AdvanceAfterStep(@.step)]
    /\ UNCHANGED <<msg, suppressed, world, seen, outstanding, Others, history>>

\* parkAfterConnect: the invite is out, or was already.
ParkAfterConnect(t, result) ==
    /\ SetStage(t, "invited")
    /\ SetState(t, IF result = "skipped" THEN "already_invited" ELSE "awaiting_connection")

SendSkip ==
    /\ dpc = "sendSkip" /\ Return("sends")
    /\ SetStatus(cur.msg, "cancelled")
    /\ ParkAfterConnect(cur.tgt, "skipped")
    /\ UNCHANGED <<suppressed, world, seen, outstanding, Others, history>>

-----------------------------------------------------------------------------
(* The dispatch tick: due cursors, then upcoming message steps *)

Snapshot(t) == <<t, cursor[t].step>>

DueTargetProgress ==
    {Snapshot(t) : t \in {u \in Targets : cursor[u].state = "in_progress" /\ cursor[u].due}}

\* Only message steps the level may not send directly are drafted early.
UpcomingDrafts ==
    {Snapshot(t) : t \in {u \in Targets :
        /\ cursor[u].state = "in_progress" /\ ~cursor[u].due
        /\ cursor[u].step < Len(Steps) /\ TypeAt(cursor[u].step) = "message"
        /\ ~MayExecuteDirectly(Level(u), "message")}}

SendsDone ==
    /\ dpc = "sends" /\ sendQ = {}
    /\ dpc' = "steps" /\ phase' = "due" /\ stepQ' = DueTargetProgress
    /\ UNCHANGED <<store, world, seen, outstanding, sendQ, cur, Others, history>>

StepsDone ==
    /\ dpc = "steps" /\ stepQ = {}
    /\ IF phase = "due"
       THEN dpc' = "steps" /\ phase' = "upcoming" /\ stepQ' = UpcomingDrafts
       ELSE dpc' = "idle" /\ phase' = "due" /\ stepQ' = {}
    /\ UNCHANGED <<store, world, seen, outstanding, sendQ, cur, Others, history>>

TakeStep(w) ==
    /\ dpc = "steps" /\ w \in stepQ
    /\ stepQ' = stepQ \ {w}

StepReturns == UNCHANGED <<dpc, phase, sendQ, cur>>

\* A cursor past the end, or on a pure wait: no action is minted.
StepWait(w) ==
    LET t == w[1]  k == w[2] IN
    /\ TakeStep(w) /\ StepReturns
    /\ \/ /\ k >= Len(Steps)
          /\ SetState(t, "completed")
       \/ /\ k < Len(Steps) /\ TypeAt(k) = "delay"
          /\ cursor' = [cursor EXCEPT ![t] =
               LET next == AdvanceAfterStep(k) IN
               IF next.state = "completed" THEN next
               ELSE [next EXCEPT !.state = cursor[t].state]]
    /\ UNCHANGED <<stage, msg, suppressed, world, seen, outstanding, Others, history>>

\* A live thread, a lost lead or a suppressed person leaves the funnel.
StepStops(t, type) ==
    \/ type = "message" /\ stage[t] \in SequenceStopStages
    \/ type = "message" /\ stage[t] = "connected" /\ Person(t) \in suppressed
    \/ type = "connect" /\ Person(t) \in suppressed

StepHolds(t, type) ==
    type = "message" /\ stage[t] \notin SequenceStopStages \cup {"connected"}

StepPulled(w) ==
    /\ TakeStep(w) /\ StepReturns
    /\ w[2] < Len(Steps) /\ StepStops(w[1], TypeAt(w[2]))
    /\ PullTargetFromFunnel(w[1])
    /\ UNCHANGED <<stage, suppressed, world, seen, outstanding, Others, history>>

StepHeld(w) ==
    /\ TakeStep(w) /\ StepReturns
    /\ w[2] < Len(Steps) /\ StepHolds(w[1], TypeAt(w[2]))
    /\ UNCHANGED <<store, world, seen, outstanding, Others, history>>

StepReady(w) ==
    LET t == w[1]  k == w[2] IN
    /\ TakeStep(w)
    /\ k < Len(Steps) /\ TypeAt(k) # "delay"
    /\ ~StepStops(t, TypeAt(k)) /\ ~StepHolds(t, TypeAt(k))
    /\ dpc' = CASE TypeAt(k) = "message" -> "stepProbe"
                [] TypeAt(k) = "connect" -> "stepLock"
                [] TypeAt(k) = "touch"   -> "stepGate"
    /\ cur' = [Idle EXCEPT !.tgt = t, !.step = k]
    /\ UNCHANGED <<store, world, seen, outstanding, phase, sendQ, Others, history>>

\* heldByOtherCampaign: the same person, contacted by another campaign.
Blockers(t) ==
    {u \in Targets : /\ Person(u) = Person(t) /\ CampaignOf[u] # CampaignOf[t]
                     /\ stage[u] \in ContactedTargetStages}

StepLock ==
    /\ dpc = "stepLock"
    /\ LET t == cur.tgt IN
       \/ /\ Blockers(t) = {}
          /\ Goto("stepGate") /\ UNCHANGED store
       \/ \E u \in Blockers(t) :
            /\ Return("steps")
            /\ IF stage[u] \in CrossCampaignHoldStages
               THEN UNCHANGED store
               ELSE /\ ExcludeTargetFromFunnel(t) /\ SetStage(t, "lost")
                    /\ UNCHANGED suppressed
    /\ UNCHANGED <<world, seen, outstanding, Others, history>>

Direct == MayExecuteDirectly(Level(cur.tgt), TypeAt(cur.step))

\* gateAct, approval branch: the draft row is created first ...
StepEnqueue ==
    /\ dpc = "stepGate" /\ ~Direct
    /\ \E m \in MsgIds :
         /\ msg[m].status = "absent"
         /\ msg' = [msg EXCEPT ![m] = [status |-> "draft", tgt |-> cur.tgt,
                                       step |-> cur.step, fails |-> 0]]
    /\ Goto("stepQueue")
    /\ UNCHANGED <<stage, cursor, suppressed, world, seen, outstanding, Others, history>>

\* Fault: the queued cursor is not parked.
StepQueueForgets ==
    /\ dpc = "stepQueue" /\ Return("steps")
    /\ UNCHANGED <<store, world, seen, outstanding, Others, history>>

\* ... and the cursor parked by a second, unconditional write.
StepQueue ==
    /\ dpc = "stepQueue" /\ Return("steps")
    /\ cursor' = [cursor EXCEPT ![cur.tgt].state = "awaiting_approval"]
    /\ UNCHANGED <<stage, msg, suppressed, world, seen, outstanding, Others, history>>

StepDeferred ==
    /\ dpc = "stepGate" /\ Direct /\ Return("steps")
    /\ UNCHANGED <<store, world, seen, outstanding, Others, history>>

\* Fault: a connect that did not land is parked like one that did.
StepFailedParks ==
    /\ dpc = "stepGate" /\ Direct /\ Return("steps")
    /\ SetState(cur.tgt, IF TypeAt(cur.step) = "connect" THEN "awaiting_connection" ELSE "failed")
    /\ UNCHANGED <<stage, msg, suppressed, world, seen, outstanding, Others, history>>

\* The executor threw or the action did not land: the cursor is failed.
StepFailed ==
    /\ dpc = "stepGate" /\ Direct /\ Return("steps")
    /\ SetState(cur.tgt, "failed")
    /\ \/ UNCHANGED msg                      \* threw before a failed row was written
       \/ msg' = CountFailure(msg, cur.tgt, TypeAt(cur.step))
    /\ UNCHANGED <<stage, suppressed, world, seen, outstanding, Others, history>>

\* It reached LinkedIn all the same: a failed row and a failed cursor.
StepLostAck ==
    /\ dpc = "stepGate" /\ Direct /\ faults < MaxFaults
    /\ CanLand(cur.tgt, TypeAt(cur.step))
    /\ Lands(cur.tgt, cur.step)
    /\ SetState(cur.tgt, "failed")
    /\ msg' = CountFailure(msg, cur.tgt, TypeAt(cur.step))
    /\ faults' = faults + 1
    /\ Return("steps")
    /\ UNCHANGED <<stage, suppressed, inbound, seen, outstanding, Others>>

StepLanded ==
    /\ dpc = "stepGate" /\ Direct
    /\ CanLand(cur.tgt, TypeAt(cur.step))
    /\ Lands(cur.tgt, cur.step)
    /\ outstanding' = outstanding + (IF TypeAt(cur.step) = "connect" THEN 1 ELSE 0)
    /\ dpc' = "stepPark" /\ cur' = [cur EXCEPT !.res = "success"]
    /\ UNCHANGED <<store, inbound, seen, phase, sendQ, stepQ, Others, faults>>

StepSkipped ==
    /\ dpc = "stepGate" /\ Direct /\ AlreadyPending(cur.tgt, TypeAt(cur.step))
    /\ dpc' = "stepPark" /\ cur' = [cur EXCEPT !.res = "skipped"]
    /\ UNCHANGED <<store, world, seen, outstanding, phase, sendQ, stepQ, Others, history>>

\* Park a connect, or take the shared advance rule from the snapshot's step.
StepPark ==
    /\ dpc = "stepPark" /\ Return("steps")
    /\ IF TypeAt(cur.step) = "connect"
       THEN ParkAfterConnect(cur.tgt, cur.res)
       ELSE /\ cursor' = [cursor EXCEPT ![cur.tgt] = AdvanceAfterStep(cur.step)]
            /\ UNCHANGED stage
    /\ UNCHANGED <<msg, suppressed, world, seen, outstanding, Others, history>>

-----------------------------------------------------------------------------
(* Replies: the send-time and draft-time probe, the reply tick, the router *)

ProbePc == {"sendProbe", "stepProbe"}
AfterProbe(pc) == IF pc = "sendProbe" THEN "sendExec" ELSE "stepLock"
Loop(pc) == IF pc \in {"sendProbe", "sendRoute"} THEN "sends" ELSE "steps"

\* A broken reply lane fails closed for a send; a draft goes on to the human.
BrokenLane(pc) ==
    IF pc \in {"stepProbe", "stepRoute"} /\ ~Direct THEN Goto("stepLock") ELSE Return(Loop(pc))

ProbeThrows ==
    /\ dpc \in ProbePc /\ BrokenLane(dpc)
    /\ UNCHANGED <<store, world, seen, outstanding, Others, history>>

\* Fault: a reply the reply tick has seen is taken for no reply.
ProbeTrustsSeen ==
    LET p == Person(cur.tgt) IN
    /\ dpc \in ProbePc
    /\ \/ /\ inbound[p] = seen[p]
          /\ Goto(AfterProbe(dpc)) /\ UNCHANGED <<seen, route>>
       \/ /\ seen[p] < inbound[p]
          /\ seen' = [seen EXCEPT ![p] = inbound[p]]
          /\ route' = [route EXCEPT !["dispatch"] = [pc |-> "classify", tgt |-> cur.tgt]]
          /\ Goto(IF dpc = "sendProbe" THEN "sendRoute" ELSE "stepRoute")
    /\ UNCHANGED <<store, world, outstanding, accQ, replyQ, op, wd, history>>

\* Any inbound in the thread answers true; the newest unseen one is routed.
Probe ==
    LET p == Person(cur.tgt) IN
    /\ dpc \in ProbePc
    /\ \/ /\ inbound[p] = 0
          /\ Goto(AfterProbe(dpc)) /\ UNCHANGED <<seen, route>>
       \/ /\ inbound[p] > 0 /\ seen[p] = inbound[p]
          /\ Return(Loop(dpc)) /\ UNCHANGED <<seen, route>>
       \/ /\ seen[p] < inbound[p]
          /\ seen' = [seen EXCEPT ![p] = inbound[p]]
          /\ route' = [route EXCEPT !["dispatch"] = [pc |-> "classify", tgt |-> cur.tgt]]
          /\ Goto(IF dpc = "sendProbe" THEN "sendRoute" ELSE "stepRoute")
    /\ UNCHANGED <<store, world, outstanding, accQ, replyQ, op, wd, history>>

\* The probe's caller resumes: true holds the send, a throw is a broken lane.
ProbeReturns ==
    /\ dpc \in {"sendRoute", "stepRoute"}
    /\ \/ route["dispatch"].pc = "idle" /\ Return(Loop(dpc))
       \/ route["dispatch"].pc = "threw" /\ BrokenLane(dpc)
    /\ route' = [route EXCEPT !["dispatch"] = NoRoute]
    /\ UNCHANGED <<store, world, seen, outstanding, accQ, replyQ, op, wd, history>>

\* Fault: parked enrollments are left out of the scan.
ReplyScanRunning ==
    /\ replyQ = {} /\ route["reply"].pc = "idle"
    /\ replyQ' = {t \in Targets : cursor[t].state = "in_progress" /\ inbound[Person(t)] > 0}
    /\ replyQ' # {}
    /\ UNCHANGED <<store, world, seen, outstanding, disp, accQ, route, op, wd, history>>

\* The reply tick snapshots the active enrollments ...
ReplyScan ==
    /\ replyQ = {} /\ route["reply"].pc = "idle"
    /\ replyQ' = {t \in Targets : cursor[t].state \in ActiveProgressStates
                                  /\ inbound[Person(t)] > 0}
    /\ replyQ' # {}
    /\ UNCHANGED <<store, world, seen, outstanding, disp, accQ, route, op, wd, history>>

\* ... and routes the newest message of each thread unless it has been seen,
\* marking it seen before the classifier runs.
ReplyHandle(t) ==
    /\ t \in replyQ /\ route["reply"].pc = "idle"
    /\ replyQ' = replyQ \ {t}
    /\ IF seen[Person(t)] = inbound[Person(t)]
       THEN UNCHANGED <<seen, route>>
       ELSE /\ seen' = [seen EXCEPT ![Person(t)] = inbound[Person(t)]]
            /\ route' = [route EXCEPT !["reply"] = [pc |-> "classify", tgt |-> t]]
    /\ UNCHANGED <<store, world, outstanding, disp, accQ, op, wd, history>>

RouteClassified(c) ==
    /\ route[c].pc = "classify"
    /\ route' = [route EXCEPT ![c].pc = "pull"]
    /\ UNCHANGED <<store, world, seen, outstanding, disp, accQ, replyQ, op, wd, history>>

\* The classifier threw: a reply-tick pass ends there, a probe fails.
RouteThrows(c) ==
    /\ route[c].pc = "classify"
    /\ IF c = "reply"
       THEN route' = [route EXCEPT ![c] = NoRoute] /\ replyQ' = {}
       ELSE route' = [route EXCEPT ![c].pc = "threw"] /\ UNCHANGED replyQ
    /\ UNCHANGED <<store, world, seen, outstanding, disp, accQ, op, wd, history>>

\* ReplyRouter.route: leave the funnel first, whatever the intent ...
RoutePull(c) ==
    /\ route[c].pc = "pull"
    /\ route' = [route EXCEPT ![c].pc = "intent"]
    /\ PullTargetFromFunnel(route[c].tgt)
    /\ UNCHANGED <<stage, suppressed, world, seen, outstanding, disp, accQ, replyQ,
                   op, wd, history>>

\* ... then act on the intent.
RouteIntent(c, intent) ==
    /\ route[c].pc = "intent"
    /\ SetStage(route[c].tgt, StageOfIntent(intent))
    /\ suppressed' = IF intent = "Stop" THEN suppressed \cup {Person(route[c].tgt)}
                                        ELSE suppressed
    /\ route' = [route EXCEPT ![c] = NoRoute]
    /\ UNCHANGED <<cursor, msg, world, seen, outstanding, disp, accQ, replyQ, op, wd, history>>

-----------------------------------------------------------------------------
(* The acceptance tick *)

\* Fault: every parked enrollment counts as accepted.
AcceptanceScanAll ==
    /\ accQ = {}
    /\ accQ' = {Snapshot(t) : t \in {u \in Targets : cursor[u].state = "awaiting_connection"}}
    /\ accQ' # {}
    /\ UNCHANGED <<store, world, seen, outstanding, disp, replyQ, route, op, wd, history>>

\* One pass reads the parked enrollments and the account's connections ...
AcceptanceScan ==
    /\ accQ = {}
    /\ accQ' = {Snapshot(t) : t \in {u \in Targets :
                  cursor[u].state = "awaiting_connection" /\ link[Person(u)] = "connected"}}
    /\ accQ' # {}
    /\ UNCHANGED <<store, world, seen, outstanding, disp, replyQ, route, op, wd, history>>

Less1(n) == IF n = 0 THEN 0 ELSE n - 1

\* Fault: the stage is stamped, the cursor is not moved.
ReleaseParked(w) ==
    /\ w \in accQ /\ accQ' = accQ \ {w}
    /\ SetStage(w[1], "connected")
    /\ outstanding' = Less1(outstanding)
    /\ UNCHANGED <<cursor, msg, suppressed, world, seen, disp, replyQ, route, op, wd, history>>

\* ... and releases each match past the connect step of the row it read.
Release(w) ==
    /\ w \in accQ /\ accQ' = accQ \ {w}
    /\ SetStage(w[1], "connected")
    /\ cursor' = [cursor EXCEPT ![w[1]] = AdvanceAfterStep(w[2])]
    /\ outstanding' = Less1(outstanding)
    /\ UNCHANGED <<msg, suppressed, world, seen, disp, replyQ, route, op, wd, history>>

-----------------------------------------------------------------------------
(* Operators: decisions on drafts, removals, withdrawals *)

\* ApprovalService.decide reads the row and refuses anything but a draft ...
DecideRead(o, m, verdict) ==
    /\ op[o].pc = "idle" /\ msg[m].status = "draft"
    /\ op' = [op EXCEPT ![o] = [pc |-> "decide", msg |-> m, verdict |-> verdict]]
    /\ UNCHANGED <<store, world, seen, outstanding, disp, accQ, replyQ, route, wd, history>>

\* ... and after the approval row is written, sets the status unconditionally.
DecideWrite(o) ==
    /\ op[o].pc = "decide"
    /\ SetStatus(op[o].msg, op[o].verdict)
    /\ op' = [op EXCEPT ![o] = IF op[o].verdict = "rejected"
                               THEN [@ EXCEPT !.pc = "resolve"] ELSE NoOp]
    /\ UNCHANGED <<stage, cursor, suppressed, world, seen, outstanding, disp, accQ,
                   replyQ, route, wd, history>>

\* onApprovalResolved(rejected): a cursor parked for approval is skipped.
DecideResolve(o) ==
    /\ op[o].pc = "resolve"
    /\ cursor' = [cursor EXCEPT ![msg[op[o].msg].tgt] =
         IF @.state = "awaiting_approval" THEN [@ EXCEPT !.state = "skipped", !.due = TRUE] ELSE @]
    /\ op' = [op EXCEPT ![o] = NoOp]
    /\ UNCHANGED <<stage, msg, suppressed, world, seen, outstanding, disp, accQ,
                   replyQ, route, wd, history>>

\* removeTargets: leave the funnel; 'lost' only if real outreach happened.
RemoveTarget(t) ==
    /\ ExcludeTargetFromFunnel(t)
    /\ SetStage(t, IF stage[t] \in ContactedTargetStages THEN "lost" ELSE stage[t])
    /\ UNCHANGED <<suppressed, world, seen, outstanding, disp, accQ, replyQ, route,
                   op, wd, history>>

\* A withdrawal reaches LinkedIn: the gated withdraw_invite on a target (later
\* 'withdrawn'), or the stale sweep on that person's invite (later 'skipped').
\* Pacing keeps the first, and the invite's age the second, apart from a
\* connect that has landed but not yet parked.
Withdraw(t, terminal) ==
    /\ wd.pc = "idle" /\ link[Person(t)] = "pending"
    /\ dpc \notin {"sendMark", "sendPark", "stepPark"}
    /\ link' = [link EXCEPT ![Person(t)] = "withdrawn"]
    /\ wd' = [pc |-> terminal, tgt |-> t]
    /\ UNCHANGED <<store, inbound, seen, outstanding, disp, accQ, replyQ, route, op, history>>

Parked == {t \in Targets : cursor[t].state = "awaiting_connection"}

\* releaseWithdrawnCursor looks at the target it was given, releaseParkedCursor
\* for a parked enrollment of the invitee.
WithdrawnCursors ==
    {t \in Parked : IF wd.pc = "withdrawn" THEN t = wd.tgt ELSE Person(t) = Person(wd.tgt)}

\* Fault: the pile shrinks whether or not a cursor matched.
WithdrawReleaseAlways ==
    /\ wd.pc # "idle" /\ wd' = NoWd
    /\ outstanding' = Less1(outstanding)
    /\ \/ \E t \in WithdrawnCursors : SetStage(t, "lost") /\ SetState(t, wd.pc)
       \/ WithdrawnCursors = {} /\ UNCHANGED <<stage, cursor>>
    /\ UNCHANGED <<msg, suppressed, world, seen, disp, accQ, replyQ, route, op, history>>

\* Fault: the cursor is given the target's stage.
WithdrawReleaseLost ==
    /\ wd.pc # "idle" /\ wd' = NoWd
    /\ \E t \in WithdrawnCursors : SetStage(t, "lost") /\ SetState(t, "lost")
    /\ outstanding' = Less1(outstanding)
    /\ UNCHANGED <<msg, suppressed, world, seen, disp, accQ, replyQ, route, op, history>>

WithdrawRelease ==
    /\ wd.pc # "idle" /\ wd' = NoWd
    /\ \/ \E t \in WithdrawnCursors :
            /\ SetStage(t, "lost") /\ SetState(t, wd.pc)
            /\ outstanding' = Less1(outstanding)
       \/ WithdrawnCursors = {} /\ UNCHANGED <<stage, cursor, outstanding>>
    /\ UNCHANGED <<msg, suppressed, world, seen, disp, accQ, replyQ, route, op, history>>

-----------------------------------------------------------------------------
(* The environment *)

Accept(p) ==
    /\ link[p] = "pending"
    /\ link' = [link EXCEPT ![p] = "connected"]
    /\ UNCHANGED <<store, inbound, seen, outstanding, disp, Others, history>>

Write(p) ==
    /\ link[p] = "connected" /\ inbound[p] < MaxInbound
    /\ inbound' = [inbound EXCEPT ![p] = @ + 1]
    /\ UNCHANGED <<store, link, seen, outstanding, disp, Others, history>>

\* nextStepAt passes.
Elapse(t) ==
    /\ ~cursor[t].due
    /\ cursor' = [cursor EXCEPT ![t].due = TRUE]
    /\ UNCHANGED <<stage, msg, suppressed, world, seen, outstanding, disp, Others, history>>

\* The process dies and boots: in-flight work and the seen-set are gone and
\* the outstanding pile is counted again from the parked cursors.
Crash ==
    /\ faults < MaxFaults /\ faults' = faults + 1
    /\ dpc' = "idle" /\ phase' = "due" /\ sendQ' = {} /\ stepQ' = {} /\ cur' = Idle
    /\ accQ' = {} /\ replyQ' = {}
    /\ route' = [c \in Callers |-> NoRoute]
    /\ op' = [o \in Operators |-> NoOp]
    /\ wd' = NoWd
    /\ seen' = [p \in Persons |-> 0]
    /\ outstanding' = Cardinality(Parked)
    /\ UNCHANGED <<store, world, landed, late>>

-----------------------------------------------------------------------------
Init ==
    /\ stage = [t \in Targets |-> "sourced"]
    /\ cursor = [t \in Targets |-> [state |-> "in_progress", step |-> 0, due |-> TRUE]]
    /\ msg = [m \in MsgIds |-> [status |-> "absent", tgt |-> None, step |-> 0, fails |-> 0]]
    /\ suppressed = {}
    /\ link = [p \in Persons |-> "none"]
    /\ inbound = [p \in Persons |-> 0]
    /\ seen = [p \in Persons |-> 0]
    /\ outstanding = 0
    /\ dpc = "idle" /\ phase = "due" /\ sendQ = {} /\ stepQ = {} /\ cur = Idle
    /\ accQ = {} /\ replyQ = {}
    /\ route = [c \in Callers |-> NoRoute]
    /\ op = [o \in Operators |-> NoOp]
    /\ wd = NoWd
    /\ landed = [t \in Targets |-> [k \in StepIdx |-> 0]]
    /\ late = [p \in Persons |-> 0]
    /\ faults = 0

SendStep ==
    \/ \E m \in MsgIds : \/ SendGateClosed(m) \/ SendExhausted(m) \/ SendCancelled(m)
                         \/ SendReady(m) \/ SendHeld(m)
    \/ SendFailed \/ SendLostAck \/ SendLanded \/ SendSkipped
    \/ SendMark \/ SendPark \/ SendSkip \/ SendsDone

CursorStep ==
    \/ \E w \in stepQ : \/ StepWait(w) \/ StepPulled(w) \/ StepHeld(w) \/ StepReady(w)
    \/ StepLock \/ StepEnqueue \/ StepQueue \/ StepDeferred \/ StepFailed
    \/ StepLostAck \/ StepLanded \/ StepSkipped \/ StepPark \/ StepsDone

ProbeStep == Probe \/ ProbeThrows \/ ProbeReturns

RouteStep(c) ==
    \/ RouteClassified(c) \/ RouteThrows(c) \/ RoutePull(c)
    \/ \E i \in Intents : RouteIntent(c, i)

ReplyStep == ReplyScan \/ \E t \in replyQ : ReplyHandle(t)

AcceptanceStep == AcceptanceScan \/ \E w \in accQ : Release(w)

OperatorStep ==
    \/ \E o \in Operators :
         \/ \E m \in MsgIds, v \in {"approved", "rejected"} : DecideRead(o, m, v)
         \/ DecideWrite(o) \/ DecideResolve(o)
    \/ \E t \in Targets : RemoveTarget(t) \/ Withdraw(t, "withdrawn") \/ Withdraw(t, "skipped")
    \/ WithdrawRelease

Environment ==
    \/ \E p \in Persons : Accept(p) \/ Write(p)
    \/ \E t \in Targets : Elapse(t)
    \/ Crash

Next ==
    \/ TickStart \/ SendStep \/ CursorStep \/ ProbeStep
    \/ \E c \in Callers : RouteStep(c)
    \/ ReplyStep \/ AcceptanceStep \/ OperatorStep \/ Environment

Spec == Init /\ [][Next]_vars

DispatchStep == TickStart \/ SendStep \/ CursorStep \/ ProbeStep

\* The timers keep firing and every await settles; people, operators, the
\* clock and crashes owe nothing.
Fairness ==
    /\ WF_vars(DispatchStep)
    /\ \A c \in Callers : WF_vars(RouteStep(c))
    /\ WF_vars(ReplyStep)
    /\ WF_vars(AcceptanceStep)
    /\ WF_vars(WithdrawRelease)
    /\ \A o \in Operators : WF_vars(DecideWrite(o) \/ DecideResolve(o))

FairSpec == Spec /\ Fairness

-----------------------------------------------------------------------------
(* Properties *)

CursorType == [state : ProgressStates, step : Nat, due : BOOLEAN]
MsgType == [status : MessageStatuses \cup {"absent"}, tgt : Targets \cup {None},
            step : Nat, fails : Nat]
CurType == [msg : MsgIds \cup {None}, tgt : Targets \cup {None}, step : Nat,
            res : {"none", "success", "skipped"}]
RouteType == [pc : {"idle", "classify", "pull", "intent", "threw"}, tgt : Targets \cup {None}]
OpType ==
    {NoOp} \cup [pc : {"decide", "resolve"}, msg : MsgIds, verdict : {"approved", "rejected"}]
DispatchPc ==
    {"idle", "sends", "sendProbe", "sendRoute", "sendExec", "sendMark", "sendPark", "sendSkip",
     "steps", "stepProbe", "stepRoute", "stepLock", "stepGate", "stepQueue", "stepPark"}

StoreOK ==
    /\ stage \in [Targets -> TargetStages]
    /\ cursor \in [Targets -> CursorType]
    /\ msg \in [MsgIds -> MsgType]
    /\ suppressed \subseteq Persons

WorldOK ==
    /\ link \in [Persons -> {"none", "pending", "connected", "withdrawn"}]
    /\ inbound \in [Persons -> 0 .. MaxInbound]
    /\ seen \in [Persons -> 0 .. MaxInbound]
    /\ outstanding \in Nat

DispOK ==
    /\ dpc \in DispatchPc /\ phase \in {"due", "upcoming"}
    /\ sendQ \subseteq MsgIds
    /\ stepQ \subseteq Targets \X Nat
    /\ cur \in CurType

OthersOK ==
    /\ accQ \subseteq Targets \X Nat
    /\ replyQ \subseteq Targets
    /\ route \in [Callers -> RouteType]
    /\ op \in [Operators -> OpType]
    /\ wd \in [pc : {"idle", "withdrawn", "skipped"}, tgt : Targets \cup {None}]

HistoryOK ==
    /\ landed \in [Targets -> [StepIdx -> Nat]]
    /\ late \in [Persons -> Nat]
    /\ faults \in 0 .. MaxFaults

\* Every row and every process variable stays within its declared values: no
\* handler writes a state, stage or status outside the shared vocabulary.
TypeOK == StoreOK /\ WorldOK /\ DispOK /\ OthersOK /\ HistoryOK

\* Whatever a handler still works on after its awaits is a row that exists:
\* the queued messages, the cursor being dispatched, the reply being routed.
RowsExist ==
    /\ \A m \in MsgIds : msg[m].status # "absent" => msg[m].tgt \in Targets
    /\ \A m \in sendQ : msg[m].status # "absent"
    /\ dpc \in {"sendProbe", "sendRoute", "sendExec", "sendMark", "sendSkip"} =>
          cur.msg \in MsgIds /\ msg[cur.msg].status # "absent"
    /\ \A o \in Operators : op[o].pc # "idle" => msg[op[o].msg].status # "absent"
    /\ dpc \notin {"idle", "sends", "steps"} => cur.tgt \in Targets
    /\ \A c \in Callers : route[c].pc # "idle" => route[c].tgt \in Targets

\* A message reaches only a first-degree connection: the connect step parks,
\* and nothing but an observed acceptance lets the sequence past it.
MessageOnlyAfterAcceptance ==
    \A t \in Targets, k \in StepIdx :
        k < Len(Steps) /\ TypeAt(k) = "message" /\ landed[t][k] > 0
            => link[Person(t)] = "connected"

\* Once a person has written to us, at most the one message that had already
\* passed its reply probe can still reach them, whatever else fails.
AtMostOneMessageAfterReply == \A p \in Persons : late[p] <= 1

\* Each step of a sequence reaches its person once, and once more at most for
\* each crash or lost acknowledgement.
SendOnce == \A t \in Targets, k \in StepIdx : landed[t][k] <= 1 + faults

\* A step has one open draft, and one more at most for each crash between the
\* draft row and the parked cursor.
OneOpenDraft ==
    \A t \in Targets, k \in StepIdx :
        Cardinality({m \in MsgIds : /\ msg[m].tgt = t /\ msg[m].step = k
                                    /\ msg[m].status \in CancelableMessageStatuses})
            <= 1 + faults

\* The in-memory pile the safety gate limits never undercounts the invites
\* the funnel is waiting on.
OutstandingCoversParked == outstanding >= Cardinality(Parked)

\* No lead waits for the acceptance of an invite that does not exist, beyond
\* those a crash cut off between a withdrawal and its cursor update.
ParkedInviteExists ==
    Cardinality({t \in Parked : link[Person(t)] \notin {"pending", "connected"} /\ wd.tgt # t}) <= faults

\* An accepted invite gets its cursor out of the parking state.
AcceptedIsReleased ==
    \A t \in Targets :
        t \in Parked /\ link[Person(t)] = "connected" ~> t \notin Parked

\* A tick ends, so that the next may start: no throwing classifier, refused
\* action or overtaken cursor leaves the running flag set.
TickEnds == dpc # "idle" ~> dpc = "idle"

\* A message from a person with a live enrollment, parked or running, is
\* noticed; a restart forgets what was noticed and notices it again.
ReplyIsNoticed ==
    \A t \in Targets :
        inbound[Person(t)] > seen[Person(t)] /\ cursor[t].state \in ActiveProgressStates
            ~> seen[Person(t)] = inbound[Person(t)] \/ cursor[t].state \notin ActiveProgressStates

\* 'replied' is terminal: once a reply has taken a lead out of the funnel no
\* later write puts it back.
RepliedIsTerminal ==
    [][\A t \in Targets : cursor[t].state = "replied" => cursor'[t].state = "replied"]_vars

Held(t) ==
    /\ cursor[t].state = "in_progress"
    /\ \E u \in Blockers(t) : stage[u] \in CrossCampaignHoldStages

\* A live lead is held for another campaign's invite only until that invite is
\* accepted or withdrawn.
HoldResolves ==
    \A t \in Targets :
        Held(t) /\ link[Person(t)] \in {"connected", "withdrawn"} ~> ~Held(t)

Delivered(p) ==
    {w \in Targets \X StepIdx : /\ Person(w[1]) = p /\ landed[w[1]][w[2]] > 0
                               /\ w[2] < Len(Steps) /\ TypeAt(w[2]) = "message"}

Contract == INSTANCE Outreach WITH
    Contents <- Targets \X StepIdx,
    wrote <- {p \in Persons : inbound[p] > 0},
    got <- [p \in Persons |-> Delivered(p)],
    after <- {p \in Persons : late[p] > 0}

\* All of it together keeps the promise made to a person: every step of the
\* ticks, operators and crashes is a step of the abstract outreach, or none.
KeepsPromise == Contract!Promise
=============================================================================
