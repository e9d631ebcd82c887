-------------------------- MODULE FunnelOnceProofs --------------------------
(***************************************************************************)
(* Theorems about the counts Funnel keeps: what reaches a person once, what *)
(* is drafted once, and the pile of invites nobody has answered yet.       *)
(***************************************************************************)
EXTENDS FunnelProofs, Dashboard

-----------------------------------------------------------------------------
(* Counting *)

\* What fits in a finite set and one element more has at most one element more.
LEMMA OneMore ==
    ASSUME NEW S, IsFiniteSet(S), NEW x, NEW T \in SUBSET (S \cup {x})
    PROVE  /\ IsFiniteSet(T) /\ Cardinality(T) \in Nat /\ Cardinality(S) \in Nat
           /\ Cardinality(T) <= Cardinality(S) + 1
<1>1. Cardinality(S) \in Nat
  BY FS_CardinalityType
<1>2. /\ IsFiniteSet(S \cup {x})
      /\ Cardinality(S \cup {x}) = Cardinality(S) \/ Cardinality(S \cup {x}) = Cardinality(S) + 1
  BY FS_AddElement
<1>3. IsFiniteSet(T) /\ Cardinality(T) <= Cardinality(S \cup {x}) /\ Cardinality(T) \in Nat
  BY <1>2, FS_Subset, FS_CardinalityType
<1> QED  BY <1>1, <1>2, <1>3

\* What fits in a finite set without one of its elements has one element less.
LEMMA OneLess ==
    ASSUME NEW S, IsFiniteSet(S), NEW x \in S, NEW T \in SUBSET (S \ {x})
    PROVE  /\ IsFiniteSet(T) /\ Cardinality(T) \in Nat /\ Cardinality(S) \in Nat
           /\ Cardinality(T) + 1 <= Cardinality(S)
<1>1. Cardinality(S) \in Nat
  BY FS_CardinalityType
<1>2. IsFiniteSet(S \ {x}) /\ Cardinality(S \ {x}) = Cardinality(S) - 1
  BY FS_RemoveElement
<1>3. IsFiniteSet(T) /\ Cardinality(T) <= Cardinality(S \ {x}) /\ Cardinality(T) \in Nat
  BY <1>2, FS_Subset, FS_CardinalityType
<1> QED  BY <1>1, <1>2, <1>3

-----------------------------------------------------------------------------
(* What a step may do to a cursor *)

\* Where a cursor goes when no tick drives it: out of the funnel, or parked for
\* good.
SettledStates == ProgressStates \ {"in_progress", "awaiting_approval", "awaiting_connection"}

\* A step that drives no cursor: each keeps its place, or settles where it is.
QuietCursors ==
    \A t \in Targets : /\ cursor'[t].step = cursor[t].step
                       /\ cursor'[t].state = cursor[t].state \/ cursor'[t].state \in SettledStates

\* advanceTargetProgress to a settled state is quiet.
LEMMA StateQuiet ==
    ASSUME StoreOK, NEW u, NEW s \in SettledStates, SetState(u, s) PROVE QuietCursors
BY DEF StoreOK, CursorType, SetState, QuietCursors

\* So is stopFunnel's update.
LEMMA StopQuiet ==
    ASSUME StoreOK, NEW u, NEW s \in {"replied", "skipped"},
           cursor' = [cursor EXCEPT ![u] = Stopped(@, s)]
    PROVE  QuietCursors
BY DEF StoreOK, CursorType, Stopped, QuietCursors, SettledStates, ProgressStates

\* So is touching none.
LEMMA SameQuiet == ASSUME UNCHANGED cursor PROVE QuietCursors
BY DEF QuietCursors

\* The approved-message loop moves a cursor only once its send has landed.
LEMMA SendQuiet ==
    ASSUME TypeOK, SendStep, ~SendPark PROVE QuietCursors
<1> USE DEF TypeOK
<1>1. ASSUME NEW m \in MsgIds, SendGateClosed(m) \/ SendHeld(m) \/ SendReady(m)
      PROVE  QuietCursors
  BY <1>1, SameQuiet DEF SendGateClosed, SendHeld, SendReady, store
<1>2. ASSUME NEW m \in MsgIds, SendExhausted(m) PROVE QuietCursors
  BY <1>2, SameQuiet, StateQuiet
     DEF SendExhausted, GiveUpApproved, HaltSendLane, SettledStates, ProgressStates
<1>3. ASSUME NEW m \in MsgIds, SendCancelled(m) PROVE QuietCursors
  BY <1>3, StopQuiet DEF SendCancelled
<1>4. CASE SendSkip
  BY <1>4, StateQuiet DEF SendSkip, ParkAfterConnect, SettledStates, ProgressStates
<1>5. CASE SendFailed \/ SendLostAck \/ SendLanded \/ SendSkipped \/ SendMark \/ SendsDone
  BY <1>5, SameQuiet DEF SendFailed, SendLostAck, SendLanded, SendSkipped, SendMark, SendsDone, store
<1> QED  BY <1>1, <1>2, <1>3, <1>4, <1>5 DEF SendStep

\* The steps of the cursor loops that drive the cursor they were given.
DrivesCursor == (\E w \in stepQ : StepWait(w)) \/ StepQueue \/ StepPark

\* The others of those loops leave every cursor in its place or settle it.
LEMMA CursorStepQuiet ==
    ASSUME TypeOK, CursorStep, ~DrivesCursor PROVE QuietCursors
<1> USE DEF TypeOK
<1>1. ASSUME NEW w \in stepQ, StepHeld(w) \/ StepReady(w) PROVE QuietCursors
  BY <1>1, SameQuiet DEF StepHeld, StepReady, store
<1>2. ASSUME NEW w \in stepQ, StepPulled(w) PROVE QuietCursors
  BY <1>2, StopQuiet DEF StepPulled, PullTargetFromFunnel, StopFunnel
<1>3. CASE StepLock
  BY <1>3, SameQuiet, StopQuiet DEF StepLock, ExcludeTargetFromFunnel, StopFunnel, store
<1>4. CASE StepFailed \/ StepLostAck
  BY <1>4, StateQuiet DEF StepFailed, StepLostAck, SettledStates, ProgressStates
<1>5. CASE StepEnqueue \/ StepDeferred \/ StepLanded \/ StepSkipped \/ StepsDone
  BY <1>5, SameQuiet DEF StepEnqueue, StepDeferred, StepLanded, StepSkipped, StepsDone, store
<1> QED  BY <1>1, <1>2, <1>3, <1>4, <1>5 DEF CursorStep, DrivesCursor

\* Replies, decisions, removals, withdrawals, the clock and crashes do too.
LEMMA OtherQuiet ==
    ASSUME TypeOK, Next, ~SendStep, ~CursorStep, \A w \in accQ : ~Release(w) PROVE QuietCursors
<1> USE DEF TypeOK
<1>1. CASE ProbeStep \/ ReplyStep \/ AcceptanceScan \/ TickStart
  BY <1>1, SameQuiet
     DEF ProbeStep, Probe, ProbeThrows, ProbeReturns, ReplyStep, ReplyScan, ReplyHandle,
         AcceptanceScan, TickStart, store
<1>2. ASSUME NEW c \in Callers, RouteStep(c) PROVE QuietCursors
  BY SMTT(60), <1>2, SameQuiet, StopQuiet
     DEF RouteStep, RouteClassified, RouteThrows, RoutePull, RouteIntent, PullTargetFromFunnel,
         StopFunnel, store
<1>3. ASSUME NEW o \in Operators, DecideResolve(o) PROVE QuietCursors
  BY ZenonT(60), <1>3 DEF DecideResolve, QuietCursors, SettledStates, ProgressStates, StoreOK, CursorType
<1>4. ASSUME NEW t \in Targets, RemoveTarget(t) PROVE QuietCursors
  BY <1>4, StopQuiet DEF RemoveTarget, ExcludeTargetFromFunnel, StopFunnel
<1>5. CASE WithdrawRelease
  <2>1. wd.pc \in SettledStates
    BY <1>5 DEF WithdrawRelease, OthersOK, SettledStates, ProgressStates
  <2> QED  BY <1>5, <2>1, SameQuiet, StateQuiet DEF WithdrawRelease
<1>6. CASE OperatorStep
  BY <1>3, <1>4, <1>5, <1>6, SameQuiet DEF OperatorStep, DecideRead, DecideWrite, Withdraw, store
<1>7. ASSUME NEW t \in Targets, Elapse(t) PROVE QuietCursors
  BY <1>7 DEF Elapse, QuietCursors, StoreOK, CursorType
<1>8. CASE Environment
  BY <1>7, <1>8, SameQuiet DEF Environment, Accept, Write, Crash, store
<1> QED  BY <1>1, <1>2, <1>6, <1>8 DEF Next, AcceptanceStep

-----------------------------------------------------------------------------
(* The row a handler holds is the row it read *)

\* Where the dispatch tick holds a cursor it took from its snapshot.
StepPc == {"stepProbe", "stepRoute", "stepLock", "stepGate", "stepQueue", "stepPark"}

InFlight(t) == dpc \in StepPc /\ cur.tgt = t
Queued(t) == \E w \in stepQ : w[1] = t

\* Between a snapshot and its use nobody else moves the cursor to another step
\* or parks it: a snapshot the dispatch tick holds names the cursor's own step,
\* and so does a match of the acceptance tick, which is never one of those.
FlightInv ==
    /\ \A w \in stepQ : w[2] = cursor[w[1]].step /\ cursor[w[1]].state # "awaiting_connection"
    /\ dpc \in StepPc => /\ cur.step = cursor[cur.tgt].step
                         /\ cursor[cur.tgt].state # "awaiting_connection"
                         /\ ~Queued(cur.tgt)
    /\ \A w \in accQ : /\ w[2] = cursor[w[1]].step
                       /\ cursor[w[1]].state \notin {"in_progress", "awaiting_approval"}
                       /\ ~InFlight(w[1]) /\ ~Queued(w[1])
    /\ dpc \notin {"steps"} \cup StepPc => stepQ = {}

\* A step that takes up no cursor and adds to no queue.
TakesNone ==
    /\ stepQ' \subseteq stepQ
    /\ accQ' \subseteq accQ
    /\ dpc' \in StepPc => dpc \in StepPc /\ cur'.tgt = cur.tgt /\ cur'.step = cur.step
    /\ dpc' \notin {"steps"} \cup StepPc => stepQ' = {}

\* If besides every cursor is quiet, all that is held still is as it was read.
LEMMA FlightKeeps ==
    ASSUME Inv, FlightInv, TakesNone, QuietCursors PROVE FlightInv'
<1>1. \A w \in stepQ : w[1] \in Targets
  BY DEF Inv, TypeOK, DispOK
<1>2. \A w \in accQ : w[1] \in Targets
  BY DEF Inv, TypeOK, OthersOK
<1>3. dpc \in StepPc => cur.tgt \in Targets
  BY DEF Inv, RowsExist, StepPc
<1>4. \A t \in Targets :
        /\ cursor'[t].step = cursor[t].step
        /\ cursor'[t].state = "awaiting_connection" => cursor[t].state = "awaiting_connection"
        /\ cursor'[t].state \in {"in_progress", "awaiting_approval"} => cursor'[t].state = cursor[t].state
  BY DEF QuietCursors, SettledStates
<1>5. \A w \in stepQ' : w[2] = cursor'[w[1]].step /\ cursor'[w[1]].state # "awaiting_connection"
  BY <1>1, <1>4 DEF FlightInv, TakesNone
<1>6. dpc' \in StepPc => /\ cur'.step = cursor'[cur'.tgt].step
                         /\ cursor'[cur'.tgt].state # "awaiting_connection"
                         /\ ~(\E w \in stepQ' : w[1] = cur'.tgt)
  BY <1>3, <1>4 DEF FlightInv, TakesNone, Queued
<1>7. \A w \in accQ' : /\ w[2] = cursor'[w[1]].step
                       /\ cursor'[w[1]].state \notin {"in_progress", "awaiting_approval"}
                       /\ ~(dpc' \in StepPc /\ cur'.tgt = w[1])
                       /\ ~(\E v \in stepQ' : v[1] = w[1])
  BY <1>2, <1>4 DEF FlightInv, TakesNone, Queued, InFlight
<1> QED  BY <1>5, <1>6, <1>7 DEF FlightInv, TakesNone, Queued, InFlight

\* The approved-message loop holds no cursor; what it parks was waiting for an
\* approval, and so is nobody's match.
LEMMA SendFlight ==
    ASSUME Inv, FlightInv, SendStep PROVE FlightInv'
<1> USE DEF Inv
<1>1. CASE SendPark
  <2>1. stepQ = {} /\ stepQ' = {} /\ accQ' = accQ /\ dpc' = "sends"
    BY <1>1 DEF SendPark, Return, FlightInv, StepPc, Others
  <2>2. \A t \in Targets : cursor[t].state # "awaiting_approval" => cursor'[t] = cursor[t]
    BY <1>1 DEF SendPark, TypeOK, StoreOK
  <2>3. \A w \in accQ : w[1] \in Targets /\ cursor[w[1]].state # "awaiting_approval"
    BY DEF FlightInv, TypeOK, OthersOK
  <2> QED  BY <2>1, <2>2, <2>3 DEF FlightInv, Queued, InFlight, StepPc
<1>2. CASE SendsDone
  <2>1. /\ accQ' = accQ /\ cursor' = cursor /\ dpc' = "steps"
        /\ stepQ' = DueTargetProgress
    BY <1>2 DEF SendsDone, Others, store
  <2>2. \A w \in stepQ' : w[2] = cursor[w[1]].step /\ cursor[w[1]].state = "in_progress"
    BY <2>1 DEF DueTargetProgress, Snapshot
  <2> QED  BY <2>1, <2>2 DEF FlightInv, Queued, InFlight, StepPc
<1>3. CASE ~SendPark /\ ~SendsDone
  <2>1. TakesNone
    <3>1. dpc \in {"sends", "sendProbe", "sendRoute", "sendExec", "sendMark", "sendPark", "sendSkip"}
      BY <1>3, ZenonT(60)
         DEF SendStep, SendGateClosed, SendExhausted, SendCancelled, SendReady, SendHeld,
             SendFailed, SendLostAck, SendLanded, SendSkipped, SendMark, SendSkip, Dequeue
    <3>2. UNCHANGED <<stepQ, accQ>>
      BY <1>3, ZenonT(60)
         DEF SendStep, SendGateClosed, SendExhausted, SendCancelled, SendReady, SendHeld,
             SendFailed, SendLostAck, SendLanded, SendSkipped, SendMark, SendSkip, SendReturns,
             Others, Return, Goto
    <3>3. dpc' \in {"sends", "sendProbe", "sendExec", "sendMark", "sendPark", "sendSkip"}
      BY <1>3 DEF SendStep, SendGateClosed, SendExhausted, SendCancelled, SendReady, SendHeld,
             SendFailed, SendLostAck, SendLanded, SendSkipped, SendMark, SendSkip, SendReturns,
             Dequeue, Return, Goto
    <3> QED  BY <3>1, <3>2, <3>3 DEF TakesNone, FlightInv, StepPc
  <2> QED  BY <1>3, <2>1, SendQuiet, FlightKeeps
<1> QED  BY <1>1, <1>2, <1>3

\* Every other cursor is left alone by the wait, and w's snapshot is used up.
LEMMA WaitFlight ==
    ASSUME Inv, FlightInv, NEW w \in stepQ, StepWait(w) PROVE FlightInv'
<1> USE DEF Inv
<1>1. w[1] \in Targets /\ w = <<w[1], w[2]>>
  BY DEF TypeOK, DispOK
<1>2. /\ dpc = "steps" /\ dpc' = "steps"
      /\ stepQ' = stepQ \ {w} /\ accQ' = accQ
  BY DEF StepWait, TakeStep, StepReturns, Others
<1>3. \A t \in Targets : t # w[1] => cursor'[t] = cursor[t]
  BY DEF StepWait, SetState, TypeOK, StoreOK
<1>4. \A v \in stepQ : v[1] \in Targets /\ v = <<v[1], v[2]>>
  BY DEF TypeOK, DispOK
<1>5. \A v \in stepQ' : v \in stepQ /\ v[1] # w[1]
  BY <1>1, <1>2, <1>4 DEF FlightInv
<1>6. \A v \in accQ : v[1] \in Targets /\ v[1] # w[1] /\ ~Queued(v[1])
  BY DEF FlightInv, TypeOK, OthersOK, Queued
<1>7. \A v \in stepQ' : v[2] = cursor'[v[1]].step /\ cursor'[v[1]].state # "awaiting_connection"
  BY <1>3, <1>4, <1>5 DEF FlightInv
<1>8. \A v \in accQ' : /\ v[2] = cursor'[v[1]].step
                       /\ cursor'[v[1]].state \notin {"in_progress", "awaiting_approval"}
                       /\ ~(\E x \in stepQ' : x[1] = v[1])
  BY <1>2, <1>3, <1>6 DEF FlightInv, Queued
<1> QED  BY <1>2, <1>7, <1>8 DEF FlightInv, Queued, InFlight, StepPc

\* The cursor loops put a cursor down where they took it up.
LEMMA CursorStepFlight ==
    ASSUME Inv, FlightInv, CursorStep PROVE FlightInv'
<1> USE DEF Inv
<1>1. ASSUME NEW w \in stepQ, StepReady(w) PROVE FlightInv'
  <2>1. w[1] \in Targets /\ w = <<w[1], w[2]>>
    BY DEF TypeOK, DispOK
  <2>2. TypeAt(w[2]) \in {"message", "connect", "touch"}
    BY <1>1, StepRecord DEF StepReady, StepTypes, TypeOK, DispOK
  <2>3. /\ dpc = "steps" /\ dpc' \in StepPc
        /\ cur'.tgt = w[1] /\ cur'.step = w[2]
        /\ stepQ' = stepQ \ {w} /\ accQ' = accQ /\ cursor' = cursor
    BY <1>1, <2>2 DEF StepReady, TakeStep, Others, store, Idle, StepPc
  <2>4. \A v \in stepQ' : v \in stepQ /\ v[1] # w[1]
    <3>1. \A v \in stepQ : v = <<v[1], v[2]>>
      BY DEF TypeOK, DispOK
    <3> QED  BY <2>1, <2>3, <3>1 DEF FlightInv
  <2>5. \A v \in accQ : v[1] # w[1]
    BY DEF FlightInv, Queued
  <2> QED  BY <2>3, <2>4, <2>5 DEF FlightInv, Queued, InFlight
<1>2. CASE StepQueue \/ StepPark
  <2>1. cur.tgt \in Targets /\ dpc \in StepPc
    BY <1>2 DEF StepQueue, StepPark, RowsExist, StepPc
  <2>2. dpc' = "steps" /\ stepQ' = stepQ /\ accQ' = accQ
    BY <1>2 DEF StepQueue, StepPark, Return, Others
  <2>3. \A t \in Targets : t # cur.tgt => cursor'[t] = cursor[t]
    BY <1>2 DEF StepQueue, StepPark, ParkAfterConnect, SetState, TypeOK, StoreOK
  <2>4. \A w \in stepQ : w[1] \in Targets /\ w[1] # cur.tgt
    BY <2>1 DEF FlightInv, Queued, TypeOK, DispOK
  <2>5. \A w \in accQ : w[1] \in Targets /\ w[1] # cur.tgt
    BY <2>1 DEF FlightInv, InFlight, TypeOK, OthersOK
  <2> QED  BY <2>2, <2>3, <2>4, <2>5 DEF FlightInv, Queued, InFlight, StepPc
<1>3. CASE StepsDone
  <2>1. accQ' = accQ /\ cursor' = cursor /\ dpc' \notin StepPc
    BY <1>3 DEF StepsDone, Others, store, StepPc
  <2>2. dpc' = "steps" \/ stepQ' = {}
    BY <1>3 DEF StepsDone
  <2>3. stepQ' \subseteq UpcomingDrafts
    BY <1>3 DEF StepsDone
  <2>4. \A w \in stepQ' : w[2] = cursor[w[1]].step /\ cursor[w[1]].state = "in_progress"
    BY <2>3 DEF UpcomingDrafts, Snapshot
  <2> QED  BY <2>1, <2>2, <2>4 DEF FlightInv, Queued, InFlight
<1>4. ASSUME NEW w \in stepQ, StepPulled(w) \/ StepHeld(w) PROVE TakesNone
  BY <1>4 DEF StepPulled, StepHeld, TakesNone, TakeStep, StepReturns, Others, StepPc
<1>5. ASSUME StepLock \/ StepEnqueue \/ StepDeferred \/ StepFailed \/ StepLostAck PROVE TakesNone
  <2>1. dpc \in StepPc
    BY <1>5 DEF StepLock, StepEnqueue, StepDeferred, StepFailed, StepLostAck, StepPc
  <2>2. UNCHANGED <<stepQ, accQ>>
    BY <1>5 DEF StepLock, StepEnqueue, StepDeferred, StepFailed, StepLostAck, Return, Goto, Others
  <2>3. dpc' = "steps" \/ (dpc' \in StepPc /\ cur' = cur)
    BY <1>5 DEF StepLock, StepEnqueue, StepDeferred, StepFailed, StepLostAck, Return, Goto, StepPc
  <2> QED  BY <2>1, <2>2, <2>3 DEF TakesNone, StepPc
<1>6. ASSUME StepLanded \/ StepSkipped PROVE TakesNone
  <2>1. dpc = "stepGate" /\ dpc' = "stepPark" /\ UNCHANGED <<stepQ, accQ>>
    BY <1>6 DEF StepLanded, StepSkipped, Others
  <2>2. cur'.tgt = cur.tgt /\ cur'.step = cur.step
    BY <1>6 DEF StepLanded, StepSkipped, TypeOK, DispOK, CurType
  <2> QED  BY <2>1, <2>2 DEF TakesNone, StepPc
<1>7. CASE TakesNone /\ ~DrivesCursor
  BY <1>7, CursorStepQuiet, FlightKeeps
<1> QED  BY <1>1, <1>2, <1>3, <1>4, <1>5, <1>6, <1>7, WaitFlight DEF CursorStep, DrivesCursor

\* The acceptance tick matches only parked cursors, which nobody holds, and
\* releases each once.
LEMMA OtherFlight ==
    ASSUME Inv, FlightInv, Next, ~SendStep, ~CursorStep PROVE FlightInv'
<1> USE DEF Inv
<1>1. CASE AcceptanceScan
  <2>1. cursor' = cursor /\ dpc' = dpc /\ cur' = cur /\ stepQ' = stepQ
    BY <1>1 DEF AcceptanceScan, store, disp
  <2>2. \A w \in accQ' : w[2] = cursor[w[1]].step /\ cursor[w[1]].state = "awaiting_connection"
    BY <1>1 DEF AcceptanceScan, Snapshot
  <2> QED  BY <2>1, <2>2 DEF FlightInv, Queued, InFlight
<1>2. ASSUME NEW w \in accQ, Release(w) PROVE FlightInv'
  <2>1. w[1] \in Targets /\ (\A v \in accQ : v[1] \in Targets /\ v = <<v[1], v[2]>>)
    BY DEF TypeOK, OthersOK
  <2>2. dpc' = dpc /\ cur' = cur /\ stepQ' = stepQ /\ accQ' = accQ \ {w}
    BY <1>2 DEF Release, disp
  <2>3. \A t \in Targets : t # w[1] => cursor'[t] = cursor[t]
    BY <1>2 DEF Release, TypeOK, StoreOK
  <2>4. \A v \in accQ' : v \in accQ /\ v[1] # w[1]
    BY <2>1, <2>2 DEF FlightInv
  <2>5. \A v \in stepQ : v[1] \in Targets /\ v[1] # w[1]
    BY DEF FlightInv, Queued, TypeOK, DispOK
  <2>6. dpc \in StepPc => cur.tgt \in Targets /\ cur.tgt # w[1]
    BY DEF FlightInv, InFlight, RowsExist, StepPc
  <2>7. \A v \in accQ' : /\ v[2] = cursor'[v[1]].step
                        /\ cursor'[v[1]].state \notin {"in_progress", "awaiting_approval"}
    BY <2>1, <2>3, <2>4 DEF FlightInv
  <2> QED  BY <2>2, <2>3, <2>4, <2>5, <2>6, <2>7 DEF FlightInv, Queued, InFlight
<1>3. ASSUME UNCHANGED <<dpc, cur, stepQ, accQ>> PROVE TakesNone
  BY <1>3 DEF TakesNone, FlightInv
<1>4. ASSUME ProbeStep PROVE TakesNone
  <2>1. accQ' = accQ /\ stepQ' = stepQ /\ dpc \in {"sendProbe", "sendRoute", "stepProbe", "stepRoute"}
    BY <1>4 DEF ProbeStep, Probe, ProbeThrows, ProbeReturns, ProbePc, BrokenLane, Goto, Return, Others
  <2>2. CASE dpc \in {"sendProbe", "sendRoute"}
    <3>1. dpc' \in {"sends", "sendExec", "sendRoute"}
      BY <1>4, <2>2 DEF ProbeStep, Probe, ProbeThrows, ProbeReturns, ProbePc, BrokenLane, Goto,
             Return, Loop, AfterProbe
    <3> QED  BY <2>1, <2>2, <3>1 DEF TakesNone, FlightInv, StepPc
  <2>3. CASE dpc \in {"stepProbe", "stepRoute"}
    <3>1. dpc' = "steps" \/ (dpc' \in {"stepLock", "stepRoute"} /\ cur' = cur)
      BY <1>4, <2>3 DEF ProbeStep, Probe, ProbeThrows, ProbeReturns, ProbePc, BrokenLane, Goto,
             Return, Loop, AfterProbe
    <3> QED  BY <2>1, <2>3, <3>1 DEF TakesNone, FlightInv, StepPc
  <2> QED  BY <2>1, <2>2, <2>3
<1>5. ASSUME NEW c \in Callers, RouteStep(c) PROVE TakesNone
  BY <1>3, <1>5 DEF RouteStep, RouteClassified, RouteThrows, RoutePull, RouteIntent, disp
<1>6. ASSUME ReplyStep \/ OperatorStep PROVE TakesNone
  BY <1>3, <1>6 DEF ReplyStep, ReplyScan, ReplyHandle, OperatorStep, DecideRead, DecideWrite,
         DecideResolve, RemoveTarget, Withdraw, WithdrawRelease, disp
<1>7. ASSUME TickStart PROVE TakesNone
  BY <1>7 DEF TickStart, TakesNone, FlightInv, StepPc
<1>8. ASSUME Crash PROVE TakesNone
  BY <1>8 DEF Crash, TakesNone, StepPc
<1>9. ASSUME Environment PROVE TakesNone
  BY <1>3, <1>8, <1>9 DEF Environment, Accept, Write, Elapse, disp, Others
<1>10. CASE TakesNone /\ \A w \in accQ : ~Release(w)
  BY <1>10, OtherQuiet, FlightKeeps
<1> QED  BY <1>1, <1>2, <1>4, <1>5, <1>6, <1>7, <1>9, <1>10 DEF Next, AcceptanceStep

\* Every step keeps what is held as it was read.
LEMMA FlightStep == Inv /\ FlightInv /\ [Next]_vars => FlightInv'
<1>1. Inv /\ FlightInv /\ UNCHANGED vars => FlightInv'
  BY DEF vars, store, disp, FlightInv, Queued, InFlight
<1> QED  BY <1>1, SendFlight, CursorStepFlight, OtherFlight

\* Between its snapshot and its use a cursor is moved by nobody else.
LEMMA FlightHolds == Spec => []FlightInv
<1>1. Init => FlightInv
  BY DEF Init, FlightInv, StepPc
<1> QED  BY <1>1, FlightStep, InvHolds, PTL DEF Spec

-----------------------------------------------------------------------------
(* Invites and the rows that wait for them *)

\* An invite to t has landed and t's cursor is about to be parked for it.
LandedFlight(t) ==
    /\ cur.tgt = t /\ TypeAt(cur.step) = "connect"
    /\ dpc \in {"sendMark", "sendPark"} \/ (dpc = "stepPark" /\ cur.res # "skipped")

\* What each row that waits for an invite says of LinkedIn: a parked cursor has
\* had one, a match is a connection, a withdrawal in flight has taken one back,
\* and an invite that has just landed is out and waited for by nobody yet.
LinkInv ==
    /\ \A t \in Targets : cursor[t].state = "awaiting_connection" => link[Person(t)] # "none"
    /\ \A w \in accQ : link[Person(w[1])] = "connected"
    /\ wd.pc # "idle" => link[Person(wd.tgt)] = "withdrawn"
    /\ wd.pc = "idle" <=> wd.tgt = None
    /\ \A t \in Targets : LandedFlight(t) =>
          /\ link[Person(t)] \in {"pending", "connected"}
          /\ cursor[t].state # "awaiting_connection"
          /\ \A w \in accQ : w[1] # t

\* Every step but a withdrawal: invites go out and are accepted, and a cursor
\* is parked only for an invite that has just landed.
LinksMove ==
    /\ \A p \in Persons : \/ link'[p] = link[p]
                          \/ link[p] = "none" /\ link'[p] = "pending"
                          \/ link[p] = "pending" /\ link'[p] = "connected"
    /\ \A t \in Targets : cursor'[t].state = "awaiting_connection" =>
          cursor[t].state = "awaiting_connection" \/ LandedFlight(t)
    /\ \A w \in accQ' : \/ w \in accQ
                        \/ /\ cursor[w[1]].state = "awaiting_connection"
                           /\ link[Person(w[1])] = "connected" /\ dpc' = dpc /\ cur' = cur
    /\ wd' \in {wd, NoWd}
    /\ \A t \in Targets : LandedFlight(t)' =>
          \/ /\ LandedFlight(t)
             /\ cursor'[t].state = "awaiting_connection" => cursor[t].state = "awaiting_connection"
          \/ link[Person(t)] = "none" /\ link'[Person(t)] = "pending" /\ UNCHANGED <<cursor, accQ>>

\* Such a step keeps what the rows say.
LEMMA LinkKeeps ==
    ASSUME Inv, Inv', LinkInv, LinksMove PROVE LinkInv'
<1> USE DEF Inv, TypeOK
<1>1. \A t \in Targets : /\ link[Person(t)] # "none" => link'[Person(t)] # "none"
                         /\ link[Person(t)] = "connected" => link'[Person(t)] = "connected"
                         /\ link[Person(t)] = "withdrawn" => link'[Person(t)] = "withdrawn"
                         /\ link[Person(t)] \in {"pending", "connected"} =>
                               link'[Person(t)] \in {"pending", "connected"}
  BY PersonType DEF LinksMove
<1>2. \A w \in accQ : w[1] \in Targets
  BY DEF OthersOK
<1>3. \A t \in Targets : cursor'[t].state = "awaiting_connection" => link'[Person(t)] # "none"
  BY <1>1 DEF LinksMove, LinkInv
<1>4. \A w \in accQ' : w[1] \in Targets
  BY DEF OthersOK
<1>5. \A w \in accQ' : link'[Person(w[1])] = "connected"
  BY <1>1, <1>4 DEF LinksMove, LinkInv
<1>6. /\ wd'.pc # "idle" => link'[Person(wd'.tgt)] = "withdrawn"
      /\ wd'.pc = "idle" <=> wd'.tgt = None
  BY <1>1 DEF LinksMove, LinkInv, NoWd, OthersOK
<1>7. \A t \in Targets : LandedFlight(t)' =>
          /\ link'[Person(t)] \in {"pending", "connected"}
          /\ cursor'[t].state # "awaiting_connection"
          /\ \A w \in accQ' : w[1] # t
  BY <1>1 DEF LinksMove, LinkInv, LandedFlight, TypeAt
<1> QED  BY <1>3, <1>5, <1>6, <1>7 DEF LinkInv, Person

\* The next step of a cursor is not a parking place.
LEMMA AdvanceParks ==
    ASSUME NEW k PROVE AdvanceAfterStep(k).state \in {"completed", "in_progress"}
BY DEF AdvanceAfterStep

\* What lands leaves every link but one alone, and that one is a new invite.
LEMMA LandsLink ==
    ASSUME WorldOK, NEW t \in Targets, NEW k, CanLand(t, TypeAt(k)), Lands(t, k)
    PROVE  /\ \A p \in Persons : link'[p] = link[p] \/ (link[p] = "none" /\ link'[p] = "pending")
           /\ TypeAt(k) = "connect" => link[Person(t)] = "none" /\ link'[Person(t)] = "pending"
BY PersonType DEF Lands, CanLand, WorldOK

\* The approved-message loop lands an invite only where there was none, and
\* parks for the invite it has just landed.
LEMMA SendLinks ==
    ASSUME Inv, SendStep PROVE LinksMove
<1> USE DEF Inv, TypeOK
<1>1. \A t \in Targets : cursor'[t].state = "awaiting_connection" =>
          \/ cursor[t].state = "awaiting_connection"
          \/ SendPark /\ LandedFlight(t)
  <2>1. CASE ~SendPark
    BY SMTT(60), <2>1, SendQuiet DEF QuietCursors, SettledStates
  <2>2. CASE SendPark
    BY SMTT(60), <2>2, AdvanceParks DEF SendPark, LandedFlight, StoreOK
  <2> QED  BY <2>1, <2>2
<1>2. /\ accQ' = accQ /\ wd' = wd
  BY DEF SendStep, SendGateClosed, SendExhausted, SendCancelled, SendReady, SendHeld, SendFailed,
         SendLostAck, SendLanded, SendSkipped, SendMark, SendPark, SendSkip, SendsDone, Others
<1>3. CASE SendLanded \/ SendLostAck
  <2>1. cur.tgt \in Targets /\ CanLand(cur.tgt, TypeAt(cur.step)) /\ Lands(cur.tgt, cur.step)
    BY <1>3 DEF SendLanded, SendLostAck, RowsExist
  <2>2. /\ \A p \in Persons : link'[p] = link[p] \/ (link[p] = "none" /\ link'[p] = "pending")
        /\ TypeAt(cur.step) = "connect" =>
              link[Person(cur.tgt)] = "none" /\ link'[Person(cur.tgt)] = "pending"
    BY <2>1, LandsLink
  <2>3. \A t \in Targets : LandedFlight(t)' =>
           /\ t = cur.tgt /\ TypeAt(cur.step) = "connect" /\ cursor' = cursor
    BY <1>3 DEF SendLanded, SendLostAck, LandedFlight, TypeAt, Goto, Return, store
  <2> QED  BY <1>1, <1>2, <2>2, <2>3 DEF LinksMove
<1>4. CASE SendMark
  <2>1. dpc = "sendMark" /\ dpc' = "sendPark" /\ cur' = cur /\ cursor' = cursor /\ link' = link
    BY <1>4 DEF SendMark, Goto, world
  <2>2. \A t \in Targets : LandedFlight(t)' => LandedFlight(t)
    BY <2>1 DEF LandedFlight, TypeAt
  <2> QED  BY <1>2, <2>1, <2>2 DEF LinksMove
<1>5. CASE ~SendLanded /\ ~SendLostAck /\ ~SendMark
  <2>1. link' = link
    BY <1>5, ZenonT(60)
       DEF SendStep, SendGateClosed, SendExhausted, SendCancelled, SendReady, SendHeld,
           SendFailed, SendSkipped, SendPark, SendSkip, SendsDone, world
  <2>2. dpc' \notin {"sendMark", "sendPark", "stepPark"}
    BY <1>5 DEF SendStep, SendGateClosed, SendExhausted, SendCancelled, SendReady, SendHeld,
           SendFailed, SendSkipped, SendPark, SendSkip, SendsDone, Dequeue, SendReturns, Return,
           Goto
  <2> QED  BY SMTT(60), <1>1, <1>2, <2>1, <2>2 DEF LinksMove, LandedFlight
<1> QED  BY <1>3, <1>4, <1>5

\* So do the cursor loops.
LEMMA CursorStepLinks ==
    ASSUME Inv, CursorStep PROVE LinksMove
<1> USE DEF Inv, TypeOK
<1>1. \A t \in Targets : cursor'[t].state = "awaiting_connection" =>
          cursor[t].state = "awaiting_connection" \/ LandedFlight(t)
  <2>1. CASE ~DrivesCursor
    BY <2>1, CursorStepQuiet DEF QuietCursors, SettledStates
  <2>2. CASE StepPark
    <3>1. CASE TypeAt(cur.step) = "connect"
      BY <2>2, <3>1 DEF StepPark, ParkAfterConnect, SetState, LandedFlight, StoreOK, CursorType
    <3>2. CASE TypeAt(cur.step) # "connect"
      BY <2>2, <3>2, AdvanceParks DEF StepPark, StoreOK
    <3> QED  BY <3>1, <3>2
  <2>3. CASE StepQueue
    BY <2>3 DEF StepQueue, StoreOK, CursorType
  <2>4. ASSUME NEW w \in stepQ, StepWait(w), NEW t \in Targets,
               cursor'[t].state = "awaiting_connection"
        PROVE  cursor[t].state = "awaiting_connection"
    <3>1. CASE SetState(w[1], "completed")
      BY <2>4, <3>1 DEF SetState, StoreOK, CursorType
    <3>2. CASE w[2] < Len(Steps) /\ TypeAt(w[2]) = "delay"
      <4> DEFINE next == AdvanceAfterStep(w[2])
                 c == IF next.state = "completed" THEN next
                      ELSE [next EXCEPT !.state = cursor[w[1]].state]
      <4>1. w[2] \in Nat /\ next \in CursorType
        BY AdvanceType DEF DispOK
      <4>2. cursor' = [cursor EXCEPT ![w[1]] = c]
        BY <2>4, <3>2, <4>1 DEF StepWait
      <4>3. c.state \in {"completed", cursor[w[1]].state}
        BY SMTT(60), <4>1 DEF CursorType
      <4> HIDE DEF c
      <4> QED  BY <2>4, <4>2, <4>3 DEF StoreOK
    <3> QED  BY <2>4, <3>1, <3>2 DEF StepWait
  <2> QED  BY <2>1, <2>2, <2>3, <2>4 DEF DrivesCursor
<1>2. /\ accQ' = accQ /\ wd' = wd
  BY DEF CursorStep, StepWait, StepPulled, StepHeld, StepReady, StepLock, StepEnqueue, StepQueue,
         StepDeferred, StepFailed, StepLostAck, StepLanded, StepSkipped, StepPark, StepsDone, Others
<1>3. CASE StepLanded \/ StepLostAck
  <2>1. cur.tgt \in Targets /\ CanLand(cur.tgt, TypeAt(cur.step)) /\ Lands(cur.tgt, cur.step)
    BY <1>3 DEF StepLanded, StepLostAck, RowsExist
  <2>2. /\ \A p \in Persons : link'[p] = link[p] \/ (link[p] = "none" /\ link'[p] = "pending")
        /\ TypeAt(cur.step) = "connect" =>
              link[Person(cur.tgt)] = "none" /\ link'[Person(cur.tgt)] = "pending"
    BY <2>1, LandsLink
  <2>3. \A t \in Targets : LandedFlight(t)' =>
           /\ t = cur.tgt /\ TypeAt(cur.step) = "connect" /\ cursor' = cursor
    BY SMTT(60), <1>3 DEF StepLanded, StepLostAck, LandedFlight, TypeAt, Return, store, DispOK, CurType
  <2> QED  BY <1>1, <1>2, <2>2, <2>3 DEF LinksMove
<1>4. CASE ~StepLanded /\ ~StepLostAck
  <2>1. link' = link
    BY <1>4 DEF CursorStep, StepWait, StepPulled, StepHeld, StepReady, StepLock, StepEnqueue,
           StepQueue, StepDeferred, StepFailed, StepSkipped, StepPark, StepsDone, world
  <2>2. ASSUME NEW w \in stepQ, StepReady(w) PROVE dpc' \in {"stepProbe", "stepLock", "stepGate"}
    <3>1. TypeAt(w[2]) \in {"message", "connect", "touch"}
      BY <2>2, StepRecord DEF StepReady, StepTypes, DispOK
    <3> QED  BY <2>2, <3>1 DEF StepReady
  <2>3. \/ dpc' \notin {"sendMark", "sendPark", "stepPark"}
        \/ dpc' = "stepPark" /\ cur'.res = "skipped"
    <3>1. CASE StepSkipped
      BY <3>1 DEF StepSkipped, DispOK, CurType
    <3>2. CASE ~StepSkipped
      BY <1>4, <2>2, <3>2
         DEF CursorStep, StepWait, StepPulled, StepHeld, StepLock, StepEnqueue, StepQueue,
             StepDeferred, StepFailed, StepPark, StepsDone, TakeStep, StepReturns, Return, Goto
    <3> QED  BY <3>1, <3>2
  <2> QED  BY SMTT(60), <1>1, <1>2, <2>1, <2>3 DEF LinksMove, LandedFlight
<1> QED  BY <1>3, <1>4

\* So does everybody else, withdrawals apart.
LEMMA OtherLinks ==
    ASSUME Inv, LinkInv, Next, ~SendStep, ~CursorStep,
           \A t \in Targets : ~Withdraw(t, "withdrawn") /\ ~Withdraw(t, "skipped")
    PROVE  LinksMove
<1> USE DEF Inv, TypeOK
<1>1. \A t \in Targets : cursor'[t].state = "awaiting_connection" =>
                         cursor[t].state = "awaiting_connection"
  <2>1. CASE \A w \in accQ : ~Release(w)
    BY <2>1, OtherQuiet DEF QuietCursors, SettledStates
  <2>2. ASSUME NEW w \in accQ, Release(w), NEW t \in Targets,
               cursor'[t].state = "awaiting_connection"
        PROVE  cursor[t].state = "awaiting_connection"
    BY <2>2, AdvanceParks DEF Release, StoreOK
  <2> QED  BY <2>1, <2>2
<1> DEFINE Calm == /\ UNCHANGED <<link, dpc, cur>> /\ accQ' \subseteq accQ /\ wd' \in {wd, NoWd}
<1>2. ASSUME Calm PROVE LinksMove
  <2>1. \A t \in Targets : LandedFlight(t)' => LandedFlight(t)
    BY <1>2 DEF LandedFlight, TypeAt
  <2> QED  BY <1>1, <1>2, <2>1 DEF LinksMove
<1>3. CASE AcceptanceScan
  <2>1. UNCHANGED <<link, cursor, dpc, cur, wd>>
    BY <1>3 DEF AcceptanceScan, world, disp, store
  <2>2. \A t \in Targets : LandedFlight(t)' => LandedFlight(t)
    BY <2>1 DEF LandedFlight, TypeAt
  <2>3. \A w \in accQ' : /\ cursor[w[1]].state = "awaiting_connection"
                         /\ link[Person(w[1])] = "connected"
    BY <1>3 DEF AcceptanceScan, Snapshot
  <2> QED  BY <2>1, <2>2, <2>3 DEF LinksMove
<1>4. ASSUME NEW w \in accQ, Release(w) PROVE LinksMove
  BY <1>2, <1>4 DEF Release, world, disp
<1>5. ASSUME NEW p \in Persons, Accept(p) PROVE LinksMove
  <2>1. \A q \in Persons : link'[q] = link[q] \/ (link[q] = "pending" /\ link'[q] = "connected")
    BY <1>5 DEF Accept, WorldOK
  <2>2. UNCHANGED <<cursor, dpc, cur, accQ, wd>>
    BY <1>5 DEF Accept, disp, store, Others
  <2>3. \A t \in Targets : LandedFlight(t)' => LandedFlight(t)
    BY <2>2 DEF LandedFlight, TypeAt
  <2> QED  BY <2>1, <2>2, <2>3 DEF LinksMove
<1>6. CASE Crash
  <2>1. dpc' = "idle" /\ accQ' = {} /\ wd' = NoWd /\ link' = link
    BY <1>6 DEF Crash, world
  <2> QED  BY <1>1, <2>1 DEF LinksMove, LandedFlight
<1>7. ASSUME NEW t \in Targets, Elapse(t) PROVE LinksMove
  BY <1>2, <1>7 DEF Elapse, world, disp, Others
<1>8. ASSUME NEW p \in Persons, Write(p) PROVE LinksMove
  BY <1>2, <1>8 DEF Write, disp, Others
<1>9. CASE ProbeStep \/ TickStart
  <2>1. UNCHANGED <<link, accQ, wd>>
    BY <1>9 DEF ProbeStep, Probe, ProbeThrows, ProbeReturns, TickStart, world, Others
  <2>2. dpc' \notin {"sendMark", "sendPark", "stepPark"}
    BY <1>9 DEF ProbeStep, Probe, ProbeThrows, ProbeReturns, TickStart, BrokenLane, Goto, Return,
           Loop, AfterProbe
  <2> QED  BY <1>1, <2>1, <2>2 DEF LinksMove, LandedFlight
<1>10. ASSUME NEW c \in Callers, RouteStep(c) PROVE LinksMove
  BY <1>2, <1>10 DEF RouteStep, RouteClassified, RouteThrows, RoutePull, RouteIntent, world, disp
<1>11. CASE ReplyStep
  BY <1>2, <1>11 DEF ReplyStep, ReplyScan, ReplyHandle, world, disp
<1>12. CASE OperatorStep
  BY <1>2, <1>12
     DEF OperatorStep, DecideRead, DecideWrite, DecideResolve, RemoveTarget, WithdrawRelease,
         world, disp
<1> QED  BY <1>3, <1>4, <1>5, <1>6, <1>7, <1>8, <1>9, <1>10, <1>11, <1>12
         DEF Next, AcceptanceStep, Environment

\* A withdrawal takes back a pending invite, which nobody has just landed.
LEMMA WithdrawLink ==
    ASSUME Inv, Inv', LinkInv, NEW u \in Targets, NEW e \in {"withdrawn", "skipped"}, Withdraw(u, e)
    PROVE  LinkInv'
<1> USE DEF Inv, TypeOK
<1>1. /\ UNCHANGED <<cursor, accQ, dpc, cur>>
      /\ link[Person(u)] = "pending" /\ Person(u) \in Persons
      /\ link' = [link EXCEPT ![Person(u)] = "withdrawn"]
      /\ wd' = [pc |-> e, tgt |-> u]
      /\ dpc \notin {"sendMark", "sendPark", "stepPark"}
  BY PersonType DEF Withdraw, disp, store
<1>2. \A p \in Persons : /\ link[p] # "none" => link'[p] # "none"
                         /\ link[p] = "connected" => link'[p] = "connected"
  BY <1>1 DEF WorldOK
<1>3. link'[Person(u)] = "withdrawn"
  BY <1>1 DEF WorldOK
<1>4. \A t \in Targets : ~LandedFlight(t)'
  BY <1>1 DEF LandedFlight
<1>5. u # None
  BY FunnelAssumption
<1>6. \A w \in accQ : w[1] \in Targets
  BY DEF OthersOK
<1>7. \A t \in Targets : cursor'[t].state = "awaiting_connection" => link'[Person(t)] # "none"
  BY <1>1, <1>2, PersonType DEF LinkInv
<1>8. \A w \in accQ' : link'[Person(w[1])] = "connected"
  BY <1>1, <1>2, <1>6, PersonType DEF LinkInv
<1> QED  BY <1>1, <1>3, <1>4, <1>5, <1>7, <1>8 DEF LinkInv, Person

\* Every step keeps what the waiting rows say of LinkedIn.
LEMMA LinkStep == Inv /\ LinkInv /\ [Next]_vars => LinkInv'
<1>1. Inv /\ LinkInv /\ UNCHANGED vars => LinkInv'
  BY DEF vars, store, world, disp, LinkInv, LandedFlight, TypeAt, Person
<1>2. ASSUME Inv, LinkInv, Next PROVE LinkInv'
  <2>1. Inv'
    BY <1>2, InvStep
  <2>2. CASE \E t \in Targets : Withdraw(t, "withdrawn") \/ Withdraw(t, "skipped")
    BY <1>2, <2>1, <2>2, WithdrawLink
  <2>3. CASE ~(\E t \in Targets : Withdraw(t, "withdrawn") \/ Withdraw(t, "skipped"))
    <3>1. LinksMove
      BY <1>2, <2>3, SendLinks, CursorStepLinks, OtherLinks
    <3> QED  BY <1>2, <2>1, <3>1, LinkKeeps
  <2> QED  BY <2>2, <2>3
<1> QED  BY <1>1, <1>2

\* A cursor waits only for an invite that went out, in every behaviour.
LEMMA LinkHolds == Spec => []LinkInv
<1>1. Init => LinkInv
  BY DEF Init, LinkInv, LandedFlight, NoWd
<1> QED  BY <1>1, LinkStep, InvHolds, PTL DEF Spec

-----------------------------------------------------------------------------
(* The outstanding pile *)

\* Whose invite is out as far as the rows say: a parked cursor, a match not yet
\* released, an invite that has just landed.
Waiting ==
    {t \in Targets : \/ cursor[t].state = "awaiting_connection"
                     \/ \E w \in accQ : w[1] = t
                     \/ LandedFlight(t)}

\* The counter is behind none of them.
PileInv == outstanding >= Cardinality(Waiting)

\* Everybody who waits is a target, so they can be counted.
LEMMA WaitingFinite ==
    /\ IsFiniteSet(Waiting) /\ Cardinality(Waiting) \in Nat
    /\ IsFiniteSet(Waiting') /\ Cardinality(Waiting)' \in Nat
<1>1. IsFiniteSet(Waiting) /\ IsFiniteSet(Waiting')
  BY FunnelAssumption, FS_Subset DEF Waiting
<1> QED  BY <1>1, FS_CardinalityType

\* A step after which nobody new waits may leave the counter alone.
LEMMA PileSame ==
    ASSUME TypeOK, PileInv, Waiting' \subseteq Waiting, outstanding' = outstanding PROVE PileInv'
<1>1. Cardinality(Waiting') <= Cardinality(Waiting)
  BY WaitingFinite, FS_Subset
<1> QED  BY <1>1, WaitingFinite DEF PileInv, TypeOK, WorldOK

\* A step after which one more waits must add one.
LEMMA PileMore ==
    ASSUME TypeOK, PileInv, NEW t, Waiting' \subseteq Waiting \cup {t},
           outstanding' = outstanding + 1
    PROVE  PileInv'
<1>1. Cardinality(Waiting') <= Cardinality(Waiting) + 1
  BY WaitingFinite, OneMore
<1> QED  BY <1>1, WaitingFinite DEF PileInv, TypeOK, WorldOK

\* A step after which one who waited waits no more may take one off.
LEMMA PileLess ==
    ASSUME TypeOK, PileInv, NEW t \in Waiting, Waiting' \subseteq Waiting \ {t},
           outstanding' = Less1(outstanding)
    PROVE  PileInv'
<1>1. Cardinality(Waiting') + 1 <= Cardinality(Waiting)
  BY WaitingFinite, OneLess
<1> QED  BY <1>1, WaitingFinite DEF PileInv, TypeOK, WorldOK, Less1

\* When no invite lands, nobody new waits.
LEMMA NobodyNew ==
    ASSUME Inv', LinksMove, link' = link \/ dpc' \notin {"sendMark", "sendPark", "stepPark"}
    PROVE  Waiting' \subseteq Waiting
<1>1. \A t \in Targets : LandedFlight(t)' => LandedFlight(t)
  BY DEF LinksMove, LandedFlight
<1>2. \A t \in Targets : cursor'[t].state = "awaiting_connection" =>
          cursor[t].state = "awaiting_connection" \/ LandedFlight(t)
  BY DEF LinksMove
<1>3. \A w \in accQ' : w \in accQ \/ cursor[w[1]].state = "awaiting_connection"
  BY DEF LinksMove
<1> QED  BY <1>1, <1>2, <1>3 DEF Waiting

\* An invite that lands is counted as it lands.
LEMMA PileLands ==
    ASSUME Inv, PileInv, UNCHANGED <<cursor, accQ>>, cur'.tgt = cur.tgt, cur'.step = cur.step,
           dpc \notin {"sendMark", "sendPark", "stepPark"},
           outstanding' = outstanding + (IF TypeAt(cur.step) = "connect" THEN 1 ELSE 0)
    PROVE  PileInv'
<1> USE DEF Inv
<1>1. \A t \in Targets : LandedFlight(t)' => t = cur.tgt /\ TypeAt(cur.step) = "connect"
  BY DEF LandedFlight, TypeAt
<1>2. CASE TypeAt(cur.step) = "connect"
  <2>1. Waiting' \subseteq Waiting \cup {cur.tgt}
    BY <1>1 DEF Waiting
  <2> QED  BY <1>2, <2>1, PileMore
<1>3. CASE TypeAt(cur.step) # "connect"
  <2>1. Waiting' \subseteq Waiting
    BY <1>1, <1>3 DEF Waiting
  <2>2. outstanding' = outstanding
    BY <1>3 DEF TypeOK, WorldOK
  <2> QED  BY <2>1, <2>2, PileSame
<1> QED  BY <1>2, <1>3

\* A match is released once, and waits for nothing afterwards.
LEMMA PileRelease ==
    ASSUME Inv, FlightInv, LinkInv, PileInv, NEW w \in accQ, Release(w) PROVE PileInv'
<1> USE DEF Inv, TypeOK
<1>1. w[1] \in Targets /\ (\A v \in accQ : v[1] \in Targets /\ v = <<v[1], v[2]>>)
  BY DEF OthersOK
<1>2. UNCHANGED <<dpc, cur, link>> /\ accQ' = accQ \ {w} /\ outstanding' = Less1(outstanding)
  BY DEF Release, disp, world
<1>3. \A t \in Targets : t # w[1] => cursor'[t] = cursor[t]
  BY DEF Release, StoreOK
<1>4. cursor'[w[1]].state # "awaiting_connection"
  BY <1>1, AdvanceParks DEF Release, StoreOK
<1>5. \A v \in accQ' : v \in accQ /\ v[1] # w[1]
  BY <1>1, <1>2 DEF FlightInv
<1>6. ~LandedFlight(w[1])'
  BY <1>1, <1>2 DEF LinkInv, LandedFlight, TypeAt
<1>7. \A t \in Targets : LandedFlight(t)' => LandedFlight(t)
  BY <1>2 DEF LandedFlight, TypeAt
<1>8. Waiting' \subseteq Waiting \ {w[1]}
  BY <1>3, <1>4, <1>5, <1>6, <1>7 DEF Waiting
<1>9. w[1] \in Waiting
  BY <1>1 DEF Waiting
<1> QED  BY <1>2, <1>8, <1>9, PileLess

\* A withdrawn invite leaves the pile with the cursor that waited for it.
LEMMA PileWithdrawn ==
    ASSUME Inv, LinkInv, LinksMove, PileInv, WithdrawRelease PROVE PileInv'
<1> USE DEF Inv, TypeOK
<1>1. UNCHANGED <<dpc, cur, link, accQ>> /\ wd.pc # "idle"
  BY DEF WithdrawRelease, disp, world
<1>2. \A t \in Targets : LandedFlight(t)' => LandedFlight(t)
  BY <1>1 DEF LandedFlight, TypeAt
<1>3. ASSUME NEW t \in WithdrawnCursors, SetState(t, wd.pc), outstanding' = Less1(outstanding)
      PROVE  PileInv'
  <2>1. t \in Targets /\ cursor[t].state = "awaiting_connection"
    BY DEF WithdrawnCursors, Parked
  <2>2. link[Person(t)] = "withdrawn"
    BY <1>1 DEF WithdrawnCursors, LinkInv
  <2>3. ~LandedFlight(t) /\ (\A w \in accQ : w[1] # t)
    BY <2>1, <2>2 DEF LinkInv
  <2>4. /\ cursor'[t].state # "awaiting_connection"
        /\ \A u \in Targets : u # t => cursor'[u] = cursor[u]
    BY <1>3, <2>1 DEF SetState, StoreOK, CursorType, OthersOK
  <2>5. Waiting' \subseteq Waiting \ {t}
    BY <1>1, <1>2, <2>3, <2>4 DEF Waiting
  <2>6. t \in Waiting
    BY <2>1 DEF Waiting
  <2> QED  BY <1>3, <2>5, <2>6, PileLess
<1>4. CASE UNCHANGED <<stage, cursor, outstanding>>
  <2>1. Waiting' \subseteq Waiting
    BY <1>1, <1>2, <1>4 DEF Waiting
  <2> QED  BY <1>4, <2>1, PileSame
<1> QED  BY <1>3, <1>4 DEF WithdrawRelease

\* A restart counts the parked cursors, and nobody else waits then.
LEMMA PileCrash ==
    ASSUME Crash PROVE PileInv'
<1>1. Waiting' = Parked
  BY DEF Crash, store, Waiting, LandedFlight, Parked
<1>2. outstanding' = Cardinality(Parked)
  BY DEF Crash
<1> QED  BY <1>1, <1>2, WaitingFinite DEF PileInv

\* Every step keeps the counter level with those who wait.
LEMMA PileStep == Inv /\ FlightInv /\ LinkInv /\ PileInv /\ [Next]_vars => PileInv'
<1>1. Inv /\ PileInv /\ UNCHANGED vars => PileInv'
  BY DEF vars, store, world, disp, PileInv, Waiting, LandedFlight, TypeAt
<1>2. ASSUME Inv, FlightInv, LinkInv, PileInv, Next PROVE PileInv'
  <2> USE <1>2 DEF Inv, TypeOK
  <2>1. Inv'
    BY InvStep DEF Inv
  <2>2. ASSUME LinksMove, outstanding' = outstanding,
               link' = link \/ dpc' \notin {"sendMark", "sendPark", "stepPark"}
        PROVE  PileInv'
    BY <2>1, <2>2, NobodyNew, PileSame
  <2>3. CASE SendLanded
    BY <2>3, PileLands DEF SendLanded, Goto, Others, store
  <2>4. CASE SendStep /\ ~SendLanded
    <3>1. outstanding' = outstanding /\ (link' = link \/ dpc' = "sends")
      BY <2>4
         DEF SendStep, SendGateClosed, SendExhausted, SendCancelled, SendReady, SendHeld,
             SendFailed, SendLostAck, SendSkipped, SendMark, SendPark, SendSkip, SendsDone, world,
             Return
    <3> QED  BY SMTT(60), <2>2, <2>4, <3>1, SendLinks
  <2>5. CASE StepLanded
    <3>1. cur'.tgt = cur.tgt /\ cur'.step = cur.step
      BY SMTT(60), <2>5 DEF StepLanded, DispOK, CurType
    <3> QED  BY <2>5, <3>1, PileLands DEF StepLanded, Others, store
  <2>6. CASE CursorStep /\ ~StepLanded
    <3>1. outstanding' = outstanding /\ (link' = link \/ dpc' = "steps")
      BY <2>6
         DEF CursorStep, StepWait, StepPulled, StepHeld, StepReady, StepLock, StepEnqueue,
             StepQueue, StepDeferred, StepFailed, StepLostAck, StepSkipped, StepPark, StepsDone,
             world, Return
    <3> QED  BY SMTT(60), <2>2, <2>6, <3>1, CursorStepLinks
  <2>7. ASSUME NEW u \in Targets, Withdraw(u, "withdrawn") \/ Withdraw(u, "skipped") PROVE PileInv'
    <3>1. UNCHANGED <<cursor, accQ, dpc, cur, outstanding>>
      BY <2>7 DEF Withdraw, disp, store
    <3>2. Waiting' = Waiting
      BY <3>1 DEF Waiting, LandedFlight, TypeAt
    <3> QED  BY <3>1, <3>2, PileSame
  <2>8. CASE WithdrawRelease
    <3>1. LinksMove
      BY <2>7, <2>8, SendLinks, CursorStepLinks, OtherLinks DEF Withdraw, WithdrawRelease, NoWd
    <3> QED  BY <2>8, <3>1, PileWithdrawn
  <2>9. CASE /\ ~SendStep /\ ~CursorStep /\ ~WithdrawRelease /\ ~Crash
             /\ \A t \in Targets : ~Withdraw(t, "withdrawn") /\ ~Withdraw(t, "skipped")
             /\ \A w \in accQ : ~Release(w)
    <3>1. outstanding' = outstanding
      BY ZenonT(60), <2>9
         DEF Next, ProbeStep, Probe, ProbeThrows, ProbeReturns, TickStart, RouteStep,
             RouteClassified, RouteThrows, RoutePull, RouteIntent, ReplyStep, ReplyScan,
             ReplyHandle, AcceptanceStep, AcceptanceScan, OperatorStep, DecideRead, DecideWrite,
             DecideResolve, RemoveTarget, Environment, Accept, Write, Elapse
    <3>2. link' = link \/ (dpc' = dpc /\ \E p \in Persons : Accept(p))
      BY <2>9
         DEF Next, ProbeStep, Probe, ProbeThrows, ProbeReturns, TickStart, RouteStep,
             RouteClassified, RouteThrows, RoutePull, RouteIntent, ReplyStep, ReplyScan,
             ReplyHandle, AcceptanceStep, AcceptanceScan, OperatorStep, DecideRead, DecideWrite,
             DecideResolve, RemoveTarget, Environment, Accept, Write, Elapse, world, disp
    <3>3. ASSUME NEW p \in Persons, Accept(p) PROVE PileInv'
      <4>1. UNCHANGED <<cursor, accQ, dpc, cur, outstanding>>
        BY <3>3 DEF Accept, disp, store, Others
      <4>2. Waiting' = Waiting
        BY <4>1 DEF Waiting, LandedFlight, TypeAt
      <4> QED  BY <4>1, <4>2, PileSame
    <3> QED  BY SMTT(60), <2>2, <2>9, <3>1, <3>2, <3>3, OtherLinks
  <2> QED  BY <2>3, <2>4, <2>5, <2>6, <2>7, <2>8, <2>9, PileRelease, PileCrash
<1> QED  BY <1>1, <1>2

\* Whatever crashes, withdrawals and acceptances do, the number the safety gate
\* limits is never below the number of invites the funnel waits on.
THEOREM PileCoversParked == Spec => []OutstandingCoversParked
<1>1. Init => PileInv
  <2>1. ASSUME Init PROVE Waiting = {} /\ outstanding = 0
    BY <2>1 DEF Init, Waiting, LandedFlight, Idle
  <2>2. ASSUME Init PROVE Cardinality(Waiting) = 0
    BY <2>1, <2>2, FS_EmptySet, Zenon
  <2> QED  BY <2>1, <2>2 DEF PileInv
<1>2. TypeOK /\ PileInv => OutstandingCoversParked
  <2>1. Parked \subseteq Waiting
    BY DEF Parked, Waiting
  <2>2. Cardinality(Parked) <= Cardinality(Waiting) /\ Cardinality(Parked) \in Nat
    BY <2>1, WaitingFinite, FS_Subset, FS_CardinalityType
  <2> QED  BY <2>2, WaitingFinite DEF PileInv, OutstandingCoversParked, TypeOK, WorldOK
<1> QED  BY <1>1, <1>2, PileStep, InvHolds, FlightHolds, LinkHolds, TypeCorrect, PTL DEF Spec

-----------------------------------------------------------------------------
(* No cursor waits for an invite that was taken back *)

\* Each person is the target of one campaign.
OneEnrollment == \A t, u \in Targets : Person(t) = Person(u) => t = u

\* Parked cursors whose invite is gone and that no withdrawal in flight is
\* about to release.
Stranded ==
    {t \in Targets : /\ cursor[t].state = "awaiting_connection"
                     /\ link[Person(t)] = "withdrawn" /\ wd.tgt # t}

\* Only a crash in the middle of a withdrawal leaves one behind.
StrandInv == Cardinality(Stranded) <= faults

\* Stranded cursors can be counted.
LEMMA StrandedFinite ==
    /\ IsFiniteSet(Stranded) /\ Cardinality(Stranded) \in Nat
    /\ IsFiniteSet(Stranded') /\ Cardinality(Stranded)' \in Nat
<1>1. IsFiniteSet(Stranded) /\ IsFiniteSet(Stranded')
  BY SMTT(60), FunnelAssumption, FS_Subset DEF Stranded
<1> QED  BY <1>1, FS_CardinalityType

\* Faults are only ever added.
LEMMA FaultsGrow ==
    ASSUME TypeOK, Next
    PROVE  faults' \in {faults, faults + 1}
BY ZenonT(60)
   DEF Next, SendStep, SendGateClosed, SendExhausted, SendCancelled, SendReady, SendHeld,
       SendFailed, SendLostAck, SendLanded, SendSkipped, SendMark, SendPark, SendSkip, SendsDone,
       CursorStep, StepWait, StepPulled, StepHeld, StepReady, StepLock, StepEnqueue, StepQueue,
       StepDeferred, StepFailed, StepLostAck, StepLanded, StepSkipped, StepPark, StepsDone,
       ProbeStep, Probe, ProbeThrows, ProbeReturns, TickStart, RouteStep, RouteClassified,
       RouteThrows, RoutePull, RouteIntent, ReplyStep, ReplyScan, ReplyHandle, AcceptanceStep,
       AcceptanceScan, Release, OperatorStep, DecideRead, DecideWrite, DecideResolve,
       RemoveTarget, Withdraw, WithdrawRelease, Environment, Accept, Write, Elapse, Crash, history

\* A withdrawal in flight stays until it is released or the process dies.
LEMMA WdStays ==
    ASSUME Next, ~WithdrawRelease, ~Crash,
           \A t \in Targets : ~Withdraw(t, "withdrawn") /\ ~Withdraw(t, "skipped")
    PROVE  wd' = wd
BY DEF Next, SendStep, SendGateClosed, SendExhausted, SendCancelled, SendReady, SendHeld,
       SendFailed, SendLostAck, SendLanded, SendSkipped, SendMark, SendPark, SendSkip, SendsDone,
       CursorStep, StepWait, StepPulled, StepHeld, StepReady, StepLock, StepEnqueue, StepQueue,
       StepDeferred, StepFailed, StepLostAck, StepLanded, StepSkipped, StepPark, StepsDone,
       ProbeStep, Probe, ProbeThrows, ProbeReturns, TickStart, RouteStep, RouteClassified,
       RouteThrows, RoutePull, RouteIntent, ReplyStep, ReplyScan, ReplyHandle, AcceptanceStep,
       AcceptanceScan, Release, OperatorStep, DecideRead, DecideWrite, DecideResolve,
       RemoveTarget, Environment, Accept, Write, Elapse, Others

\* No step but a crash strands a cursor, and a crash strands one at most.
LEMMA StrandStep ==
    OneEnrollment /\ Inv /\ LinkInv /\ StrandInv /\ [Next]_vars => StrandInv'
<1>1. StrandInv /\ UNCHANGED vars => StrandInv'
  BY DEF vars, store, world, history, StrandInv, Stranded
<1>2. ASSUME OneEnrollment, Inv, LinkInv, StrandInv, Next PROVE StrandInv'
  <2> USE <1>2 DEF Inv, TypeOK
  <2>1. faults \in Nat /\ faults' \in {faults, faults + 1}
    BY FaultsGrow, FunnelAssumption DEF HistoryOK
  <2>2. ASSUME Stranded' \subseteq Stranded PROVE StrandInv'
    <3>1. Cardinality(Stranded') <= Cardinality(Stranded)
      BY <2>2, StrandedFinite, FS_Subset
    <3> QED  BY <2>1, <3>1, StrandedFinite DEF StrandInv
  <2>3. ASSUME NEW u \in Targets, NEW e \in {"withdrawn", "skipped"}, Withdraw(u, e)
        PROVE  StrandInv'
    <3>1. wd'.tgt = u /\ wd.tgt = None /\ cursor' = cursor
      BY <2>3 DEF Withdraw, LinkInv, store
    <3>2. \A t \in Targets : t # u => link'[Person(t)] = link[Person(t)] /\ t # None
      BY <2>3, PersonType, FunnelAssumption DEF Withdraw, WorldOK, OneEnrollment
    <3>3. Stranded' \subseteq Stranded
      BY <3>1, <3>2 DEF Stranded, Person
    <3> QED  BY <2>2, <3>3
  <2>4. CASE ~(\E u \in Targets : Withdraw(u, "withdrawn") \/ Withdraw(u, "skipped"))
    <3>1. LinksMove
      BY <2>4, SendLinks, CursorStepLinks, OtherLinks
    <3>2. \A t \in Stranded' : t \in Stranded \/ (t = wd.tgt /\ wd' # wd)
      <4> SUFFICES ASSUME NEW t \in Targets, cursor'[t].state = "awaiting_connection",
                          link'[Person(t)] = "withdrawn", wd'.tgt # t
                   PROVE  t \in Stranded \/ (t = wd.tgt /\ wd' # wd)
        BY DEF Stranded, Person
      <4>1. link[Person(t)] = "withdrawn"
        BY <3>1, PersonType DEF LinksMove
      <4>2. cursor[t].state = "awaiting_connection"
        BY <3>1, <4>1 DEF LinksMove, LinkInv
      <4> QED  BY <4>1, <4>2 DEF Stranded
    <3>3. CASE Crash
      <4>1. faults' = faults + 1
        BY <3>3 DEF Crash
      <4>2. Cardinality(Stranded') <= Cardinality(Stranded) + 1
        <5>1. Stranded' \subseteq Stranded \cup {wd.tgt}
          BY <3>2
        <5> QED  BY <5>1, StrandedFinite, OneMore
      <4> QED  BY <2>1, <4>1, <4>2, StrandedFinite DEF StrandInv
    <3>4. CASE WithdrawRelease
      <4>1. wd.tgt \in Targets /\ wd.pc # "idle"
        BY <3>4 DEF WithdrawRelease, LinkInv, OthersOK
      <4>2. CASE cursor[wd.tgt].state = "awaiting_connection"
        <5>1. wd.tgt \in WithdrawnCursors
          BY <4>1, <4>2 DEF WithdrawnCursors, Parked
        <5>2. PICK u \in WithdrawnCursors : SetState(u, wd.pc)
          BY <3>4, <5>1 DEF WithdrawRelease
        <5>3. u = wd.tgt
          BY <4>1 DEF WithdrawnCursors, Parked, OneEnrollment
        <5>4. cursor'[wd.tgt].state # "awaiting_connection"
          BY <4>1, <5>2, <5>3 DEF SetState, StoreOK, CursorType, OthersOK
        <5>5. wd.tgt \notin Stranded'
          BY <5>4 DEF Stranded
        <5> QED  BY <2>2, <3>2, <5>5
      <4>3. CASE cursor[wd.tgt].state # "awaiting_connection"
        <5>1. \A t \in Targets : cursor'[t].state = "awaiting_connection" =>
                 cursor[t].state = "awaiting_connection" \/ LandedFlight(t)
          BY <3>1 DEF LinksMove
        <5>2. link[Person(wd.tgt)] = "withdrawn"
          BY <4>1 DEF LinkInv
        <5>3. wd.tgt \notin Stranded'
          BY <4>1, <4>3, <5>1, <5>2 DEF Stranded, LinkInv
        <5> QED  BY <2>2, <3>2, <5>3
      <4> QED  BY <4>2, <4>3
    <3>5. CASE ~Crash /\ ~WithdrawRelease
      <4>1. wd' = wd
        BY <2>4, <3>5, WdStays
      <4> QED  BY <2>2, <3>2, <4>1
    <3> QED  BY <3>3, <3>4, <3>5
  <2> QED  BY <2>3, <2>4
<1> QED  BY <1>1, <1>2

\* Where nobody is enrolled twice, a lead waits for an invite that is gone only
\* if a crash cut the withdrawal off from its cursor update.
THEOREM ParkedHaveInvites ==
    ASSUME OneEnrollment PROVE Spec => []ParkedInviteExists
<1>1. Init => StrandInv
  <2>1. ASSUME Init PROVE Stranded = {} /\ faults = 0
    BY <2>1 DEF Init, Stranded
  <2>2. ASSUME Init PROVE Cardinality(Stranded) = 0
    BY <2>1, <2>2, FS_EmptySet, Zenon
  <2> QED  BY <2>1, <2>2 DEF StrandInv
<1>2. Inv /\ LinkInv /\ StrandInv => ParkedInviteExists
  <2>1. ASSUME Inv, LinkInv
        PROVE  {t \in Parked : link[Person(t)] \notin {"pending", "connected"} /\ wd.tgt # t}
                  = Stranded
    BY <2>1, PersonType DEF Inv, TypeOK, WorldOK, LinkInv, Parked, Stranded
  <2> QED  BY <2>1 DEF StrandInv, ParkedInviteExists
<1>3. Inv /\ LinkInv /\ StrandInv /\ [Next]_vars => StrandInv'
  BY StrandStep
<1> QED  BY <1>1, <1>2, <1>3, InvHolds, LinkHolds, PTL DEF Spec

-----------------------------------------------------------------------------
(* Who has a message in hand *)

\* Approvals are decided one at a time.
OneDecision == \A o, p \in Operators : o = p

\* Where the dispatch tick holds a message it has not landed, and where it
\* holds one at all.
SendPc == {"sendProbe", "sendRoute", "sendExec"}
HoldPc == SendPc \cup {"sendMark", "sendSkip"}

\* A message is decided, queued or held, never two of them: a queued or held one
\* has been approved (and perhaps cancelled since), one being decided has not.
HandsInv ==
    /\ \A m \in sendQ : msg[m].status \in {"approved", "cancelled"}
    /\ dpc \in HoldPc => /\ msg[cur.msg].status \in {"approved", "cancelled"}
                         /\ cur.msg \notin sendQ
                         /\ msg[cur.msg].tgt = cur.tgt /\ msg[cur.msg].step = cur.step
    /\ \A o \in Operators : op[o].pc = "decide" =>
          /\ msg[op[o].msg].status \in {"draft", "cancelled"}
          /\ op[o].msg \notin sendQ
          /\ ~(dpc \in HoldPc /\ cur.msg = op[o].msg)
    /\ dpc \in {"idle", "steps"} \cup StepPc => sendQ = {}

\* A step that approves nothing and takes no message in hand.
MsgsCalm ==
    /\ \A m \in MsgIds :
          \/ msg'[m].status = msg[m].status
          \/ msg[m].status \in CancelableMessageStatuses /\ msg'[m].status = "cancelled"
    /\ \A o \in Operators : op'[o].pc = "decide" => op[o] = op'[o]
    /\ sendQ' \subseteq sendQ
    /\ dpc' \in HoldPc => /\ dpc \in HoldPc
                          /\ cur'.msg = cur.msg /\ cur'.tgt = cur.tgt /\ cur'.step = cur.step
    /\ dpc' \in SendPc => dpc \in SendPc
    /\ dpc = "sendMark" => dpc' = "sendMark"
    /\ dpc' \in {"idle", "steps"} \cup StepPc => sendQ' = {}

\* Such a step leaves every message in the hands it was in.
LEMMA HandsKeep ==
    ASSUME Inv, HandsInv, MsgsKept, MsgsCalm PROVE HandsInv'
<1> USE DEF Inv, TypeOK
<1>1. \A m \in MsgIds :
        /\ msg[m].status \in {"approved", "cancelled"} => msg'[m].status \in {"approved", "cancelled"}
        /\ msg[m].status \in {"draft", "cancelled"} => msg'[m].status \in {"draft", "cancelled"}
        /\ msg[m].status # "absent" => msg'[m].tgt = msg[m].tgt /\ msg'[m].step = msg[m].step
  BY DEF MsgsCalm, MsgsKept, CancelableMessageStatuses
<1>2. \A m \in sendQ' : msg'[m].status \in {"approved", "cancelled"}
  BY <1>1 DEF MsgsCalm, HandsInv, DispOK
<1>3. dpc' \in HoldPc => /\ msg'[cur'.msg].status \in {"approved", "cancelled"}
                         /\ cur'.msg \notin sendQ'
                         /\ msg'[cur'.msg].tgt = cur'.tgt /\ msg'[cur'.msg].step = cur'.step
  <2>1. dpc \in HoldPc => cur.msg \in MsgIds
    BY DEF RowsExist, HoldPc, SendPc
  <2> QED  BY <1>1, <2>1 DEF MsgsCalm, HandsInv
<1>4. ASSUME NEW o \in Operators, op'[o].pc = "decide"
      PROVE  /\ msg'[op'[o].msg].status \in {"draft", "cancelled"}
             /\ op'[o].msg \notin sendQ'
             /\ ~(dpc' \in HoldPc /\ cur'.msg = op'[o].msg)
  <2>1. op[o] = op'[o] /\ op[o].pc = "decide"
    BY <1>4 DEF MsgsCalm
  <2>2. op[o].msg \in MsgIds
    BY <2>1 DEF OthersOK, OpType, NoOp
  <2> QED  BY <1>1, <2>1, <2>2 DEF MsgsCalm, HandsInv
<1> QED  BY <1>2, <1>3, <1>4 DEF MsgsCalm, HandsInv

\* Cancelling a target's messages approves none.
LEMMA CancelCalm ==
    ASSUME NEW ms \in [MsgIds -> MsgType], NEW t, NEW m \in MsgIds
    PROVE  \/ CancelMessages(ms, t)[m].status = ms[m].status
           \/ /\ ms[m].status \in CancelableMessageStatuses
              /\ CancelMessages(ms, t)[m].status = "cancelled"
BY DEF CancelMessages, MsgType

\* Counting a failure changes no status.
LEMMA CountCalm ==
    ASSUME NEW ms \in [MsgIds -> MsgType], NEW t, NEW ty, NEW m \in MsgIds
    PROVE  CountFailure(ms, t, ty)[m].status = ms[m].status
BY DEF CountFailure, MsgType

\* The approved-message loop approves nothing.
LEMMA SendCalm ==
    ASSUME Inv, HandsInv, SendStep, ~SendMark, \A m \in MsgIds : ~SendReady(m) PROVE MsgsCalm
<1> USE DEF Inv, TypeOK, HoldPc, SendPc
<1> DEFINE Statuses == \A m \in MsgIds :
              \/ msg'[m].status = msg[m].status
              \/ msg[m].status \in CancelableMessageStatuses /\ msg'[m].status = "cancelled"
<1>1. ASSUME NEW m \in MsgIds, msg[m].status \in {"approved", "cancelled"}, SetStatus(m, "cancelled")
      PROVE  Statuses
  BY <1>1 DEF SetStatus, StoreOK, MsgType, CancelableMessageStatuses
<1>2. op' = op
  BY DEF SendStep, SendGateClosed, SendExhausted, SendCancelled, SendHeld, SendFailed,
         SendLostAck, SendLanded, SendSkipped, SendPark, SendSkip, SendsDone, Others
<1>3. ASSUME NEW m \in MsgIds, SendGateClosed(m) \/ SendHeld(m) \/ SendExhausted(m) \/ SendCancelled(m)
      PROVE  MsgsCalm
  <2>1. dpc = "sends" /\ m \in sendQ /\ sendQ' = sendQ \ {m} /\ dpc' = dpc
    BY <1>3 DEF SendGateClosed, SendHeld, SendExhausted, SendCancelled, Dequeue, SendReturns
  <2>2. Statuses
    <3>1. CASE SendGateClosed(m) \/ SendHeld(m)
      BY <3>1 DEF SendGateClosed, SendHeld, store
    <3>2. CASE SendExhausted(m)
      BY <1>1, <2>1, <3>2 DEF SendExhausted, GiveUpApproved, HaltSendLane, HandsInv
    <3>3. CASE SendCancelled(m)
      <4> DEFINE ms == [msg EXCEPT ![m].status = "cancelled"]
      <4>1. ms \in [MsgIds -> MsgType]
        BY DEF StoreOK, MsgType, MessageStatuses
      <4>2. \A n \in MsgIds :
              \/ ms[n].status = msg[n].status
              \/ msg[n].status \in CancelableMessageStatuses /\ ms[n].status = "cancelled"
        BY <2>1 DEF HandsInv, StoreOK, MsgType, CancelableMessageStatuses
      <4>3. msg' = CancelMessages(ms, msg[m].tgt)
        BY <3>3 DEF SendCancelled
      <4> HIDE DEF ms
      <4> QED  BY <4>1, <4>2, <4>3, CancelCalm
    <3> QED  BY <1>3, <3>1, <3>2, <3>3
  <2> QED  BY <1>2, <2>1, <2>2 DEF MsgsCalm, StepPc
<1>4. CASE SendFailed \/ SendLostAck \/ SendPark \/ SendSkip
  <2>1. dpc # "sendMark" /\ dpc' = "sends" /\ sendQ' = sendQ
    BY <1>4 DEF SendFailed, SendLostAck, SendPark, SendSkip, Return
  <2>2. Statuses
    <3>1. CASE SendFailed \/ SendLostAck \/ SendPark
      BY <3>1, CountCalm DEF SendFailed, SendLostAck, SendPark, StoreOK
    <3>2. CASE SendSkip
      BY <1>1, <3>2 DEF SendSkip, HandsInv, RowsExist
    <3> QED  BY <1>4, <3>1, <3>2
  <2> QED  BY <1>2, <2>1, <2>2 DEF MsgsCalm, StepPc
<1>5. CASE SendLanded \/ SendSkipped
  <2>1. dpc = "sendExec" /\ dpc' \in {"sendMark", "sendSkip"} /\ UNCHANGED <<sendQ, cur, msg>>
    BY <1>5 DEF SendLanded, SendSkipped, Goto, store
  <2> QED  BY <1>2, <2>1 DEF MsgsCalm, StepPc
<1>6. CASE SendsDone
  <2>1. dpc = "sends" /\ dpc' = "steps" /\ sendQ = {} /\ UNCHANGED <<sendQ, msg>>
    BY <1>6 DEF SendsDone, store
  <2> QED  BY <1>2, <2>1 DEF MsgsCalm
<1> QED  BY <1>3, <1>4, <1>5, <1>6 DEF SendStep

\* Neither do the cursor loops; a new row is a draft.
LEMMA CursorStepCalm ==
    ASSUME Inv, HandsInv, CursorStep, ~StepEnqueue PROVE MsgsCalm
<1> USE DEF Inv, TypeOK
<1> DEFINE Statuses == \A m \in MsgIds :
              \/ msg'[m].status = msg[m].status
              \/ msg[m].status \in CancelableMessageStatuses /\ msg'[m].status = "cancelled"
<1>1. Statuses
  <2>1. ASSUME NEW t, msg' = CancelMessages(msg, t) PROVE Statuses
    BY <2>1, CancelCalm DEF StoreOK
  <2>2. ASSUME NEW t, NEW ty, msg' = CountFailure(msg, t, ty) PROVE Statuses
    BY <2>2, CountCalm DEF StoreOK
  <2> HIDE DEF Inv, TypeOK
  <2>3. UNCHANGED msg \/ (\E t : msg' = CancelMessages(msg, t))
                      \/ (\E t, ty : msg' = CountFailure(msg, t, ty))
    BY ZenonT(60)
       DEF CursorStep, StepWait, StepPulled, StepHeld, StepReady, StepLock, StepQueue,
           StepDeferred, StepFailed, StepLostAck, StepLanded, StepSkipped, StepPark, StepsDone,
           PullTargetFromFunnel, ExcludeTargetFromFunnel, StopFunnel, store
  <2> QED  BY <2>1, <2>2, <2>3
<1>2. op' = op /\ sendQ' = sendQ
  BY ZenonT(60)
     DEF CursorStep, StepWait, StepPulled, StepHeld, StepReady, StepLock, StepQueue,
         StepDeferred, StepFailed, StepLostAck, StepLanded, StepSkipped, StepPark, StepsDone,
         Others, StepReturns, Goto, Return
<1>3. dpc \in {"steps"} \cup StepPc
  BY DEF CursorStep, StepWait, StepPulled, StepHeld, StepReady, StepLock, StepQueue,
         StepDeferred, StepFailed, StepLostAck, StepLanded, StepSkipped, StepPark, StepsDone,
         TakeStep, StepPc
<1>4. dpc' \in {"idle", "steps"} \cup StepPc
  <2>1. ASSUME NEW w \in stepQ, StepReady(w) PROVE dpc' \in {"stepProbe", "stepLock", "stepGate"}
    <3>1. TypeAt(w[2]) \in {"message", "connect", "touch"}
      BY <2>1, StepRecord DEF StepReady, StepTypes, DispOK
    <3> QED  BY <2>1, <3>1 DEF StepReady
  <2> QED  BY <2>1 DEF CursorStep, StepWait, StepPulled, StepHeld, StepLock, StepQueue,
         StepDeferred, StepFailed, StepLostAck, StepLanded, StepSkipped, StepPark, StepsDone,
         TakeStep, StepReturns, Goto, Return, StepPc
<1>5. sendQ = {}
  BY <1>3 DEF HandsInv
<1> QED  BY <1>1, <1>2, <1>3, <1>4, <1>5 DEF MsgsCalm, StepPc, HoldPc, SendPc

\* Nor does anybody else who is not deciding.
LEMMA OtherCalm ==
    ASSUME Inv, HandsInv, Next, ~SendStep, ~CursorStep, ~TickStart, ~Crash,
           \A o \in Operators : /\ ~DecideWrite(o)
                                /\ \A m \in MsgIds, v \in {"approved", "rejected"} : ~DecideRead(o, m, v)
    PROVE  MsgsCalm
<1> USE DEF Inv, TypeOK
<1> DEFINE Statuses == \A m \in MsgIds :
              \/ msg'[m].status = msg[m].status
              \/ msg[m].status \in CancelableMessageStatuses /\ msg'[m].status = "cancelled"
<1>1. ASSUME UNCHANGED disp, \A o \in Operators : op'[o].pc = "decide" => op[o] = op'[o],
             UNCHANGED msg \/ \E t : msg' = CancelMessages(msg, t)
      PROVE  MsgsCalm
  <2>1. Statuses
    BY <1>1, CancelCalm DEF StoreOK
  <2> QED  BY <1>1, <2>1 DEF MsgsCalm, HandsInv, disp
<1>2. CASE ProbeStep
  <2>1. UNCHANGED <<msg, op, sendQ>> /\ dpc \in {"sendProbe", "sendRoute", "stepProbe", "stepRoute"}
    BY <1>2 DEF ProbeStep, Probe, ProbeThrows, ProbeReturns, ProbePc, BrokenLane, Goto, Return,
           Others, store
  <2>2. CASE dpc \in {"sendProbe", "sendRoute"}
    <3>1. dpc' = "sends" \/ (dpc' \in {"sendExec", "sendRoute"} /\ cur' = cur)
      BY <1>2, <2>2 DEF ProbeStep, Probe, ProbeThrows, ProbeReturns, ProbePc, BrokenLane, Goto,
             Return, Loop, AfterProbe
    <3> QED  BY <2>1, <2>2, <3>1 DEF MsgsCalm, HoldPc, SendPc, StepPc
  <2>3. CASE dpc \in {"stepProbe", "stepRoute"}
    <3>1. dpc' \in {"steps", "stepLock", "stepRoute"}
      BY <1>2, <2>3 DEF ProbeStep, Probe, ProbeThrows, ProbeReturns, ProbePc, BrokenLane, Goto,
             Return, Loop, AfterProbe
    <3> QED  BY <2>1, <2>3, <3>1 DEF MsgsCalm, HoldPc, SendPc, StepPc, HandsInv
  <2> QED  BY <2>1, <2>2, <2>3
<1>3. ASSUME NEW c \in Callers, RouteStep(c) PROVE MsgsCalm
  BY <1>1, <1>3
     DEF RouteStep, RouteClassified, RouteThrows, RoutePull, RouteIntent, PullTargetFromFunnel,
         StopFunnel, store
<1>4. CASE ReplyStep \/ AcceptanceStep
  BY SMTT(60), <1>1, <1>4
     DEF ReplyStep, ReplyScan, ReplyHandle, AcceptanceStep, AcceptanceScan, Release, store
<1>5. ASSUME NEW o \in Operators, DecideResolve(o) PROVE MsgsCalm
  <2>1. \A q \in Operators : op'[q].pc = "decide" => op[q] = op'[q]
    BY <1>5 DEF DecideResolve, OthersOK, NoOp
  <2> QED  BY <1>1, <1>5, <2>1 DEF DecideResolve
<1>6. ASSUME NEW t \in Targets, RemoveTarget(t) \/ Withdraw(t, "withdrawn") \/ Withdraw(t, "skipped")
      PROVE  MsgsCalm
  BY <1>1, <1>6 DEF RemoveTarget, Withdraw, ExcludeTargetFromFunnel, StopFunnel, store
<1>7. CASE WithdrawRelease
  BY <1>1, <1>7 DEF WithdrawRelease
<1>8. ASSUME NEW p \in Persons, Accept(p) \/ Write(p) PROVE MsgsCalm
  BY <1>1, <1>8 DEF Accept, Write, store, Others
<1>9. ASSUME NEW t \in Targets, Elapse(t) PROVE MsgsCalm
  BY <1>1, <1>9 DEF Elapse, Others
<1> QED  BY <1>2, <1>3, <1>4, <1>5, <1>6, <1>7, <1>8, <1>9 DEF Next, OperatorStep, Environment

\* Approving puts a message in nobody's hands, and the one who decides lets it go.
LEMMA DecideHands ==
    ASSUME OneDecision, Inv, HandsInv, MsgsKept, NEW o \in Operators,
           \/ DecideWrite(o)
           \/ \E m \in MsgIds, v \in {"approved", "rejected"} : DecideRead(o, m, v)
    PROVE  HandsInv'
<1> USE DEF Inv, TypeOK
<1>1. UNCHANGED <<dpc, cur, sendQ>>
  BY DEF DecideWrite, DecideRead, disp
<1>2. \A q \in Operators : q = o
  BY DEF OneDecision
<1>3. dpc \in HoldPc => cur.msg \in MsgIds
  BY DEF RowsExist, HoldPc, SendPc
<1>4. CASE DecideWrite(o)
  <2>1. op[o].msg \in MsgIds /\ op[o].pc = "decide" /\ op'[o].pc # "decide"
    BY <1>4 DEF DecideWrite, OthersOK, OpType, NoOp
  <2>2. \A m \in MsgIds : m # op[o].msg => msg'[m] = msg[m]
    BY <1>4 DEF DecideWrite, SetStatus, StoreOK
  <2>3. op[o].msg \notin sendQ /\ ~(dpc \in HoldPc /\ cur.msg = op[o].msg)
    BY <2>1 DEF HandsInv
  <2> QED  BY <1>1, <1>2, <1>3, <2>1, <2>2, <2>3 DEF HandsInv, DispOK
<1>5. ASSUME NEW m \in MsgIds, NEW v \in {"approved", "rejected"}, DecideRead(o, m, v)
      PROVE  HandsInv'
  <2>1. msg' = msg /\ msg[m].status = "draft" /\ op'[o].msg = m
    BY <1>5 DEF DecideRead, store, OthersOK
  <2>2. m \notin sendQ /\ ~(dpc \in HoldPc /\ cur.msg = m)
    BY <2>1 DEF HandsInv
  <2> QED  BY <1>1, <1>2, <2>1, <2>2 DEF HandsInv
<1> QED  BY <1>4, <1>5

\* A step that takes one message out of the queue and into the tick's hand, or
\* queues the approved, or drafts a row, takes none out of another's hands.
LEMMA TakeHands ==
    ASSUME Inv, HandsInv, MsgsKept,
           TickStart \/ SendMark \/ StepEnqueue \/ Crash \/ (\E m \in MsgIds : SendReady(m))
    PROVE  HandsInv'
<1> USE DEF Inv, TypeOK
<1>1. \A o \in Operators : op[o].pc = "decide" => op[o].msg \in MsgIds
  BY DEF OthersOK, OpType, NoOp
<1>2. CASE TickStart
  <2>1. dpc' = "sends" /\ UNCHANGED <<msg, op>> /\ sendQ' = {m \in MsgIds : msg[m].status = "approved"}
    BY <1>2 DEF TickStart, store
  <2> QED  BY <2>1 DEF HandsInv, HoldPc, SendPc, StepPc
<1>3. ASSUME NEW m \in MsgIds, SendReady(m) PROVE HandsInv'
  <2>1. /\ m \in sendQ /\ sendQ' = sendQ \ {m} /\ UNCHANGED <<msg, op>>
        /\ dpc' \in SendPc
        /\ cur'.msg = m /\ cur'.tgt = msg[m].tgt /\ cur'.step = msg[m].step
    BY <1>3 DEF SendReady, Dequeue, Others, store, Idle, SendPc
  <2> QED  BY <2>1 DEF HandsInv, HoldPc, SendPc, StepPc
<1>4. CASE SendMark
  <2>1. cur.msg \in MsgIds /\ dpc = "sendMark" /\ dpc' = "sendPark" /\ UNCHANGED <<sendQ, op>>
    BY <1>4 DEF SendMark, Goto, Others, RowsExist
  <2>2. \A m \in MsgIds : m # cur.msg => msg'[m] = msg[m]
    BY <1>4 DEF SendMark, SetStatus, StoreOK
  <2>3. cur.msg \notin sendQ /\ \A o \in Operators : op[o].pc = "decide" => op[o].msg # cur.msg
    BY <2>1 DEF HandsInv, HoldPc
  <2> QED  BY <1>1, <2>1, <2>2, <2>3 DEF HandsInv, HoldPc, SendPc, StepPc, DispOK
<1>5. CASE StepEnqueue
  <2>1. PICK n \in MsgIds : /\ msg[n].status = "absent"
                            /\ msg' = [msg EXCEPT ![n] = [status |-> "draft", tgt |-> cur.tgt,
                                                          step |-> cur.step, fails |-> 0]]
    BY <1>5 DEF StepEnqueue
  <2>2. dpc = "stepGate" /\ dpc' = "stepQueue" /\ UNCHANGED <<sendQ, op>>
    BY <1>5 DEF StepEnqueue, Goto, Others
  <2>3. sendQ = {}
    BY <2>2 DEF HandsInv, StepPc
  <2>4. \A o \in Operators : op[o].pc = "decide" => op[o].msg # n
    BY <2>1 DEF HandsInv
  <2> QED  BY <1>1, <2>1, <2>2, <2>3, <2>4 DEF HandsInv, HoldPc, SendPc, StepPc, StoreOK
<1>6. CASE Crash
  BY <1>6 DEF Crash, HandsInv, HoldPc, SendPc, NoOp
<1> QED  BY <1>2, <1>3, <1>4, <1>5, <1>6

\* Every step keeps each message in one pair of hands.
LEMMA HandsStep == OneDecision /\ Inv /\ HandsInv /\ [Next]_vars => HandsInv'
<1>1. HandsInv /\ UNCHANGED vars => HandsInv'
  BY DEF vars, store, disp, HandsInv, StepPc, HoldPc, SendPc
<1>2. ASSUME OneDecision, Inv, HandsInv, Next PROVE HandsInv'
  <2>1. MsgsKept
    BY <1>2, NextKeeps DEF Inv
  <2>2. CASE MsgsCalm
    BY <1>2, <2>1, <2>2, HandsKeep
  <2>3. CASE TickStart \/ SendMark \/ StepEnqueue \/ Crash \/ (\E m \in MsgIds : SendReady(m))
    BY <1>2, <2>1, <2>3, TakeHands
  <2>4. ASSUME NEW o \in Operators,
               \/ DecideWrite(o)
               \/ \E m \in MsgIds, v \in {"approved", "rejected"} : DecideRead(o, m, v)
        PROVE  HandsInv'
    BY <1>2, <2>1, <2>4, DecideHands
  <2> QED  BY <1>2, <2>2, <2>3, <2>4, SendCalm, CursorStepCalm, OtherCalm
<1> QED  BY <1>1, <1>2

\* Each message stays in one pair of hands.
LEMMA HandsHold == ASSUME OneDecision PROVE Spec => []HandsInv
<1>1. Init => HandsInv
  BY DEF Init, HandsInv, NoOp, HoldPc, SendPc
<1>2. Inv /\ HandsInv /\ [Next]_vars => HandsInv'
  BY HandsStep
<1> QED  BY <1>1, <1>2, InvHolds, PTL DEF Spec

-----------------------------------------------------------------------------
(* What may still be sent for a step *)

\* A message that may still reach its person: open, being decided, queued or
\* held; not the one whose send has landed and is about to be marked.
Alive(m) ==
    /\ \/ msg[m].status \in CancelableMessageStatuses
       \/ \E o \in Operators : op[o].pc = "decide" /\ op[o].msg = m
       \/ m \in sendQ
       \/ dpc \in SendPc /\ cur.msg = m
    /\ ~(dpc = "sendMark" /\ cur.msg = m)

AliveFor(t, k) == {m \in MsgIds : msg[m].tgt = t /\ msg[m].step = k /\ Alive(m)}

\* The cursor may still draft or send step k: it is short of it, or at it and
\* running or in the tick's hands, unless it has just done so.
Spawns(t, k) ==
    \/ cursor[t].step < k
    \/ /\ cursor[t].step = k
       /\ cursor[t].state = "in_progress" \/ Queued(t) \/ InFlight(t)
       /\ ~(dpc \in {"stepQueue", "stepPark"} /\ cur.tgt = t)

\* A message that is alive is a row.
LEMMA AliveExists ==
    ASSUME Inv, HandsInv, NEW m \in MsgIds, Alive(m) PROVE msg[m].status # "absent"
BY DEF Inv, HandsInv, Alive, CancelableMessageStatuses, HoldPc

\* Only drafting brings a message to life, and a restart the one just landed.
LEMMA NoNewAlive ==
    ASSUME Inv, HandsInv, HandsInv', Next, ~StepEnqueue, ~Crash, NEW m \in MsgIds, Alive(m)'
    PROVE  Alive(m)
<1> USE DEF Inv, TypeOK
<1>1. CASE MsgsCalm
  <2>1. msg'[m].status \in CancelableMessageStatuses => msg[m].status \in CancelableMessageStatuses
    BY <1>1 DEF MsgsCalm, CancelableMessageStatuses
  <2>2. (\E o \in Operators : op'[o].pc = "decide" /\ op'[o].msg = m) =>
           \E o \in Operators : op[o].pc = "decide" /\ op[o].msg = m
    BY <1>1 DEF MsgsCalm
  <2>3. m \in sendQ' => m \in sendQ
    BY <1>1 DEF MsgsCalm
  <2>4. dpc' \in SendPc /\ cur'.msg = m => dpc \in SendPc /\ cur.msg = m
    BY <1>1 DEF MsgsCalm, HoldPc
  <2>5. dpc = "sendMark" /\ cur.msg = m => dpc' = "sendMark" /\ cur'.msg = m
    BY <1>1 DEF MsgsCalm, HoldPc
  <2> QED  BY <2>1, <2>2, <2>3, <2>4, <2>5 DEF Alive
<1>2. CASE TickStart
  <2>1. /\ dpc = "idle" /\ dpc' = "sends" /\ UNCHANGED <<msg, op>>
        /\ sendQ' = {n \in MsgIds : msg[n].status = "approved"}
    BY <1>2 DEF TickStart, store
  <2> QED  BY <2>1 DEF Alive, SendPc, CancelableMessageStatuses
<1>3. ASSUME NEW n \in MsgIds, SendReady(n) PROVE Alive(m)
  <2>1. /\ n \in sendQ /\ sendQ' = sendQ \ {n} /\ UNCHANGED <<msg, op>>
        /\ dpc = "sends" /\ dpc' \in SendPc /\ cur'.msg = n
    BY <1>3 DEF SendReady, Dequeue, Others, store, Idle, SendPc
  <2> QED  BY <2>1 DEF Alive
<1>4. CASE SendMark
  <2>1. cur.msg \in MsgIds /\ dpc = "sendMark" /\ dpc' = "sendPark" /\ UNCHANGED <<sendQ, op>>
    BY <1>4 DEF SendMark, Goto, Others, RowsExist
  <2>2. /\ \A n \in MsgIds : n # cur.msg => msg'[n] = msg[n]
        /\ msg'[cur.msg].status = "sent"
    BY <1>4, <2>1 DEF SendMark, SetStatus, StoreOK, MsgType
  <2>3. cur.msg \notin sendQ /\ \A o \in Operators : op[o].pc = "decide" => op[o].msg # cur.msg
    BY <2>1 DEF HandsInv, HoldPc
  <2>4. m # cur.msg
    BY <2>1, <2>2, <2>3 DEF Alive, SendPc, CancelableMessageStatuses
  <2> QED  BY <2>1, <2>2, <2>4 DEF Alive, SendPc
<1>5. ASSUME NEW o \in Operators, DecideWrite(o) PROVE Alive(m)
  <2>1. op[o].msg \in MsgIds /\ op[o].pc = "decide" /\ UNCHANGED <<dpc, cur, sendQ>>
    BY <1>5 DEF DecideWrite, OthersOK, OpType, NoOp, disp
  <2>2. \A n \in MsgIds : n # op[o].msg => msg'[n] = msg[n]
    BY <1>5 DEF DecideWrite, SetStatus, StoreOK
  <2>3. \A q \in Operators : op'[q].pc = "decide" => op[q] = op'[q]
    BY <1>5 DEF DecideWrite, OthersOK, NoOp
  <2>4. CASE m = op[o].msg
    BY <2>1, <2>4 DEF Alive
  <2>5. CASE m # op[o].msg
    <3>1. msg'[m] = msg[m]
      BY <2>2, <2>5
    <3>2. (\E q \in Operators : op'[q].pc = "decide" /\ op'[q].msg = m) =>
             \E q \in Operators : op[q].pc = "decide" /\ op[q].msg = m
      BY <2>3
    <3> QED  BY <2>1, <3>1, <3>2 DEF Alive
  <2> QED  BY <2>4, <2>5
<1>6. ASSUME NEW o \in Operators, NEW n \in MsgIds, NEW v \in {"approved", "rejected"},
             DecideRead(o, n, v)
      PROVE  Alive(m)
  <2>1. msg[n].status = "draft" /\ UNCHANGED <<msg, dpc, cur, sendQ>>
    BY <1>6 DEF DecideRead, store, disp
  <2>2. (\E q \in Operators : op'[q].pc = "decide" /\ op'[q].msg = m) =>
           m = n \/ \E q \in Operators : op[q].pc = "decide" /\ op[q].msg = m
    BY <1>6 DEF DecideRead, OthersOK
  <2> QED  BY <2>1, <2>2 DEF Alive, CancelableMessageStatuses
<1> QED  BY <1>1, <1>2, <1>3, <1>4, <1>5, <1>6, SendCalm, CursorStepCalm, OtherCalm

\* advanceAfterStep goes one step on.
LEMMA AdvanceGoesOn == ASSUME NEW k PROVE AdvanceAfterStep(k).step = k + 1
BY DEF AdvanceAfterStep

\* A cursor that goes on has nothing new to give for the steps it goes to, and
\* one that stays where it is gives again only if it runs or is held again.
LEMMA SpawnKeeps ==
    ASSUME NEW t, NEW k \in Nat, cursor[t].step \in Nat, cursor'[t].step \in Nat,
           \/ cursor'[t].step > cursor[t].step
           \/ /\ cursor'[t].step = cursor[t].step
              /\ cursor'[t].state = "in_progress" \/ Queued(t)' \/ InFlight(t)' =>
                    cursor[t].state = "in_progress" \/ Queued(t) \/ InFlight(t)
              /\ dpc \in {"stepQueue", "stepPark"} /\ cur.tgt = t =>
                    \/ dpc' \in {"stepQueue", "stepPark"} /\ cur'.tgt = t
                    \/ ~(cursor'[t].state = "in_progress" \/ Queued(t)' \/ InFlight(t)'),
           Spawns(t, k)'
    PROVE  Spawns(t, k)
BY DEF Spawns

\* What a quiet step must do besides to give nothing new.
HoldsNoMore ==
    /\ \A w \in stepQ' : w \in stepQ \/ cursor[w[1]].state = "in_progress"
    /\ dpc' \in StepPc => \/ dpc \in StepPc /\ cur'.tgt = cur.tgt
                          \/ \E w \in stepQ : cur'.tgt = w[1]
    /\ dpc \in {"stepQueue", "stepPark"} => dpc' \in {"stepQueue", "stepPark"} /\ cur'.tgt = cur.tgt

\* Then it gives nothing new.
LEMMA QuietSpawn ==
    ASSUME Inv, Inv', QuietCursors, HoldsNoMore, NEW t \in Targets, NEW k \in Nat, Spawns(t, k)'
    PROVE  Spawns(t, k)
<1>1. cursor[t].step \in Nat /\ cursor'[t].step = cursor[t].step
  BY DEF Inv, TypeOK, StoreOK, CursorType, QuietCursors
<1>2. cursor'[t].state = "in_progress" => cursor[t].state = "in_progress"
  BY DEF QuietCursors, SettledStates
<1>3. Queued(t)' => Queued(t) \/ cursor[t].state = "in_progress"
  BY DEF HoldsNoMore, Queued
<1>4. InFlight(t)' => InFlight(t) \/ Queued(t)
  BY DEF HoldsNoMore, InFlight, Queued
<1>5. dpc \in {"stepQueue", "stepPark"} /\ cur.tgt = t =>
         dpc' \in {"stepQueue", "stepPark"} /\ cur'.tgt = t
  BY DEF HoldsNoMore
<1> QED  BY <1>1, <1>2, <1>3, <1>4, <1>5, SpawnKeeps

\* The approved-message loop ends by taking up the due cursors, which run.
LEMMA SendSpawn ==
    ASSUME Inv, Inv', FlightInv, SendStep, NEW t \in Targets, NEW k \in Nat, Spawns(t, k)'
    PROVE  Spawns(t, k)
<1> USE DEF Inv, TypeOK
<1>1. cursor[t].step \in Nat /\ cursor'[t].step \in Nat
  BY DEF StoreOK, CursorType
<1>2. CASE SendPark
  <2>1. /\ dpc = "sendPark" /\ dpc' = "sends" /\ stepQ = {} /\ stepQ' = {}
    BY <1>2 DEF SendPark, Return, FlightInv, StepPc
  <2>2. \/ cursor'[t].step = cursor[t].step /\ cursor'[t].state \in {cursor[t].state, "awaiting_connection"}
        \/ cursor'[t].step = cursor[t].step + 1
    BY <1>2, AdvanceGoesOn DEF SendPark, StoreOK, CursorType
  <2> QED  BY <1>1, <2>1, <2>2, SpawnKeeps DEF Queued, InFlight, StepPc
<1>3. CASE ~SendPark
  <2>1. HoldsNoMore
    <3>1. CASE SendsDone
      <4>1. \A w \in stepQ' : cursor[w[1]].state = "in_progress"
        BY SMTT(60), <3>1 DEF SendsDone, DueTargetProgress, Snapshot
      <4> QED  BY <3>1, <4>1 DEF SendsDone, HoldsNoMore, StepPc
    <3>2. CASE ~SendsDone
      <4>1. dpc \notin {"stepQueue", "stepPark"} /\ stepQ' = stepQ
        BY ZenonT(60), <1>3, <3>2
           DEF SendStep, SendGateClosed, SendExhausted, SendCancelled, SendReady, SendHeld,
               SendFailed, SendLostAck, SendLanded, SendSkipped, SendMark, SendSkip, SendReturns,
               Dequeue, Return, Goto
      <4>2. dpc' \notin StepPc
        BY ZenonT(60), <1>3, <3>2
           DEF SendStep, SendGateClosed, SendExhausted, SendCancelled, SendReady, SendHeld,
               SendFailed, SendLostAck, SendLanded, SendSkipped, SendMark, SendSkip, SendReturns,
               Dequeue, Return, Goto, StepPc
      <4> QED  BY SMTT(60), <4>1, <4>2 DEF HoldsNoMore
    <3> QED  BY <3>1, <3>2
  <2> QED  BY <1>3, <2>1, SendQuiet, QuietSpawn
<1> QED  BY <1>2, <1>3

\* The cursor loops move on the one cursor they hold.
LEMMA CursorStepSpawn ==
    ASSUME Inv, Inv', FlightInv, CursorStep, NEW t \in Targets, NEW k \in Nat, Spawns(t, k)'
    PROVE  Spawns(t, k)
<1> USE DEF Inv, TypeOK
<1>1. cursor[t].step \in Nat /\ cursor'[t].step \in Nat
  BY DEF StoreOK, CursorType
<1>2. ASSUME NEW w \in stepQ, StepWait(w) PROVE Spawns(t, k)
  <2>1. /\ w[1] \in Targets /\ w[2] \in Nat /\ w[2] = cursor[w[1]].step
        /\ dpc = "steps" /\ dpc' = "steps" /\ stepQ' \subseteq stepQ
    BY <1>2 DEF StepWait, TakeStep, StepReturns, FlightInv, DispOK
  <2>2. CASE t # w[1]
    <3>1. cursor'[t] = cursor[t]
      BY <1>2, <2>2 DEF StepWait, SetState, StoreOK
    <3> QED  BY <1>1, <2>1, <3>1, SpawnKeeps DEF Queued, InFlight, StepPc
  <2>3. CASE t = w[1]
    <3>1. Queued(t)
      BY <2>3 DEF Queued
    <3>2. cursor'[t].step >= cursor[t].step
      <4>1. CASE SetState(w[1], "completed")
        BY <1>1, <2>1, <2>3, <4>1 DEF SetState, StoreOK, CursorType
      <4>2. CASE w[2] < Len(Steps) /\ TypeAt(w[2]) = "delay"
        <5> DEFINE next == AdvanceAfterStep(w[2])
                   c == IF next.state = "completed" THEN next
                        ELSE [next EXCEPT !.state = cursor[w[1]].state]
        <5>1. cursor' = [cursor EXCEPT ![w[1]] = c]
          BY <1>2, <2>1, <4>2 DEF StepWait
        <5>2. next \in CursorType /\ next.step = w[2] + 1
          BY <2>1, AdvanceType, AdvanceGoesOn
        <5>3. c.step = w[2] + 1
          BY <5>2 DEF CursorType
        <5> HIDE DEF c
        <5> QED  BY <2>1, <2>3, <5>1, <5>3 DEF StoreOK
      <4> QED  BY <1>2, <4>1, <4>2 DEF StepWait
    <3> QED  BY <1>1, <2>1, <3>1, <3>2, SpawnKeeps
  <2> QED  BY <2>2, <2>3
<1>3. CASE StepQueue \/ StepPark
  <2>1. /\ cur.tgt \in Targets /\ dpc \in StepPc /\ cur.step = cursor[cur.tgt].step
        /\ dpc' = "steps" /\ stepQ' = stepQ
    BY <1>3 DEF StepQueue, StepPark, Return, RowsExist, FlightInv, StepPc
  <2>2. CASE t # cur.tgt
    <3>1. cursor'[t] = cursor[t]
      BY <1>3, <2>2 DEF StepQueue, StepPark, ParkAfterConnect, SetState, StoreOK
    <3> QED  BY <1>1, <2>1, <2>2, <3>1, SpawnKeeps DEF Queued, InFlight, StepPc
  <2>3. CASE t = cur.tgt
    <3>1. ~Queued(t)' /\ ~InFlight(t)'
      BY <2>1, <2>3 DEF FlightInv, Queued, InFlight, StepPc
    <3>2. \/ cursor'[t].step = cursor[t].step /\ cursor'[t].state # "in_progress"
          \/ cursor'[t].step = cursor[t].step + 1
      <4>1. CASE StepQueue
        BY <2>3, <4>1 DEF StepQueue, StoreOK, CursorType
      <4>2. CASE StepPark /\ TypeAt(cur.step) = "connect"
        BY <2>3, <4>2 DEF StepPark, ParkAfterConnect, SetState, StoreOK, CursorType
      <4>3. CASE StepPark /\ TypeAt(cur.step) # "connect"
        BY <2>1, <2>3, <4>3, AdvanceGoesOn DEF StepPark, StoreOK
      <4> QED  BY <1>3, <4>1, <4>2, <4>3
    <3> QED  BY <1>1, <3>1, <3>2, SpawnKeeps
  <2> QED  BY <2>2, <2>3
<1>4. CASE ~DrivesCursor
  <2>1. HoldsNoMore
    <3>1. ASSUME NEW w \in stepQ, StepReady(w) PROVE HoldsNoMore
      BY <3>1 DEF StepReady, TakeStep, Idle, HoldsNoMore
    <3>2. ASSUME NEW w \in stepQ, StepPulled(w) \/ StepHeld(w) PROVE HoldsNoMore
      BY <3>2 DEF StepPulled, StepHeld, TakeStep, StepReturns, HoldsNoMore, StepPc
    <3>3. CASE StepsDone
      <4>1. \A w \in stepQ' : cursor[w[1]].state = "in_progress"
        BY <3>3 DEF StepsDone, UpcomingDrafts, Snapshot
      <4> QED  BY <3>3, <4>1 DEF StepsDone, HoldsNoMore, StepPc
    <3>4. CASE StepLock \/ StepEnqueue \/ StepDeferred \/ StepFailed \/ StepLostAck
      <4>1. dpc \in {"stepLock", "stepGate"} /\ stepQ' = stepQ
        BY <3>4 DEF StepLock, StepEnqueue, StepDeferred, StepFailed, StepLostAck, Return, Goto
      <4>2. dpc' = "steps" \/ cur' = cur
        BY <3>4 DEF StepLock, StepEnqueue, StepDeferred, StepFailed, StepLostAck, Return, Goto
      <4> QED  BY <4>1, <4>2 DEF HoldsNoMore, StepPc
    <3>5. CASE StepLanded \/ StepSkipped
      <4>1. dpc = "stepGate" /\ stepQ' = stepQ /\ cur'.tgt = cur.tgt
        BY <3>5 DEF StepLanded, StepSkipped, DispOK, CurType
      <4> QED  BY <4>1 DEF HoldsNoMore, StepPc
    <3> QED  BY <1>4, <3>1, <3>2, <3>3, <3>4, <3>5 DEF CursorStep, DrivesCursor
  <2> QED  BY <1>4, <2>1, CursorStepQuiet, QuietSpawn
<1> QED  BY <1>2, <1>3, <1>4 DEF DrivesCursor

\* So does the acceptance tick, and nobody else moves one.
LEMMA OtherSpawn ==
    ASSUME Inv, Inv', FlightInv, Next, ~SendStep, ~CursorStep, ~Crash,
           NEW t \in Targets, NEW k \in Nat, Spawns(t, k)'
    PROVE  Spawns(t, k)
<1> USE DEF Inv, TypeOK
<1>1. cursor[t].step \in Nat /\ cursor'[t].step \in Nat
  BY DEF StoreOK, CursorType
<1>2. ASSUME NEW w \in accQ, Release(w) PROVE Spawns(t, k)
  <2>1. UNCHANGED <<dpc, cur, stepQ>> /\ w[1] \in Targets /\ w[2] = cursor[w[1]].step
    BY <1>2 DEF Release, disp, FlightInv, OthersOK
  <2>2. CASE t # w[1]
    <3>1. cursor'[t] = cursor[t]
      BY <1>2, <2>2 DEF Release, StoreOK
    <3> QED  BY <1>1, <2>1, <3>1, SpawnKeeps DEF Queued, InFlight
  <2>3. CASE t = w[1]
    <3>1. cursor'[t].step = cursor[t].step + 1
      BY <1>2, <2>1, <2>3, AdvanceGoesOn DEF Release, StoreOK
    <3> QED  BY <1>1, <3>1, SpawnKeeps
  <2> QED  BY <2>2, <2>3
<1>3. ASSUME \A w \in accQ : ~Release(w) PROVE HoldsNoMore
  <2>1. CASE UNCHANGED disp
    BY <2>1 DEF disp, HoldsNoMore
  <2>2. CASE TickStart
    BY <2>2 DEF TickStart, HoldsNoMore, StepPc
  <2>3. CASE ProbeStep
    <3>1. dpc \in {"sendProbe", "sendRoute", "stepProbe", "stepRoute"} /\ stepQ' = stepQ
      BY SMTT(60), <2>3 DEF ProbeStep, Probe, ProbeThrows, ProbeReturns, ProbePc, BrokenLane, Goto, Return
    <3>2. \/ dpc' \notin StepPc
          \/ dpc \in {"stepProbe", "stepRoute"} /\ cur' = cur
      BY SMTT(60), <2>3 DEF ProbeStep, Probe, ProbeThrows, ProbeReturns, ProbePc, BrokenLane, Goto, Return,
             Loop, AfterProbe, StepPc
    <3> QED  BY <3>1, <3>2 DEF HoldsNoMore, StepPc
  <2>4. UNCHANGED disp \/ TickStart \/ ProbeStep
    BY <1>3
       DEF Next, RouteStep, RouteClassified, RouteThrows, RoutePull, RouteIntent, ReplyStep,
           ReplyScan, ReplyHandle, AcceptanceStep, AcceptanceScan, OperatorStep, DecideRead,
           DecideWrite, DecideResolve, RemoveTarget, Withdraw, WithdrawRelease, Environment,
           Accept, Write, Elapse
  <2> QED  BY <2>1, <2>2, <2>3, <2>4
<1>4. CASE \A w \in accQ : ~Release(w)
  BY <1>3, <1>4, OtherQuiet, QuietSpawn
<1> QED  BY <1>2, <1>4

-----------------------------------------------------------------------------
(* Each step of a sequence once *)

Gift(t, k) == IF Spawns(t, k) THEN 1 ELSE 0

\* What has landed for a step, what may still be sent for it and what the
\* cursor may still give: a draft uses up the cursor's gift, a send uses up the
\* draft.
Weight(t, k) == landed[t][k] + Cardinality(AliveFor(t, k)) + Gift(t, k)

\* They come to one, and one more for each fault.
OnceInv ==
    /\ \A t \in Targets, k \in StepIdx :
          /\ IsFiniteSet(AliveFor(t, k))
          /\ Weight(t, k) <= 1 + faults
    /\ dpc = "sendMark" /\ cur.step \in StepIdx => landed[cur.tgt][cur.step] >= 1

\* When no message comes to life, none does for any step.
LEMMA AliveShrinks ==
    ASSUME Inv, HandsInv, MsgsKept, NEW t, NEW k, NEW n,
           \A m \in MsgIds : Alive(m)' => Alive(m) \/ m = n
    PROVE  AliveFor(t, k)' \subseteq AliveFor(t, k) \cup {n}
<1> SUFFICES ASSUME NEW m \in MsgIds, msg'[m].tgt = t, msg'[m].step = k, Alive(m)', m # n
             PROVE  m \in AliveFor(t, k)
  BY DEF AliveFor
<1>1. Alive(m)
  OBVIOUS
<1>2. msg[m].tgt = t /\ msg[m].step = k
  BY <1>1, AliveExists DEF MsgsKept
<1> QED  BY <1>1, <1>2 DEF AliveFor

\* An action that lands is counted for its step.
LEMMA LandsCount ==
    ASSUME HistoryOK, NEW t \in Targets, NEW k \in StepIdx, Lands(t, k)
    PROVE  landed'[t][k] = landed[t][k] + 1
<1> DEFINE row == [landed[t] EXCEPT ![k] = @ + 1]
<1>1. landed' = [landed EXCEPT ![t] = row]
  BY SMTT(60) DEF Lands
<1>2. row[k] = landed[t][k] + 1
  BY SMTT(60) DEF HistoryOK
<1> HIDE DEF row
<1> QED  BY <1>1, <1>2 DEF HistoryOK

\* Only the four ways to land count.
LEMMA LandedSame ==
    ASSUME Next, ~SendLanded, ~SendLostAck, ~StepLanded, ~StepLostAck PROVE landed' = landed
BY DEF Next, SendStep, SendGateClosed, SendExhausted, SendCancelled, SendReady, SendHeld,
       SendFailed, SendSkipped, SendMark, SendPark, SendSkip, SendsDone, CursorStep, StepWait,
       StepPulled, StepHeld, StepReady, StepLock, StepEnqueue, StepQueue, StepDeferred,
       StepFailed, StepSkipped, StepPark, StepsDone, ProbeStep, Probe, ProbeThrows, ProbeReturns,
       TickStart, RouteStep, RouteClassified, RouteThrows, RoutePull, RouteIntent, ReplyStep,
       ReplyScan, ReplyHandle, AcceptanceStep, AcceptanceScan, Release, OperatorStep, DecideRead,
       DecideWrite, DecideResolve, RemoveTarget, Withdraw, WithdrawRelease, Environment, Accept,
       Write, Elapse, Crash, history

\* Every part of the sum is a number.
LEMMA WeightParts ==
    ASSUME TypeOK, NEW t \in Targets, NEW k \in StepIdx, IsFiniteSet(AliveFor(t, k))
    PROVE  /\ landed[t][k] \in Nat /\ Cardinality(AliveFor(t, k)) \in Nat /\ Gift(t, k) \in {0, 1}
           /\ Weight(t, k) \in Nat
<1>1. landed[t][k] \in Nat /\ Cardinality(AliveFor(t, k)) \in Nat /\ Gift(t, k) \in {0, 1}
  BY FS_CardinalityType DEF TypeOK, HistoryOK, Gift
<1> QED  BY <1>1 DEF Weight

\* After a step too.
LEMMA WeightNext ==
    ASSUME TypeOK', NEW t \in Targets, NEW k \in StepIdx, IsFiniteSet(AliveFor(t, k)')
    PROVE  Weight(t, k)' \in Nat
<1>1. landed'[t][k] \in Nat /\ Cardinality(AliveFor(t, k)') \in Nat /\ Gift(t, k)' \in {0, 1}
  BY FS_CardinalityType DEF TypeOK, HistoryOK, Gift, StepIdx
<1> QED  BY <1>1 DEF Weight

\* Fewer alive and no new gift: the sum grows by what has landed alone.
LEMMA SumKeeps ==
    ASSUME TypeOK, TypeOK', NEW t \in Targets, NEW k \in StepIdx, IsFiniteSet(AliveFor(t, k)),
           AliveFor(t, k)' \subseteq AliveFor(t, k), Spawns(t, k)' => Spawns(t, k)
    PROVE  /\ IsFiniteSet(AliveFor(t, k)')
           /\ Weight(t, k)' + landed[t][k] <= Weight(t, k) + landed'[t][k]
           /\ Weight(t, k)' \in Nat /\ Weight(t, k) \in Nat
<1>1. /\ IsFiniteSet(AliveFor(t, k)')
      /\ Cardinality(AliveFor(t, k)') <= Cardinality(AliveFor(t, k))
      /\ Cardinality(AliveFor(t, k)') \in Nat /\ Cardinality(AliveFor(t, k)) \in Nat
  BY FS_Subset, FS_CardinalityType
<1>2. landed[t][k] \in Nat /\ landed'[t][k] \in Nat
  BY DEF TypeOK, HistoryOK, StepIdx
<1>3. Gift(t, k)' <= Gift(t, k) /\ Gift(t, k) \in {0, 1} /\ Gift(t, k)' \in {0, 1}
  BY DEF Gift
<1> QED  BY <1>1, <1>2, <1>3 DEF Weight

\* A send that lands uses up its message.
LEMMA SendOnceStep ==
    ASSUME Inv, Inv', HandsInv, SendLanded, NEW t \in Targets, NEW k \in StepIdx,
           IsFiniteSet(AliveFor(t, k)), AliveFor(t, k)' \subseteq AliveFor(t, k),
           Spawns(t, k)' => Spawns(t, k)
    PROVE  IsFiniteSet(AliveFor(t, k)') /\ Weight(t, k)' <= Weight(t, k)
<1> USE DEF Inv
<1>1. Lands(cur.tgt, cur.step) /\ dpc = "sendExec" /\ dpc' = "sendMark" /\ cur' = cur
  BY DEF SendLanded, Goto
<1>2. CASE t = cur.tgt /\ k = cur.step
  <2>1. landed'[t][k] = landed[t][k] + 1 /\ landed[t][k] \in Nat
    BY <1>1, <1>2, LandsCount DEF TypeOK, HistoryOK
  <2>2. cur.msg \in MsgIds /\ msg[cur.msg].tgt = t /\ msg[cur.msg].step = k
    BY <1>1, <1>2 DEF RowsExist, HandsInv, HoldPc, SendPc
  <2>3. cur.msg \in AliveFor(t, k)
    BY <1>1, <2>2 DEF AliveFor, Alive, SendPc
  <2>4. cur.msg \notin AliveFor(t, k)'
    BY <1>1 DEF AliveFor, Alive
  <2>5. AliveFor(t, k)' \subseteq AliveFor(t, k) \ {cur.msg}
    BY <2>4
  <2>6. /\ IsFiniteSet(AliveFor(t, k)')
        /\ Cardinality(AliveFor(t, k)') + 1 <= Cardinality(AliveFor(t, k))
        /\ Cardinality(AliveFor(t, k)') \in Nat /\ Cardinality(AliveFor(t, k)) \in Nat
    BY <2>3, <2>5, OneLess
  <2>7. Gift(t, k)' <= Gift(t, k) /\ Gift(t, k) \in {0, 1} /\ Gift(t, k)' \in {0, 1}
    BY DEF Gift
  <2> QED  BY <2>1, <2>6, <2>7 DEF Weight
<1>3. CASE ~(t = cur.tgt /\ k = cur.step)
  <2>1. landed'[t][k] = landed[t][k] /\ landed[t][k] \in Nat
    BY <1>1, <1>3, LandsEvidence DEF TypeOK, HistoryOK
  <2> QED  BY <2>1, SumKeeps
<1> QED  BY <1>2, <1>3

\* The cursor in the tick's hands at the gate has its gift, and has given it
\* when the gate is passed.
LEMMA GiftTaken ==
    ASSUME Inv, FlightInv, NEW t, NEW k, t = cur.tgt, k = cur.step, dpc = "stepGate",
           dpc' \in {"stepQueue", "stepPark"}, UNCHANGED cursor, cur'.tgt = cur.tgt
    PROVE  Spawns(t, k) /\ ~Spawns(t, k)'
<1>1. k = cursor[t].step /\ InFlight(t) /\ cursor[t].step \in Nat
  BY DEF FlightInv, InFlight, StepPc, Inv, TypeOK, StoreOK, CursorType, RowsExist
<1> QED  BY <1>1 DEF Spawns

\* A direct step that lands uses up the cursor's gift.
LEMMA DirectOnceStep ==
    ASSUME Inv, Inv', FlightInv, StepLanded, NEW t \in Targets, NEW k \in StepIdx,
           IsFiniteSet(AliveFor(t, k)), AliveFor(t, k)' \subseteq AliveFor(t, k),
           Spawns(t, k)' => Spawns(t, k)
    PROVE  IsFiniteSet(AliveFor(t, k)') /\ Weight(t, k)' <= Weight(t, k)
<1> USE DEF Inv
<1>1. /\ Lands(cur.tgt, cur.step) /\ UNCHANGED cursor
      /\ dpc = "stepGate" /\ dpc' = "stepPark" /\ cur'.tgt = cur.tgt
  BY DEF StepLanded, store, TypeOK, DispOK, CurType
<1>2. CASE t = cur.tgt /\ k = cur.step
  <2>1. landed'[t][k] = landed[t][k] + 1 /\ landed[t][k] \in Nat
    BY <1>1, <1>2, LandsCount DEF TypeOK, HistoryOK
  <2>2. Gift(t, k) = 1 /\ Gift(t, k)' = 0
    BY <1>1, <1>2, GiftTaken DEF Gift
  <2>3. /\ IsFiniteSet(AliveFor(t, k)')
        /\ Cardinality(AliveFor(t, k)') <= Cardinality(AliveFor(t, k))
        /\ Cardinality(AliveFor(t, k)') \in Nat /\ Cardinality(AliveFor(t, k)) \in Nat
    BY FS_Subset, FS_CardinalityType
  <2> QED  BY <2>1, <2>2, <2>3 DEF Weight
<1>3. CASE ~(t = cur.tgt /\ k = cur.step)
  <2>1. landed'[t][k] = landed[t][k] /\ landed[t][k] \in Nat
    BY <1>1, <1>3, LandsEvidence DEF TypeOK, HistoryOK
  <2> QED  BY <2>1, SumKeeps
<1> QED  BY <1>2, <1>3

\* So does a draft.
LEMMA DraftOnceStep ==
    ASSUME Inv, Inv', HandsInv, MsgsKept, FlightInv, StepEnqueue,
           NEW t \in Targets, NEW k \in StepIdx, IsFiniteSet(AliveFor(t, k)),
           Spawns(t, k)' => Spawns(t, k)
    PROVE  IsFiniteSet(AliveFor(t, k)') /\ Weight(t, k)' <= Weight(t, k)
<1> USE DEF Inv
<1>1. PICK n \in MsgIds : /\ msg[n].status = "absent"
                          /\ msg' = [msg EXCEPT ![n] = [status |-> "draft", tgt |-> cur.tgt,
                                                        step |-> cur.step, fails |-> 0]]
  BY DEF StepEnqueue
<1>2. /\ dpc = "stepGate" /\ dpc' = "stepQueue"
      /\ UNCHANGED <<sendQ, op, cur, cursor, landed>>
  BY DEF StepEnqueue, Goto, Others, history
<1>3. msg'[n].tgt = cur.tgt /\ msg'[n].step = cur.step /\ \A m \in MsgIds : m # n => msg'[m] = msg[m]
  BY <1>1 DEF TypeOK, StoreOK
<1>4. \A m \in MsgIds : Alive(m)' => Alive(m) \/ m = n
  BY <1>2, <1>3 DEF Alive, SendPc
<1>5. AliveFor(t, k)' \subseteq AliveFor(t, k) \cup {n}
  BY <1>4, AliveShrinks
<1>6. landed'[t][k] = landed[t][k] /\ landed[t][k] \in Nat
  BY <1>2 DEF TypeOK, HistoryOK
<1>7. CASE t = cur.tgt /\ k = cur.step
  <2>1. Gift(t, k) = 1 /\ Gift(t, k)' = 0
    BY <1>2, <1>7, GiftTaken DEF Gift
  <2>2. /\ IsFiniteSet(AliveFor(t, k)')
        /\ Cardinality(AliveFor(t, k)') <= Cardinality(AliveFor(t, k)) + 1
        /\ Cardinality(AliveFor(t, k)') \in Nat /\ Cardinality(AliveFor(t, k)) \in Nat
    BY <1>5, OneMore
  <2> QED  BY <1>6, <2>1, <2>2 DEF Weight
<1>8. CASE ~(t = cur.tgt /\ k = cur.step)
  <2>1. n \notin AliveFor(t, k)'
    BY <1>3, <1>8 DEF AliveFor
  <2>2. AliveFor(t, k)' \subseteq AliveFor(t, k)
    BY <1>5, <2>1
  <2> QED  BY <1>6, <2>2, SumKeeps
<1> QED  BY <1>7, <1>8

\* A restart brings back to life the message it caught between its landing and
\* its mark, or lets a cursor it caught between its draft and its parking give
\* again: one more, and only for the target the dispatch tick had in hand.
LEMMA CrashOnceStep ==
    ASSUME Inv, Inv', HandsInv, MsgsKept, Crash,
           NEW t \in Targets, NEW k \in StepIdx, IsFiniteSet(AliveFor(t, k))
    PROVE  /\ IsFiniteSet(AliveFor(t, k)')
           /\ Weight(t, k)' <= Weight(t, k) + 1
           /\ t # cur.tgt => Weight(t, k)' <= Weight(t, k)
<1> USE DEF Inv
<1>1. /\ dpc' = "idle" /\ sendQ' = {} /\ stepQ' = {} /\ UNCHANGED <<cursor, msg, landed>>
      /\ \A o \in Operators : op'[o].pc = "idle"
  BY DEF Crash, store, NoOp
<1>2. landed'[t][k] = landed[t][k] /\ landed[t][k] \in Nat
  BY <1>1 DEF TypeOK, HistoryOK
<1>3. \A m \in MsgIds : Alive(m)' => Alive(m) \/ (dpc = "sendMark" /\ m = cur.msg)
  BY <1>1 DEF Alive, SendPc
<1>4. Spawns(t, k)' => Spawns(t, k) \/ (dpc \in {"stepQueue", "stepPark"} /\ cur.tgt = t)
  BY <1>1 DEF Spawns, Queued, InFlight, StepPc
<1>5. CASE dpc = "sendMark" /\ cur.tgt = t
  <2>1. AliveFor(t, k)' \subseteq AliveFor(t, k) \cup {cur.msg}
    BY ZenonT(60), <1>3, AliveShrinks
  <2>2. /\ IsFiniteSet(AliveFor(t, k)')
        /\ Cardinality(AliveFor(t, k)') <= Cardinality(AliveFor(t, k)) + 1
        /\ Cardinality(AliveFor(t, k)') \in Nat /\ Cardinality(AliveFor(t, k)) \in Nat
    BY <2>1, OneMore
  <2>3. Gift(t, k)' <= Gift(t, k) /\ Gift(t, k) \in {0, 1} /\ Gift(t, k)' \in {0, 1}
    BY <1>4, <1>5 DEF Gift
  <2> QED  BY <1>2, <1>5, <2>2, <2>3 DEF Weight
<1>6. CASE ~(dpc = "sendMark" /\ cur.tgt = t)
  <2>1. dpc = "sendMark" => msg[cur.msg].tgt = cur.tgt
    BY DEF HandsInv, HoldPc
  <2>2. AliveFor(t, k)' \subseteq AliveFor(t, k)
    BY <1>1, <1>3, <1>6, <2>1 DEF AliveFor
  <2>3. /\ IsFiniteSet(AliveFor(t, k)')
        /\ Cardinality(AliveFor(t, k)') <= Cardinality(AliveFor(t, k))
        /\ Cardinality(AliveFor(t, k)') \in Nat /\ Cardinality(AliveFor(t, k)) \in Nat
    BY <2>2, FS_Subset, FS_CardinalityType
  <2>4. /\ Gift(t, k) \in {0, 1} /\ Gift(t, k)' \in {0, 1}
        /\ t # cur.tgt => Gift(t, k)' <= Gift(t, k)
    BY <1>4 DEF Gift
  <2> QED  BY <1>2, <2>3, <2>4 DEF Weight
<1> QED  BY <1>5, <1>6

\* Short of a restart only drafting adds to what is alive.
LEMMA AliveKeeps ==
    ASSUME Inv, HandsInv, HandsInv', Next, ~StepEnqueue, ~Crash, NEW t \in Targets, NEW k
    PROVE  AliveFor(t, k)' \subseteq AliveFor(t, k)
<1>1. \A m \in MsgIds : Alive(m)' => Alive(m)
  BY NoNewAlive
<1>2. MsgsKept
  BY NextKeeps DEF Inv
<1> SUFFICES ASSUME NEW m \in MsgIds, msg'[m].tgt = t, msg'[m].step = k, Alive(m)'
             PROVE  m \in AliveFor(t, k)
  BY DEF AliveFor
<1> QED  BY <1>1, <1>2, AliveExists DEF MsgsKept, AliveFor

\* No step but a fault adds to the sum, and a fault adds one, and only for the
\* target the dispatch tick has in hand.
LEMMA WeightStep ==
    ASSUME Inv, FlightInv, HandsInv, HandsInv', Next,
           NEW t \in Targets, NEW k \in StepIdx, IsFiniteSet(AliveFor(t, k))
    PROVE  /\ IsFiniteSet(AliveFor(t, k)')
           /\ Weight(t, k)' <= Weight(t, k) + 1
           /\ faults' = faults \/ t # cur.tgt => Weight(t, k)' <= Weight(t, k)
<1> USE DEF Inv
<1>1. Inv' /\ MsgsKept /\ faults' \in {faults, faults + 1} /\ faults \in Nat
  BY InvStep, NextKeeps, FaultsGrow, FunnelAssumption DEF TypeOK, HistoryOK
<1>2. ~StepEnqueue /\ ~Crash => AliveFor(t, k)' \subseteq AliveFor(t, k)
  BY AliveKeeps
<1>3. ASSUME ~Crash, Spawns(t, k)' PROVE Spawns(t, k)
  <2>1. k \in Nat
    BY DEF StepIdx
  <2> QED  BY <1>1, <1>3, <2>1, SendSpawn, CursorStepSpawn, OtherSpawn
<1>4. Weight(t, k) \in Nat /\ landed[t][k] \in Nat
  BY WeightParts
<1>5. IsFiniteSet(AliveFor(t, k)') => Weight(t, k)' \in Nat
  BY <1>1, WeightNext
<1>6. CASE SendLanded
  <2>1. ~StepEnqueue /\ ~Crash
    BY <1>6 DEF SendLanded, StepEnqueue, Crash, Goto
  <2> QED  BY <1>1, <1>2, <1>3, <1>4, <1>5, <1>6, <2>1, SendOnceStep
<1>7. CASE StepLanded
  <2>1. ~StepEnqueue /\ ~Crash
    BY <1>7 DEF StepLanded, StepEnqueue, Crash, Goto
  <2> QED  BY <1>1, <1>2, <1>3, <1>4, <1>5, <1>7, <2>1, DirectOnceStep
<1>8. CASE SendLostAck \/ StepLostAck
  <2>1. ~StepEnqueue /\ ~Crash
    BY <1>8 DEF SendLostAck, StepLostAck, StepEnqueue, Crash, Goto, Return
  <2>2. Lands(cur.tgt, cur.step) /\ faults' = faults + 1
    BY <1>8 DEF SendLostAck, StepLostAck
  <2>3. landed'[t][k] \in {landed[t][k], landed[t][k] + 1} /\ (t # cur.tgt => landed'[t][k] = landed[t][k])
    BY <2>2, LandsCount, LandsEvidence DEF TypeOK
  <2> QED  BY <1>1, <1>2, <1>3, <1>4, <1>5, <2>1, <2>2, <2>3, SumKeeps
<1>9. CASE StepEnqueue
  <2>1. ~Crash
    BY <1>9 DEF StepEnqueue, Crash, Goto
  <2> QED  BY <1>1, <1>3, <1>4, <1>5, <1>9, <2>1, DraftOnceStep
<1>10. CASE Crash
  <2>1. faults' = faults + 1
    BY <1>10 DEF Crash
  <2> QED  BY <1>1, <1>10, <2>1, CrashOnceStep
<1>11. CASE ~SendLanded /\ ~StepLanded /\ ~SendLostAck /\ ~StepLostAck /\ ~StepEnqueue /\ ~Crash
  <2>1. landed' = landed
    BY <1>11, LandedSame
  <2> QED  BY <1>1, <1>2, <1>3, <1>4, <1>5, <1>11, <2>1, SumKeeps
<1> QED  BY <1>6, <1>7, <1>8, <1>9, <1>10, <1>11

\* Every step keeps the sum within its bound.
LEMMA OnceStep ==
    ASSUME Inv, FlightInv, HandsInv, HandsInv', OnceInv, Next PROVE OnceInv'
<1> USE DEF Inv
<1>1. Inv' /\ faults' \in {faults, faults + 1} /\ faults \in Nat
  BY InvStep, FaultsGrow, FunnelAssumption DEF TypeOK, HistoryOK
<1>2. ASSUME NEW t \in Targets, NEW k \in StepIdx
      PROVE  IsFiniteSet(AliveFor(t, k)') /\ Weight(t, k)' <= 1 + faults'
  <2>1. IsFiniteSet(AliveFor(t, k)) /\ Weight(t, k) <= 1 + faults
    BY DEF OnceInv
  <2>2. /\ IsFiniteSet(AliveFor(t, k)') /\ Weight(t, k)' <= Weight(t, k) + 1
        /\ faults' = faults => Weight(t, k)' <= Weight(t, k)
    BY <2>1, WeightStep
  <2>3. Weight(t, k) \in Nat /\ Weight(t, k)' \in Nat
    BY <1>1, <2>1, <2>2, WeightParts, WeightNext
  <2> QED  BY <1>1, <2>1, <2>2, <2>3
<1>3. ASSUME dpc' = "sendMark", cur'.step \in StepIdx PROVE landed'[cur'.tgt][cur'.step] >= 1
  <2>1. CASE SendLanded
    <3>1. cur' = cur /\ cur.tgt \in Targets /\ Lands(cur.tgt, cur.step)
      BY <2>1 DEF SendLanded, Goto, RowsExist
    <3>2. landed'[cur.tgt][cur.step] = landed[cur.tgt][cur.step] + 1 /\ landed[cur.tgt][cur.step] \in Nat
      BY <1>3, <3>1, LandsCount DEF TypeOK, HistoryOK
    <3> QED  BY <3>1, <3>2
  <2>2. CASE ~SendLanded
    <3>1. dpc = "sendMark" /\ cur' = cur
      <4>1. ~SendStep
        BY <1>3, <2>2
           DEF SendStep, SendGateClosed, SendExhausted, SendCancelled, SendReady, SendHeld,
               SendFailed, SendLostAck, SendSkipped, SendMark, SendPark, SendSkip, SendsDone,
               SendReturns, Dequeue, Goto, Return
      <4>2. ~CursorStep
        <5>1. ASSUME NEW w \in stepQ, StepReady(w) PROVE FALSE
          <6>1. TypeAt(w[2]) \in {"message", "connect", "touch"}
            BY <5>1, StepRecord DEF StepReady, StepTypes, TypeOK, DispOK
          <6> QED  BY <1>3, <5>1, <6>1 DEF StepReady
        <5> QED  BY ZenonT(60), <1>3, <5>1
           DEF CursorStep, StepWait, StepPulled, StepHeld, StepLock, StepEnqueue, StepQueue,
               StepDeferred, StepFailed, StepLostAck, StepLanded, StepSkipped, StepPark,
               StepsDone, TakeStep, StepReturns, Goto, Return
      <4>3. ~ProbeStep /\ ~TickStart /\ ~Crash
        BY <1>3 DEF ProbeStep, Probe, ProbeThrows, ProbeReturns, BrokenLane, Loop, AfterProbe,
               ProbePc, Goto, Return, TickStart, Crash
      <4>4. UNCHANGED disp
        BY <4>1, <4>2, <4>3
           DEF Next, RouteStep, RouteClassified, RouteThrows, RoutePull, RouteIntent, ReplyStep,
               ReplyScan, ReplyHandle, AcceptanceStep, AcceptanceScan, Release, OperatorStep,
               DecideRead, DecideWrite, DecideResolve, RemoveTarget, Withdraw, WithdrawRelease,
               Environment, Accept, Write, Elapse
      <4> QED  BY <1>3, <4>4 DEF disp
    <3>2. ~SendLostAck /\ ~StepLanded /\ ~StepLostAck
      BY <3>1 DEF SendLostAck, StepLanded, StepLostAck
    <3>3. landed' = landed
      BY <2>2, <3>2, LandedSame
    <3> QED  BY <1>3, <3>1, <3>3 DEF OnceInv
  <2> QED  BY <2>1, <2>2
<1> QED  BY <1>2, <1>3 DEF OnceInv, StepIdx

\* The sum in every behaviour.  At the start every cursor still has all its
\* gifts and nothing else is there.
LEMMA OnceHolds == ASSUME OneDecision PROVE Spec => []OnceInv
<1>1. Init => OnceInv
  <2> SUFFICES ASSUME Init PROVE OnceInv
    OBVIOUS
  <2>1. dpc = "idle" /\ faults = 0 /\ \A t \in Targets, k \in StepIdx : landed[t][k] = 0
    BY DEF Init
  <2>2. ASSUME NEW t \in Targets, NEW k \in StepIdx PROVE AliveFor(t, k) = {}
    <3>1. t # None
      BY FunnelAssumption
    <3> QED  BY <3>1 DEF Init, AliveFor
  <2>3. ASSUME NEW t \in Targets, NEW k \in StepIdx
        PROVE  IsFiniteSet(AliveFor(t, k)) /\ Cardinality(AliveFor(t, k)) = 0
    BY <2>2, <2>3, FS_EmptySet, Zenon
  <2>4. \A t \in Targets, k \in StepIdx : Gift(t, k) \in {0, 1}
    BY DEF Gift
  <2> QED  BY <2>1, <2>3, <2>4 DEF OnceInv, Weight
<1>2. Inv /\ FlightInv /\ HandsInv /\ OnceInv /\ HandsInv' /\ [Next]_vars => OnceInv'
  <2>1. ASSUME OnceInv, UNCHANGED vars PROVE OnceInv'
    <3>1. UNCHANGED <<cursor, msg, dpc, cur, sendQ, stepQ, op, landed, faults>>
      BY <2>1 DEF vars, store, disp, history
    <3>2. \A t \in Targets, k \in StepIdx :
             /\ AliveFor(t, k)' = AliveFor(t, k)
             /\ Weight(t, k)' = Weight(t, k)
      BY <3>1 DEF AliveFor, Alive, Weight, Gift, Spawns, Queued, InFlight
    <3>3. StepIdx' = StepIdx
      BY DEF StepIdx
    <3> QED  BY <2>1, <3>1, <3>2, <3>3 DEF OnceInv
  <2> QED  BY <2>1, OnceStep
<1> QED  BY <1>1, <1>2, InvHolds, FlightHolds, HandsHold, PTL DEF Spec

\* With approvals decided one at a time, no crash, retry, snapshot or
\* interleaving makes a step of a sequence reach its person twice, beyond one
\* more time for each crash or lost acknowledgement.
THEOREM EachStepOnce == ASSUME OneDecision PROVE Spec => []SendOnce
<1>1. Inv /\ OnceInv => SendOnce
  <2> SUFFICES ASSUME Inv, OnceInv, NEW t \in Targets, NEW k \in StepIdx
               PROVE  landed[t][k] <= 1 + faults
    BY DEF SendOnce
  <2>1. landed[t][k] \in Nat /\ faults \in Nat
    BY FunnelAssumption DEF Inv, TypeOK, HistoryOK
  <2>2. Cardinality(AliveFor(t, k)) \in Nat /\ Gift(t, k) \in {0, 1}
    BY FS_CardinalityType DEF OnceInv, Gift
  <2>3. landed[t][k] + Cardinality(AliveFor(t, k)) + Gift(t, k) <= 1 + faults
    BY DEF OnceInv, Weight
  <2> QED  BY <2>1, <2>2, <2>3
<1> QED  BY <1>1, InvHolds, OnceHolds, PTL

\* Nor is a second draft of a step open beside the first, beyond one more for
\* each of those faults.
THEOREM OneDraftAtATime == ASSUME OneDecision PROVE Spec => []OneOpenDraft
<1>1. Inv /\ HandsInv /\ OnceInv => OneOpenDraft
  <2> SUFFICES ASSUME Inv, HandsInv, OnceInv, NEW t \in Targets, NEW k \in StepIdx
               PROVE  Cardinality({m \in MsgIds : /\ msg[m].tgt = t /\ msg[m].step = k
                                                  /\ msg[m].status \in CancelableMessageStatuses})
                         <= 1 + faults
    BY DEF OneOpenDraft
  <2> DEFINE open == {m \in MsgIds : /\ msg[m].tgt = t /\ msg[m].step = k
                                     /\ msg[m].status \in CancelableMessageStatuses}
  <2>1. landed[t][k] \in Nat /\ faults \in Nat
    BY FunnelAssumption DEF Inv, TypeOK, HistoryOK
  <2>2. IsFiniteSet(AliveFor(t, k)) /\ Cardinality(AliveFor(t, k)) \in Nat /\ Gift(t, k) \in {0, 1}
    BY FS_CardinalityType DEF OnceInv, Gift
  <2>3. landed[t][k] + Cardinality(AliveFor(t, k)) + Gift(t, k) <= 1 + faults
    BY DEF OnceInv, Weight
  <2>4. CASE dpc = "sendMark" /\ cur.tgt = t /\ cur.step = k
    <3>1. open \subseteq AliveFor(t, k) \cup {cur.msg}
      BY DEF AliveFor, Alive
    <3>2. Cardinality(open) <= Cardinality(AliveFor(t, k)) + 1 /\ Cardinality(open) \in Nat
      BY <2>2, <3>1, OneMore
    <3>3. landed[t][k] >= 1
      BY <2>4 DEF OnceInv
    <3> QED  BY <2>1, <2>2, <2>3, <3>2, <3>3
  <2>5. CASE ~(dpc = "sendMark" /\ cur.tgt = t /\ cur.step = k)
    <3>1. open \subseteq AliveFor(t, k)
      BY <2>5 DEF AliveFor, Alive, HandsInv, HoldPc
    <3>2. Cardinality(open) <= Cardinality(AliveFor(t, k)) /\ Cardinality(open) \in Nat
      BY <2>2, <3>1, FS_Subset, FS_CardinalityType
    <3> QED  BY <2>1, <2>2, <2>3, <3>2
  <2> QED  BY <2>4, <2>5
<1> QED  BY <1>1, InvHolds, HandsHold, OnceHolds, PTL

-----------------------------------------------------------------------------
(* Where a hand, a cursor and a link come from *)

\* The steps that put an action of the dispatch tick through, and the marks they
\* leave on the way to the next.
LEMMA HandsLand ==
    ASSUME Inv, Next, dpc' \in {"sendMark", "sendPark", "sendSkip", "stepPark"}
    PROVE  \/ dpc' = dpc /\ cur' = cur
           \/ dpc' = "sendMark" /\ SendLanded
           \/ dpc' = "sendPark" /\ SendMark
           \/ dpc' = "sendSkip" /\ SendSkipped
           \/ dpc' = "stepPark" /\ (StepLanded \/ StepSkipped)
<1>1. CASE SendStep
  BY <1>1, ZenonT(60)
     DEF SendStep, SendGateClosed, SendExhausted, SendCancelled, SendReady, SendHeld,
       SendFailed, SendLostAck, SendLanded, SendSkipped, SendMark, SendPark, SendSkip, SendsDone,
       SendReturns, Dequeue, Goto, Return
<1>2. CASE CursorStep
  <2>1. ASSUME NEW w \in stepQ, StepReady(w) PROVE FALSE
    <3>1. TypeAt(w[2]) \in {"message", "connect", "touch"}
      BY <2>1, StepRecord DEF StepReady, StepTypes, Inv, TypeOK, DispOK
    <3> QED  BY <2>1, <3>1 DEF StepReady
  <2> QED  BY <1>2, <2>1
       DEF CursorStep, StepWait, StepPulled, StepHeld, StepLock, StepEnqueue, StepQueue,
           StepDeferred, StepFailed, StepLostAck, StepLanded, StepSkipped, StepPark, StepsDone,
           TakeStep, StepReturns, Goto, Return
<1>3. CASE ProbeStep \/ TickStart \/ Crash
  BY <1>3 DEF ProbeStep, Probe, ProbeThrows, ProbeReturns, BrokenLane, Loop, AfterProbe, ProbePc,
       Goto, Return, TickStart, Crash
<1>4. CASE ~SendStep /\ ~CursorStep /\ ~ProbeStep /\ ~TickStart /\ ~Crash
  <2>1. UNCHANGED disp
    BY <1>4 DEF Next, RouteStep, RouteClassified, RouteThrows, RoutePull, RouteIntent, ReplyStep,
         ReplyScan, ReplyHandle, AcceptanceStep, AcceptanceScan, Release, OperatorStep,
         DecideRead, DecideWrite, DecideResolve, RemoveTarget, Withdraw, WithdrawRelease,
         Environment, Accept, Write, Elapse
  <2> QED  BY <2>1 DEF disp
<1> QED  BY <1>1, <1>2, <1>3, <1>4

\* An invite once sent is never unsent.
LEMMA LinksGrow ==
    ASSUME Inv, LinkInv, Next, NEW t \in Targets, link[Person(t)] # "none"
    PROVE  link'[Person(t)] # "none"
<1> USE DEF Inv, TypeOK
<1>1. CASE \E u \in Targets : Withdraw(u, "withdrawn") \/ Withdraw(u, "skipped")
  BY <1>1, PersonType DEF Withdraw, WorldOK
<1>2. CASE ~(\E u \in Targets : Withdraw(u, "withdrawn") \/ Withdraw(u, "skipped"))
  <2>1. LinksMove
    BY <1>2, SendLinks, CursorStepLinks, OtherLinks
  <2> QED  BY <2>1, PersonType DEF LinksMove
<1> QED  BY <1>1, <1>2

\* A cursor moves on only from the hands of a tick that put its step through, or
\* past a pure wait.
LEMMA CursorsMove ==
    ASSUME Inv, Next
    PROVE  QuietCursors \/ SendPark \/ DrivesCursor \/ \E w \in accQ : Release(w)
BY SendQuiet, CursorStepQuiet, OtherQuiet DEF Inv

\* The tick has found an invite already out, and is about to park for good.
SkipFlight(t) ==
    /\ cur.tgt = t
    /\ dpc = "sendSkip" \/ (dpc = "stepPark" /\ cur.res = "skipped")

\* Only a connect is found to be out already.
SkipsConnects == dpc = "stepPark" /\ cur.res = "skipped" => TypeAt(cur.step) = "connect"

\* A cursor given another state, or stopped in one, is not already invited.
LEMMA OtherState ==
    ASSUME StoreOK, NEW t \in Targets, NEW u, NEW s, s # "already_invited",
           \/ SetState(u, s)
           \/ cursor' = [cursor EXCEPT ![u] = Stopped(@, s)]
           \/ cursor' = [cursor EXCEPT ![u].state = s]
    PROVE  cursor'[t].state # "already_invited" \/ cursor'[t].state = cursor[t].state
BY ZenonT(60) DEF StoreOK, CursorType, SetState, Stopped

\* Nothing else parks a cursor as already invited.
LEMMA AlreadyFrom ==
    ASSUME Inv, Next, NEW t \in Targets,
           cursor'[t].state = "already_invited", cursor[t].state # "already_invited"
    PROVE  SkipFlight(t)
<1> USE DEF Inv, TypeOK
<1>1. CASE SendStep
  <2>1. ASSUME NEW m \in MsgIds, SendExhausted(m) PROVE FALSE
    BY <2>1, OtherState DEF SendExhausted, GiveUpApproved, HaltSendLane
  <2>2. ASSUME NEW m \in MsgIds, SendCancelled(m) PROVE FALSE
    BY <2>2, OtherState DEF SendCancelled
  <2>3. CASE SendPark
    BY <2>3, AdvanceParks DEF SendPark, StoreOK, CursorType
  <2>4. CASE SendSkip
    BY <2>4 DEF SendSkip, ParkAfterConnect, SetState, SkipFlight, StoreOK, CursorType
  <2>5. UNCHANGED cursor \/ SendPark \/ SendSkip \/ \E m \in MsgIds : SendExhausted(m) \/ SendCancelled(m)
    BY <1>1 DEF SendStep, SendGateClosed, SendReady, SendHeld, SendFailed, SendLostAck, SendLanded,
         SendSkipped, SendMark, SendsDone, store
  <2> QED  BY <2>1, <2>2, <2>3, <2>4, <2>5
<1>2. CASE CursorStep
  <2>1. CASE StepPark
    <3>1. CASE TypeAt(cur.step) = "connect"
      <4>1. SetState(cur.tgt, IF cur.res = "skipped" THEN "already_invited" ELSE "awaiting_connection")
        BY <2>1, <3>1 DEF StepPark, ParkAfterConnect
      <4>2. cur.res = "skipped"
        BY <4>1, OtherState
      <4>3. cur.tgt = t
        BY <4>1 DEF SetState, StoreOK
      <4> QED  BY <2>1, <4>2, <4>3 DEF StepPark, SkipFlight
    <3>2. CASE TypeAt(cur.step) # "connect"
      BY <2>1, <3>2, AdvanceParks DEF StepPark, StoreOK
    <3> QED  BY <3>1, <3>2
  <2>2. ASSUME NEW w \in stepQ, StepWait(w) PROVE FALSE
    <3>1. CASE SetState(w[1], "completed")
      BY <3>1, OtherState
    <3>2. CASE w[2] < Len(Steps) /\ TypeAt(w[2]) = "delay"
      <4> DEFINE next == AdvanceAfterStep(w[2])
                 c == IF next.state = "completed" THEN next
                      ELSE [next EXCEPT !.state = cursor[w[1]].state]
      <4>1. cursor' = [cursor EXCEPT ![w[1]] = c] /\ w[2] \in Nat
        BY <2>2, <3>2 DEF StepWait, DispOK
      <4>2. next \in CursorType
        BY <4>1, AdvanceType
      <4>3. c.state \in {"completed", cursor[w[1]].state}
        BY <4>2 DEF CursorType
      <4> HIDE DEF c
      <4> QED  BY <4>1, <4>3 DEF StoreOK
    <3> QED  BY <2>2, <3>1, <3>2 DEF StepWait
  <2>3. ASSUME NEW w \in stepQ, StepPulled(w) PROVE FALSE
    BY <2>3, OtherState DEF StepPulled, PullTargetFromFunnel, StopFunnel
  <2>4. CASE StepQueue \/ StepFailed \/ StepLostAck
    <3>1. CASE StepQueue
      BY <3>1 DEF StepQueue, StoreOK, CursorType
    <3>2. CASE StepFailed \/ StepLostAck
      <4>1. SetState(cur.tgt, "failed")
        BY <3>2 DEF StepFailed, StepLostAck
      <4> QED  BY <4>1, OtherState
    <3> QED  BY <2>4, <3>1, <3>2
  <2>5. CASE StepLock
    BY ZenonT(60), <2>5, OtherState DEF StepLock, ExcludeTargetFromFunnel, StopFunnel, store
  <2>6. \/ UNCHANGED cursor \/ StepPark \/ StepQueue \/ StepFailed \/ StepLostAck \/ StepLock
        \/ \E w \in stepQ : StepWait(w) \/ StepPulled(w)
    BY <1>2 DEF CursorStep, StepHeld, StepReady, StepEnqueue, StepDeferred, StepLanded, StepSkipped,
         StepsDone, store
  <2> QED  BY <2>1, <2>2, <2>3, <2>4, <2>5, <2>6
<1>3. CASE ~SendStep /\ ~CursorStep
  <2>1. ASSUME NEW c \in Callers, RoutePull(c) PROVE FALSE
    BY <2>1, OtherState DEF RoutePull, PullTargetFromFunnel, StopFunnel
  <2>2. ASSUME NEW u \in Targets, RemoveTarget(u) PROVE FALSE
    BY <2>2, OtherState DEF RemoveTarget, ExcludeTargetFromFunnel, StopFunnel
  <2>3. ASSUME NEW w \in accQ, Release(w) PROVE FALSE
    BY SMTT(60), <2>3, AdvanceParks DEF Release, StoreOK
  <2>4. ASSUME NEW o \in Operators, DecideResolve(o) PROVE FALSE
    BY ZenonT(60), <2>4 DEF DecideResolve, StoreOK, CursorType
  <2>5. CASE WithdrawRelease
    <3>1. wd.pc # "already_invited"
      BY DEF OthersOK
    <3> QED  BY <2>5, <3>1, OtherState DEF WithdrawRelease
  <2>6. ASSUME NEW u \in Targets, Elapse(u) PROVE FALSE
    BY <2>6 DEF Elapse, StoreOK, CursorType
  <2>7. \/ UNCHANGED cursor \/ WithdrawRelease
        \/ \E c \in Callers : RoutePull(c)
        \/ \E u \in Targets : RemoveTarget(u) \/ Elapse(u)
        \/ \E w \in accQ : Release(w)
        \/ \E o \in Operators : DecideResolve(o)
    BY <1>3 DEF Next, TickStart, ProbeStep, Probe, ProbeThrows, ProbeReturns, RouteStep,
         RouteClassified, RouteThrows, RouteIntent, ReplyStep, ReplyScan, ReplyHandle,
         AcceptanceStep, AcceptanceScan, OperatorStep, DecideRead, DecideWrite, Withdraw,
         Environment, Accept, Write, Crash, store
  <2> QED  BY <2>1, <2>2, <2>3, <2>4, <2>5, <2>6, <2>7
<1> QED  BY <1>1, <1>2, <1>3

\* What has landed stays landed.
LEMMA LandedGrows ==
    ASSUME Inv, Next, NEW t \in Targets, NEW k \in StepIdx
    PROVE  landed'[t][k] >= landed[t][k] /\ landed[t][k] \in Nat
<1> USE DEF Inv, TypeOK
<1>1. landed[t][k] \in Nat
  BY DEF HistoryOK
<1>2. CASE SendLanded \/ SendLostAck \/ StepLanded \/ StepLostAck
  <2>1. Lands(cur.tgt, cur.step)
    BY <1>2 DEF SendLanded, SendLostAck, StepLanded, StepLostAck
  <2>2. landed'[t][k] \in {landed[t][k], landed[t][k] + 1}
    BY <2>1, LandsCount, LandsEvidence
  <2> QED  BY <1>1, <2>2
<1>3. CASE ~(SendLanded \/ SendLostAck \/ StepLanded \/ StepLostAck)
  <2>1. landed' = landed
    BY <1>3, LandedSame
  <2> QED  BY <1>1, <2>1
<1> QED  BY <1>2, <1>3

\* The steps in play are real in every behaviour.
LEMMA RealHolds == Spec => []RealSteps
<1>1. Init => RealSteps
  BY DEF Init, RealSteps
<1>2. Inv /\ RealSteps /\ [Next]_vars => RealSteps'
  <2>1. RealSteps /\ UNCHANGED vars => RealSteps'
    BY DEF vars, store, disp, RealSteps
  <2> QED  BY <2>1, RealStep
<1> QED  BY <1>1, <1>2, InvHolds, PTL DEF Spec

\* An action of t's step k has reached LinkedIn.
HasLanded(t, k) == k \in StepIdx /\ landed[t][k] >= 1

\* What is about to be marked or parked as sent has landed, only a connect is
\* about to be parked as sent before, and that one has an invite that went out.
ParkInv ==
    /\ dpc \in {"sendMark", "sendPark"} \/ (dpc = "stepPark" /\ cur.res # "skipped") =>
          HasLanded(cur.tgt, cur.step)
    /\ SkipsConnects
    /\ \A t \in Targets : cursor[t].state = "already_invited" \/ SkipFlight(t) =>
          link[Person(t)] # "none"

\* Every step keeps what is in hand and already invited so.
LEMMA ParkStep ==
    ASSUME Inv, RealSteps, LinkInv, ParkInv, Next PROVE ParkInv'
<1> USE DEF Inv, TypeOK
<1>1. dpc \notin {"idle", "sends", "steps"} => cur.tgt \in Targets /\ cur.step \in StepIdx
  BY StepRecord DEF RowsExist, RealSteps, DispOK, CurType, StepIdx
<1>2. ASSUME NEW t \in Targets, NEW k, HasLanded(t, k) PROVE landed'[t][k] >= 1
  <2>1. landed[t][k] \in Nat /\ landed'[t][k] >= landed[t][k] /\ landed[t][k] >= 1
    BY <1>2, LandedGrows DEF HasLanded
  <2>2. landed'[t][k] \in Nat
    BY <1>2, InvStep DEF HistoryOK, HasLanded, StepIdx
  <2> QED  BY <1>2, <2>1, <2>2 DEF HasLanded, StepIdx
<1>3. ASSUME SendLanded \/ StepLanded PROVE landed'[cur.tgt][cur.step] >= 1
  <2>1. Lands(cur.tgt, cur.step) /\ dpc \in {"sendExec", "stepGate"}
    BY <1>3 DEF SendLanded, StepLanded
  <2>2. landed'[cur.tgt][cur.step] = landed[cur.tgt][cur.step] + 1 /\ landed[cur.tgt][cur.step] \in Nat
    BY <1>1, <2>1, LandsCount DEF HistoryOK
  <2> QED  BY <2>2
<1>4. /\ SendLanded \/ SendMark \/ SendSkipped => cur' = cur
      /\ StepLanded => cur'.tgt = cur.tgt /\ cur'.step = cur.step /\ cur'.res = "success"
      /\ StepSkipped => cur'.tgt = cur.tgt /\ cur'.step = cur.step /\ cur'.res = "skipped"
  BY DEF SendLanded, SendMark, SendSkipped, StepLanded, StepSkipped, Goto, DispOK, CurType
<1>5. ASSUME dpc' \in {"sendMark", "sendPark"} \/ (dpc' = "stepPark" /\ cur'.res # "skipped")
      PROVE  cur'.step \in StepIdx /\ landed'[cur'.tgt][cur'.step] >= 1
  <2>1. CASE dpc' = dpc /\ cur' = cur
    BY <1>1, <1>2, <1>5, <2>1 DEF ParkInv, HasLanded
  <2>2. CASE SendLanded \/ StepLanded
    BY <1>1, <1>3, <1>4, <2>2 DEF SendLanded, StepLanded
  <2>3. CASE SendMark
    BY <1>1, <1>2, <1>4, <2>3 DEF ParkInv, SendMark, HasLanded
  <2> QED  BY <1>4, <1>5, <2>1, <2>2, <2>3, HandsLand
<1>6. SkipsConnects'
  <2> SUFFICES ASSUME dpc' = "stepPark", cur'.res = "skipped" PROVE TypeAt(cur'.step) = "connect"
    BY DEF SkipsConnects, TypeAt
  <2>1. CASE dpc' = dpc /\ cur' = cur
    BY <2>1 DEF ParkInv, SkipsConnects
  <2>2. CASE StepSkipped
    BY <1>4, <2>2 DEF StepSkipped, AlreadyPending
  <2> QED  BY <1>4, <2>1, <2>2, HandsLand
<1>7. ASSUME NEW t \in Targets, cursor'[t].state = "already_invited" \/ SkipFlight(t)'
      PROVE  link'[Person(t)] # "none"
  <2>1. CASE cursor[t].state = "already_invited" \/ SkipFlight(t)
    BY <2>1, LinksGrow DEF ParkInv
  <2>2. CASE SkipFlight(t)' /\ ~SkipFlight(t)
    <3>1. (SendSkipped \/ StepSkipped) /\ cur.tgt = t
      BY <1>4, <2>2, HandsLand DEF SkipFlight
    <3>2. link[Person(t)] = "pending"
      BY <3>1 DEF SendSkipped, StepSkipped, AlreadyPending
    <3> QED  BY <3>2, LinksGrow
  <2> QED  BY <1>7, <2>1, <2>2, AlreadyFrom
<1> QED  BY <1>5, <1>6, <1>7 DEF ParkInv, HasLanded, StepIdx, Person

\* In every behaviour.
LEMMA ParkHolds == Spec => []ParkInv
<1>1. Init => ParkInv
  BY DEF Init, ParkInv, SkipsConnects, SkipFlight
<1>2. Inv /\ RealSteps /\ LinkInv /\ ParkInv /\ [Next]_vars => ParkInv'
  <2>1. ParkInv /\ UNCHANGED vars => ParkInv'
    BY DEF vars, store, world, disp, history, ParkInv, SkipsConnects, SkipFlight, HasLanded,
           StepIdx, Person, TypeAt
  <2> QED  BY <2>1, ParkStep
<1> QED  BY <1>1, <1>2, InvHolds, RealHolds, LinkHolds, PTL DEF Spec

-----------------------------------------------------------------------------
(* A lead no fault has touched *)

\* Everything about the lead is as its one cursor says: one thing at most stands
\* for a step, an open message is about the cursor's step, the connects behind
\* the cursor were accepted, whoever waits for an acceptance has sent the invite
\* of the step it is on, and so has the send being marked or parked.
Orderly(t) ==
    /\ \A k \in StepIdx : Weight(t, k) <= 1
    /\ \A k \in StepIdx : AliveFor(t, k) # {} => k = cursor[t].step
    /\ \A k \in StepIdx : k < cursor[t].step /\ k < Len(Steps) /\ TypeAt(k) = "connect" =>
          link[Person(t)] = "connected"
    /\ cursor[t].state = "awaiting_connection" \/ (\E w \in accQ : w[1] = t) =>
          HasLanded(t, cursor[t].step)
    /\ dpc \in {"sendMark", "sendPark"} /\ cur.tgt = t =>
          /\ cur.step = cursor[t].step
          /\ cursor[t].state # "awaiting_connection" /\ \A w \in accQ : w[1] # t

\* Where one thing at most stands, what has landed leaves nothing to send, and a
\* cursor that may still give has given nothing.
LEMMA OneThing ==
    ASSUME TypeOK, NEW t \in Targets, NEW k \in StepIdx, IsFiniteSet(AliveFor(t, k)), Weight(t, k) <= 1
    PROVE  /\ landed[t][k] >= 1 => AliveFor(t, k) = {} /\ ~Spawns(t, k)
           /\ Spawns(t, k) => AliveFor(t, k) = {}
<1>1. /\ landed[t][k] \in Nat /\ Cardinality(AliveFor(t, k)) \in Nat /\ Gift(t, k) \in {0, 1}
      /\ landed[t][k] + Cardinality(AliveFor(t, k)) + Gift(t, k) <= 1
  BY WeightParts DEF Weight
<1>2. Cardinality(AliveFor(t, k)) = 0 => AliveFor(t, k) = {}
  BY FS_EmptySet
<1>3. Spawns(t, k) <=> Gift(t, k) = 1
  BY DEF Gift
<1> QED  BY <1>1, <1>2, <1>3

\* The message about to be sent is alive.
LEMMA HeldAlive ==
    ASSUME Inv, HandsInv, dpc = "sendExec" PROVE cur.msg \in AliveFor(cur.tgt, cur.step)
BY DEF Inv, RowsExist, HandsInv, HoldPc, SendPc, AliveFor, Alive

\* A cursor is parked for an invite only where one has just landed, on its step.
LEMMA ParksFrom ==
    ASSUME Inv, Next, NEW t \in Targets,
           cursor'[t].state = "awaiting_connection", cursor[t].state # "awaiting_connection"
    PROVE  LandedFlight(t) /\ (SendPark \/ StepPark) /\ cursor'[t].step = cursor[t].step
<1> USE DEF Inv, TypeOK
<1>1. ~QuietCursors
  BY DEF QuietCursors, SettledStates
<1>2. CASE SendPark
  BY <1>2, AdvanceParks DEF SendPark, LandedFlight, StoreOK, CursorType
<1>3. CASE StepPark
  <2>1. CASE TypeAt(cur.step) = "connect"
    BY <1>3, <2>1 DEF StepPark, ParkAfterConnect, SetState, LandedFlight, StoreOK, CursorType
  <2>2. CASE TypeAt(cur.step) # "connect"
    BY <1>3, <2>2, AdvanceParks DEF StepPark, StoreOK
  <2> QED  BY <2>1, <2>2
<1>4. ASSUME NEW w \in stepQ, StepWait(w) PROVE FALSE
  <2>1. CASE SetState(w[1], "completed")
    BY <2>1 DEF SetState, StoreOK, CursorType
  <2>2. CASE w[2] < Len(Steps) /\ TypeAt(w[2]) = "delay"
    <3> DEFINE next == AdvanceAfterStep(w[2])
               c == IF next.state = "completed" THEN next
                    ELSE [next EXCEPT !.state = cursor[w[1]].state]
    <3>1. cursor' = [cursor EXCEPT ![w[1]] = c] /\ w[2] \in Nat
      BY <1>4, <2>2 DEF StepWait, DispOK
    <3>2. next \in CursorType
      BY <3>1, AdvanceType
    <3>3. c.state \in {"completed", cursor[w[1]].state}
      BY <3>2 DEF CursorType
    <3> HIDE DEF c
    <3> QED  BY <3>1, <3>3 DEF StoreOK
  <2> QED  BY <1>4, <2>1, <2>2 DEF StepWait
<1>5. CASE StepQueue
  BY <1>5 DEF StepQueue, StoreOK, CursorType
<1>6. ASSUME NEW w \in accQ, Release(w) PROVE FALSE
  BY SMTT(60), <1>6, AdvanceParks DEF Release, StoreOK
<1> QED  BY <1>1, <1>2, <1>3, <1>4, <1>5, <1>6, CursorsMove DEF DrivesCursor

\* Only the acceptance scan adds a match.
LEMMA MatchesFrom ==
    ASSUME Next PROVE accQ' \subseteq accQ \/ AcceptanceScan
BY DEF Next, SendStep, SendGateClosed, SendExhausted, SendCancelled, SendReady, SendHeld,
       SendFailed, SendLostAck, SendLanded, SendSkipped, SendMark, SendPark, SendSkip, SendsDone,
       CursorStep, StepWait, StepPulled, StepHeld, StepReady, StepLock, StepEnqueue, StepQueue,
       StepDeferred, StepFailed, StepLostAck, StepLanded, StepSkipped, StepPark, StepsDone,
       ProbeStep, Probe, ProbeThrows, ProbeReturns, TickStart, RouteStep, RouteClassified,
       RouteThrows, RoutePull, RouteIntent, ReplyStep, ReplyScan, ReplyHandle, AcceptanceStep,
       Release, OperatorStep, DecideRead, DecideWrite, DecideResolve, RemoveTarget, Withdraw,
       WithdrawRelease, Environment, Accept, Write, Elapse, Crash, Others

\* An orderly cursor moves one step, off a pure wait, an acceptance or a step of
\* its own that has landed, and waits for nothing there.
LEMMA AdvanceMoves ==
    ASSUME Inv, FlightInv, LinkInv, ParkInv, Next, NEW t \in Targets, Orderly(t),
           cursor'[t].step # cursor[t].step
    PROVE  /\ (Queued(t) /\ dpc = "steps") \/ HasLanded(t, cursor[t].step)
           /\ TypeAt(cursor[t].step) = "connect" => link[Person(t)] = "connected"
           /\ cursor'[t].step = cursor[t].step + 1
           /\ cursor'[t].state # "awaiting_connection" /\ \A w \in accQ' : w[1] # t
           /\ ~(dpc' \in {"sendMark", "sendPark"} /\ cur'.tgt = t)
<1> USE DEF Inv, TypeOK
<1>1. ~QuietCursors
  BY DEF QuietCursors
<1>2. cursor[t].step \in Nat
  BY DEF StoreOK, CursorType
<1>3. \A w \in accQ : w[1] \in Targets /\ w = <<w[1], w[2]>>
  BY DEF OthersOK
<1>4. CASE SendPark
  <2>1. /\ cur.tgt = t /\ TypeAt(cur.step) # "connect" /\ cursor'[t] = AdvanceAfterStep(cursor[t].step)
        /\ dpc = "sendPark" /\ dpc' = "sends" /\ accQ' = accQ
    BY <1>4 DEF SendPark, Return, Others, StoreOK, CursorType
  <2>2. cur.step = cursor[t].step /\ HasLanded(t, cur.step) /\ \A w \in accQ : w[1] # t
    BY <2>1 DEF Orderly, ParkInv
  <2> QED  BY <2>1, <2>2, AdvanceParks, AdvanceGoesOn
<1>5. CASE StepPark
  <2>1. TypeAt(cur.step) # "connect"
    BY <1>5 DEF StepPark, ParkAfterConnect, SetState, StoreOK, CursorType
  <2>2. /\ cur.tgt = t /\ cursor'[t] = AdvanceAfterStep(cur.step)
        /\ dpc = "stepPark" /\ dpc' = "steps" /\ accQ' = accQ
    BY <1>5, <2>1 DEF StepPark, Return, Others, StoreOK
  <2>3. cur.step = cursor[t].step /\ HasLanded(t, cur.step) /\ \A w \in accQ : w[1] # t
    BY <2>1, <2>2 DEF FlightInv, StepPc, InFlight, ParkInv, SkipsConnects
  <2> QED  BY <2>1, <2>2, <2>3, AdvanceParks, AdvanceGoesOn
<1>6. ASSUME NEW w \in stepQ, StepWait(w)
      PROVE  /\ Queued(t) /\ dpc = "steps" /\ TypeAt(cursor[t].step) # "connect"
             /\ cursor'[t].step = cursor[t].step + 1
             /\ cursor'[t].state # "awaiting_connection" /\ accQ' = accQ /\ dpc' = "steps"
  <2>1. ~SetState(w[1], "completed")
    BY DEF SetState, StoreOK, CursorType
  <2> DEFINE next == AdvanceAfterStep(w[2])
             c == IF next.state = "completed" THEN next
                  ELSE [next EXCEPT !.state = cursor[w[1]].state]
  <2>2. /\ cursor' = [cursor EXCEPT ![w[1]] = c] /\ w[2] \in Nat /\ TypeAt(w[2]) = "delay"
        /\ dpc = "steps" /\ dpc' = "steps" /\ accQ' = accQ
    BY <1>6, <2>1 DEF StepWait, DispOK, TakeStep, StepReturns, Others
  <2>3. next \in CursorType /\ next.step = w[2] + 1
    BY <2>2, AdvanceType, AdvanceGoesOn
  <2>4. c.state \in {"completed", cursor[w[1]].state} /\ c.step = w[2] + 1
    BY <2>3 DEF CursorType
  <2> HIDE DEF c
  <2>5. t = w[1] /\ cursor'[t] = c
    BY <2>2 DEF StoreOK
  <2>6. w[2] = cursor[t].step /\ cursor[t].state # "awaiting_connection"
    BY <2>5 DEF FlightInv
  <2> QED  BY <2>2, <2>4, <2>5, <2>6 DEF Queued
<1>7. ASSUME NEW w \in stepQ, StepWait(w) PROVE \A v \in accQ' : v[1] # t
  <2>1. Queued(t) /\ accQ' = accQ
    BY <1>6, <1>7
  <2> QED  BY <2>1 DEF FlightInv
<1>8. ~StepQueue
  BY DEF StepQueue, StoreOK, CursorType
<1>9. CASE \E w \in accQ : Release(w)
  <2>1. PICK w \in accQ : Release(w)
    BY <1>9
  <2>2. t = w[1] /\ cursor'[t] = AdvanceAfterStep(w[2]) /\ accQ' = accQ \ {w} /\ dpc' = dpc /\ cur' = cur
    BY <2>1 DEF Release, StoreOK, disp
  <2>3. w[2] = cursor[t].step /\ HasLanded(t, cursor[t].step) /\ link[Person(t)] = "connected"
    BY <2>2 DEF FlightInv, Orderly, LinkInv
  <2>4. \A v \in accQ : v[1] = t => v = w
    BY <1>3, <2>2, <2>3 DEF FlightInv
  <2>5. ~(dpc \in {"sendMark", "sendPark"} /\ cur.tgt = t)
    BY <2>2 DEF Orderly
  <2> QED  BY <2>2, <2>3, <2>4, <2>5, AdvanceParks, AdvanceGoesOn
<1> QED  BY <1>1, <1>4, <1>5, <1>6, <1>7, <1>8, <1>9, CursorsMove DEF DrivesCursor

\* A cursor parked, matched or about to be marked or parked has landed its step.
LEMMA StepLandedOnce ==
    ASSUME Inv, ParkInv, NEW t \in Targets, Orderly(t),
           \/ cursor[t].state = "awaiting_connection"
           \/ \E w \in accQ : w[1] = t
           \/ dpc \in {"sendMark", "sendPark"} /\ cur.tgt = t
    PROVE  HasLanded(t, cursor[t].step)
BY DEF Orderly, ParkInv

\* Then the lead's messages stay about its step: one comes to life only from the
\* cursor in hand, and none is left when the cursor moves on.
LEMMA AliveAtStep ==
    ASSUME Inv, FlightInv, LinkInv, HandsInv, HandsInv', ParkInv, Next, NEW t \in Targets, Orderly(t),
           \A k \in StepIdx : IsFiniteSet(AliveFor(t, k)),
           faults' = faults \/ t # cur.tgt,
           NEW k \in StepIdx, AliveFor(t, k)' # {}
    PROVE  k = cursor'[t].step
<1> USE DEF Inv, TypeOK
<1>1. CASE StepEnqueue
  <2>1. /\ UNCHANGED <<cursor, sendQ, op, cur>> /\ dpc = "stepGate" /\ dpc' = "stepQueue"
        /\ cur.step = cursor[cur.tgt].step
    BY <1>1 DEF StepEnqueue, Goto, Others, FlightInv, StepPc
  <2>2. PICK n \in MsgIds : msg' = [msg EXCEPT ![n] = [status |-> "draft", tgt |-> cur.tgt,
                                                     step |-> cur.step, fails |-> 0]]
    BY <1>1 DEF StepEnqueue
  <2>3. msg'[n].tgt = cur.tgt /\ msg'[n].step = cur.step /\ \A m \in MsgIds : m # n => msg'[m] = msg[m]
    BY <2>2 DEF StoreOK
  <2>4. PICK m \in MsgIds : msg'[m].tgt = t /\ msg'[m].step = k /\ Alive(m)'
    BY DEF AliveFor
  <2>5. CASE m = n
    BY <2>1, <2>3, <2>4, <2>5
  <2>6. CASE m # n
    <3>1. m \in AliveFor(t, k)
      BY <2>1, <2>3, <2>4, <2>6 DEF AliveFor, Alive, SendPc
    <3> QED  BY <2>1, <3>1 DEF Orderly
  <2> QED  BY <2>5, <2>6
<1>2. CASE Crash
  <2>1. /\ dpc' = "idle" /\ sendQ' = {} /\ UNCHANGED <<cursor, msg>> /\ t # cur.tgt
        /\ \A o \in Operators : op'[o].pc = "idle"
    <3>1. faults' = faults + 1 /\ faults \in Nat
      BY <1>2, FunnelAssumption DEF Crash, HistoryOK
    <3> QED  BY <1>2, <3>1 DEF Crash, store, NoOp
  <2>2. PICK m \in MsgIds : msg[m].tgt = t /\ msg[m].step = k /\ Alive(m)'
    BY <2>1 DEF AliveFor
  <2>3. ~(dpc = "sendMark" /\ cur.msg = m)
    BY <2>1, <2>2 DEF HandsInv, HoldPc
  <2>4. m \in AliveFor(t, k)
    BY <2>1, <2>2, <2>3 DEF AliveFor, Alive, SendPc
  <2> QED  BY <2>1, <2>4 DEF Orderly
<1>3. CASE ~StepEnqueue /\ ~Crash
  <2>1. AliveFor(t, k) # {} /\ k = cursor[t].step
    BY <1>3, AliveKeeps DEF Orderly
  <2>2. ~HasLanded(t, k) /\ ~Spawns(t, k)
    BY <2>1, OneThing DEF Orderly, HasLanded
  <2>3. Queued(t) /\ dpc = "steps" => Spawns(t, k)
    BY <2>1 DEF Spawns
  <2> QED  BY <2>1, <2>2, <2>3, AdvanceMoves
<1> QED  BY <1>1, <1>2, <1>3

\* No step but a fault disturbs the order, and a fault only that of the lead the
\* dispatch tick has in hand.
LEMMA OrderlyStep ==
    ASSUME Inv, FlightInv, LinkInv, HandsInv, HandsInv', RealSteps, ParkInv, Next,
           NEW t \in Targets, Orderly(t),
           \A k \in StepIdx : IsFiniteSet(AliveFor(t, k)),
           faults' = faults \/ t # cur.tgt
    PROVE  Orderly(t)'
<1> USE DEF Inv, TypeOK
<1>1. /\ cursor[t].step \in Nat /\ cursor'[t].step \in Nat
  BY InvStep DEF StoreOK, CursorType
<1>2. ASSUME NEW k \in StepIdx PROVE Weight(t, k)' <= 1
  <2>1. Weight(t, k)' <= Weight(t, k) /\ IsFiniteSet(AliveFor(t, k)')
    BY WeightStep
  <2>2. Weight(t, k) \in Nat /\ Weight(t, k)' \in Nat /\ Weight(t, k) <= 1
    BY <2>1, InvStep, WeightParts, WeightNext DEF Orderly
  <2> QED  BY <2>1, <2>2
<1>3. ASSUME NEW k \in StepIdx, AliveFor(t, k)' # {} PROVE k = cursor'[t].step
  BY <1>3, AliveAtStep
<1>4. ASSUME NEW k \in StepIdx, k < cursor'[t].step, k < Len(Steps), TypeAt(k) = "connect"
      PROVE  link'[Person(t)] = "connected"
  <2>1. link[Person(t)] = "connected"
    <3>1. CASE k < cursor[t].step
      BY <1>4, <3>1 DEF Orderly
    <3>2. CASE ~(k < cursor[t].step)
      <4>1. k \in Nat /\ cursor'[t].step # cursor[t].step
        BY <1>4, <3>2 DEF StepIdx
      <4>2. cursor'[t].step = cursor[t].step + 1
        BY <4>1, AdvanceMoves
      <4>3. k = cursor[t].step
        BY <1>1, <1>4, <3>2, <4>1, <4>2
      <4> QED  BY <1>4, <4>1, <4>3, AdvanceMoves
    <3> QED  BY <3>1, <3>2
  <2> QED  BY <2>1, NextLinks, PersonType DEF LinkKept
<1>5. ASSUME NEW k, HasLanded(t, k) PROVE HasLanded(t, k)'
  <2>1. landed[t][k] \in Nat /\ landed'[t][k] >= landed[t][k] /\ landed[t][k] >= 1 /\ k \in StepIdx
    BY <1>5, LandedGrows DEF HasLanded
  <2>2. landed'[t][k] \in Nat
    BY <2>1, InvStep DEF HistoryOK, StepIdx
  <2> QED  BY <2>1, <2>2 DEF HasLanded, StepIdx
<1>6. ASSUME cursor'[t].state = "awaiting_connection" \/ \E w \in accQ' : w[1] = t
      PROVE  HasLanded(t, cursor[t].step) /\ cursor'[t].step = cursor[t].step
  <2>1. cursor'[t].step = cursor[t].step
    BY <1>6, AdvanceMoves
  <2>2. CASE cursor[t].state = "awaiting_connection" \/ \E w \in accQ : w[1] = t
    BY <2>1, <2>2, StepLandedOnce
  <2>3. CASE ~(cursor[t].state = "awaiting_connection" \/ \E w \in accQ : w[1] = t)
    <3>1. cursor'[t].state = "awaiting_connection"
      <4>1. AcceptanceScan => \A w \in accQ' : cursor[w[1]].state = "awaiting_connection"
        BY DEF AcceptanceScan, Snapshot
      <4> QED  BY <1>6, <2>3, <4>1, MatchesFrom
    <3>2. LandedFlight(t) /\ (SendPark \/ StepPark)
      BY <2>3, <3>1, ParksFrom
    <3>3. HasLanded(t, cur.step)
      BY <3>2 DEF LandedFlight, ParkInv
    <3>4. cur.step = cursor[t].step
      BY <3>2 DEF LandedFlight, Orderly, FlightInv, StepPc, SendPark, StepPark
    <3> QED  BY <2>1, <3>3, <3>4
  <2> QED  BY <2>2, <2>3
<1>7. ASSUME dpc' \in {"sendMark", "sendPark"}, cur'.tgt = t
      PROVE  /\ cur'.step = cursor'[t].step
             /\ cursor'[t].state # "awaiting_connection" /\ \A w \in accQ' : w[1] # t
  <2>1. cursor'[t].step = cursor[t].step
    BY <1>7, AdvanceMoves
  <2>2. cur' = cur /\ cur.tgt = t
    BY <1>7, HandsLand DEF SendLanded, SendMark, Goto
  <2>3. /\ cur.step = cursor[t].step
        /\ cursor[t].state # "awaiting_connection" /\ \A w \in accQ : w[1] # t
    <3>1. CASE SendLanded
      <4>1. cur.msg \in AliveFor(t, cur.step) /\ cur.step \in StepIdx
        BY <2>2, <3>1, HeldAlive, StepRecord DEF SendLanded, RealSteps, DispOK, CurType, StepIdx
      <4>2. cur.step = cursor[t].step /\ ~HasLanded(t, cur.step)
        BY <4>1, OneThing DEF Orderly, HasLanded
      <4> QED  BY <4>2, StepLandedOnce
    <3>2. CASE ~SendLanded
      <4>1. dpc \in {"sendMark", "sendPark"}
        BY <1>7, <3>2, HandsLand DEF SendMark
      <4> QED  BY <2>2, <4>1 DEF Orderly
    <3> QED  BY <3>1, <3>2
  <2>4. cursor'[t].state # "awaiting_connection"
    <3>1. ~SendPark /\ ~StepPark
      BY <1>7 DEF SendPark, StepPark, Return
    <3> QED  BY <2>3, <3>1, ParksFrom
  <2>5. \A w \in accQ' : w[1] # t
    <3>1. AcceptanceScan => \A w \in accQ' : cursor[w[1]].state = "awaiting_connection"
      BY DEF AcceptanceScan, Snapshot
    <3> QED  BY <2>3, <3>1, MatchesFrom
  <2> QED  BY <2>1, <2>2, <2>3, <2>4, <2>5
<1> QED  BY <1>2, <1>3, <1>4, <1>5, <1>6, <1>7 DEF Orderly, StepIdx, TypeAt, Person, HasLanded

-----------------------------------------------------------------------------
(* What the dashboard's rows say *)

\* The stages of a lead somebody has contacted.
Reached == ContactedTargetStages \cup {"lost"}

\* setStage gives its stage to its target.
LEMMA OtherStage ==
    ASSUME StoreOK, NEW t \in Targets, NEW u, NEW s, SetStage(u, s)
    PROVE  stage'[t] = stage[t] \/ (t = u /\ stage'[t] = s)
BY DEF StoreOK, SetStage

\* A stage is written only to say that the lead was contacted, and 'connected'
\* only by a release.
LEMMA StageMoves ==
    ASSUME Inv, Next, NEW t \in Targets
    PROVE  \/ stage'[t] = stage[t]
           \/ stage'[t] \in Reached \ {"connected"}
           \/ \E w \in accQ : Release(w) /\ w[1] = t
<1> USE DEF Inv, TypeOK, Reached, ContactedTargetStages
<1>1. CASE SendPark
  BY <1>1, OtherStage DEF SendPark
<1>2. CASE SendSkip \/ StepPark
  BY <1>2, OtherStage DEF SendSkip, StepPark, ParkAfterConnect
<1>3. CASE StepLock
  BY <1>3, OtherStage DEF StepLock, store
<1>4. ASSUME NEW c \in Callers, NEW i \in Intents, RouteIntent(c, i)
      PROVE  stage'[t] = stage[t] \/ stage'[t] \in Reached \ {"connected"}
  <2>1. StageOfIntent(i) \in {"in_conversation", "replied", "lost"}
    BY FunnelAssumption DEF StageOfIntent, ReplyIntents
  <2> QED  BY <1>4, <2>1, OtherStage DEF RouteIntent
<1>5. ASSUME NEW u \in Targets, RemoveTarget(u)
      PROVE  stage'[t] = stage[t] \/ stage'[t] \in Reached \ {"connected"}
  BY <1>5, OtherStage DEF RemoveTarget
<1>6. CASE WithdrawRelease
  BY <1>6, OtherStage DEF WithdrawRelease
<1>7. ASSUME NEW w \in accQ, Release(w) PROVE stage'[t] = stage[t] \/ w[1] = t
  BY SMTT(60), <1>7, OtherStage DEF Release
<1>8. \/ UNCHANGED stage \/ SendPark \/ SendSkip \/ StepPark \/ StepLock \/ WithdrawRelease
      \/ \E c \in Callers, i \in Intents : RouteIntent(c, i)
      \/ \E u \in Targets : RemoveTarget(u)
      \/ \E w \in accQ : Release(w)
  BY DEF Next, SendStep, SendGateClosed, SendExhausted, SendCancelled, SendReady, SendHeld,
       SendFailed, SendLostAck, SendLanded, SendSkipped, SendMark, SendsDone, CursorStep, StepWait,
       StepPulled, StepHeld, StepReady, StepEnqueue, StepQueue, StepDeferred, StepFailed,
       StepLostAck, StepLanded, StepSkipped, StepsDone, ProbeStep, Probe, ProbeThrows,
       ProbeReturns, TickStart, RouteStep, RouteClassified, RouteThrows, RoutePull, ReplyStep,
       ReplyScan, ReplyHandle, AcceptanceStep, AcceptanceScan, OperatorStep, DecideRead,
       DecideWrite, DecideResolve, Withdraw, Environment, Accept, Write, Elapse, Crash, store
<1> QED  BY <1>1, <1>2, <1>3, <1>4, <1>5, <1>6, <1>7, <1>8

\* The ticks take a target and its step in hand from an approved message or a
\* due cursor.
LEMMA HandsTaken ==
    ASSUME Inv, Next, dpc' \notin {"idle", "sends", "steps"}
    PROVE  \/ dpc \notin {"idle", "sends", "steps"} /\ cur'.tgt = cur.tgt /\ cur'.step = cur.step
           \/ \E m \in MsgIds : SendReady(m)
           \/ \E w \in stepQ : StepReady(w)
<1> USE DEF Inv, TypeOK, DispOK, CurType
<1>1. CASE SendStep
  BY <1>1 DEF SendStep, SendGateClosed, SendExhausted, SendCancelled, SendHeld,
       SendFailed, SendLostAck, SendLanded, SendSkipped, SendMark, SendPark, SendSkip, SendsDone,
       SendReturns, Dequeue, Goto, Return
<1>2. CASE CursorStep
  BY ZenonT(60), <1>2 DEF CursorStep, StepWait, StepPulled, StepHeld, StepLock, StepEnqueue, StepQueue,
       StepDeferred, StepFailed, StepLostAck, StepLanded, StepSkipped, StepPark, StepsDone,
       TakeStep, StepReturns, Goto, Return
<1>3. CASE ProbeStep \/ TickStart \/ Crash
  BY <1>3 DEF ProbeStep, Probe, ProbeThrows, ProbeReturns, BrokenLane, Loop, AfterProbe, ProbePc,
       Goto, Return, TickStart, Crash
<1>4. CASE ~SendStep /\ ~CursorStep /\ ~ProbeStep /\ ~TickStart /\ ~Crash
  <2>1. UNCHANGED disp
    BY <1>4 DEF Next, RouteStep, RouteClassified, RouteThrows, RoutePull, RouteIntent, ReplyStep,
         ReplyScan, ReplyHandle, AcceptanceStep, AcceptanceScan, Release, OperatorStep,
         DecideRead, DecideWrite, DecideResolve, RemoveTarget, Withdraw, WithdrawRelease,
         Environment, Accept, Write, Elapse
  <2> QED  BY <2>1 DEF disp
<1> QED  BY <1>1, <1>2, <1>3, <1>4

\* An action row says success when its action has landed and was acknowledged.
LEMMA SuccessIs ==
    ASSUME Inv, RealSteps, Next, NEW type, NEW t
    PROVE  t \in Succeeded(type) <=>
              (SendLanded \/ StepLanded) /\ t = cur.tgt /\ TypeAt(cur.step) = type
<1>1. ASSUME SendLanded \/ StepLanded
      PROVE  landed' # landed /\ dpc' \in {"sendMark", "stepPark"}
  <2>1. cur.tgt \in Targets /\ cur.step \in StepIdx /\ Lands(cur.tgt, cur.step)
    BY <1>1, StepRecord DEF SendLanded, StepLanded, Inv, TypeOK, RowsExist, RealSteps, DispOK,
           CurType, StepIdx
  <2>2. landed'[cur.tgt][cur.step] = landed[cur.tgt][cur.step] + 1 /\ landed[cur.tgt][cur.step] \in Nat
    BY <2>1, LandsCount DEF Inv, TypeOK, HistoryOK
  <2> QED  BY <1>1, <2>2 DEF SendLanded, StepLanded, Goto
<1>2. ASSUME landed' # landed, dpc' \in {"sendMark", "stepPark"} PROVE SendLanded \/ StepLanded
  BY <1>2, LandedSame DEF SendLostAck, StepLostAck, Return
<1> QED  BY <1>1, <1>2 DEF Succeeded

\* A lead starts to wait for an acceptance when its invite lands.
LEMMA WaitsFrom ==
    ASSUME Inv, Next, NEW t \in Waiting'
    PROVE  \/ t \in Waiting
           \/ (SendLanded \/ StepLanded) /\ t = cur.tgt /\ TypeAt(cur.step) = "connect"
<1> USE DEF Inv, TypeOK, DispOK, CurType
<1>1. t \in Targets
  BY DEF Waiting
<1>2. CASE cursor'[t].state = "awaiting_connection"
  BY <1>1, <1>2, ParksFrom DEF Waiting
<1>3. CASE \E w \in accQ' : w[1] = t
  BY <1>1, <1>3, MatchesFrom DEF Waiting, AcceptanceScan, Snapshot
<1>4. CASE LandedFlight(t)'
  <2>1. cur'.tgt = t /\ TypeAt(cur'.step) = "connect"
    BY <1>4 DEF LandedFlight, TypeAt
  <2>2. dpc' \in {"sendMark", "sendPark"} \/ (dpc' = "stepPark" /\ cur'.res # "skipped")
    BY <1>4 DEF LandedFlight
  <2>3. CASE dpc' = dpc /\ cur' = cur
    BY <1>1, <2>1, <2>2, <2>3 DEF Waiting, LandedFlight
  <2>4. CASE SendLanded \/ StepLanded
    BY <2>1, <2>4 DEF SendLanded, StepLanded, Goto
  <2>5. CASE SendMark
    BY <1>1, <2>1, <2>5 DEF SendMark, Goto, Waiting, LandedFlight
  <2>6. CASE StepSkipped \/ SendSkipped
    BY <2>2, <2>6 DEF StepSkipped, SendSkipped, Goto
  <2> QED  BY <2>2, <2>3, <2>4, <2>5, <2>6, HandsLand
<1> QED  BY <1>2, <1>3, <1>4 DEF Waiting
\* The invited are targets whose invite has landed, everybody who waits for an
\* acceptance among them; the accepted are among the invited and the messaged
\* among the accepted; and whoever the funnel treats as connected, holds a
\* message for or has one in hand, has accepted.
AuditInv ==
    /\ audit.invited \subseteq Targets
    /\ Waiting \subseteq audit.invited
    /\ audit.accepted \subseteq audit.invited
    /\ audit.messaged \subseteq audit.accepted
    /\ \A t \in Targets : stage[t] = "connected" => t \in audit.accepted
    /\ \A m \in MsgIds : msg[m].status # "absent" /\ TypeAt(msg[m].step) = "message" =>
          msg[m].tgt \in audit.accepted
    /\ dpc \notin {"idle", "sends", "steps"} /\ TypeAt(cur.step) = "message" =>
          cur.tgt \in audit.accepted
    /\ \A t \in audit.invited : \E k \in StepIdx :
          k < Len(Steps) /\ TypeAt(k) = "connect" /\ HasLanded(t, k)

\* Every step keeps that in what the views read.
LEMMA AuditStep ==
    ASSUME Inv, RealSteps, ParkInv', AuditInv, DashboardNext PROVE AuditInv'
<1> USE DEF Inv, TypeOK
<1>1. /\ Next /\ Inv'
      /\ audit'.invited = audit.invited \cup Succeeded("connect")
      /\ audit'.accepted = audit.accepted \cup Released
      /\ audit'.messaged = audit.messaged \cup Succeeded("message")
  BY InvStep DEF DashboardNext
<1>2. Released \subseteq audit.invited
  BY DEF Released, AuditInv, Waiting, OthersOK
<1>3. \A w \in accQ : Release(w) => w[1] \in Released
  BY DEF Release, Released, history
<1>4. dpc \notin {"idle", "sends", "steps"} =>
          cur.tgt \in Targets /\ cur.step \in StepIdx /\ cur.step < Len(Steps)
  BY StepRecord DEF RowsExist, RealSteps, DispOK, CurType, StepIdx
<1>5. audit'.invited \subseteq Targets
  BY <1>1, <1>4, SuccessIs DEF AuditInv, SendLanded, StepLanded
<1>6. Waiting' \subseteq audit'.invited
  BY <1>1, WaitsFrom, SuccessIs DEF AuditInv
<1>7. audit'.accepted \subseteq audit'.invited
  BY <1>1, <1>2 DEF AuditInv
<1>8. audit'.messaged \subseteq audit'.accepted
  <2>1. Succeeded("message") \subseteq audit.accepted
    BY <1>1, SuccessIs DEF AuditInv, SendLanded, StepLanded
  <2> QED  BY <1>1, <2>1 DEF AuditInv
<1>9. \A t \in Targets : stage'[t] = "connected" => t \in audit'.accepted
  BY <1>1, <1>3, StageMoves DEF AuditInv
<1>10. \A m \in MsgIds : msg'[m].status # "absent" /\ TypeAt(msg'[m].step) = "message" =>
          msg'[m].tgt \in audit'.accepted
  <2>1. MsgsKept
    BY <1>1, NextKeeps
  <2> QED  BY <1>1, <2>1 DEF MsgsKept, AuditInv
<1>11. ASSUME dpc' \notin {"idle", "sends", "steps"}, TypeAt(cur'.step) = "message"
       PROVE  cur'.tgt \in audit.accepted
  <2>1. ASSUME NEW m \in MsgIds, SendReady(m) PROVE cur'.tgt \in audit.accepted
    <3>1. msg[m].status # "absent" /\ cur'.tgt = msg[m].tgt /\ cur'.step = msg[m].step
      BY <2>1 DEF SendReady, Dequeue, RowsExist, Idle
    <3> QED  BY <1>11, <3>1 DEF AuditInv
  <2>2. ASSUME NEW w \in stepQ, StepReady(w) PROVE cur'.tgt \in audit.accepted
    <3>1. cur'.tgt = w[1] /\ cur'.step = w[2] /\ w[1] \in Targets
      BY <2>2 DEF StepReady, Idle, DispOK
    <3>2. stage[w[1]] = "connected"
      BY <1>11, <2>2, <3>1 DEF StepReady, StepStops, StepHolds
    <3> QED  BY <3>1, <3>2 DEF AuditInv
  <2> QED  BY <1>1, <1>11, <2>1, <2>2, HandsTaken DEF AuditInv
<1>12. ASSUME NEW t \in audit'.invited
       PROVE  \E k \in StepIdx : k < Len(Steps) /\ TypeAt(k) = "connect" /\ HasLanded(t, k)'
  <2>1. CASE t \in audit.invited
    <3>1. PICK k \in StepIdx : k < Len(Steps) /\ TypeAt(k) = "connect" /\ HasLanded(t, k)
      BY <2>1 DEF AuditInv
    <3>2. t \in Targets
      BY <2>1 DEF AuditInv
    <3>3. landed[t][k] \in Nat /\ landed'[t][k] >= landed[t][k] /\ landed[t][k] >= 1
      BY <1>1, <3>1, <3>2, LandedGrows DEF HasLanded
    <3>4. landed'[t][k] \in Nat
      BY <1>1, <3>1, <3>2 DEF HistoryOK, StepIdx
    <3> QED  BY <3>1, <3>3, <3>4 DEF HasLanded, StepIdx
  <2>2. CASE t \in Succeeded("connect")
    <3>1. (SendLanded \/ StepLanded) /\ t = cur.tgt /\ TypeAt(cur.step) = "connect"
      BY <1>1, <2>2, SuccessIs
    <3>2. /\ cur'.tgt = t /\ cur'.step = cur.step
          /\ dpc' = "sendMark" \/ (dpc' = "stepPark" /\ cur'.res # "skipped")
      BY <3>1 DEF SendLanded, StepLanded, Goto, DispOK, CurType
    <3>3. landed'[t][cur.step] >= 1
      BY <3>2 DEF ParkInv, HasLanded
    <3> QED  BY <1>4, <3>1, <3>3 DEF SendLanded, StepLanded, HasLanded, StepIdx
  <2> QED  BY <1>1, <2>1, <2>2
<1> QED  BY <1>1, <1>5, <1>6, <1>7, <1>8, <1>9, <1>10, <1>11, <1>12 DEF AuditInv, TypeAt, StepIdx

\* The dashboard's rows are kept beside the funnel, which runs as it would
\* without them.
LEMMA DashboardRuns == DashboardSpec => Spec
<1>1. DashboardInit => Init
  BY DEF DashboardInit
<1>2. [DashboardNext]_<<vars, audit>> => [Next]_vars
  BY DEF DashboardNext
<1> QED  BY <1>1, <1>2, PTL DEF DashboardSpec, Spec

\* In every behaviour.
LEMMA AuditHolds == DashboardSpec => []AuditInv
<1>1. DashboardInit => AuditInv
  BY DEF DashboardInit, Init, AuditInv, Waiting, LandedFlight
<1>2. Inv /\ RealSteps /\ ParkInv' /\ AuditInv /\ [DashboardNext]_<<vars, audit>> => AuditInv'
  <2>1. AuditInv /\ UNCHANGED <<vars, audit>> => AuditInv'
    BY DEF vars, store, world, disp, history, AuditInv, Waiting, LandedFlight, HasLanded, StepIdx,
           TypeAt
  <2> QED  BY <2>1, AuditStep
<1> QED  BY <1>1, <1>2, DashboardRuns, InvHolds, RealHolds, ParkHolds, PTL DEF DashboardSpec

-----------------------------------------------------------------------------
(* What the faults leave behind *)

\* An orderly lead whose invite has gone out is not taken for one invited before.
Clean(t) ==
    /\ Orderly(t)
    /\ t \in audit.invited => cursor[t].state # "already_invited" /\ ~SkipFlight(t)

\* The tick finds an invite already out only where it has sent none of its own.
LEMMA SkipsOthers ==
    ASSUME Inv, FlightInv, HandsInv, RealSteps, AuditInv, SendSkipped \/ StepSkipped, Clean(cur.tgt),
           \A k \in StepIdx : IsFiniteSet(AliveFor(cur.tgt, k))
    PROVE  cur.tgt \notin audit.invited
<1> DEFINE t == cur.tgt
           s == cursor[t].step
<1> USE DEF Inv, TypeOK
<1>1. /\ t \in Targets /\ cur.step \in StepIdx /\ s \in Nat
      /\ link[Person(t)] = "pending" /\ dpc \in {"sendExec", "stepGate"}
  <2>1. dpc \in {"sendExec", "stepGate"} /\ link[Person(t)] = "pending"
    BY DEF SendSkipped, StepSkipped, AlreadyPending
  <2> QED  BY <2>1, StepRecord DEF RowsExist, RealSteps, DispOK, CurType, StepIdx, StoreOK, CursorType
<1>2. cur.step = s /\ ~HasLanded(t, s)
  <2>1. CASE dpc = "sendExec"
    <3>1. AliveFor(t, cur.step) # {}
      BY <2>1, HeldAlive
    <3>2. cur.step = s
      BY <1>1, <3>1 DEF Clean, Orderly
    <3> QED  BY <1>1, <3>1, <3>2, OneThing DEF Clean, Orderly, HasLanded
  <2>2. CASE dpc = "stepGate"
    <3>1. InFlight(t) /\ cur.step = s
      BY <2>2 DEF InFlight, StepPc, FlightInv
    <3>2. Spawns(t, s)
      BY <2>2, <3>1 DEF Spawns
    <3> QED  BY <1>1, <3>1, <3>2, OneThing DEF Clean, Orderly, HasLanded
  <2> QED  BY <1>1, <2>1, <2>2
<1> SUFFICES ASSUME t \in audit.invited PROVE FALSE
  OBVIOUS
<1>3. PICK k \in StepIdx : k < Len(Steps) /\ TypeAt(k) = "connect" /\ HasLanded(t, k)
  BY DEF AuditInv
<1>4. k \in Nat /\ ~(k < s)
  BY <1>1, <1>3 DEF Clean, Orderly, StepIdx
<1>5. s < k
  BY <1>1, <1>2, <1>3, <1>4
<1>6. Spawns(t, k)
  BY <1>5 DEF Spawns
<1> QED  BY <1>1, <1>3, <1>6, OneThing DEF Clean, Orderly, HasLanded

\* No step but a fault soils a lead, and a fault only the one the dispatch tick
\* has in hand.
LEMMA CleanStep ==
    ASSUME Inv, FlightInv, LinkInv, HandsInv, HandsInv', RealSteps, ParkInv, AuditInv, DashboardNext,
           NEW t \in Targets, Clean(t),
           \A k \in StepIdx : IsFiniteSet(AliveFor(t, k)),
           faults' = faults \/ t # cur.tgt
    PROVE  Clean(t)'
<1> USE DEF Inv, TypeOK
<1>1. Next /\ audit'.invited = audit.invited \cup Succeeded("connect")
  BY DEF DashboardNext
<1>2. Orderly(t)'
  BY <1>1, OrderlyStep DEF Clean
<1> SUFFICES ASSUME t \in audit'.invited
             PROVE  cursor'[t].state # "already_invited" /\ ~SkipFlight(t)'
  BY <1>2 DEF Clean
<1>3. SkipFlight(t)' => SkipFlight(t) \/ ((SendSkipped \/ StepSkipped) /\ cur.tgt = t)
  BY <1>1, HandsLand
     DEF SkipFlight, SendLanded, SendSkipped, SendMark, StepLanded, StepSkipped, Goto, DispOK, CurType
<1>4. CASE t \in audit.invited
  <2>1. cursor[t].state # "already_invited" /\ ~SkipFlight(t)
    BY <1>4 DEF Clean
  <2>2. ~((SendSkipped \/ StepSkipped) /\ cur.tgt = t)
    BY <1>4, SkipsOthers
  <2> QED  BY <1>1, <1>3, <2>1, <2>2, AlreadyFrom
<1>5. CASE t \in Succeeded("connect")
  <2>1. (SendLanded \/ StepLanded) /\ t = cur.tgt /\ TypeAt(cur.step) = "connect"
    BY <1>1, <1>5, SuccessIs
  <2>2. link[Person(t)] = "none" /\ cursor' = cursor
    BY <2>1 DEF SendLanded, StepLanded, CanLand, store
  <2>3. cursor[t].state # "already_invited" /\ ~SkipFlight(t)
    BY <2>2 DEF ParkInv
  <2>4. ~(SendSkipped \/ StepSkipped)
    BY <2>1, <2>2 DEF SendSkipped, StepSkipped, AlreadyPending
  <2> QED  BY <1>3, <2>2, <2>3, <2>4
<1> QED  BY <1>1, <1>4, <1>5

\* Leads a fault has touched, and invited leads a fault kept from being marked.
Dirty == {t \in Targets : ~Clean(t)}
Unmarked == {t \in audit.invited : stage[t] \notin Reached /\ ~LandedFlight(t)}

\* There are no more of either than there were faults.
FaultInv == Cardinality(Dirty) <= faults /\ Cardinality(Unmarked) <= faults

\* An invite that has landed is marked on its target unless the process dies.
LEMMA FlightMarks ==
    ASSUME Inv, Next, NEW t \in Targets, LandedFlight(t), ~LandedFlight(t)'
    PROVE  stage'[t] = "invited" \/ (faults' # faults /\ t = cur.tgt)
<1> USE DEF Inv, TypeOK, DispOK, CurType
<1>1. CASE SendPark \/ StepPark
  BY <1>1 DEF SendPark, StepPark, ParkAfterConnect, SetStage, LandedFlight, StoreOK
<1>2. CASE SendMark
  BY <1>2 DEF SendMark, Goto, LandedFlight, TypeAt
<1>3. CASE Crash
  BY <1>3, FunnelAssumption DEF Crash, LandedFlight, HistoryOK
<1>4. CASE ~SendPark /\ ~StepPark /\ ~SendMark /\ ~Crash
  <2>1. dpc \in {"sendMark", "sendPark", "stepPark"}
    BY SMTT(60) DEF LandedFlight
  <2>2. UNCHANGED <<dpc, cur>>
    BY ZenonT(60), <1>4, <2>1
       DEF Next, SendStep, SendGateClosed, SendExhausted, SendCancelled, SendReady, SendHeld,
         SendFailed, SendLostAck, SendLanded, SendSkipped, SendSkip, SendsDone, CursorStep, StepWait,
         StepPulled, StepHeld, StepReady, StepLock, StepEnqueue, StepQueue, StepDeferred, StepFailed,
         StepLostAck, StepLanded, StepSkipped, StepsDone, ProbeStep, Probe, ProbeThrows, ProbePc,
         ProbeReturns, TickStart, RouteStep, RouteClassified, RouteThrows, RoutePull, RouteIntent,
         ReplyStep, ReplyScan, ReplyHandle, AcceptanceStep, AcceptanceScan, Release, OperatorStep,
         DecideRead, DecideWrite, DecideResolve, RemoveTarget, Withdraw, WithdrawRelease,
         Environment, Accept, Write, Elapse, disp, Dequeue, TakeStep, SendReturns, StepReturns
  <2> QED  BY <2>2 DEF LandedFlight, TypeAt
<1> QED  BY <1>1, <1>2, <1>3, <1>4
\* A step leaves no lead unmarked but one a fault caught in hand.
LEMMA UnmarkedFrom ==
    ASSUME Inv, RealSteps, AuditInv, DashboardNext, NEW t \in Unmarked'
    PROVE  t \in Unmarked \/ (faults' # faults /\ t = cur.tgt)
<1> USE DEF Inv, TypeOK, DispOK, CurType
<1>1. Next /\ audit'.invited = audit.invited \cup Succeeded("connect")
  BY DEF DashboardNext
<1>2. t \in audit'.invited /\ stage'[t] \notin Reached /\ ~LandedFlight(t)'
  BY DEF Unmarked
<1>3. CASE t \in audit.invited
  <2>1. t \in Targets
    BY <1>3 DEF AuditInv
  <2>2. ASSUME NEW w \in accQ, Release(w), w[1] = t PROVE FALSE
    BY <1>2, <2>1, <2>2 DEF Release, SetStage, StoreOK, Reached, ContactedTargetStages
  <2>3. stage[t] \notin Reached
    BY <1>1, <1>2, <2>1, <2>2, StageMoves
  <2>4. LandedFlight(t) => faults' # faults /\ t = cur.tgt
    BY <1>1, <1>2, <2>1, FlightMarks DEF Reached, ContactedTargetStages
  <2> QED  BY <1>3, <2>3, <2>4 DEF Unmarked
<1>4. CASE t \in Succeeded("connect")
  <2>1. (SendLanded \/ StepLanded) /\ t = cur.tgt /\ TypeAt(cur.step) = "connect"
    BY <1>1, <1>4, SuccessIs
  <2>2. LandedFlight(t)'
    BY <2>1 DEF SendLanded, StepLanded, Goto, LandedFlight, TypeAt
  <2> QED  BY <1>2, <2>2
<1> QED  BY <1>1, <1>2, <1>3, <1>4

\* Leads can be counted.
LEMMA DirtyFinite ==
    ASSUME AuditInv, AuditInv'
    PROVE  /\ IsFiniteSet(Dirty) /\ Cardinality(Dirty) \in Nat
           /\ IsFiniteSet(Dirty') /\ Cardinality(Dirty') \in Nat
           /\ IsFiniteSet(Unmarked) /\ Cardinality(Unmarked) \in Nat
           /\ IsFiniteSet(Unmarked') /\ Cardinality(Unmarked') \in Nat
<1>1. /\ IsFiniteSet(Dirty) /\ IsFiniteSet(Dirty') /\ IsFiniteSet(Unmarked) /\ IsFiniteSet(Unmarked')
  BY FunnelAssumption, FS_Subset DEF Dirty, Unmarked, AuditInv
<1> QED  BY <1>1, FS_CardinalityType

\* Each fault touches one lead at most.
LEMMA FaultStep ==
    ASSUME Inv, FlightInv, LinkInv, HandsInv, HandsInv', RealSteps, ParkInv, AuditInv, AuditInv',
           OnceInv, FaultInv, DashboardNext
    PROVE  FaultInv'
<1>1. Next /\ faults \in Nat /\ faults' \in {faults, faults + 1}
  BY FaultsGrow, FunnelAssumption DEF DashboardNext, Inv, TypeOK, HistoryOK
<1>2. \A t \in Dirty' : t \in Dirty \/ (faults' # faults /\ t = cur.tgt)
  BY CleanStep DEF Dirty, OnceInv
<1>3. \A t \in Unmarked' : t \in Unmarked \/ (faults' # faults /\ t = cur.tgt)
  BY UnmarkedFrom
<1>4. CASE faults' = faults
  <2>1. Dirty' \subseteq Dirty /\ Unmarked' \subseteq Unmarked
    BY <1>2, <1>3, <1>4
  <2>2. Cardinality(Dirty') <= Cardinality(Dirty) /\ Cardinality(Unmarked') <= Cardinality(Unmarked)
    BY <2>1, DirtyFinite, FS_Subset
  <2> QED  BY <1>1, <1>4, <2>2, DirtyFinite DEF FaultInv
<1>5. CASE faults' # faults
  <2>1. Dirty' \subseteq Dirty \cup {cur.tgt} /\ Unmarked' \subseteq Unmarked \cup {cur.tgt}
    BY <1>2, <1>3
  <2>2. /\ Cardinality(Dirty') <= Cardinality(Dirty) + 1
        /\ Cardinality(Unmarked') <= Cardinality(Unmarked) + 1
    BY <2>1, DirtyFinite, OneMore
  <2> QED  BY <1>1, <1>5, <2>2, DirtyFinite DEF FaultInv
<1> QED  BY <1>4, <1>5

\* At the start no lead has been touched.
LEMMA StartsClean == DashboardInit /\ OnceInv => FaultInv
<1> SUFFICES ASSUME DashboardInit, OnceInv PROVE FaultInv
  OBVIOUS
<1>1. /\ faults = 0 /\ dpc = "idle" /\ accQ = {} /\ audit.invited = {}
      /\ \A t \in Targets : cursor[t].step = 0 /\ cursor[t].state = "in_progress"
      /\ \A m \in MsgIds : msg[m].tgt = None
  BY DEF DashboardInit, Init
<1>2. ASSUME NEW t \in Targets PROVE Orderly(t)
  <2>1. \A k \in StepIdx : Weight(t, k) <= 1
    BY <1>1 DEF OnceInv
  <2>2. \A k \in StepIdx : AliveFor(t, k) = {}
    BY <1>1, FunnelAssumption DEF AliveFor
  <2>3. \A k \in StepIdx : ~(k < cursor[t].step)
    BY <1>1 DEF StepIdx
  <2> QED  BY <1>1, <2>1, <2>2, <2>3 DEF Orderly
<1>3. Dirty = {} /\ Unmarked = {}
  BY <1>1, <1>2 DEF Dirty, Clean, Unmarked
<1>4. Cardinality({}) = 0
  BY FS_EmptySet, Zenon
<1> QED  BY <1>1, <1>3, <1>4 DEF FaultInv

\* In every behaviour.
LEMMA FaultHolds == ASSUME OneDecision PROVE DashboardSpec => []FaultInv
<1>1. /\ Inv /\ FlightInv /\ LinkInv /\ HandsInv /\ HandsInv' /\ RealSteps /\ ParkInv
      /\ AuditInv /\ AuditInv' /\ OnceInv /\ FaultInv /\ [DashboardNext]_<<vars, audit>>
      => FaultInv'
  <2>1. ASSUME FaultInv, UNCHANGED <<vars, audit>> PROVE FaultInv'
    <3>1. /\ UNCHANGED <<stage, cursor, msg, link, dpc, cur, sendQ, stepQ, accQ, op>>
          /\ UNCHANGED <<landed, faults, audit>>
      BY <2>1 DEF vars, store, world, disp, history
    <3>2. \A t \in Targets, k \in StepIdx : AliveFor(t, k)' = AliveFor(t, k) /\ Weight(t, k)' = Weight(t, k)
      BY <3>1 DEF AliveFor, Alive, Weight, Gift, Spawns, Queued, InFlight
    <3>3. \A t \in Targets : Clean(t)' <=> Clean(t)
      BY <3>1, <3>2 DEF Clean, Orderly, SkipFlight, HasLanded, StepIdx, TypeAt, Person
    <3>4. Dirty' = Dirty /\ Unmarked' = Unmarked
      BY <3>1, <3>3 DEF Dirty, Unmarked, LandedFlight, TypeAt
    <3> QED  BY <2>1, <3>1, <3>4 DEF FaultInv
  <2> QED  BY <2>1, FaultStep
<1> QED  BY <1>1, StartsClean, DashboardRuns, InvHolds, FlightHolds, LinkHolds, HandsHold, RealHolds,
            ParkHolds, AuditHolds, OnceHolds, PTL DEF DashboardSpec

-----------------------------------------------------------------------------
(* The figures of the dashboard *)

\* As many rows as leads, where each lead has one row and the row names it.
LEMMA OneRowEach ==
    ASSUME NEW S, IsFiniteSet(S), NEW row, \A t \in S : row[t].target = t
    PROVE  Cardinality({row[t] : t \in S}) = Cardinality(S)
<1> DEFINE T == {row[t] : t \in S}
           f == [t \in S |-> row[t]]
<1>1. f \in [S -> T] /\ \A t \in S : f[t] = row[t]
  OBVIOUS
<1>2. \A t, u \in S : f[t] = f[u] => t = u
  OBVIOUS
<1>3. \A r \in T : \E t \in S : f[t] = r
  OBVIOUS
<1>4. DOMAIN f = S
  OBVIOUS
<1> HIDE DEF f, T
<1>5. f \in Bijection(S, T)
  BY <1>1, <1>2, <1>3, <1>4 DEF Bijection, Injection, IsInjective, Surjection
<1>6. Cardinality(T) = Cardinality(S)
  BY <1>5, FS_Bijection DEF ExistsBijection
<1> QED  BY <1>6 DEF T

\* A set covered by two is no larger than both together, and apart they add up.
LEMMA TwoParts ==
    ASSUME NEW A, IsFiniteSet(A), NEW B, IsFiniteSet(B)
    PROVE  /\ IsFiniteSet(A \cup B) /\ Cardinality(A \cup B) \in Nat
           /\ Cardinality(A) \in Nat /\ Cardinality(B) \in Nat
           /\ Cardinality(A \cup B) <= Cardinality(A) + Cardinality(B)
           /\ A \cap B = {} => Cardinality(A \cup B) = Cardinality(A) + Cardinality(B)
<1>1. /\ IsFiniteSet(A \cup B)
      /\ Cardinality(A \cup B) = Cardinality(A) + Cardinality(B) - Cardinality(A \cap B)
  BY FS_Union
<1>2. IsFiniteSet(A \cap B) /\ Cardinality({}) = 0
  BY FS_Intersection, FS_EmptySet
<1>3. /\ Cardinality(A \cup B) \in Nat /\ Cardinality(A) \in Nat
      /\ Cardinality(B) \in Nat /\ Cardinality(A \cap B) \in Nat
  BY <1>1, <1>2, FS_CardinalityType
<1>4. A \cap B = {} => Cardinality(A \cap B) = 0
  BY <1>2, Zenon
<1> QED  BY <1>1, <1>3, <1>4

\* Any set of leads can be counted.
LEMMA LeadsFinite ==
    ASSUME NEW S, S \subseteq Targets PROVE IsFiniteSet(S) /\ Cardinality(S) \in Nat
<1>1. IsFiniteSet(S)
  BY FunnelAssumption, FS_Subset
<1> QED  BY <1>1, FS_CardinalityType

\* The row getCampaignLeads answers for a lead, and the segment it falls in.
LeadRow(t) ==
    [target |-> t, stage |-> stage[t], progressState |-> cursor[t].state,
     pending |-> PendingDrafts(t) # {}, approvedQueued |-> DeriveApprovedQueued(t),
     queuedActionType |-> IF DeriveApprovedQueued(t) THEN MaxType(Rows(t, "approved")) ELSE "none"]
SegmentOf(c, b) == {t \in LeadsOf(c) : LeadFunnelBucket(LeadRow(t)) = b}

\* The table lists as many leads of a segment as fall in it.
LEMMA TableCounts ==
    ASSUME NEW c, NEW b
    PROVE  Cardinality({l \in GetCampaignLeads(c) : LeadFunnelBucket(l) = b}) = Cardinality(SegmentOf(c, b))
<1> DEFINE row == [t \in LeadsOf(c) |-> LeadRow(t)]
<1>1. GetCampaignLeads(c) = {LeadRow(t) : t \in LeadsOf(c)}
  BY DEF GetCampaignLeads, LeadRow
<1>2. \A t \in LeadsOf(c) : row[t] = LeadRow(t)
  OBVIOUS
<1>3. \A t \in LeadsOf(c) : row[t].target = t
  BY <1>2 DEF LeadRow
<1>4. SegmentOf(c, b) \subseteq LeadsOf(c) /\ IsFiniteSet(SegmentOf(c, b))
  BY LeadsFinite DEF SegmentOf, LeadsOf
<1> HIDE DEF row
<1>5. {l \in GetCampaignLeads(c) : LeadFunnelBucket(l) = b} = {row[t] : t \in SegmentOf(c, b)}
  BY <1>1, <1>2 DEF SegmentOf
<1> QED  BY <1>3, <1>4, <1>5, OneRowEach

\* The queued leads of a campaign, whose approved message is of a type.
QueuedOf(c, type) == {t \in ApprovedQueuedRows(c) : MaxType(Rows(t, "approved")) = type}

\* A lead is queued for the count over the campaign when it is for its own row.
LEMMA QueuedAlike ==
    ASSUME NEW c, NEW t \in LeadsOf(c) PROVE t \in ApprovedQueuedRows(c) <=> DeriveApprovedQueued(t)
BY DEF ApprovedQueuedRows, DeriveApprovedQueued, PendingDrafts, Rows

\* The segments of the table are the counts of the card: what is queued is set
\* apart by type, and the rest keeps its progress state.
LEMMA SegmentsAre ==
    ASSUME TypeOK, NEW c
    PROVE  /\ SegmentOf(c, "invite_queued") = QueuedOf(c, "connect")
           /\ SegmentOf(c, "message_queued") = QueuedOf(c, "message") \cup QueuedOf(c, "touch")
           /\ SegmentOf(c, "awaiting_approval")
                 = {t \in LeadsOf(c) : cursor[t].state = "awaiting_approval"} \ ApprovedQueuedRows(c)
           /\ \A b \in ProgressStates \ {"awaiting_approval"} :
                 SegmentOf(c, b) = {t \in LeadsOf(c) : cursor[t].state = b}
<1>1. \A t \in LeadsOf(c) : cursor[t].state \in ProgressStates
  BY DEF TypeOK, StoreOK, CursorType, LeadsOf
<1>2. ASSUME NEW t \in LeadsOf(c)
      PROVE  LeadFunnelBucket(LeadRow(t)) =
                IF t \in ApprovedQueuedRows(c)
                THEN IF MaxType(Rows(t, "approved")) = "connect" THEN "invite_queued" ELSE "message_queued"
                ELSE cursor[t].state
  BY QueuedAlike DEF LeadFunnelBucket, LeadRow, DeriveApprovedQueued
<1>3. \A ms : MaxType(ms) \in {"message", "connect", "touch"}
  BY DEF MaxType
<1>4. \A t \in ApprovedQueuedRows(c) : t \in LeadsOf(c) /\ cursor[t].state = "awaiting_approval"
  BY DEF ApprovedQueuedRows
<1>5. {"invite_queued", "message_queued"} \cap ProgressStates = {}
  BY DEF ProgressStates
<1> QED  BY <1>1, <1>2, <1>3, <1>4, <1>5 DEF SegmentOf, QueuedOf

\* The histogram of the card, segment by segment.
LEMMA HistogramIs ==
    ASSUME TypeOK, NEW c, NEW b \in Buckets
    PROVE  Histogram(c)[b] = Cardinality(SegmentOf(c, b))
<1> DEFINE Raw(s) == {t \in LeadsOf(c) : cursor[t].state = s}
           raw == ByProgressState(c)
           queued == QueuedByType(c)
           moved == queued["connect"] + queued["message"] + queued["touch"]
           left == raw["awaiting_approval"] - moved
<1>1. \A s \in Buckets : raw[s] = Cardinality(Raw(s)) /\ raw[s] \in Nat /\ IsFiniteSet(Raw(s))
  BY LeadsFinite DEF ByProgressState, LeadsOf
<1>2. /\ raw = [s \in Buckets |-> raw[s]]
      /\ {"invite_queued", "message_queued", "awaiting_approval"} \subseteq Buckets
  BY DEF ByProgressState, Buckets, ProgressStates
<1>3. \A type \in {"connect", "message", "touch"} :
         /\ queued[type] = Cardinality(QueuedOf(c, type)) /\ queued[type] \in Nat
         /\ IsFiniteSet(QueuedOf(c, type))
  <2>1. \A type \in {"connect", "message", "touch"} : QueuedOf(c, type) \subseteq Targets
    BY DEF QueuedOf, ApprovedQueuedRows, LeadsOf
  <2> QED  BY <2>1, LeadsFinite DEF QueuedByType, QueuedOf
<1>4. Histogram(c) = [raw EXCEPT !["invite_queued"] = @ + queued["connect"],
                                 !["message_queued"] = @ + queued["message"] + queued["touch"],
                                 !["awaiting_approval"] = IF left > 0 THEN left ELSE 0]
  BY DEF Histogram, SplitApprovedQueued
<1> HIDE DEF raw, queued
<1>5. /\ Histogram(c)["invite_queued"] = raw["invite_queued"] + queued["connect"]
      /\ Histogram(c)["message_queued"] = raw["message_queued"] + queued["message"] + queued["touch"]
      /\ Histogram(c)["awaiting_approval"] = IF left > 0 THEN left ELSE 0
      /\ b \notin {"invite_queued", "message_queued", "awaiting_approval"} => Histogram(c)[b] = raw[b]
  BY <1>2, <1>4
<1>6. QueuedOf(c, "message") \cap QueuedOf(c, "touch") = {}
  BY DEF QueuedOf
<1>7. Cardinality(QueuedOf(c, "message") \cup QueuedOf(c, "touch")) = queued["message"] + queued["touch"]
  <2> DEFINE ms == QueuedOf(c, "message")
             ts == QueuedOf(c, "touch")
  <2>1. IsFiniteSet(ms) /\ IsFiniteSet(ts) /\ ms \cap ts = {}
    BY <1>3, <1>6
  <2>2. queued["message"] = Cardinality(ms) /\ queued["touch"] = Cardinality(ts)
    BY <1>3
  <2> HIDE DEF ms, ts
  <2>3. Cardinality(ms \cup ts) = Cardinality(ms) + Cardinality(ts)
    BY <2>1, TwoParts
  <2>4. Cardinality(ms \cup ts) = queued["message"] + queued["touch"]
    BY <2>2, <2>3
  <2> QED  BY <2>4 DEF ms, ts
<1>8. raw["invite_queued"] = 0 /\ raw["message_queued"] = 0
  <2>1. Raw("invite_queued") = {} /\ Raw("message_queued") = {}
    BY DEF TypeOK, StoreOK, CursorType, LeadsOf, ProgressStates
  <2> QED  BY <1>1, <1>2, <2>1, FS_EmptySet
<1>9. left = Cardinality(Raw("awaiting_approval") \ ApprovedQueuedRows(c)) /\ left \in Nat
  <2> DEFINE mt == QueuedOf(c, "message") \cup QueuedOf(c, "touch")
  <2>1. /\ ApprovedQueuedRows(c) = QueuedOf(c, "connect") \cup mt
        /\ QueuedOf(c, "connect") \cap mt = {}
    BY DEF QueuedOf, MaxType
  <2>2. IsFiniteSet(mt)
    BY <1>3, TwoParts
  <2>3. Cardinality(ApprovedQueuedRows(c)) = moved /\ moved \in Nat
    <3>1. Cardinality(QueuedOf(c, "connect") \cup mt) = queued["connect"] + Cardinality(mt)
      BY <1>3, <2>1, <2>2, TwoParts
    <3> QED  BY <1>3, <1>7, <2>1, <3>1
  <2>4. Raw("awaiting_approval") \cap ApprovedQueuedRows(c) = ApprovedQueuedRows(c)
    BY DEF ApprovedQueuedRows
  <2>5. Cardinality(Raw("awaiting_approval") \ ApprovedQueuedRows(c))
           = Cardinality(Raw("awaiting_approval")) - Cardinality(Raw("awaiting_approval") \cap ApprovedQueuedRows(c))
    BY <1>1, <1>2, FS_Difference
  <2>6. Cardinality(Raw("awaiting_approval") \ ApprovedQueuedRows(c)) \in Nat
    BY LeadsFinite DEF LeadsOf
  <2> QED  BY <1>1, <1>2, <2>3, <2>4, <2>5, <2>6
<1>10. CASE b = "invite_queued"
  BY <1>3, <1>5, <1>8, <1>10, SegmentsAre
<1>11. CASE b = "message_queued"
  <2>1. Histogram(c)[b] = queued["message"] + queued["touch"]
    BY <1>3, <1>5, <1>8, <1>11
  <2>2. SegmentOf(c, b) = QueuedOf(c, "message") \cup QueuedOf(c, "touch")
    BY <1>11, SegmentsAre
  <2> QED  BY <1>7, <2>1, <2>2
<1>12. CASE b = "awaiting_approval"
  <2>1. Histogram(c)[b] = left
    <3> HIDE DEF left
    <3> QED  BY <1>5, <1>9, <1>12
  <2>2. SegmentOf(c, b) = Raw("awaiting_approval") \ ApprovedQueuedRows(c)
    BY <1>12, SegmentsAre
  <2> QED  BY <1>9, <2>1, <2>2
<1>13. CASE b \notin {"invite_queued", "message_queued", "awaiting_approval"}
  <2>1. b \in ProgressStates \ {"awaiting_approval"}
    BY <1>13 DEF Buckets
  <2>2. SegmentOf(c, b) = Raw(b)
    BY <2>1, SegmentsAre
  <2> QED  BY <1>1, <1>5, <1>13, <2>2
<1> QED  BY <1>10, <1>11, <1>12, <1>13
\* The pool every rate divides by is the leads whose invite is still to come or
\* was ours: neither skipped nor invited before.
LEMMA EligibleIs ==
    ASSUME TypeOK, NEW c
    PROVE  Eligible(c) = Cardinality({t \in LeadsOf(c) : cursor[t].state \notin {"skipped", "already_invited"}})
<1> DEFINE L == LeadsOf(c)
           S == {t \in L : cursor[t].state = "skipped"}
           A == {t \in L : cursor[t].state = "already_invited"}
           R == {t \in L : cursor[t].state \notin {"skipped", "already_invited"}}
<1>1. /\ IsFiniteSet(S) /\ IsFiniteSet(A) /\ IsFiniteSet(R)
      /\ Cardinality(S) \in Nat /\ Cardinality(A) \in Nat /\ Cardinality(R) \in Nat
  BY LeadsFinite DEF LeadsOf
<1>2. L = (S \cup A) \cup R /\ S \cap A = {} /\ (S \cup A) \cap R = {}
  OBVIOUS
<1>3. Histogram(c)["skipped"] = Cardinality(S) /\ Histogram(c)["already_invited"] = Cardinality(A)
  <2>1. /\ {"skipped", "already_invited"} \subseteq Buckets
        /\ {"skipped", "already_invited"} \subseteq ProgressStates \ {"awaiting_approval"}
    BY DEF Buckets, ProgressStates
  <2>2. SegmentOf(c, "skipped") = S /\ SegmentOf(c, "already_invited") = A
    BY <2>1, SegmentsAre
  <2>3. /\ Histogram(c)["skipped"] = Cardinality(SegmentOf(c, "skipped"))
        /\ Histogram(c)["already_invited"] = Cardinality(SegmentOf(c, "already_invited"))
    BY <2>1, HistogramIs
  <2> QED  BY <2>2, <2>3
<1> HIDE DEF L, S, A, R
<1>4. IsFiniteSet(S \cup A) /\ Cardinality(S \cup A) = Cardinality(S) + Cardinality(A)
  BY <1>1, <1>2, TwoParts
<1>5. Cardinality((S \cup A) \cup R) = Cardinality(S \cup A) + Cardinality(R)
  BY <1>1, <1>2, <1>4, TwoParts
<1>6. Cardinality(L) = Cardinality(S) + Cardinality(A) + Cardinality(R)
  BY <1>2, <1>4, <1>5
<1>7. Cardinality(L) - Histogram(c)["skipped"] - Histogram(c)["already_invited"] = Cardinality(R)
  BY <1>1, <1>3, <1>6
<1>8. Eligible(c) = Cardinality(R)
  BY <1>1, <1>7 DEF Eligible, L
<1> QED  BY <1>8 DEF R, L

\* The removed leads among the invited are counted, each at the furthest stage
\* it reached.
LEMMA RemovedCounted ==
    ASSUME AuditInv, NEW c
    PROVE  LET rm == RemovedByStage(c) IN
           /\ rm.atInvited \in Nat /\ rm.atAccepted \in Nat /\ rm.atMessaged \in Nat /\ rm.atReplied \in Nat
           /\ Cardinality({t \in LeadsOf(c) : cursor[t].state = "skipped"} \cap audit.invited)
                 <= rm.atInvited + rm.atAccepted + rm.atMessaged + rm.atReplied
<1> DEFINE S == {t \in LeadsOf(c) : cursor[t].state = "skipped"}
           later == audit.messaged \cup audit.replied
           I == (S \cap audit.invited) \ (audit.accepted \cup later)
           A == (S \cap audit.accepted) \ later
           M == (S \cap audit.messaged) \ audit.replied
           R == S \cap audit.replied
           rm == RemovedByStage(c)
<1>1. /\ rm.atInvited = Cardinality(I) /\ rm.atAccepted = Cardinality(A)
      /\ rm.atMessaged = Cardinality(M) /\ rm.atReplied = Cardinality(R)
  BY DEF RemovedByStage
<1>2. S \subseteq Targets
  BY DEF LeadsOf
<1>3. /\ IsFiniteSet(I) /\ IsFiniteSet(A) /\ IsFiniteSet(M) /\ IsFiniteSet(R)
      /\ Cardinality(I) \in Nat /\ Cardinality(A) \in Nat /\ Cardinality(M) \in Nat /\ Cardinality(R) \in Nat
  <2>1. I \subseteq Targets /\ A \subseteq Targets /\ M \subseteq Targets /\ R \subseteq Targets
    BY <1>2
  <2> QED  BY <2>1, LeadsFinite
<1>4. S \cap audit.invited \subseteq (I \cup A) \cup (M \cup R)
  OBVIOUS
<1> HIDE DEF I, A, M, R, S, rm
<1>5. /\ IsFiniteSet(I \cup A) /\ Cardinality(I \cup A) <= Cardinality(I) + Cardinality(A)
      /\ IsFiniteSet(M \cup R) /\ Cardinality(M \cup R) <= Cardinality(M) + Cardinality(R)
      /\ Cardinality(I \cup A) \in Nat /\ Cardinality(M \cup R) \in Nat
  BY <1>3, TwoParts
<1>6. /\ IsFiniteSet((I \cup A) \cup (M \cup R)) /\ Cardinality((I \cup A) \cup (M \cup R)) \in Nat
      /\ Cardinality((I \cup A) \cup (M \cup R)) <= Cardinality(I \cup A) + Cardinality(M \cup R)
  BY <1>5, TwoParts
<1>7. /\ Cardinality(S \cap audit.invited) <= Cardinality((I \cup A) \cup (M \cup R))
      /\ Cardinality(S \cap audit.invited) \in Nat
  <2>1. S \cap audit.invited \subseteq Targets
    BY <1>2
  <2> QED  BY <1>4, <1>6, <2>1, LeadsFinite, FS_Subset
<1>8. Cardinality(S \cap audit.invited) <= Cardinality(I) + Cardinality(A) + Cardinality(M) + Cardinality(R)
  BY <1>3, <1>5, <1>6, <1>7
<1> QED  BY <1>1, <1>3, <1>8 DEF S, rm

\* No more invited than there were to invite, but for the leads faults touched.
LEMMA InvitedIsShare ==
    ASSUME Inv, AuditInv, FaultInv, NEW c
    PROVE  BuildFunnel(c).invited.count <= BuildFunnel(c).invited.of + faults
<1> DEFINE L == LeadsOf(c)
           S == {t \in L : cursor[t].state = "skipped"} \cap audit.invited
           R == {t \in L : cursor[t].state \notin {"skipped", "already_invited"}}
           rm == RemovedByStage(c)
           D == audit.invited \cap L \cap Dirty
<1>1. /\ IsFiniteSet(S) /\ IsFiniteSet(R) /\ IsFiniteSet(D) /\ IsFiniteSet(Dirty)
      /\ Cardinality(S) \in Nat /\ Cardinality(R) \in Nat /\ Cardinality(D) \in Nat
      /\ Cardinality(Dirty) \in Nat
      /\ IsFiniteSet(audit.invited \cap L) /\ Cardinality(audit.invited \cap L) \in Nat
  <2>1. /\ S \subseteq Targets /\ R \subseteq Targets /\ D \subseteq Targets /\ Dirty \subseteq Targets
        /\ audit.invited \cap L \subseteq Targets
    BY DEF LeadsOf, Dirty
  <2> QED  BY <2>1, LeadsFinite
<1>2. audit.invited \cap L \subseteq (S \cup R) \cup D
  BY DEF LeadsOf, Dirty, Clean
<1>3. Cardinality(D) <= Cardinality(Dirty) /\ Cardinality(Dirty) <= faults /\ faults \in Nat
  BY <1>1, FS_Subset, FunnelAssumption DEF FaultInv, Inv, TypeOK, HistoryOK
<1>4. /\ rm.atInvited \in Nat /\ rm.atAccepted \in Nat /\ rm.atMessaged \in Nat /\ rm.atReplied \in Nat
      /\ Cardinality(S) <= rm.atInvited + rm.atAccepted + rm.atMessaged + rm.atReplied
  BY RemovedCounted
<1>5. /\ BuildFunnel(c).invited.count = Cardinality(audit.invited \cap L)
      /\ BuildFunnel(c).invited.of
            = Cardinality(R) + rm.atInvited + rm.atAccepted + rm.atMessaged + rm.atReplied
  BY EligibleIs DEF BuildFunnel, Inv
<1> HIDE DEF S, R, D, L, rm
<1>6. /\ IsFiniteSet(S \cup R) /\ Cardinality(S \cup R) \in Nat
      /\ Cardinality(S \cup R) <= Cardinality(S) + Cardinality(R)
  BY <1>1, TwoParts
<1>7. /\ IsFiniteSet((S \cup R) \cup D) /\ Cardinality((S \cup R) \cup D) \in Nat
      /\ Cardinality((S \cup R) \cup D) <= Cardinality(S \cup R) + Cardinality(D)
  BY <1>1, <1>6, TwoParts
<1>8. Cardinality(audit.invited \cap L) <= Cardinality((S \cup R) \cup D)
  BY <1>2, <1>7, FS_Subset
<1> QED  BY <1>1, <1>3, <1>4, <1>5, <1>6, <1>7, <1>8

\* What is left of a stage when those who got no further are taken off.
LEMMA ShareOfRest ==
    ASSUME NEW N, IsFiniteSet(N), NEW G, NEW P, P \subseteq N \ G, G \subseteq N
    PROVE  Cardinality(P) <= Atleast0(Cardinality(N), Cardinality(G))
<1>1. IsFiniteSet(N \ G) /\ Cardinality(N \ G) = Cardinality(N) - Cardinality(N \cap G) /\ N \cap G = G
  BY FS_Difference
<1>2. Cardinality(P) <= Cardinality(N \ G) /\ IsFiniteSet(P)
  BY <1>1, FS_Subset
<1>3. IsFiniteSet(G)
  BY FS_Subset
<1>4. Cardinality(N) \in Nat /\ Cardinality(G) \in Nat /\ Cardinality(P) \in Nat /\ Cardinality(N \ G) \in Nat
  BY <1>1, <1>2, <1>3, FS_CardinalityType
<1>5. Cardinality(N \ G) = Cardinality(N) - Cardinality(G)
  BY <1>1
<1> QED  BY <1>2, <1>4, <1>5 DEF Atleast0

\* So no later rate passes 100%.
LEMMA LaterAreShares ==
    ASSUME AuditInv, NEW c
    PROVE  LET f == BuildFunnel(c) IN
           f.accepted.count <= f.accepted.of /\ f.messaged.count <= f.messaged.of
<1> DEFINE L == LeadsOf(c)
           S == {t \in L : cursor[t].state = "skipped"}
           later == audit.messaged \cup audit.replied
           I == (S \cap audit.invited) \ (audit.accepted \cup later)
           A == (S \cap audit.accepted) \ later
           f == BuildFunnel(c)
<1>1. /\ f.accepted.count = Cardinality(audit.accepted \cap L)
      /\ f.accepted.of = Atleast0(Cardinality(audit.invited \cap L), Cardinality(I))
      /\ f.messaged.count = Cardinality(audit.messaged \cap L)
      /\ f.messaged.of = Atleast0(Cardinality(audit.accepted \cap L), Cardinality(A))
  BY DEF BuildFunnel, RemovedByStage
<1>2. IsFiniteSet(audit.invited \cap L) /\ IsFiniteSet(audit.accepted \cap L)
  BY LeadsFinite DEF LeadsOf
<1>3. audit.accepted \cap L \subseteq (audit.invited \cap L) \ I /\ I \subseteq audit.invited \cap L
  BY DEF AuditInv
<1>4. audit.messaged \cap L \subseteq (audit.accepted \cap L) \ A /\ A \subseteq audit.accepted \cap L
  BY DEF AuditInv
<1> HIDE DEF I, A, L, f
<1>5. f.accepted.count <= f.accepted.of
  BY <1>1, <1>2, <1>3, ShareOfRest
<1>6. f.messaged.count <= f.messaged.of
  BY <1>1, <1>2, <1>4, ShareOfRest
<1> QED  BY <1>5, <1>6 DEF f

\* Whoever the dashboard counts as invited the agent's figures count too, but
\* for the invite being parked and the leads faults kept from being marked.
LEMMA FiguresCover ==
    ASSUME Inv, AuditInv, FaultInv, NEW c
    PROVE  BuildFunnel(c).invited.count <=
               GetMetrics(c).invited + faults + (IF dpc \in {"sendMark", "sendPark", "stepPark"} THEN 1 ELSE 0)
<1> DEFINE L == LeadsOf(c)
           M == {t \in L : stage[t] \in {"invited", "connected", "in_conversation", "replied", "won", "lost"}}
           F == {t \in Targets : LandedFlight(t)}
           one == IF dpc \in {"sendMark", "sendPark", "stepPark"} THEN 1 ELSE 0
<1>1. /\ IsFiniteSet(M) /\ IsFiniteSet(F) /\ IsFiniteSet(Unmarked)
      /\ Cardinality(M) \in Nat /\ Cardinality(F) \in Nat /\ Cardinality(Unmarked) \in Nat
      /\ IsFiniteSet(audit.invited \cap L) /\ Cardinality(audit.invited \cap L) \in Nat
  <2>1. /\ M \subseteq Targets /\ F \subseteq Targets /\ Unmarked \subseteq Targets
        /\ audit.invited \cap L \subseteq Targets
    BY DEF LeadsOf, Unmarked, AuditInv
  <2> QED  BY <2>1, LeadsFinite
<1>2. audit.invited \cap L \subseteq (M \cup F) \cup Unmarked
  BY DEF LeadsOf, Unmarked, Reached, ContactedTargetStages
<1>3. Cardinality(F) <= one
  <2>1. IsFiniteSet({}) /\ Cardinality({}) = 0
    BY FS_EmptySet
  <2>2. F \subseteq {cur.tgt} /\ (one = 0 => F = {}) /\ one \in {0, 1}
    BY DEF LandedFlight
  <2> HIDE DEF F, one
  <2>3. Cardinality({cur.tgt}) = 1 /\ IsFiniteSet({cur.tgt})
    BY FS_Singleton
  <2>4. Cardinality(F) <= 1
    BY <2>2, <2>3, FS_Subset
  <2>5. F = {} => Cardinality(F) = 0
    BY <2>1, Zenon
  <2> QED  BY <2>2, <2>4, <2>5
<1>4. Cardinality(Unmarked) <= faults /\ faults \in Nat /\ one \in {0, 1}
  BY FunnelAssumption DEF FaultInv, Inv, TypeOK, HistoryOK
<1>5. /\ BuildFunnel(c).invited.count = Cardinality(audit.invited \cap L)
      /\ GetMetrics(c).invited = Cardinality(M)
  BY DEF BuildFunnel, GetMetrics
<1> HIDE DEF M, F, L, one
<1>6. /\ IsFiniteSet(M \cup F) /\ Cardinality(M \cup F) \in Nat
      /\ Cardinality(M \cup F) <= Cardinality(M) + Cardinality(F)
  BY <1>1, TwoParts
<1>7. /\ IsFiniteSet((M \cup F) \cup Unmarked) /\ Cardinality((M \cup F) \cup Unmarked) \in Nat
      /\ Cardinality((M \cup F) \cup Unmarked) <= Cardinality(M \cup F) + Cardinality(Unmarked)
  BY <1>1, <1>6, TwoParts
<1>8. Cardinality(audit.invited \cap L) <= Cardinality((M \cup F) \cup Unmarked)
  BY <1>2, <1>7, FS_Subset
<1>9. BuildFunnel(c).invited.count <= GetMetrics(c).invited + faults + one
  BY <1>1, <1>3, <1>4, <1>5, <1>6, <1>7, <1>8
<1> QED  BY <1>9 DEF one

\* The approval list is the leads the table marks as pending.
LEMMA PendingAlike ==
    ASSUME NEW c
    PROVE  {msg[m].tgt : m \in GetPending(c)} = {l.target : l \in {k \in GetCampaignLeads(c) : k.pending}}
<1>1. GetCampaignLeads(c) = {LeadRow(t) : t \in LeadsOf(c)}
  BY DEF GetCampaignLeads, LeadRow
<1>2. \A t : LeadRow(t).target = t /\ (LeadRow(t).pending <=> PendingDrafts(t) # {})
  BY DEF LeadRow
<1>3. {l.target : l \in {k \in GetCampaignLeads(c) : k.pending}} = {t \in LeadsOf(c) : PendingDrafts(t) # {}}
  BY <1>1, <1>2
<1>4. {msg[m].tgt : m \in GetPending(c)} = {t \in LeadsOf(c) : PendingDrafts(t) # {}}
  BY DEF GetPending, PendingDrafts, Rows
<1> QED  BY <1>3, <1>4

\* Wherever the dashboard reads the store, in the middle of any handler and
\* after any crash, what a card counts is what the table lists, no invited,
\* accepted or messaged rate passes 100% and the agent's figures cover the
\* dashboard's, save one lead for each fault and the one being parked.
THEOREM FiguresFitTogether == ASSUME OneDecision PROVE DashboardSpec => []FiguresAgree
<1>1. Inv /\ AuditInv /\ FaultInv => FiguresAgree
  <2> SUFFICES ASSUME Inv, AuditInv, FaultInv PROVE FiguresAgree
    OBVIOUS
  <2>1. HistogramMatchesLeads
    BY HistogramIs, TableCounts DEF HistogramMatchesLeads, Inv
  <2>2. RatesAreShares
    BY InvitedIsShare, LaterAreShares DEF RatesAreShares
  <2>3. ViewsAgree
    BY FiguresCover, PendingAlike DEF ViewsAgree
  <2> QED  BY <2>1, <2>2, <2>3 DEF FiguresAgree
<1> QED  BY <1>1, DashboardRuns, InvHolds, AuditHolds, FaultHolds, PTL
=============================================================================
