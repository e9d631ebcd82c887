---------------------------- MODULE FunnelProofs ----------------------------
(***************************************************************************)
(* Theorems about Funnel, for every set of targets, people, campaigns,     *)
(* operators and message rows and every sequence of steps: its invariants, *)
(* and that it implements Outreach.                                        *)
(***************************************************************************)
EXTENDS Funnel, TLAPS, FiniteSetTheorems

-----------------------------------------------------------------------------
(* Type correctness *)

\* Every enabled step has one of the step types.
LEMMA StepRecord ==
    ASSUME NEW k \in Nat, k < Len(Steps) PROVE TypeAt(k) \in StepTypes
<1> DEFINE S == [type : StepTypes, wait : BOOLEAN]
<1>1. Steps \in Seq(S)
  BY FunnelAssumption
<1> HIDE DEF S
<1>2. k + 1 \in 1 .. Len(Steps)
  BY <1>1
<1>3. Steps[k + 1] \in S
  BY <1>1, <1>2
<1> QED  BY <1>3 DEF TypeAt, S

\* advanceAfterStep writes a cursor.
LEMMA AdvanceType ==
    ASSUME NEW k \in Nat PROVE AdvanceAfterStep(k) \in CursorType
BY FunnelAssumption DEF AdvanceAfterStep, CursorType, ProgressStates

\* Rewriting the state of a cursor, or advancing it, leaves a cursor.
LEMMA RestateType ==
    ASSUME NEW c \in CursorType, NEW s \in ProgressStates
    PROVE  /\ [c EXCEPT !.state = s] \in CursorType
           /\ [c EXCEPT !.state = s, !.due = TRUE] \in CursorType
           /\ AdvanceAfterStep(c.step) \in CursorType
<1>1. c.step \in Nat
  BY DEF CursorType
<1>2. AdvanceAfterStep(c.step) \in CursorType
  BY <1>1, AdvanceType
<1> QED  BY <1>2 DEF CursorType

\* stopFunnel's first update leaves a cursor.
LEMMA StoppedType ==
    ASSUME NEW c \in CursorType, NEW s \in ProgressStates PROVE Stopped(c, s) \in CursorType
BY DEF Stopped, CursorType

\* stopFunnel's second update leaves a table of messages.
LEMMA CancelType ==
    ASSUME NEW ms \in [MsgIds -> MsgType], NEW t PROVE CancelMessages(ms, t) \in [MsgIds -> MsgType]
BY DEF CancelMessages, MsgType, MessageStatuses

\* So does counting a failed action row.
LEMMA CountType ==
    ASSUME NEW ms \in [MsgIds -> MsgType], NEW t, NEW ty
    PROVE  CountFailure(ms, t, ty) \in [MsgIds -> MsgType]
BY DEF CountFailure, MsgType

\* setStatus keeps the type of the message table.
LEMMA StatusType ==
    ASSUME StoreOK, NEW m, NEW s \in MessageStatuses, SetStatus(m, s)
    PROVE  msg' \in [MsgIds -> MsgType]
BY ZenonT(60) DEF StoreOK, SetStatus, MsgType

\* advanceTargetProgress keeps the type of the cursor table.
LEMMA StateType ==
    ASSUME StoreOK, NEW t, NEW s \in ProgressStates, SetState(t, s)
    PROVE  cursor' \in [Targets -> CursorType]
BY DEF StoreOK, SetState, CursorType

\* So does an update of one field of one row of the cursor or the message table.
LEMMA FieldTypes ==
    ASSUME StoreOK, NEW t, NEW m, NEW s \in ProgressStates
    PROVE  /\ [cursor EXCEPT ![t].state = s] \in [Targets -> CursorType]
           /\ [cursor EXCEPT ![t].due = TRUE] \in [Targets -> CursorType]
           /\ [msg EXCEPT ![m].status = "cancelled"] \in [MsgIds -> MsgType]
<1>1. [cursor EXCEPT ![t].state = s] \in [Targets -> CursorType]
  BY DEF StoreOK, CursorType
<1>2. [cursor EXCEPT ![t].due = TRUE] \in [Targets -> CursorType]
  BY DEF StoreOK, CursorType
<1>3. [msg EXCEPT ![m].status = "cancelled"] \in [MsgIds -> MsgType]
  BY DEF StoreOK, MsgType, MessageStatuses
<1> QED  BY <1>1, <1>2, <1>3

\* setStage keeps the type of the stage table.
LEMMA StageType ==
    ASSUME StoreOK, NEW t, NEW s \in TargetStages, SetStage(t, s)
    PROVE  stage' \in [Targets -> TargetStages]
BY DEF StoreOK, SetStage

\* Pulling or excluding a target keeps the types of both tables it updates.
LEMMA StopType ==
    ASSUME StoreOK, NEW t, NEW s \in ProgressStates, StopFunnel(t, s)
    PROVE  cursor' \in [Targets -> CursorType] /\ msg' \in [MsgIds -> MsgType]
BY StoppedType, CancelType DEF StoreOK, StopFunnel

\* Adding one to a counter of a table keeps the table.
LEMMA BumpType ==
    ASSUME NEW S, NEW f \in [S -> Nat], NEW k PROVE [f EXCEPT ![k] = @ + 1] \in [S -> Nat]
<1>1. k \in S => f[k] + 1 \in Nat
  OBVIOUS
<1> QED  BY <1>1, Zenon

\* What an action does on LinkedIn keeps the types of links and history.
LEMMA LandsType ==
    ASSUME WorldOK, HistoryOK, NEW t, NEW k, Lands(t, k)
    PROVE  /\ link' \in [Persons -> {"none", "pending", "connected", "withdrawn"}]
           /\ landed' \in [Targets -> [StepIdx -> Nat]]
           /\ late' \in [Persons -> Nat]
<1> DEFINE p == Person(t)
           row == [landed[t] EXCEPT ![k] = @ + 1]
<1>1. link' = (IF TypeAt(k) = "connect" THEN [link EXCEPT ![p] = "pending"] ELSE link)
  BY DEF Lands
<1>2. landed' = [landed EXCEPT ![t] = row]
  BY DEF Lands
<1>3. late' = late \/ late' = [late EXCEPT ![p] = @ + 1]
  BY DEF Lands
<1>4. t \in Targets => row \in [StepIdx -> Nat]
  BY BumpType DEF HistoryOK
<1> HIDE DEF p, row
<1>5. link' \in [Persons -> {"none", "pending", "connected", "withdrawn"}]
  BY <1>1 DEF WorldOK
<1>6. landed' \in [Targets -> [StepIdx -> Nat]]
  BY <1>2, <1>4 DEF HistoryOK
<1>7. late' \in [Persons -> Nat]
  BY <1>3, BumpType DEF HistoryOK
<1> QED  BY <1>5, <1>6, <1>7

\* The approved-message loop of runTick and sendApproved keep every type.
LEMMA SendType ==
    ASSUME TypeOK, SendStep PROVE TypeOK'
<1> USE DEF TypeOK, WorldOK, DispOK, OthersOK, HistoryOK, store, world, history, Others
<1>1. ASSUME NEW m \in MsgIds, SendGateClosed(m) \/ SendHeld(m) PROVE TypeOK'
  BY <1>1 DEF SendGateClosed, SendHeld, Dequeue, SendReturns, StoreOK
<1>2. ASSUME NEW m \in MsgIds, SendExhausted(m) PROVE TypeOK'
  <2>1. cursor' \in [Targets -> CursorType] /\ msg' \in [MsgIds -> MsgType]
    <3>1. CASE GiveUpApproved(m)
      BY <3>1, StatusType, StateType DEF GiveUpApproved, MessageStatuses, ProgressStates
    <3>2. CASE HaltSendLane
      BY <3>2 DEF HaltSendLane, StoreOK
    <3> QED  BY <1>2, <3>1, <3>2 DEF SendExhausted
  <2> QED  BY <1>2, <2>1 DEF SendExhausted, Dequeue, SendReturns, StoreOK
<1>3. ASSUME NEW m \in MsgIds, SendCancelled(m) PROVE TypeOK'
  <2> DEFINE ms == [msg EXCEPT ![m].status = "cancelled"]
  <2>1. ms \in [MsgIds -> MsgType]
    <3>1. "skipped" \in ProgressStates
      BY DEF ProgressStates
    <3> QED  BY <3>1, FieldTypes
  <2>2. msg' \in [MsgIds -> MsgType]
    BY <1>3, <2>1, CancelType DEF SendCancelled
  <2>3. cursor' \in [Targets -> CursorType]
    <3>1. "replied" \in ProgressStates
      BY DEF ProgressStates
    <3>2. \A c \in CursorType : Stopped(c, "replied") \in CursorType
      BY <3>1, StoppedType
    <3> QED  BY <1>3, <3>2 DEF SendCancelled, StoreOK
  <2> QED  BY <1>3, <2>2, <2>3 DEF SendCancelled, Dequeue, SendReturns, StoreOK
<1>4. ASSUME NEW m \in MsgIds, SendReady(m) PROVE TypeOK'
  <2>1. cur' \in CurType /\ dpc' \in DispatchPc
    BY <1>4 DEF SendReady, StoreOK, MsgType, CurType, Idle, DispatchPc
  <2> QED  BY <1>4, <2>1 DEF SendReady, Dequeue, StoreOK
<1>5. CASE SendFailed
  BY <1>5, CountType DEF SendFailed, Return, StoreOK, CurType, Idle, DispatchPc
<1>6. CASE SendLostAck
  <2>1. /\ link' \in [Persons -> {"none", "pending", "connected", "withdrawn"}]
        /\ landed' \in [Targets -> [StepIdx -> Nat]]
        /\ late' \in [Persons -> Nat]
    BY <1>6, LandsType DEF SendLostAck
  <2>2. faults' \in 0 .. MaxFaults
    BY <1>6, FunnelAssumption DEF SendLostAck
  <2>3. msg' \in [MsgIds -> MsgType]
    BY <1>6, CountType DEF SendLostAck, StoreOK
  <2> QED  BY <1>6, <2>1, <2>2, <2>3 DEF SendLostAck, Return, StoreOK, CurType, Idle, DispatchPc
<1>7. CASE SendLanded
  <2>1. /\ link' \in [Persons -> {"none", "pending", "connected", "withdrawn"}]
        /\ landed' \in [Targets -> [StepIdx -> Nat]]
        /\ late' \in [Persons -> Nat]
    BY <1>7, LandsType DEF SendLanded
  <2> QED  BY <1>7, <2>1 DEF SendLanded, Goto, StoreOK, DispatchPc
<1>8. CASE SendSkipped
  BY <1>8 DEF SendSkipped, Goto, StoreOK, DispatchPc
<1>9. CASE SendMark
  BY <1>9, StatusType DEF SendMark, Goto, StoreOK, DispatchPc, MessageStatuses
<1>10. CASE SendPark
  <2> DEFINE t == cur.tgt
             c == IF cursor[t].state # "awaiting_approval" THEN cursor[t]
                  ELSE IF TypeAt(cur.step) = "connect"
                  THEN [cursor[t] EXCEPT !.state = "awaiting_connection", !.due = TRUE]
                  ELSE AdvanceAfterStep(cursor[t].step)
  <2>1. t \in Targets => c \in CursorType
    <3>1. "awaiting_connection" \in ProgressStates
      BY DEF ProgressStates
    <3> QED  BY <3>1, RestateType DEF StoreOK
  <2>2. cursor' = [cursor EXCEPT ![t] = c]
    BY <1>10 DEF SendPark
  <2>3. stage' \in [Targets -> TargetStages]
    BY <1>10 DEF SendPark, SetStage, StoreOK, TargetStages
  <2> HIDE DEF c
  <2>4. cursor' \in [Targets -> CursorType]
    BY <2>1, <2>2 DEF StoreOK
  <2> QED  BY <1>10, <2>3, <2>4 DEF SendPark, Return, StoreOK, CurType, Idle, DispatchPc
<1>11. CASE SendSkip
  <2>1. /\ msg' \in [MsgIds -> MsgType]
        /\ cursor' \in [Targets -> CursorType]
        /\ stage' \in [Targets -> TargetStages]
    BY <1>11, StatusType, StateType, StageType
       DEF SendSkip, ParkAfterConnect, MessageStatuses, ProgressStates, TargetStages
  <2> QED  BY <1>11, <2>1 DEF SendSkip, Return, StoreOK, CurType, Idle, DispatchPc
<1>12. CASE SendsDone
  BY <1>12 DEF SendsDone, StoreOK, DispatchPc, DueTargetProgress, Snapshot, CursorType
<1> QED  BY <1>1, <1>2, <1>3, <1>4, <1>5, <1>6, <1>7, <1>8, <1>9, <1>10, <1>11, <1>12
         DEF SendStep

\* A cursor snapshot names a target and a step.
LEMMA SnapshotType ==
    ASSUME TypeOK, NEW t \in Targets PROVE Snapshot(t) \in Targets \X Nat
BY DEF TypeOK, StoreOK, CursorType, Snapshot

\* The due and upcoming loops of runTick and step keep every type.
LEMMA CursorStepType ==
    ASSUME TypeOK, CursorStep PROVE TypeOK'
<1> USE DEF TypeOK, WorldOK, DispOK, OthersOK, HistoryOK, store, world, history, Others
<1>1. ASSUME NEW w \in stepQ, StepWait(w) PROVE TypeOK'
  <2>1. w[2] \in Nat
    OBVIOUS
  <2>2. cursor' \in [Targets -> CursorType]
    <3>1. CASE SetState(w[1], "completed")
      BY <3>1, StateType DEF ProgressStates
    <3>2. CASE w[2] < Len(Steps) /\ TypeAt(w[2]) = "delay"
      <4> DEFINE next == AdvanceAfterStep(w[2])
                 c == IF next.state = "completed" THEN next
                      ELSE [next EXCEPT !.state = cursor[w[1]].state]
      <4>1. next \in CursorType
        BY <2>1, AdvanceType
      <4>2. cursor[w[1]] \in CursorType
        BY DEF StoreOK
      <4>3. c \in CursorType
        BY <4>1, <4>2 DEF CursorType
      <4>4. cursor' = [cursor EXCEPT ![w[1]] = c]
        BY <1>1, <3>2 DEF StepWait
      <4> HIDE DEF c
      <4> QED  BY <4>3, <4>4 DEF StoreOK
    <3> QED  BY <1>1, <3>1, <3>2 DEF StepWait
  <2> QED  BY <1>1, <2>2 DEF StepWait, TakeStep, StepReturns, StoreOK
<1>2. ASSUME NEW w \in stepQ, StepPulled(w) PROVE TypeOK'
  <2>1. cursor' \in [Targets -> CursorType] /\ msg' \in [MsgIds -> MsgType]
    BY <1>2, StopType DEF StepPulled, PullTargetFromFunnel, ProgressStates
  <2> QED  BY <1>2, <2>1 DEF StepPulled, TakeStep, StepReturns, StoreOK
<1>3. ASSUME NEW w \in stepQ, StepHeld(w) PROVE TypeOK'
  BY <1>3 DEF StepHeld, TakeStep, StepReturns, StoreOK
<1>4. ASSUME NEW w \in stepQ, StepReady(w) PROVE TypeOK'
  <2>1. w[1] \in Targets /\ w[2] \in Nat
    OBVIOUS
  <2>2. TypeAt(w[2]) \in {"message", "connect", "touch"}
    BY <1>4, <2>1, StepRecord DEF StepReady, StepTypes
  <2>3. dpc' \in DispatchPc
    BY <1>4, <2>2 DEF StepReady, DispatchPc
  <2>4. cur' \in CurType
    BY <1>4, <2>1 DEF StepReady, CurType, Idle
  <2> QED  BY <1>4, <2>3, <2>4 DEF StepReady, TakeStep, StoreOK
<1>5. CASE StepLock
  <2>1. StoreOK'
    <3>1. CASE UNCHANGED store
      BY <3>1 DEF StoreOK
    <3>2. CASE /\ ExcludeTargetFromFunnel(cur.tgt) /\ SetStage(cur.tgt, "lost")
               /\ UNCHANGED suppressed
      <4>1. cursor' \in [Targets -> CursorType] /\ msg' \in [MsgIds -> MsgType]
        BY <3>2, StopType DEF ExcludeTargetFromFunnel, ProgressStates
      <4>2. stage' \in [Targets -> TargetStages]
        BY <3>2, StageType DEF TargetStages
      <4> QED  BY <3>2, <4>1, <4>2 DEF StoreOK
    <3> QED  BY <1>5, <3>1, <3>2 DEF StepLock
  <2>2. DispOK'
    BY <1>5 DEF StepLock, Goto, Return, CurType, Idle, DispatchPc
  <2> QED  BY <1>5, <2>1, <2>2 DEF StepLock
<1>6. CASE StepEnqueue
  <2>1. msg' \in [MsgIds -> MsgType]
    BY <1>6 DEF StepEnqueue, StoreOK, MsgType, MessageStatuses, CurType
  <2> QED  BY <1>6, <2>1 DEF StepEnqueue, Goto, StoreOK, DispatchPc
<1>7. CASE StepQueue
  <2>1. cursor' \in [Targets -> CursorType]
    <3>1. "awaiting_approval" \in ProgressStates
      BY DEF ProgressStates
    <3> QED  BY <1>7, <3>1, FieldTypes DEF StepQueue
  <2> QED  BY <1>7, <2>1 DEF StepQueue, Return, StoreOK, CurType, Idle, DispatchPc
<1>8. CASE StepDeferred
  BY <1>8 DEF StepDeferred, Return, StoreOK, CurType, Idle, DispatchPc
<1>9. CASE StepFailed
  <2>1. cursor' \in [Targets -> CursorType] /\ msg' \in [MsgIds -> MsgType]
    BY <1>9, StateType, CountType DEF StepFailed, StoreOK, ProgressStates
  <2> QED  BY <1>9, <2>1 DEF StepFailed, Return, StoreOK, CurType, Idle, DispatchPc
<1>10. CASE StepLanded
  <2>1. /\ link' \in [Persons -> {"none", "pending", "connected", "withdrawn"}]
        /\ landed' \in [Targets -> [StepIdx -> Nat]]
        /\ late' \in [Persons -> Nat]
    BY <1>10, LandsType DEF StepLanded
  <2>2. DispOK'
    BY <1>10 DEF StepLanded, CurType, DispatchPc
  <2> QED  BY <1>10, <2>1, <2>2 DEF StepLanded, StoreOK
<1>11. CASE StepSkipped
  BY <1>11 DEF StepSkipped, StoreOK, CurType, DispatchPc
<1>12. CASE StepPark
  <2>1. cursor' \in [Targets -> CursorType] /\ stage' \in [Targets -> TargetStages]
    <3>1. CASE TypeAt(cur.step) = "connect"
      BY <1>12, <3>1, StateType, StageType DEF StepPark, ParkAfterConnect, ProgressStates, TargetStages
    <3>2. CASE TypeAt(cur.step) # "connect"
      <4>1. AdvanceAfterStep(cur.step) \in CursorType
        BY AdvanceType DEF CurType
      <4> QED  BY <1>12, <3>2, <4>1 DEF StepPark, StoreOK
    <3> QED  BY <3>1, <3>2
  <2> QED  BY <1>12, <2>1 DEF StepPark, Return, StoreOK, CurType, Idle, DispatchPc
<1>13. CASE StepsDone
  <2>1. UpcomingDrafts \subseteq Targets \X Nat
    BY SnapshotType DEF UpcomingDrafts
  <2> QED  BY <1>13, <2>1 DEF StepsDone, StoreOK, DispatchPc
<1>14. CASE StepLostAck
  <2>1. /\ link' \in [Persons -> {"none", "pending", "connected", "withdrawn"}]
        /\ landed' \in [Targets -> [StepIdx -> Nat]]
        /\ late' \in [Persons -> Nat]
    BY <1>14, LandsType DEF StepLostAck
  <2>2. faults' \in 0 .. MaxFaults
    BY <1>14, FunnelAssumption DEF StepLostAck
  <2>3. cursor' \in [Targets -> CursorType] /\ msg' \in [MsgIds -> MsgType]
    BY <1>14, StateType, CountType DEF StepLostAck, StoreOK, ProgressStates
  <2> QED  BY <1>14, <2>1, <2>2, <2>3 DEF StepLostAck, Return, StoreOK, CurType, Idle, DispatchPc
<1> QED  BY <1>1, <1>2, <1>3, <1>4, <1>5, <1>6, <1>7, <1>8, <1>9, <1>10, <1>11, <1>12, <1>13,
            <1>14 DEF CursorStep

\* Marking a thread as seen keeps the type of the seen-set.
LEMMA SeenType ==
    ASSUME WorldOK, NEW p PROVE [seen EXCEPT ![p] = inbound[p]] \in [Persons -> 0 .. MaxInbound]
<1>1. p \in Persons => inbound[p] \in 0 .. MaxInbound
  BY DEF WorldOK
<1> QED  BY <1>1, Zenon DEF WorldOK

\* Moving a routing call on keeps the type of the routing table.
LEMMA RoutingType ==
    ASSUME OthersOK, NEW c, NEW t \in Targets \cup {None},
           NEW pc \in {"idle", "classify", "pull", "intent", "threw"}
    PROVE  [route EXCEPT ![c] = [pc |-> pc, tgt |-> t]] \in [Callers -> RouteType]
BY DEF OthersOK, RouteType

\* The reply probe, the reply tick and the router keep every type.
LEMMA ReplyType ==
    ASSUME TypeOK, RowsExist, ProbeStep \/ (\E c \in Callers : RouteStep(c)) \/ ReplyStep
    PROVE  TypeOK'
<1> USE DEF TypeOK, WorldOK, DispOK, OthersOK, HistoryOK, store, world, disp, history, Others
<1>1. CASE ProbeThrows
  BY <1>1 DEF ProbeThrows, ProbePc, BrokenLane, Loop, Goto, Return, StoreOK, CurType, Idle,
             DispatchPc
<1>2. CASE Probe
  <2>1. DispOK'
    BY <1>2 DEF Probe, ProbePc, AfterProbe, Loop, Goto, Return, CurType, Idle, DispatchPc
  <2>2. seen' \in [Persons -> 0 .. MaxInbound]
    BY <1>2, SeenType DEF Probe
  <2>3. cur.tgt \in Targets \cup {None}
    BY DEF CurType
  <2>4. route' \in [Callers -> RouteType]
    <3>1. \/ route' = route
          \/ route' = [route EXCEPT !["dispatch"] = [pc |-> "classify", tgt |-> cur.tgt]]
      BY <1>2 DEF Probe
    <3>2. [route EXCEPT !["dispatch"] = [pc |-> "classify", tgt |-> cur.tgt]]
             \in [Callers -> RouteType]
      BY <2>3, RoutingType, Zenon
    <3> QED  BY <3>1, <3>2, Zenon
  <2> QED  BY <1>2, <2>1, <2>2, <2>4 DEF Probe, StoreOK
<1>3. CASE ProbeReturns
  <2>1. DispOK'
    BY <1>3 DEF ProbeReturns, BrokenLane, Loop, Goto, Return, CurType, Idle, DispatchPc
  <2>2. route' \in [Callers -> RouteType]
    BY <1>3 DEF ProbeReturns, RouteType, NoRoute
  <2> QED  BY <1>3, <2>1, <2>2 DEF ProbeReturns, StoreOK
<1>4. ASSUME NEW c \in Callers, RouteClassified(c) PROVE TypeOK'
  BY <1>4 DEF RouteClassified, RouteType, StoreOK
<1>5. ASSUME NEW c \in Callers, RouteThrows(c) PROVE TypeOK'
  <2>1. route' \in [Callers -> RouteType]
    BY SMTT(60), <1>5 DEF RouteThrows, RouteType, NoRoute
  <2> QED  BY <1>5, <2>1 DEF RouteThrows, StoreOK
<1>6. ASSUME NEW c \in Callers, RoutePull(c) PROVE TypeOK'
  <2>1. cursor' \in [Targets -> CursorType] /\ msg' \in [MsgIds -> MsgType]
    BY <1>6, StopType DEF RoutePull, PullTargetFromFunnel, ProgressStates
  <2> QED  BY <1>6, <2>1 DEF RoutePull, RouteType, StoreOK
<1>7. ASSUME NEW c \in Callers, NEW i \in Intents, RouteIntent(c, i) PROVE TypeOK'
  <2>1. StageOfIntent(i) \in TargetStages
    BY FunnelAssumption DEF StageOfIntent, ReplyIntents, TargetStages
  <2>2. stage' \in [Targets -> TargetStages]
    BY <1>7, <2>1, StageType DEF RouteIntent
  <2>3. suppressed' \subseteq Persons
    BY <1>7, FunnelAssumption DEF RouteIntent, RowsExist, Person, StoreOK
  <2> QED  BY <1>7, <2>2, <2>3 DEF RouteIntent, RouteType, NoRoute, StoreOK
<1>8. CASE ReplyScan
  BY <1>8 DEF ReplyScan, StoreOK
<1>9. ASSUME NEW t \in replyQ, ReplyHandle(t) PROVE TypeOK'
  <2>1. seen' \in [Persons -> 0 .. MaxInbound]
    BY <1>9, SeenType DEF ReplyHandle
  <2>2. route' \in [Callers -> RouteType]
    <3>1. \/ route' = route
          \/ route' = [route EXCEPT !["reply"] = [pc |-> "classify", tgt |-> t]]
      BY <1>9 DEF ReplyHandle
    <3>2. t \in Targets \cup {None}
      OBVIOUS
    <3>3. [route EXCEPT !["reply"] = [pc |-> "classify", tgt |-> t]] \in [Callers -> RouteType]
      BY <3>2, RoutingType, Zenon
    <3> QED  BY <3>1, <3>3, Zenon
  <2> QED  BY <1>9, <2>1, <2>2 DEF ReplyHandle, StoreOK
<1> QED  BY <1>1, <1>2, <1>3, <1>4, <1>5, <1>6, <1>7, <1>8, <1>9
         DEF ProbeStep, RouteStep, ReplyStep

\* The outstanding pile shrinks to a number.
LEMMA Less1Type ==
    ASSUME NEW n \in Nat PROVE Less1(n) \in Nat
BY DEF Less1

\* The acceptance tick, decisions, removals and withdrawals keep every
\* type.
LEMMA OperatorType ==
    ASSUME TypeOK, AcceptanceStep \/ OperatorStep PROVE TypeOK'
<1> USE DEF TypeOK, WorldOK, DispOK, OthersOK, HistoryOK, store, world, disp, history, Others
<1>1. CASE AcceptanceScan
  <2>1. accQ' \subseteq Targets \X Nat
    BY <1>1, SnapshotType DEF AcceptanceScan
  <2> QED  BY <1>1, <2>1 DEF AcceptanceScan, StoreOK
<1>2. ASSUME NEW w \in accQ, Release(w) PROVE TypeOK'
  <2>1. AdvanceAfterStep(w[2]) \in CursorType
    BY AdvanceType
  <2>2. cursor' \in [Targets -> CursorType]
    BY <1>2, <2>1 DEF Release, StoreOK
  <2>3. stage' \in [Targets -> TargetStages]
    BY <1>2, StageType DEF Release, TargetStages
  <2> QED  BY <1>2, <2>2, <2>3, Less1Type DEF Release, StoreOK
<1>3. ASSUME NEW o \in Operators, NEW m \in MsgIds, NEW v \in {"approved", "rejected"},
             DecideRead(o, m, v) PROVE TypeOK'
  BY <1>3 DEF DecideRead, OpType, StoreOK
<1>4. ASSUME NEW o \in Operators, DecideWrite(o) PROVE TypeOK'
  <2>1. op' \in [Operators -> OpType]
    BY <1>4 DEF DecideWrite, OpType, NoOp
  <2>2. msg' \in [MsgIds -> MsgType]
    <3>1. op[o].verdict \in MessageStatuses
      BY <1>4 DEF DecideWrite, OpType, NoOp, MessageStatuses
    <3> QED  BY <1>4, <3>1, StatusType DEF DecideWrite
  <2> QED  BY <1>4, <2>1, <2>2 DEF DecideWrite, StoreOK
<1>5. ASSUME NEW o \in Operators, DecideResolve(o) PROVE TypeOK'
  <2>1. op' \in [Operators -> OpType]
    BY <1>5 DEF DecideResolve, OpType, NoOp
  <2>2. cursor' \in [Targets -> CursorType]
    <3>1. "skipped" \in ProgressStates
      BY DEF ProgressStates
    <3> QED  BY <1>5, <3>1, RestateType DEF DecideResolve, StoreOK
  <2> QED  BY ZenonT(60), <1>5, <2>1, <2>2 DEF DecideResolve, StoreOK
<1>6. ASSUME NEW t \in Targets, RemoveTarget(t) PROVE TypeOK'
  <2>1. cursor' \in [Targets -> CursorType] /\ msg' \in [MsgIds -> MsgType]
    BY <1>6, StopType DEF RemoveTarget, ExcludeTargetFromFunnel, ProgressStates
  <2>2. stage' \in [Targets -> TargetStages]
    BY SMTT(60), <1>6, StageType DEF RemoveTarget, StoreOK, TargetStages
  <2> QED  BY <1>6, <2>1, <2>2 DEF RemoveTarget, StoreOK
<1>7. ASSUME NEW t \in Targets, NEW e \in {"withdrawn", "skipped"}, Withdraw(t, e) PROVE TypeOK'
  BY <1>7 DEF Withdraw, StoreOK
<1>8. CASE WithdrawRelease
  <2>1. /\ cursor' \in [Targets -> CursorType]
        /\ stage' \in [Targets -> TargetStages]
        /\ outstanding' \in Nat
    <3>1. CASE UNCHANGED <<stage, cursor, outstanding>>
      BY <3>1 DEF StoreOK
    <3>2. CASE \E t \in WithdrawnCursors : /\ SetStage(t, "lost") /\ SetState(t, wd.pc)
                                           /\ outstanding' = Less1(outstanding)
      <4>1. wd.pc \in ProgressStates
        BY <1>8 DEF WithdrawRelease, ProgressStates
      <4> QED  BY <3>2, <4>1, StateType, StageType, Less1Type DEF TargetStages
    <3> QED  BY <1>8, <3>1, <3>2 DEF WithdrawRelease
  <2> QED  BY <1>8, <2>1 DEF WithdrawRelease, NoWd, StoreOK
<1> QED  BY <1>1, <1>2, <1>3, <1>4, <1>5, <1>6, <1>7, <1>8 DEF AcceptanceStep, OperatorStep

\* So do the start of a tick, the people, the clock and a crash.
LEMMA EnvironmentType ==
    ASSUME TypeOK, TickStart \/ Environment PROVE TypeOK'
<1> USE DEF TypeOK, WorldOK, DispOK, OthersOK, HistoryOK, store, world, disp, history, Others
<1>1. CASE TickStart
  BY <1>1 DEF TickStart, StoreOK, DispatchPc
<1>2. ASSUME NEW p \in Persons, Accept(p) PROVE TypeOK'
  BY <1>2 DEF Accept, StoreOK
<1>3. ASSUME NEW p \in Persons, Write(p) PROVE TypeOK'
  <2>1. inbound' \in [Persons -> 0 .. MaxInbound]
    BY <1>3, FunnelAssumption DEF Write
  <2> QED  BY <1>3, <2>1 DEF Write, StoreOK
<1>4. ASSUME NEW t \in Targets, Elapse(t) PROVE TypeOK'
  <2>1. cursor' \in [Targets -> CursorType]
    <3>1. "skipped" \in ProgressStates
      BY DEF ProgressStates
    <3> QED  BY <1>4, <3>1, FieldTypes DEF Elapse
  <2> QED  BY <1>4, <2>1 DEF Elapse, StoreOK
<1>5. CASE Crash
  <2>1. Cardinality(Parked) \in Nat
    <3>1. IsFiniteSet(Parked)
      BY FunnelAssumption, FS_Subset DEF Parked
    <3> QED  BY <3>1, FS_CardinalityType
  <2>2. WorldOK'
    BY <1>5, <2>1, FunnelAssumption DEF Crash
  <2>3. DispOK'
    BY <1>5 DEF Crash, DispatchPc, CurType, Idle
  <2>4. OthersOK'
    BY <1>5 DEF Crash, RouteType, NoRoute, OpType, NoOp, NoWd
  <2>5. HistoryOK'
    BY <1>5, FunnelAssumption DEF Crash
  <2> QED  BY <1>5, <2>2, <2>3, <2>4, <2>5 DEF Crash, StoreOK
<1> QED  BY <1>1, <1>2, <1>3, <1>4, <1>5 DEF Environment

-----------------------------------------------------------------------------
(* Rows exist *)

\* Message rows are created and restated, never unmade or moved.
MsgsKept ==
    \A m \in MsgIds :
        /\ msg[m].status # "absent" =>
              msg'[m].status # "absent" /\ msg'[m].tgt = msg[m].tgt /\ msg'[m].step = msg[m].step
        /\ msg'[m].status # "absent" =>
              \/ msg[m].status # "absent"
              \/ dpc = "stepGate" /\ msg'[m].tgt = cur.tgt /\ msg'[m].step = cur.step

\* setStatus on a row that exists makes no row appear and moves none.
LEMMA StatusKeeps ==
    ASSUME StoreOK, NEW m \in MsgIds, msg[m].status # "absent", NEW s \in MessageStatuses,
           SetStatus(m, s)
    PROVE  MsgsKept
BY DEF StoreOK, SetStatus, MsgType, MsgsKept, MessageStatuses

\* Cancelling changes neither whose message a row is nor whether it exists.
LEMMA CancelSame ==
    ASSUME NEW ms \in [MsgIds -> MsgType], NEW t, NEW m \in MsgIds
    PROVE  /\ CancelMessages(ms, t)[m].tgt = ms[m].tgt
           /\ CancelMessages(ms, t)[m].step = ms[m].step
           /\ CancelMessages(ms, t)[m].status = "absent" <=> ms[m].status = "absent"
BY DEF CancelMessages, MsgType, CancelableMessageStatuses

\* So cancelling keeps the rows.
LEMMA CancelKeeps ==
    ASSUME StoreOK, NEW t, msg' = CancelMessages(msg, t) PROVE MsgsKept
BY CancelSame DEF StoreOK, MsgsKept

\* So does counting a failure.
LEMMA CountKeeps ==
    ASSUME StoreOK, NEW t, NEW ty, msg' = CountFailure(msg, t, ty) PROVE MsgsKept
BY DEF StoreOK, CountFailure, MsgType, MsgsKept

\* So does leaving the table alone.
LEMMA SameKeeps == ASSUME UNCHANGED msg PROVE MsgsKept
BY DEF MsgsKept

\* The approved-message loop creates no message and moves none.
LEMMA SendKeeps ==
    ASSUME TypeOK, RowsExist, SendStep PROVE MsgsKept
<1> USE DEF TypeOK
<1>1. ASSUME NEW m \in MsgIds, SendGateClosed(m) \/ SendHeld(m) \/ SendReady(m) PROVE MsgsKept
  BY <1>1, SameKeeps DEF SendGateClosed, SendHeld, SendReady, store
<1>2. ASSUME NEW m \in MsgIds, SendExhausted(m) PROVE MsgsKept
  BY <1>2, SameKeeps, StatusKeeps
     DEF SendExhausted, GiveUpApproved, HaltSendLane, Dequeue, RowsExist, MessageStatuses
<1>3. ASSUME NEW m \in MsgIds, SendCancelled(m) PROVE MsgsKept
  <2>1. msg[m].status # "absent"
    BY <1>3 DEF SendCancelled, Dequeue, RowsExist
  <2> DEFINE ms == [msg EXCEPT ![m].status = "cancelled"]
  <2>2. msg' = CancelMessages(ms, msg[m].tgt)
    BY <1>3 DEF SendCancelled
  <2>3. ms \in [MsgIds -> MsgType]
    BY SMTT(60) DEF StoreOK, MsgType, MessageStatuses
  <2>4. \A n \in MsgIds : /\ ms[n].tgt = msg[n].tgt /\ ms[n].step = msg[n].step
                          /\ ms[n].status = "absent" <=> msg[n].status = "absent"
    BY <2>1 DEF StoreOK, MsgType, MessageStatuses
  <2> HIDE DEF ms
  <2> QED  BY <2>2, <2>3, <2>4, CancelSame DEF MsgsKept
<1>4. CASE SendFailed \/ SendLostAck
  BY <1>4, SameKeeps, CountKeeps DEF SendFailed, SendLostAck
<1>5. CASE SendMark \/ SendSkip
  BY <1>5, StatusKeeps DEF SendMark, SendSkip, RowsExist, MessageStatuses
<1>6. CASE SendLanded \/ SendSkipped \/ SendPark \/ SendsDone
  BY <1>6, SameKeeps DEF SendLanded, SendSkipped, SendPark, SendsDone, store
<1> QED  BY <1>1, <1>2, <1>3, <1>4, <1>5, <1>6 DEF SendStep

\* The cursor loops create messages only at the gate, for the step in hand.
LEMMA CursorStepKeeps ==
    ASSUME TypeOK, RowsExist, CursorStep PROVE MsgsKept
<1> USE DEF TypeOK
<1>1. ASSUME NEW w \in stepQ, StepWait(w) \/ StepHeld(w) \/ StepReady(w) PROVE MsgsKept
  BY <1>1, SameKeeps DEF StepWait, StepHeld, StepReady, store
<1>2. ASSUME NEW w \in stepQ, StepPulled(w) PROVE MsgsKept
  BY <1>2, CancelKeeps DEF StepPulled, PullTargetFromFunnel, StopFunnel
<1>3. CASE StepLock
  BY <1>3, SameKeeps, CancelKeeps DEF StepLock, ExcludeTargetFromFunnel, StopFunnel, store
<1>4. CASE StepEnqueue
  BY <1>4 DEF StepEnqueue, MsgsKept, StoreOK, MsgType
<1>5. CASE StepFailed \/ StepLostAck
  BY <1>5, SameKeeps, CountKeeps DEF StepFailed, StepLostAck
<1>6. CASE StepQueue \/ StepDeferred \/ StepLanded \/ StepSkipped \/ StepPark \/ StepsDone
  BY <1>6, SameKeeps
     DEF StepQueue, StepDeferred, StepLanded, StepSkipped, StepPark, ParkAfterConnect, StepsDone, store
<1> QED  BY <1>1, <1>2, <1>3, <1>4, <1>5, <1>6 DEF CursorStep

\* Every step keeps the rows in that sense.
LEMMA NextKeeps ==
    ASSUME TypeOK, RowsExist, Next PROVE MsgsKept
<1> USE DEF TypeOK
<1>1. CASE SendStep \/ CursorStep
  BY <1>1, SendKeeps, CursorStepKeeps
<1>2. CASE ProbeStep \/ ReplyStep \/ AcceptanceStep \/ TickStart
  BY <1>2, SameKeeps
     DEF ProbeStep, Probe, ProbeThrows, ProbeReturns, ReplyStep, ReplyScan, ReplyHandle,
         AcceptanceStep, AcceptanceScan, Release, TickStart, store
<1>3. ASSUME NEW c \in Callers, RouteStep(c) PROVE MsgsKept
  BY <1>3, SameKeeps, CancelKeeps
     DEF RouteStep, RouteClassified, RouteThrows, RoutePull, RouteIntent, PullTargetFromFunnel,
         StopFunnel, store
<1>4. ASSUME NEW o \in Operators, DecideWrite(o) PROVE MsgsKept
  <2>1. op[o].msg \in MsgIds /\ op[o].verdict \in MessageStatuses
    BY SMTT(60), <1>4 DEF DecideWrite, OthersOK, OpType, NoOp, MessageStatuses
  <2> QED  BY <1>4, <2>1, StatusKeeps DEF DecideWrite, RowsExist
<1>5. ASSUME NEW t \in Targets, RemoveTarget(t) PROVE MsgsKept
  BY <1>5, CancelKeeps DEF RemoveTarget, ExcludeTargetFromFunnel, StopFunnel
<1>6. CASE OperatorStep
  BY <1>4, <1>5, <1>6, SameKeeps
     DEF OperatorStep, DecideRead, DecideResolve, Withdraw, WithdrawRelease, store
<1>7. CASE Environment
  BY <1>7, SameKeeps DEF Environment, Accept, Write, Elapse, Crash, store
<1> QED  BY <1>1, <1>2, <1>3, <1>6, <1>7 DEF Next

\* The approved-message loop works on rows that exist.
LEMMA SendRows ==
    ASSUME TypeOK, RowsExist, MsgsKept, SendStep PROVE RowsExist'
<1> USE DEF RowsExist, MsgsKept, Others, history, world, TypeOK, DispOK, OthersOK, OpType, NoOp
<1>1. ASSUME NEW m \in MsgIds, \/ SendGateClosed(m) \/ SendHeld(m) \/ SendExhausted(m)
                              \/ SendCancelled(m)
      PROVE  RowsExist'
  BY <1>1 DEF SendGateClosed, SendHeld, SendExhausted, SendCancelled, Dequeue, SendReturns
<1>2. ASSUME NEW m \in MsgIds, SendReady(m) PROVE RowsExist'
  BY <1>2 DEF SendReady, Dequeue, Idle, store
<1>3. CASE SendFailed \/ SendLostAck \/ SendPark \/ SendSkip
  BY <1>3 DEF SendFailed, SendLostAck, SendPark, SendSkip, Return
<1>4. CASE SendLanded \/ SendSkipped \/ SendMark
  BY <1>4 DEF SendLanded, SendSkipped, SendMark, Goto
<1>5. CASE SendsDone
  BY <1>5 DEF SendsDone
<1> QED  BY <1>1, <1>2, <1>3, <1>4, <1>5 DEF SendStep

\* The cursor loops work on rows that exist.
LEMMA CursorStepRows ==
    ASSUME TypeOK, RowsExist, MsgsKept, CursorStep PROVE RowsExist'
<1> USE DEF RowsExist, MsgsKept, Others, history, world, TypeOK, DispOK, OthersOK, OpType, NoOp
<1>1. ASSUME NEW w \in stepQ, StepWait(w) \/ StepHeld(w) \/ StepPulled(w) PROVE RowsExist'
  BY <1>1 DEF StepWait, StepHeld, StepPulled, TakeStep, StepReturns
<1>2. ASSUME NEW w \in stepQ, StepReady(w) PROVE RowsExist'
  <2>1. TypeAt(w[2]) \in {"message", "connect", "touch"}
    BY <1>2, StepRecord DEF StepReady, StepTypes
  <2> QED  BY <1>2, <2>1 DEF StepReady, Idle
<1>3. CASE StepLock
  BY <1>3 DEF StepLock, Goto, Return
<1>4. CASE StepEnqueue
  BY <1>4 DEF StepEnqueue, Goto
<1>5. CASE StepQueue \/ StepDeferred \/ StepFailed \/ StepLostAck \/ StepPark
  BY <1>5 DEF StepQueue, StepDeferred, StepFailed, StepLostAck, StepPark, Return
<1>6. CASE StepLanded \/ StepSkipped
  BY <1>6 DEF StepLanded, StepSkipped, CurType
<1>7. CASE StepsDone
  BY <1>7 DEF StepsDone
<1> QED  BY <1>1, <1>2, <1>3, <1>4, <1>5, <1>6, <1>7 DEF CursorStep

\* So does everybody else.
LEMMA OtherRows ==
    ASSUME TypeOK, RowsExist, MsgsKept, Next, ~SendStep, ~CursorStep PROVE RowsExist'
<1> USE DEF RowsExist, MsgsKept, Others, history, world, disp, TypeOK, DispOK, OthersOK, OpType,
            NoOp
<1>1. CASE ProbeThrows
  BY <1>1 DEF ProbeThrows, ProbePc, BrokenLane, Goto, Return, Loop
<1>2. CASE Probe
  BY <1>2 DEF Probe, ProbePc, AfterProbe, Goto, Return, Loop, RouteType
<1>3. CASE ProbeReturns
  BY <1>3 DEF ProbeReturns, BrokenLane, Goto, Return, Loop, NoRoute, RouteType
<1>4. ASSUME NEW c \in Callers, RouteStep(c) PROVE RowsExist'
  BY <1>4 DEF RouteStep, RouteClassified, RouteThrows, RoutePull, RouteIntent, NoRoute, RouteType
<1>5. CASE ReplyStep
  BY <1>5 DEF ReplyStep, ReplyScan, ReplyHandle, RouteType
<1>6. CASE AcceptanceStep
  BY <1>6 DEF AcceptanceStep, AcceptanceScan, Release
<1>7. CASE OperatorStep
  <2>1. ASSUME NEW o \in Operators, NEW m \in MsgIds, NEW v \in {"approved", "rejected"},
               DecideRead(o, m, v)
        PROVE  RowsExist'
    BY <2>1 DEF DecideRead, store
  <2>2. ASSUME NEW o \in Operators, DecideWrite(o) \/ DecideResolve(o) PROVE RowsExist'
    <3>1. \A q \in Operators : op'[q].pc # "idle" => op[q].pc # "idle" /\ op'[q].msg = op[q].msg
      <4> DEFINE v == IF op[o].verdict = "rejected" THEN [op[o] EXCEPT !.pc = "resolve"] ELSE NoOp
      <4>1. op[o] \in [pc : {"decide", "resolve"}, msg : MsgIds, verdict : {"approved", "rejected"}]
        BY SMTT(60), <2>2 DEF DecideWrite, DecideResolve
      <4>2. v.pc # "idle" => op[o].pc # "idle" /\ v.msg = op[o].msg
        BY <4>1
      <4>3. op' = [op EXCEPT ![o] = v] \/ op' = [op EXCEPT ![o] = NoOp]
        BY ZenonT(60), <2>2 DEF DecideWrite, DecideResolve
      <4> HIDE DEF v
      <4> QED  BY <4>2, <4>3
    <3>2. \A q \in Operators : op[q].pc # "idle" => op[q].msg \in MsgIds
      OBVIOUS
    <3>3. UNCHANGED <<sendQ, dpc, cur, route>>
      BY <2>2 DEF DecideWrite, DecideResolve
    <3> QED  BY SMTT(60), <3>1, <3>2, <3>3
  <2>3. CASE WithdrawRelease \/ \E t \in Targets : RemoveTarget(t) \/ Withdraw(t, "withdrawn")
                                                    \/ Withdraw(t, "skipped")
    BY <2>3 DEF RemoveTarget, Withdraw, WithdrawRelease
  <2> QED  BY <1>7, <2>1, <2>2, <2>3 DEF OperatorStep
<1>8. CASE TickStart
  BY <1>8 DEF TickStart
<1>9. CASE Environment
  BY <1>9 DEF Environment, Accept, Write, Elapse, Crash, NoRoute, Idle
<1> QED  BY <1>1, <1>2, <1>3, <1>4, <1>5, <1>6, <1>7, <1>8, <1>9 DEF Next, ProbeStep

\* The inductive invariant: the types alone are not inductive, because a reply
\* that is routed must belong to a target for its person to be suppressed.
Inv == TypeOK /\ RowsExist

\* A step keeps types and rows.
LEMMA InvStep == Inv /\ [Next]_vars => Inv'
<1> SUFFICES ASSUME TypeOK, RowsExist, [Next]_vars PROVE TypeOK' /\ RowsExist'
  BY DEF Inv
<1>1. CASE Next
  <2>1. TypeOK'
    BY <1>1, SendType, CursorStepType, ReplyType, OperatorType, EnvironmentType DEF Next
  <2>2. MsgsKept
    BY <1>1, NextKeeps
  <2>3. RowsExist'
    BY <1>1, <2>2, SendRows, CursorStepRows, OtherRows
  <2> QED  BY <2>1, <2>3
<1>2. CASE UNCHANGED vars
  BY <1>2 DEF vars, store, world, disp, history, TypeOK, StoreOK, WorldOK, DispOK, OthersOK,
              HistoryOK, RowsExist
<1> QED  BY <1>1, <1>2

\* Types and rows hold in every behaviour.
LEMMA InvHolds == Spec => []Inv
<1>1. Init => Inv
  BY FunnelAssumption
     DEF Init, Inv, TypeOK, StoreOK, WorldOK, DispOK, OthersOK, HistoryOK, RowsExist, CursorType,
         MsgType, CurType, RouteType, OpType, DispatchPc, TargetStages, ProgressStates, Idle,
         NoRoute, NoOp, NoWd
<1> QED  BY <1>1, InvStep, PTL DEF Spec

\* Every handler keeps every row and every process variable within the shared
\* vocabulary, whatever the interleaving.
THEOREM TypeCorrect == Spec => []TypeOK
BY InvHolds, PTL DEF Inv

\* No handler ever works on a message, target or reply that does not exist.
THEOREM RowsAlwaysExist == Spec => []RowsExist
BY InvHolds, PTL DEF Inv

-----------------------------------------------------------------------------
(* At most one message after a reply *)

\* A message to p has passed its reply probe and is on its way to the executor.
Armed(p) ==
    /\ dpc = "sendExec" \/ (dpc \in {"stepLock", "stepGate"} /\ Direct)
    /\ TypeAt(cur.step) = "message" /\ Person(cur.tgt) = p

\* The one late message was armed when the person wrote, and none is armed again.
LateInv ==
    \A p \in Persons : late[p] <= 1 /\ (late[p] = 1 => inbound[p] > 0 /\ ~Armed(p))

\* A step that lands nothing, and does not bring the tick past a probe,
\* keeps LateInv.
LEMMA LateQuiet ==
    ASSUME LateInv, UNCHANGED <<late, inbound>>,
           UNCHANGED <<dpc, cur>> \/ dpc' \notin {"sendExec", "stepLock", "stepGate"}
    PROVE  LateInv'
BY DEF LateInv, Armed, Direct, TypeAt, Person, Level

\* A landing uses up the one message a probe had let through before the
\* reply.
LEMMA LateLands ==
    ASSUME TypeOK, LateInv, Lands(cur.tgt, cur.step), inbound' = inbound,
           dpc = "sendExec" \/ (dpc = "stepGate" /\ Direct),
           dpc' \notin {"sendExec", "stepLock", "stepGate"}
    PROVE  LateInv'
<1> DEFINE p == Person(cur.tgt)
<1> SUFFICES ASSUME NEW q \in Persons
             PROVE  late'[q] <= 1 /\ (late'[q] = 1 => inbound[q] > 0)
  BY DEF LateInv, Armed
<1>1. CASE TypeAt(cur.step) = "message" /\ inbound[p] > 0 /\ q = p
  <2>1. Armed(p)
    BY <1>1 DEF Armed
  <2>2. late[p] = 0
    BY <1>1, <2>1 DEF LateInv, TypeOK, HistoryOK
  <2>3. late'[p] = 1
    BY <1>1, <2>2 DEF Lands, TypeOK, HistoryOK
  <2> QED  BY <1>1, <2>3
<1>2. CASE ~(TypeAt(cur.step) = "message" /\ inbound[p] > 0 /\ q = p)
  <2>1. late'[q] = late[q]
    BY <1>2 DEF Lands, TypeOK, HistoryOK
  <2> QED  BY <2>1 DEF LateInv
<1> QED  BY <1>1, <1>2

\* Every step keeps LateInv; only the probe lets a message through, and it
\* has seen every reply by then.
LEMMA LateStep ==
    ASSUME TypeOK, LateInv, Next PROVE LateInv'
<1> USE DEF store, world, disp, history, Others
<1>1. CASE SendStep
  <2>1. ASSUME NEW m \in MsgIds, \/ SendGateClosed(m) \/ SendHeld(m) \/ SendExhausted(m)
                                \/ SendCancelled(m)
        PROVE  LateInv'
    BY <2>1, LateQuiet DEF SendGateClosed, SendHeld, SendExhausted, SendCancelled, SendReturns
  <2>2. ASSUME NEW m \in MsgIds, SendReady(m) PROVE LateInv'
    <3>1. \A p : Armed(p)' => FALSE
      BY <2>2 DEF SendReady, Armed, Idle, TypeAt
    <3> QED  BY <2>2, <3>1 DEF SendReady, LateInv
  <2>3. CASE SendLostAck \/ SendLanded
    BY <2>3, LateLands DEF SendLostAck, SendLanded, Return, Goto
  <2>4. CASE SendFailed \/ SendSkipped \/ SendMark \/ SendPark \/ SendSkip \/ SendsDone
    BY <2>4, LateQuiet
       DEF SendFailed, SendSkipped, SendMark, SendPark, SendSkip, SendsDone, Return, Goto
  <2> QED  BY <1>1, <2>1, <2>2, <2>3, <2>4 DEF SendStep
<1>2. CASE CursorStep
  <2>1. ASSUME NEW w \in stepQ, StepWait(w) \/ StepHeld(w) \/ StepPulled(w) PROVE LateInv'
    BY <2>1, LateQuiet DEF StepWait, StepHeld, StepPulled, StepReturns
  <2>2. ASSUME NEW w \in stepQ, StepReady(w) PROVE LateInv'
    <3>1. \A p : Armed(p)' => FALSE
      BY <2>2 DEF StepReady, Armed, Idle, TypeAt
    <3> QED  BY <2>2, <3>1 DEF StepReady, LateInv
  <2>3. CASE StepLock
    <3>1. CASE Goto("stepGate")
      BY <2>3, <3>1 DEF StepLock, Goto, LateInv, Armed, Direct, TypeAt, Person, Level
    <3>2. CASE Return("steps")
      BY <2>3, <3>2, LateQuiet DEF StepLock, Return
    <3> QED  BY <2>3, <3>1, <3>2 DEF StepLock
  <2>4. CASE StepLanded \/ StepLostAck
    BY <2>4, LateLands DEF StepLanded, StepLostAck, Return
  <2>5. CASE \/ StepEnqueue \/ StepQueue \/ StepDeferred \/ StepFailed
             \/ StepSkipped \/ StepPark \/ StepsDone
    BY <2>5, LateQuiet
       DEF StepEnqueue, StepQueue, StepDeferred, StepFailed, StepSkipped, StepPark, StepsDone,
           Return, Goto
  <2> QED  BY <1>2, <2>1, <2>2, <2>3, <2>4, <2>5 DEF CursorStep
<1>3. CASE ProbeStep
  <2>1. ASSUME BrokenLane(dpc), UNCHANGED <<late, inbound>> PROVE LateInv'
    <3>1. CASE Goto("stepLock") /\ ~Direct
      BY <2>1, <3>1 DEF Goto, LateInv, Armed, Direct, TypeAt, Person, Level
    <3>2. CASE Return(Loop(dpc))
      BY <2>1, <3>2, LateQuiet DEF Return, Loop
    <3> QED  BY <2>1, <3>1, <3>2 DEF BrokenLane
  <2>2. CASE Probe
    <3>1. CASE inbound[Person(cur.tgt)] = 0 /\ Goto(AfterProbe(dpc))
      BY <2>2, <3>1 DEF Probe, Goto, LateInv, Armed, TypeAt, Person
    <3>2. CASE \/ Return(Loop(dpc))
               \/ Goto(IF dpc = "sendProbe" THEN "sendRoute" ELSE "stepRoute")
      BY SMTT(60), <2>2, <3>2, LateQuiet DEF Probe, Return, Goto, Loop
    <3> QED  BY <2>2, <3>1, <3>2 DEF Probe
  <2>3. CASE ProbeReturns /\ Return(Loop(dpc))
    BY <2>3, LateQuiet DEF ProbeReturns, Return, Loop
  <2> QED  BY <1>3, <2>1, <2>2, <2>3 DEF ProbeStep, ProbeThrows, ProbeReturns
<1>4. CASE TickStart \/ ReplyStep \/ AcceptanceStep \/ OperatorStep
  BY <1>4, LateQuiet
     DEF TickStart, ReplyStep, ReplyScan, ReplyHandle, AcceptanceStep, AcceptanceScan, Release,
         OperatorStep, DecideRead, DecideWrite, DecideResolve, RemoveTarget, Withdraw,
         WithdrawRelease
<1>5. ASSUME NEW c \in Callers, RouteStep(c) PROVE LateInv'
  BY <1>5, LateQuiet DEF RouteStep, RouteClassified, RouteThrows, RoutePull, RouteIntent
<1>6. ASSUME NEW p \in Persons, Write(p) PROVE LateInv'
  <2>1. \A q \in Persons : inbound'[q] >= inbound[q] /\ inbound[q] \in Nat /\ inbound'[q] \in Nat
    BY <1>6 DEF Write, TypeOK, WorldOK
  <2>2. UNCHANGED <<late, dpc, cur>>
    BY <1>6 DEF Write
  <2> QED  BY <2>1, <2>2 DEF LateInv, Armed, Direct, TypeAt, Person, Level
<1>7. CASE Crash \/ (\E p \in Persons : Accept(p)) \/ (\E t \in Targets : Elapse(t))
  BY <1>7, LateQuiet DEF Crash, Accept, Elapse
<1> QED  BY <1>1, <1>2, <1>3, <1>4, <1>5, <1>6, <1>7 DEF Next, Environment

\* Once a person has written to us, at most one more message reaches them: the
\* one that had passed its reply probe when they wrote.
THEOREM OneMessageAfterReply == Spec => []AtMostOneMessageAfterReply
<1>1. Init => LateInv
  BY DEF Init, LateInv
<1>2. TypeOK /\ LateInv /\ [Next]_vars => LateInv'
  BY LateStep, LateQuiet DEF vars, store, world, disp, history
<1>3. LateInv => AtMostOneMessageAfterReply
  BY DEF LateInv, AtMostOneMessageAfterReply
<1> QED  BY <1>1, <1>2, <1>3, TypeCorrect, PTL DEF Spec

-----------------------------------------------------------------------------
(* Messages only after acceptance *)

Connected(t) == link[Person(t)] = "connected"

\* The stage, the acceptance tick's matches, the drafted rows and the cursor
\* being dispatched all carry the same evidence of an accepted invite.
AcceptInv ==
    /\ \A t \in Targets : stage[t] = "connected" => Connected(t)
    /\ \A w \in accQ : Connected(w[1])
    /\ \A m \in MsgIds :
          msg[m].status # "absent" /\ TypeAt(msg[m].step) = "message" => Connected(msg[m].tgt)
    /\ dpc \notin {"idle", "sends", "steps"} /\ TypeAt(cur.step) = "message" => Connected(cur.tgt)
    /\ MessageOnlyAfterAcceptance

\* Connections are never undone.
LinkKept == \A p \in Persons : link[p] = "connected" => link'[p] = "connected"

\* No step takes an existing connection away.
LEMMA NextLinks ==
    ASSUME TypeOK, Next PROVE LinkKept
<1> USE DEF TypeOK, WorldOK, LinkKept, store, world, disp, history, Others
<1>1. ASSUME NEW t, NEW k, CanLand(t, TypeAt(k)), Lands(t, k) PROVE LinkKept
  BY <1>1 DEF Lands, CanLand
<1>2. CASE SendStep
  BY ZenonT(60), <1>1, <1>2
     DEF SendStep, SendGateClosed, SendExhausted, SendCancelled, SendReady, SendHeld, SendFailed,
         SendLostAck, SendLanded, SendSkipped, SendMark, SendPark, SendSkip, SendsDone
<1>3. CASE CursorStep
  BY <1>1, <1>3
     DEF CursorStep, StepWait, StepPulled, StepHeld, StepReady, StepLock, StepEnqueue, StepQueue,
         StepDeferred, StepFailed, StepLostAck, StepLanded, StepSkipped, StepPark, StepsDone
<1>4. CASE TickStart \/ ProbeStep \/ ReplyStep \/ AcceptanceStep
  BY <1>4
     DEF TickStart, ProbeStep, Probe, ProbeThrows, ProbeReturns, ReplyStep, ReplyScan,
         ReplyHandle, AcceptanceStep, AcceptanceScan, Release
<1>5. ASSUME NEW c \in Callers, RouteStep(c) PROVE LinkKept
  BY <1>5 DEF RouteStep, RouteClassified, RouteThrows, RoutePull, RouteIntent
<1>6. CASE OperatorStep
  BY <1>6 DEF OperatorStep, DecideRead, DecideWrite, DecideResolve, RemoveTarget, Withdraw,
              WithdrawRelease
<1>7. CASE Environment
  BY <1>7 DEF Environment, Accept, Write, Elapse, Crash
<1> QED  BY SMTT(60), <1>2, <1>3, <1>4, <1>5, <1>6, <1>7 DEF Next

\* The person of a target is a person.
LEMMA PersonType == ASSUME NEW t \in Targets PROVE Person(t) \in Persons
BY FunnelAssumption DEF Person

\* What a step must do beside keeping rows and links to keep the evidence.
EvidenceKept ==
    /\ \A t \in Targets : stage'[t] = "connected" => stage[t] = "connected" \/ link'[Person(t)] = "connected"
    /\ \A w \in accQ' : w \in accQ \/ link'[Person(w[1])] = "connected"
    /\ dpc' \notin {"idle", "sends", "steps"} /\ TypeAt(cur'.step) = "message" =>
          \/ dpc \notin {"idle", "sends", "steps"} /\ cur'.tgt = cur.tgt /\ cur'.step = cur.step
          \/ link'[Person(cur'.tgt)] = "connected"
    /\ \A t \in Targets, k \in StepIdx :
          landed'[t][k] # landed[t][k] =>
              dpc \in {"sendExec", "stepGate"} /\ t = cur.tgt /\ k = cur.step

\* Keeping rows, links and evidence keeps the acceptance invariant.
LEMMA EvidenceSuffices ==
    ASSUME Inv, AcceptInv, MsgsKept, LinkKept, EvidenceKept PROVE AcceptInv'
<1> USE DEF Inv, AcceptInv, TypeOK, Connected
<1>1. \A t \in Targets : link[Person(t)] = "connected" => link'[Person(t)] = "connected"
  BY PersonType DEF LinkKept
<1>2. \A t \in Targets : stage'[t] = "connected" => link'[Person(t)] = "connected"
  BY <1>1 DEF EvidenceKept
<1>3. \A w \in accQ' : link'[Person(w[1])] = "connected"
  BY <1>1 DEF EvidenceKept, OthersOK
<1>4. dpc \notin {"idle", "sends", "steps"} /\ TypeAt(cur.step) = "message" =>
         link'[Person(cur.tgt)] = "connected"
  BY <1>1 DEF RowsExist
<1>5. \A m \in MsgIds : msg'[m].status # "absent" /\ TypeAt(msg'[m].step) = "message" =>
         link'[Person(msg'[m].tgt)] = "connected"
  BY <1>1, <1>4 DEF MsgsKept, RowsExist
<1>6. dpc' \notin {"idle", "sends", "steps"} /\ TypeAt(cur'.step) = "message" =>
         link'[Person(cur'.tgt)] = "connected"
  BY <1>4 DEF EvidenceKept
<1>7. MessageOnlyAfterAcceptance'
  <2> SUFFICES ASSUME NEW t \in Targets, NEW k \in StepIdx, k < Len(Steps),
                      TypeAt(k) = "message", landed'[t][k] > 0
               PROVE  link'[Person(t)] = "connected"
    BY DEF MessageOnlyAfterAcceptance, TypeAt, Person, StepIdx
  <2>1. CASE landed'[t][k] = landed[t][k]
    BY <1>1, <2>1 DEF MessageOnlyAfterAcceptance
  <2>2. CASE landed'[t][k] # landed[t][k]
    BY <1>4, <2>2 DEF EvidenceKept
  <2> QED  BY <2>1, <2>2
<1> QED  BY <1>2, <1>3, <1>5, <1>6, <1>7 DEF TypeAt, Person

\* A landing is counted for its own target and step only.
LEMMA LandsEvidence ==
    ASSUME HistoryOK, NEW t, NEW k, Lands(t, k)
    PROVE  \A u \in Targets, j \in StepIdx : landed'[u][j] # landed[u][j] => u = t /\ j = k
<1> DEFINE row == [landed[t] EXCEPT ![k] = @ + 1]
<1>1. landed' = [landed EXCEPT ![t] = row]
  BY DEF Lands
<1>2. t \in Targets => \A j \in StepIdx : j # k => row[j] = landed[t][j]
  BY DEF HistoryOK
<1> HIDE DEF row
<1> QED  BY <1>1, <1>2 DEF HistoryOK

\* The approved-message loop sends only what has evidence of a connection.
LEMMA SendEvidence ==
    ASSUME Inv, AcceptInv, SendStep PROVE EvidenceKept
<1> USE DEF Inv, EvidenceKept, store, world, history, Others, Connected
<1>1. ASSUME NEW m \in MsgIds, \/ SendGateClosed(m) \/ SendHeld(m) \/ SendExhausted(m)
                              \/ SendCancelled(m)
      PROVE  EvidenceKept
  BY <1>1 DEF SendGateClosed, SendHeld, SendExhausted, SendCancelled, SendReturns
<1>2. ASSUME NEW m \in MsgIds, SendReady(m) PROVE EvidenceKept
  <2>1. msg[m].status # "absent"
    BY <1>2 DEF SendReady, Dequeue, RowsExist
  <2>2. cur'.tgt = msg[m].tgt /\ cur'.step = msg[m].step
    BY <1>2 DEF SendReady, Idle
  <2>3. TypeAt(cur'.step) = "message" => link'[Person(cur'.tgt)] = "connected"
    BY <1>2, <2>1, <2>2 DEF SendReady, AcceptInv
  <2> QED  BY <1>2, <2>3 DEF SendReady
<1>3. CASE SendLostAck \/ SendLanded
  <2>1. \A t \in Targets, k \in StepIdx : landed'[t][k] # landed[t][k] => t = cur.tgt /\ k = cur.step
    BY <1>3, LandsEvidence DEF SendLostAck, SendLanded, TypeOK
  <2> QED  BY <1>3, <2>1 DEF SendLostAck, SendLanded, Return, Goto
<1>4. CASE SendFailed \/ SendSkipped \/ SendMark \/ SendsDone
  BY <1>4 DEF SendFailed, SendSkipped, SendMark, SendsDone, Return, Goto
<1>5. CASE SendPark \/ SendSkip
  <2>1. \A t \in Targets : stage'[t] = "connected" => stage[t] = "connected"
    BY <1>5 DEF SendPark, SendSkip, ParkAfterConnect, SetStage, TypeOK, StoreOK
  <2> QED  BY <1>5, <2>1 DEF SendPark, SendSkip, Return
<1> QED  BY <1>1, <1>2, <1>3, <1>4, <1>5 DEF SendStep

\* So do the cursor loops.
LEMMA CursorStepEvidence ==
    ASSUME Inv, AcceptInv, CursorStep PROVE EvidenceKept
<1> USE DEF Inv, EvidenceKept, store, world, history, Others, Connected
<1>1. ASSUME NEW w \in stepQ, StepWait(w) \/ StepHeld(w) \/ StepPulled(w) PROVE EvidenceKept
  BY <1>1 DEF StepWait, StepHeld, StepPulled, StepReturns
<1>2. ASSUME NEW w \in stepQ, StepReady(w) PROVE EvidenceKept
  <2>1. cur'.tgt = w[1] /\ cur'.step = w[2] /\ w[1] \in Targets
    BY <1>2 DEF StepReady, Idle, TypeOK, DispOK
  <2>2. TypeAt(w[2]) = "message" => stage[w[1]] = "connected"
    BY <1>2 DEF StepReady, StepStops, StepHolds
  <2>3. TypeAt(cur'.step) = "message" => link'[Person(cur'.tgt)] = "connected"
    BY <1>2, <2>1, <2>2 DEF StepReady, AcceptInv
  <2> QED  BY <1>2, <2>3 DEF StepReady
<1>3. CASE StepLock
  <2>1. \A t \in Targets : stage'[t] = "connected" => stage[t] = "connected"
    BY <1>3 DEF StepLock, SetStage, TypeOK, StoreOK
  <2> QED  BY <1>3, <2>1 DEF StepLock, Goto, Return
<1>8. CASE StepLostAck
  <2>1. \A t \in Targets, k \in StepIdx : landed'[t][k] # landed[t][k] => t = cur.tgt /\ k = cur.step
    BY <1>8, LandsEvidence DEF StepLostAck, TypeOK
  <2> QED  BY <1>8, <2>1 DEF StepLostAck, Return
<1>4. CASE StepLanded
  <2>1. \A t \in Targets, k \in StepIdx : landed'[t][k] # landed[t][k] => t = cur.tgt /\ k = cur.step
    BY <1>4, LandsEvidence DEF StepLanded, TypeOK
  <2>2. cur'.tgt = cur.tgt /\ cur'.step = cur.step
    BY <1>4 DEF StepLanded, TypeOK, DispOK, CurType
  <2> QED  BY <1>4, <2>1, <2>2 DEF StepLanded
<1>5. CASE StepSkipped
  <2>1. cur'.tgt = cur.tgt /\ cur'.step = cur.step
    BY <1>5 DEF StepSkipped, TypeOK, DispOK, CurType
  <2> QED  BY <1>5, <2>1 DEF StepSkipped
<1>6. CASE StepPark
  <2>1. \A t \in Targets : stage'[t] = "connected" => stage[t] = "connected"
    BY <1>6 DEF StepPark, ParkAfterConnect, SetStage, TypeOK, StoreOK
  <2> QED  BY <1>6, <2>1 DEF StepPark, Return
<1>7. CASE StepEnqueue \/ StepQueue \/ StepDeferred \/ StepFailed \/ StepsDone
  BY <1>7 DEF StepEnqueue, StepQueue, StepDeferred, StepFailed, StepsDone, Goto, Return
<1> QED  BY <1>1, <1>2, <1>3, <1>4, <1>5, <1>6, <1>7, <1>8 DEF CursorStep

\* The other processes add evidence only where a connection was observed.
LEMMA OtherEvidence ==
    ASSUME Inv, AcceptInv, Next, ~SendStep, ~CursorStep PROVE EvidenceKept
<1> USE DEF Inv, EvidenceKept, store, world, disp, history, Others, Connected
<1>1. CASE ProbeStep
  BY <1>1 DEF ProbeStep, Probe, ProbeThrows, ProbeReturns, ProbePc, BrokenLane, AfterProbe, Loop,
              Goto, Return
<1>2. ASSUME NEW c \in Callers, RouteStep(c) PROVE EvidenceKept
  <2>1. \A i \in Intents : StageOfIntent(i) # "connected"
    BY FunnelAssumption DEF StageOfIntent, ReplyIntents
  <2>2. \A t \in Targets : stage'[t] = "connected" => stage[t] = "connected"
    BY <1>2, <2>1 DEF RouteStep, RouteClassified, RouteThrows, RoutePull, RouteIntent, SetStage,
                      TypeOK, StoreOK
  <2> QED  BY <1>2, <2>2 DEF RouteStep, RouteClassified, RouteThrows, RoutePull, RouteIntent
<1>3. CASE TickStart \/ ReplyStep
  BY <1>3 DEF TickStart, ReplyStep, ReplyScan, ReplyHandle
<1>4. CASE AcceptanceScan
  BY <1>4 DEF AcceptanceScan, Snapshot
<1>5. ASSUME NEW w \in accQ, Release(w) PROVE EvidenceKept
  <2>1. link'[Person(w[1])] = "connected"
    BY SMTT(60), <1>5 DEF Release, AcceptInv
  <2>2. \A t \in Targets : stage'[t] = "connected" => stage[t] = "connected" \/ t = w[1]
    BY <1>5 DEF Release, SetStage, TypeOK, StoreOK
  <2> QED  BY <1>5, <2>1, <2>2 DEF Release
<1>6. CASE OperatorStep
  <2>1. \A t \in Targets : stage'[t] = "connected" => stage[t] = "connected"
    BY <1>6 DEF OperatorStep, DecideRead, DecideWrite, DecideResolve, RemoveTarget, Withdraw,
                WithdrawRelease, SetStage, TypeOK, StoreOK
  <2> QED  BY ZenonT(60), <1>6, <2>1 DEF OperatorStep, DecideRead, DecideWrite, DecideResolve, RemoveTarget,
                             Withdraw, WithdrawRelease
<1>7. CASE Environment
  BY <1>7 DEF Environment, Accept, Write, Elapse, Crash
<1> QED  BY <1>1, <1>2, <1>3, <1>4, <1>5, <1>6, <1>7 DEF Next, AcceptanceStep

\* Every step keeps the evidence, and so the acceptance invariant.
LEMMA AcceptStep == Inv /\ AcceptInv /\ [Next]_vars => AcceptInv'
<1> SUFFICES ASSUME Inv, AcceptInv, [Next]_vars PROVE AcceptInv'
  OBVIOUS
<1>1. CASE Next
  <2>1. MsgsKept /\ LinkKept
    BY <1>1, NextKeeps, NextLinks DEF Inv
  <2>2. EvidenceKept
    BY <1>1, SendEvidence, CursorStepEvidence, OtherEvidence
  <2> QED  BY <2>1, <2>2, EvidenceSuffices
<1>2. CASE UNCHANGED vars
  BY <1>2 DEF vars, store, world, disp, history, AcceptInv, MessageOnlyAfterAcceptance,
              Connected, TypeAt, Person, StepIdx
<1> QED  BY <1>1, <1>2

\* No message reaches a person before they have accepted an invite, for every
\* sequence of steps, autonomy level and interleaving.
THEOREM MessagesFollowAcceptance == Spec => []MessageOnlyAfterAcceptance
<1>1. Init => AcceptInv
  BY DEF Init, AcceptInv, MessageOnlyAfterAcceptance
<1>2. AcceptInv => MessageOnlyAfterAcceptance
  BY DEF AcceptInv
<1> QED  BY <1>1, <1>2, AcceptStep, InvHolds, PTL DEF Spec

-----------------------------------------------------------------------------
(* The contract with a person: the steps in play *)

\* Every drafted row and the cursor in hand are about a step of the sequence.
RealSteps ==
    /\ \A m \in MsgIds : msg[m].status # "absent" => msg[m].step < Len(Steps)
    /\ dpc \notin {"idle", "sends", "steps"} => cur.step < Len(Steps)

\* The step in hand stays the same, or is a step of the sequence.
HandKept ==
    dpc' \notin {"idle", "sends", "steps"} =>
        \/ dpc \notin {"idle", "sends", "steps"} /\ cur'.step = cur.step
        \/ cur'.step < Len(Steps)

\* The ticks take up only steps of the sequence.
LEMMA NextHand == ASSUME Inv, RealSteps, Next PROVE HandKept
<1> USE DEF Inv, TypeOK, DispOK, CurType, HandKept, store, world, disp, history, Others
<1>1. ASSUME NEW m \in MsgIds, SendReady(m) PROVE HandKept
  <2>1. msg[m].status # "absent" /\ cur'.step = msg[m].step
    BY <1>1 DEF SendReady, Dequeue, Idle, RowsExist
  <2> QED  BY <2>1 DEF RealSteps
<1>2. CASE SendStep
  BY ZenonT(60), <1>1, <1>2
     DEF SendStep, SendGateClosed, SendExhausted, SendCancelled, SendHeld, SendReturns, Dequeue,
         SendFailed, SendLostAck, SendLanded, SendSkipped, SendMark, SendPark, SendSkip, SendsDone,
         Return, Goto
<1>3. ASSUME NEW w \in stepQ, StepReady(w) PROVE HandKept
  BY <1>3 DEF StepReady, Idle
<1>4. CASE CursorStep
  BY ZenonT(60), <1>3, <1>4
     DEF CursorStep, StepWait, StepPulled, StepHeld, TakeStep, StepReturns, StepLock, StepEnqueue,
         StepQueue, StepDeferred, StepFailed, StepLostAck, StepLanded, StepSkipped, StepPark,
         StepsDone, Return, Goto
<1>5. CASE ProbeStep
  BY <1>5 DEF ProbeStep, Probe, ProbeThrows, ProbeReturns, ProbePc, BrokenLane, Loop, Return, Goto
<1>6. CASE TickStart \/ ReplyStep \/ AcceptanceStep \/ OperatorStep \/ Environment
  BY ZenonT(60), <1>6
     DEF TickStart, ReplyStep, ReplyScan, ReplyHandle, AcceptanceStep, AcceptanceScan, Release,
         OperatorStep, DecideRead, DecideWrite, DecideResolve, RemoveTarget, Withdraw,
         WithdrawRelease, Environment, Accept, Write, Elapse, Crash
<1>7. ASSUME NEW c \in Callers, RouteStep(c) PROVE HandKept
  BY <1>7 DEF RouteStep, RouteClassified, RouteThrows, RoutePull, RouteIntent
<1> QED  BY <1>2, <1>4, <1>5, <1>6, <1>7 DEF Next

\* So every row drafted from the cursor in hand is real too.
LEMMA RealStep == ASSUME Inv, RealSteps, Next PROVE RealSteps'
<1>1. MsgsKept /\ HandKept
  BY NextKeeps, NextHand DEF Inv
<1> QED  BY <1>1 DEF RealSteps, MsgsKept, HandKept, RowsExist, Inv, TypeOK, DispOK, CurType

-----------------------------------------------------------------------------
(* The refinement *)

\* What no one on LinkedIn notices is no step of the promise.
LEMMA UnseenStutters ==
    ASSUME UNCHANGED <<link, inbound, landed, late>> PROVE UNCHANGED Contract!view
BY DEF Contract!view, Delivered, TypeAt, Person, StepIdx

\* A person's messages change only as the pairs say.
LEMMA DeliveredIs ==
    ASSUME NEW q, NEW B, B \subseteq Targets \X StepIdx,
           \A u \in Targets, j \in StepIdx : <<u, j>> \in Delivered(q)' <=> <<u, j>> \in B
    PROVE  Delivered(q)' = B
<1> DEFINE Pairs == Targets \X StepIdx
<1>1. \A w \in Pairs : w \in Delivered(q)' <=> w \in B
  <2> SUFFICES ASSUME NEW w \in Pairs PROVE w \in Delivered(q)' <=> w \in B
    OBVIOUS
  <2>1. PICK u \in Targets, j \in StepIdx : w = <<u, j>>
    OBVIOUS
  <2> QED  BY <2>1
<1>2. Delivered(q)' \subseteq Pairs
  BY DEF Delivered, StepIdx
<1> HIDE DEF Pairs
<1>3. B \subseteq Pairs
  BY DEF Pairs
<1> QED  BY <1>1, <1>2, <1>3

\* A landed action is the invite, the message, or a touch nobody is promised
\* anything about.
LEMMA LandingKeepsPromise ==
    ASSUME Inv, LateInv, AcceptInv, RealSteps, UNCHANGED inbound,
           dpc = "sendExec" \/ (dpc = "stepGate" /\ Direct),
           CanLand(cur.tgt, TypeAt(cur.step)), Lands(cur.tgt, cur.step)
    PROVE  Contract!Contact \/ UNCHANGED Contract!view
<1> DEFINE t == cur.tgt
           k == cur.step
           p == Person(t)
           row == [landed[t] EXCEPT ![k] = @ + 1]
<1> USE DEF Inv, TypeOK, HistoryOK, WorldOK
<1>1. /\ t \in Targets /\ p \in Persons
      /\ k \in StepIdx /\ k < Len(Steps)
  <2>1. t \in Targets
    BY DEF RowsExist
  <2>2. k \in Nat /\ Len(Steps) \in Nat
    BY FunnelAssumption DEF DispOK, CurType
  <2>3. k < Len(Steps)
    BY DEF RealSteps
  <2> QED  BY <2>1, <2>2, <2>3, PersonType DEF StepIdx
<1>2. landed' = [landed EXCEPT ![t] = row]
  BY DEF Lands
<1>3. /\ row[k] > 0
      /\ \A j \in StepIdx : j # k => row[j] = landed[t][j]
  BY <1>1
<1>4. /\ landed'[t][k] > 0
      /\ \A u \in Targets, j \in StepIdx :
            <<u, j>> # <<t, k>> => landed'[u][j] = landed[u][j]
  <2> HIDE DEF row
  <2> QED  BY <1>1, <1>2, <1>3
<1> HIDE DEF row
<1>5. CASE TypeAt(k) # "message"
  <2>1. \A q \in Persons : Delivered(q)' = Delivered(q)
    <3> SUFFICES ASSUME NEW q \in Persons PROVE Delivered(q)' = Delivered(q)
      OBVIOUS
    <3>1. \A u \in Targets, j \in StepIdx :
             <<u, j>> # <<t, k>> => (<<u, j>> \in Delivered(q)' <=> <<u, j>> \in Delivered(q))
      BY SMTT(60), <1>4 DEF Delivered, TypeAt, Person, StepIdx
    <3>2. <<t, k>> \notin Delivered(q)' /\ <<t, k>> \notin Delivered(q)
      BY <1>5 DEF Delivered, TypeAt
    <3>3. \A u \in Targets, j \in StepIdx :
             <<u, j>> \in Delivered(q)' <=> <<u, j>> \in Delivered(q)
      BY <3>1, <3>2
    <3>4. Delivered(q) \subseteq Targets \X StepIdx
      BY DEF Delivered
    <3> QED  BY <3>3, <3>4, DeliveredIs
  <2>2. late' = late
    BY <1>5 DEF Lands
  <2>3. UNCHANGED <<{q \in Persons : inbound[q] > 0}, [q \in Persons |-> Delivered(q)],
                    {q \in Persons : late[q] > 0}>>
    BY <2>1, <2>2
  <2>4. CASE TypeAt(k) = "connect"
    <3>1. Contract!Invite(p)
      BY <2>3, <2>4 DEF Contract!Invite, Contract!Move, CanLand, Lands
    <3> QED  BY <1>1, <3>1 DEF Contract!Contact
  <2>5. CASE TypeAt(k) # "connect"
    BY <2>3, <2>5 DEF Lands, Contract!view
  <2> QED  BY <2>4, <2>5
<1>6. CASE TypeAt(k) = "message"
  <2>1. link[p] = "connected" /\ link' = link
    BY <1>6 DEF AcceptInv, Connected, Lands
  <2>2. late[p] = 0
    BY <1>1, <1>6 DEF LateInv, Armed
  <2>3. \A q \in Persons :
           Delivered(q)' = IF q = p THEN Delivered(q) \cup {<<t, k>>} ELSE Delivered(q)
    <3> SUFFICES ASSUME NEW q \in Persons
                 PROVE  Delivered(q)' = IF q = p THEN Delivered(q) \cup {<<t, k>>} ELSE Delivered(q)
      OBVIOUS
    <3>1. \A u \in Targets, j \in StepIdx :
             <<u, j>> # <<t, k>> => (<<u, j>> \in Delivered(q)' <=> <<u, j>> \in Delivered(q))
      BY <1>4 DEF Delivered, TypeAt, Person, StepIdx
    <3>2. <<t, k>> \in Delivered(q)' <=> q = p
      BY <1>1, <1>4, <1>6 DEF Delivered, TypeAt, Person, StepIdx
    <3>3. q # p => <<t, k>> \notin Delivered(q)
      BY DEF Delivered
    <3> DEFINE New == IF q = p THEN Delivered(q) \cup {<<t, k>>} ELSE Delivered(q)
    <3> HIDE DEF t, k, p
    <3>4. \A u \in Targets, j \in StepIdx : <<u, j>> \in Delivered(q)' <=> <<u, j>> \in New
      BY <3>1, <3>2, <3>3
    <3>5. New \subseteq Targets \X StepIdx
      BY <1>1 DEF Delivered
    <3> HIDE DEF New
    <3>6. Delivered(q)' = New
      BY <3>4, <3>5, DeliveredIs
    <3> QED  BY <3>6 DEF New
  <2>4. late' = IF inbound[p] > 0 THEN [late EXCEPT ![p] = @ + 1] ELSE late
    BY <1>6 DEF Lands
  <2>5. {q \in Persons : late'[q] > 0} =
           IF inbound[p] > 0 THEN {q \in Persons : late[q] > 0} \cup {p}
                             ELSE {q \in Persons : late[q] > 0}
    BY <1>1, <2>2, <2>4
  <2>6. [q \in Persons |-> Delivered(q)'] =
           [[q \in Persons |-> Delivered(q)] EXCEPT ![p] = @ \cup {<<t, k>>}]
    BY <1>1, <2>3
  <2>7. PICK q \in Persons, content \in Targets \X StepIdx : q = p /\ content = <<t, k>>
    BY <1>1
  <2>8. Contract!Deliver(q, content)
    BY <1>1, <2>1, <2>2, <2>5, <2>6, <2>7 DEF Contract!Deliver
  <2> QED  BY <2>8 DEF Contract!Contact
<1> QED  BY <1>5, <1>6

\* Every step is a step of the promise or one that nobody notices.
LEMMA StepKeepsPromise ==
    ASSUME Inv, LateInv, AcceptInv, RealSteps, Next
    PROVE  Contract!Contact \/ UNCHANGED Contract!view
<1> USE DEF store, world, disp, history, Others
<1>1. CASE SendStep
  <2>1. CASE SendLostAck \/ SendLanded
    BY SMTT(60), <2>1, LandingKeepsPromise DEF SendLostAck, SendLanded
  <2>2. CASE ~(SendLostAck \/ SendLanded)
    BY ZenonT(60), <1>1, <2>2, UnseenStutters
       DEF SendStep, SendGateClosed, SendExhausted, SendCancelled, SendReady, SendHeld,
           SendFailed, SendSkipped, SendMark, SendPark, SendSkip, SendsDone
  <2> QED  BY SMTT(60), <2>1, <2>2
<1>2. CASE CursorStep
  <2>1. CASE StepLostAck \/ StepLanded
    BY <2>1, LandingKeepsPromise DEF StepLostAck, StepLanded
  <2>2. CASE ~(StepLostAck \/ StepLanded)
    BY <1>2, <2>2, UnseenStutters
       DEF CursorStep, StepWait, StepPulled, StepHeld, StepReady, StepLock, StepEnqueue,
           StepQueue, StepDeferred, StepFailed, StepSkipped, StepPark, StepsDone
  <2> QED  BY <2>1, <2>2
<1>3. CASE TickStart \/ ProbeStep \/ ReplyStep \/ AcceptanceStep
  BY <1>3, UnseenStutters
     DEF TickStart, ProbeStep, Probe, ProbeThrows, ProbeReturns, ReplyStep, ReplyScan,
         ReplyHandle, AcceptanceStep, AcceptanceScan, Release
<1>4. ASSUME NEW c \in Callers, RouteStep(c) PROVE UNCHANGED Contract!view
  BY <1>4, UnseenStutters DEF RouteStep, RouteClassified, RouteThrows, RoutePull, RouteIntent
<1>5. ASSUME UNCHANGED <<inbound, landed, late>>
      PROVE  UNCHANGED <<{q \in Persons : inbound[q] > 0}, [q \in Persons |-> Delivered(q)],
                         {q \in Persons : late[q] > 0}>>
  BY <1>5 DEF Delivered, TypeAt, Person, StepIdx
<1>6. ASSUME NEW t \in Targets, NEW terminal, Withdraw(t, terminal) PROVE Contract!Contact
  <2>1. Contract!Withdraw(Person(t))
    BY <1>5, <1>6 DEF Withdraw, Contract!Withdraw, Contract!Move
  <2> QED  BY <2>1, PersonType DEF Contract!Contact
<1>7. ASSUME NEW p \in Persons, Accept(p) PROVE Contract!Contact
  <2>1. Contract!Accept(p)
    BY <1>5, <1>7 DEF Accept, Contract!Accept, Contract!Move
  <2> QED  BY <2>1 DEF Contract!Contact
<1>8. ASSUME NEW p \in Persons, Write(p) PROVE Contract!Contact
  <2>1. {q \in Persons : inbound'[q] > 0} = {q \in Persons : inbound[q] > 0} \cup {p}
    BY <1>8 DEF Write, Inv, TypeOK, WorldOK
  <2>2. UNCHANGED <<link, [q \in Persons |-> Delivered(q)], {q \in Persons : late[q] > 0}>>
    BY <1>8 DEF Write, Delivered, TypeAt, Person, StepIdx
  <2>3. Contract!Write(p)
    BY <1>8, <2>1, <2>2 DEF Write, Contract!Write
  <2> QED  BY <2>3 DEF Contract!Contact
<1>9. CASE OperatorStep
  <2>1. ASSUME \E o \in Operators :
                  \/ \E m \in MsgIds, v \in {"approved", "rejected"} : DecideRead(o, m, v)
                  \/ DecideWrite(o) \/ DecideResolve(o)
        PROVE  UNCHANGED Contract!view
    BY <2>1, UnseenStutters DEF DecideRead, DecideWrite, DecideResolve
  <2>2. ASSUME WithdrawRelease \/ \E t \in Targets : RemoveTarget(t)
        PROVE  UNCHANGED Contract!view
    BY <2>2, UnseenStutters DEF WithdrawRelease, RemoveTarget
  <2> QED  BY <1>6, <1>9, <2>1, <2>2 DEF OperatorStep
<1>10. CASE Environment
  <2>1. ASSUME Crash \/ \E t \in Targets : Elapse(t) PROVE UNCHANGED Contract!view
    BY <2>1, UnseenStutters DEF Crash, Elapse
  <2> QED  BY <1>7, <1>8, <1>10, <2>1 DEF Environment
<1> QED  BY <1>1, <1>2, <1>3, <1>4, <1>9, <1>10 DEF Next

\* Whatever the campaigns, ticks, operators and crashes do, a person meets only
\* what the outreach contract allows.
THEOREM FunnelKeepsPromise == Spec => KeepsPromise
<1> DEFINE PInv == Inv /\ LateInv /\ AcceptInv /\ RealSteps
<1>1. Init => LateInv /\ AcceptInv /\ RealSteps
  BY DEF Init, LateInv, AcceptInv, MessageOnlyAfterAcceptance, RealSteps
<1>2. PInv /\ [Next]_vars => LateInv' /\ AcceptInv' /\ RealSteps'
  <2> SUFFICES ASSUME PInv, [Next]_vars PROVE LateInv' /\ AcceptInv' /\ RealSteps'
    OBVIOUS
  <2>1. CASE Next
    BY <2>1, LateStep, AcceptStep, RealStep DEF Inv
  <2>2. CASE UNCHANGED vars
    <3>1. AcceptInv'
      BY <2>2, AcceptStep
    <3> QED  BY <2>2, <3>1, LateQuiet DEF vars, store, world, disp, history, RealSteps
  <2> QED  BY <2>1, <2>2
<1>3. Init => Contract!Begin
  BY FunnelAssumption DEF Init, Contract!Begin, Delivered, StepIdx
<1>4. PInv /\ [Next]_vars => [Contract!Contact]_Contract!view
  <2>1. CASE UNCHANGED vars
    BY <2>1, UnseenStutters DEF vars, world, history
  <2> QED  BY <2>1, StepKeepsPromise
<1> QED  BY <1>1, <1>2, <1>3, <1>4, InvHolds, PTL DEF Spec, KeepsPromise, Contract!Promise
=============================================================================
