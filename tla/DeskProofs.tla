----------------------------- MODULE DeskProofs -----------------------------
(***************************************************************************)
(* Theorems about what an operator sees and does: ReviewDesk, Settings,    *)
(* Health and AccountSafety, for every set of tabs, texts, cards and       *)
(* actions and every sequence of steps.                                    *)
(***************************************************************************)
EXTENDS ReviewDesk, Settings, Health, AccountSafety, Recursion, FiniteSetTheorems, SequenceTheorems

-----------------------------------------------------------------------------
(* The health of the ticks *)

Scans == {"reply_scan_succeeded", "reply_scan_failed"}

HealthTypes ==
    /\ clock \in Nat
    /\ newest \in [Kinds -> Nat]
    /\ interval \in Nat
    /\ failures \in Nat
    /\ told \in [detector : {"none", "reply_detector_started", "reply_detector_idle"},
                 scan : Scans \union {"none"},
                 dispatch : {"none", "dispatch_tick_started", "dispatch_tick_idle"}]

\* The times of the newest events are those of the boots and scans that left
\* them: what was told last is nowhere older than what was told before.
ToldInv ==
    /\ clock > 0 /\ \A k \in Kinds : newest[k] <= clock
    /\ told.detector = "none" =>
          newest["reply_detector_started"] = 0 /\ newest["reply_detector_idle"] = 0
    /\ told.detector = "reply_detector_started" =>
          /\ newest["reply_detector_started"] > 0
          /\ newest["reply_detector_started"] >= newest["reply_detector_idle"]
    /\ told.detector = "reply_detector_idle" =>
          /\ newest["reply_detector_idle"] > 0
          /\ \A k \in Scans \union {"reply_detector_started"} :
                newest["reply_detector_idle"] >= newest[k]
    /\ process = "scanning" => told.detector = "reply_detector_started"
    /\ \A k \in Scans : newest[k] > 0 => newest["reply_detector_started"] > 0
    /\ newest["reply_detector_started"] > 0 => interval > 0
    /\ told.scan = "none" => \A k \in Scans : newest[k] = 0
    /\ told.scan = "reply_scan_succeeded" =>
          /\ failures = 0 /\ newest["reply_scan_succeeded"] > 0
          /\ newest["reply_scan_succeeded"] >= newest["reply_scan_failed"]
    /\ told.scan = "reply_scan_failed" =>
          /\ newest["reply_scan_failed"] > 0
          /\ newest["reply_scan_failed"] >= newest["reply_scan_succeeded"]
    /\ told.dispatch = "none" =>
          newest["dispatch_tick_started"] = 0 /\ newest["dispatch_tick_idle"] = 0
    /\ told.dispatch = "dispatch_tick_started" =>
          /\ newest["dispatch_tick_started"] > 0
          /\ newest["dispatch_tick_started"] >= newest["dispatch_tick_idle"]
    /\ told.dispatch = "dispatch_tick_idle" =>
          /\ newest["dispatch_tick_idle"] > 0
          /\ newest["dispatch_tick_idle"] >= newest["dispatch_tick_started"]

LEMMA ToldInvInit == HealthInit => HealthTypes /\ ToldInv
BY DEF HealthInit, HealthTypes, ToldInv, Kinds, Scans

\* Every step of the host keeps the order of what it told.
LEMMA ToldInvStep ==
    ASSUME HealthTypes, ToldInv, [HealthNext]_healthVars PROVE HealthTypes' /\ ToldInv'
<1> USE HealthAssumption DEF HealthTypes, Kinds, Scans
<1>1. CASE UNCHANGED healthVars
  BY <1>1 DEF healthVars, ToldInv
<1>2. CASE BootDispatch
  BY <1>2 DEF BootDispatch, Event, ToldInv
<1>3. CASE BootDetector
  BY <1>3 DEF BootDetector, Event, ToldInv
<1>4. CASE BootWithoutDetector
  BY <1>4 DEF BootWithoutDetector, Event, ToldInv
<1>5. CASE ScanSucceeded
  BY <1>5 DEF ScanSucceeded, Event, ToldInv
<1>6. CASE ScanFailed
  BY <1>6 DEF ScanFailed, Event, ToldInv
<1>7. CASE Stops
  BY <1>7 DEF Stops, ToldInv
<1>8. CASE Passes
  BY <1>8 DEF Passes, ToldInv
<1> QED  BY <1>1, <1>2, <1>3, <1>4, <1>5, <1>6, <1>7, <1>8 DEF HealthNext

\* From such times both derivations read what was told.
LEMMA HealthReadsTold == HealthTypes /\ ToldInv => HealthIsHonest
<1> SUFFICES ASSUME HealthTypes, ToldInv PROVE HealthIsHonest
  OBVIOUS
<1> USE HealthAssumption DEF HealthTypes, Kinds, Scans
<1> DEFINE health == DeriveReplyDetectorHealth
           started == newest["reply_detector_started"]
           idle == newest["reply_detector_idle"]
           good == newest["reply_scan_succeeded"]
           bad == newest["reply_scan_failed"]
           bootTied == \E k \in {"reply_detector_started", "reply_scan_succeeded", "reply_scan_failed"} :
                         Tie("reply_detector_idle", k)
           scanTied == Tie("reply_scan_succeeded", "reply_scan_failed")
           seen == good > 0 /\ failures # ScanWindow
<1>1. /\ Seen("reply_scan_succeeded") <=> seen
      /\ seen => At("reply_scan_succeeded") = good
      /\ Seen("reply_scan_failed") <=> bad > 0
      /\ Seen("reply_detector_idle") <=> idle > 0
      /\ Seen("reply_detector_started") <=> started > 0
      /\ At("reply_scan_failed") = bad /\ At("reply_detector_idle") = idle
      /\ At("reply_detector_started") = started
  BY DEF Seen, At
<1>2. FailedAfterSuccess <=> bad > 0 /\ (seen => bad > good)
  BY <1>1 DEF FailedAfterSuccess
<1>3. IdleIsNewest <=> /\ idle > 0
                       /\ started > 0 => started < idle
                       /\ seen => good < idle
                       /\ bad > 0 => bad < idle
  BY <1>1 DEF IdleIsNewest
<1>4. /\ bootTied <=> idle > 0 /\ (idle = started \/ idle = good \/ idle = bad)
      /\ scanTied <=> good = bad /\ good > 0
  BY DEF Tie
<1> HIDE DEF bootTied, scanTied
<1>5. ~seen /\ ~(bad > 0) => health = IF IdleIsNewest THEN "disabled" ELSE "never_run"
  <2> HIDE DEF seen
  <2> QED  BY <1>1 DEF DeriveReplyDetectorHealth
<1>6. (seen \/ bad > 0) /\ FailedAfterSuccess => health = "failing"
  <2> HIDE DEF seen
  <2> QED  BY <1>1 DEF DeriveReplyDetectorHealth
<1>7. seen /\ ~FailedAfterSuccess =>
        health = IF IdleIsNewest THEN "disabled"
                 ELSE IF clock - good > StaleAfter THEN "stale" ELSE "healthy"
  <2> HIDE DEF seen
  <2> QED  BY <1>1 DEF DeriveReplyDetectorHealth
<1>8. ~seen /\ bad > 0 => FailedAfterSuccess
  BY <1>2
<1> HIDE DEF health
<1>9. health = "healthy" =>
        /\ told.detector = "reply_detector_started" \/ bootTied
        /\ told.scan = "reply_scan_succeeded" \/ scanTied
        /\ clock - newest["reply_scan_succeeded"] <= 2 * interval
  <2> SUFFICES ASSUME health = "healthy"
               PROVE  /\ told.detector = "reply_detector_started" \/ bootTied
                      /\ told.scan = "reply_scan_succeeded" \/ scanTied
                      /\ clock - good <= 2 * interval
    OBVIOUS
  <2>1. seen /\ ~FailedAfterSuccess /\ ~IdleIsNewest /\ ~(clock - good > StaleAfter)
    BY <1>5, <1>6, <1>7, <1>8
  <2>2. good > 0 /\ (bad > 0 => bad <= good)
    BY <1>2, <2>1
  <2>3. interval > 0 /\ clock - good <= 2 * interval
    BY <2>1, <2>2 DEF ToldInv, StaleAfter
  <2>4. told.scan = "reply_scan_succeeded" \/ scanTied
    BY <1>4, <2>2 DEF ToldInv
  <2>5. told.detector = "reply_detector_started" \/ bootTied
    BY <1>3, <1>4, <2>1, <2>2 DEF ToldInv
  <2> QED  BY <2>3, <2>4, <2>5
<1>10. told.detector = "reply_detector_idle" /\ ~bootTied =>
         \/ health = IF told.scan = "reply_scan_failed" THEN "failing" ELSE "disabled"
         \/ scanTied /\ health \in {"failing", "disabled"}
  <2> SUFFICES ASSUME told.detector = "reply_detector_idle", ~bootTied
               PROVE  \/ health = IF told.scan = "reply_scan_failed" THEN "failing" ELSE "disabled"
                      \/ scanTied /\ health \in {"failing", "disabled"}
    OBVIOUS
  <2>1. IdleIsNewest
    BY <1>3, <1>4 DEF ToldInv
  <2>2. health = IF FailedAfterSuccess THEN "failing" ELSE "disabled"
    BY <1>2, <1>5, <1>6, <1>7, <1>8, <2>1
  <2>3. CASE told.scan = "none"
    BY <1>2, <2>2, <2>3 DEF ToldInv
  <2>4. CASE told.scan = "reply_scan_succeeded"
    BY <1>2, <1>4, <2>2, <2>4 DEF ToldInv
  <2>5. CASE told.scan = "reply_scan_failed"
    BY <1>2, <1>4, <2>2, <2>5 DEF ToldInv
  <2> QED  BY <2>3, <2>4, <2>5
<1>11. told.detector = "reply_detector_started" /\ ~bootTied => health # "disabled"
  <2>1. health = "disabled" => IdleIsNewest
    BY <1>5, <1>6, <1>7, <1>8
  <2> QED  BY <1>3, <1>4, <2>1 DEF ToldInv
<1>12. Tie("dispatch_tick_started", "dispatch_tick_idle")
         \/ (DeriveDispatchHealth = "running") = (told.dispatch = "dispatch_tick_started")
  BY DEF ToldInv, Tie, DeriveDispatchHealth, Seen, At
<1> QED  BY <1>9, <1>10, <1>11, <1>12 DEF HealthIsHonest, health, bootTied, scanTied

(* The dashboard never calls a detector healthy that is not scanning, nor one
   disabled that was started, and says of dispatch what its last boot did:
   across crashes in the middle of a boot, changed intervals and any number of
   scans, but for events of one millisecond. *)
THEOREM DashboardHealthIsHonest == HealthSpec => []HealthIsHonest
BY ToldInvInit, ToldInvStep, HealthReadsTold, PTL DEF HealthSpec

-----------------------------------------------------------------------------
(* The limits of an account *)

PatchFields == {"from", "body", "stage", "prev", "raced"}

\* The patches are a sequence of whole records, whatever a client put in them.
PatchSeq ==
    /\ \E S : patches \in Seq(S)
    /\ \A i \in DOMAIN patches : DOMAIN patches[i] = PatchFields

\* A patch that has read the row and was not raced still holds the row, and
\* only an acceptable one gets that far; no stored schedule is unusable.
PatchInv ==
    /\ \A i \in DOMAIN patches : patches[i].stage = "read" =>
          /\ patches[i].raced \/ patches[i].prev = row
          /\ Acceptable(patches[i].body)
          /\ \A a \in DOMAIN patches[i].prev.schedules : ValidWindow(patches[i].prev.schedules[a])
    /\ \A a \in DOMAIN row.schedules : ValidWindow(row.schedules[a])

\* A sequence of unknown values, one rewritten, and one more at its end.
LEMMA AnySeq ==
    ASSUME NEW s, \E S : s \in Seq(S) PROVE DOMAIN s = 1 .. Len(s) /\ Len(s) \in Nat
OBVIOUS

LEMMA RewriteSeq ==
    ASSUME NEW s, \E S : s \in Seq(S), NEW f, f = [i \in DOMAIN s |-> f[i]]
    PROVE  \E S : f \in Seq(S)
<1> DEFINE T == {f[i] : i \in DOMAIN s}
<1>1. DOMAIN s = 1 .. Len(s) /\ Len(s) \in Nat
  BY AnySeq
<1>2. f \in [1 .. Len(s) -> T]
  BY <1>1
<1>3. f \in Seq(T)
  BY <1>1, <1>2
<1> QED  BY <1>3

LEMMA AppendSeq ==
    ASSUME NEW s, \E S : s \in Seq(S), NEW x, NEW f, f = Append(s, x)
    PROVE  /\ \E S : f \in Seq(S)
           /\ DOMAIN f = 1 .. Len(s) + 1
           /\ \A i \in DOMAIN s : f[i] = s[i]
           /\ f[Len(s) + 1] = x
<1>1. PICK S : s \in Seq(S)
  OBVIOUS
<1>2. s \in Seq(S \union {x})
  BY <1>1
<1>3. f \in Seq(S \union {x})
  BY <1>2
<1> QED  BY <1>2, <1>3

\* Rewriting fields of one patch.
LEMMA RewritePatch ==
    ASSUME PatchSeq, NEW i \in DOMAIN patches, NEW p, DOMAIN p = PatchFields,
           patches' = [patches EXCEPT ![i] = p]
    PROVE  /\ PatchSeq'
           /\ DOMAIN patches' = DOMAIN patches
           /\ patches'[i] = p
           /\ \A j \in DOMAIN patches : j # i => patches'[j] = patches[j]
<1>1. DOMAIN patches' = DOMAIN patches /\ patches' = [j \in DOMAIN patches |-> patches'[j]]
  <2> HIDE DEF PatchFields
  <2> QED  OBVIOUS
<1>2. \E S : patches' \in Seq(S)
  BY ZenonT(60), <1>1, RewriteSeq DEF PatchSeq
<1>3. patches'[i] = p /\ \A j \in DOMAIN patches : j # i => patches'[j] = patches[j]
  OBVIOUS
<1> QED  BY <1>1, <1>2, <1>3 DEF PatchSeq

\* A new patch goes to the end of the list and has read nothing.
LEMMA AppendPatch ==
    ASSUME PatchSeq, PatchInv, NEW from, NEW body, patches' = Append(patches, Patch(from, body)),
           UNCHANGED row
    PROVE  PatchSeq' /\ PatchInv'
<1> DEFINE p == Patch(from, body)
<1>1. DOMAIN p = PatchFields /\ p.stage = "asked"
  BY DEF Patch, PatchFields
<1> HIDE DEF p
<1>2. /\ DOMAIN patches = 1 .. Len(patches) /\ Len(patches) \in Nat
      /\ \E S : patches' \in Seq(S)
      /\ DOMAIN patches' = 1 .. Len(patches) + 1
      /\ \A i \in DOMAIN patches : patches'[i] = patches[i]
      /\ patches'[Len(patches) + 1] = p
  <2>1. \E S : patches \in Seq(S)
    BY DEF PatchSeq
  <2>2. patches' = Append(patches, p)
    BY DEF p
  <2> QED  BY <2>1, <2>2, AnySeq, AppendSeq
<1>3. \A i \in DOMAIN patches' : (i \in DOMAIN patches /\ patches'[i] = patches[i]) \/ patches'[i] = p
  BY <1>2
<1> QED  BY <1>1, <1>2, <1>3 DEF PatchSeq, PatchInv

\* What a step may do to the switches and the schedules of the row.
Sticks ==
    /\ \A a \in Actions :
         ~ActionEnabled(row.enabled, a) /\ ActionEnabled(row'.enabled, a) =>
           \E i \in DOMAIN patches :
             /\ patches[i].stage = "read" /\ patches'[i].stage = "written"
             /\ patches[i].raced \/ (a \in DOMAIN patches[i].body.enabled
                                      /\ patches[i].body.enabled[a])
    /\ \A a \in DOMAIN row'.schedules : ValidWindow(row'.schedules[a])

LEMMA RowRests == ASSUME PatchInv, UNCHANGED row PROVE Sticks
BY DEF PatchInv, Sticks

\* The merge of a patch over what it read.
LEMMA MergeFacts ==
    ASSUME NEW i
    PROVE  LET body == patches[i].body
               prev == patches[i].prev
               merged == Merged(i) IN
           /\ DOMAIN merged.enabled = DOMAIN body.enabled \union DOMAIN prev.enabled
           /\ \A a \in DOMAIN merged.enabled :
                merged.enabled[a] = IF a \in DOMAIN body.enabled THEN body.enabled[a]
                                    ELSE prev.enabled[a]
           /\ DOMAIN merged.schedules = DOMAIN body.schedules \union DOMAIN prev.schedules
           /\ \A a \in DOMAIN merged.schedules :
                merged.schedules[a] = IF a \in DOMAIN body.schedules THEN body.schedules[a]
                                      ELSE prev.schedules[a]
BY DEF Merged, ValidateEnabled, ValidateSchedules, Over

\* Every step of the cards and the server keeps the patches' books, and only a
\* patch that says so, or one that was raced, switches an action on.
LEMMA PatchStep ==
    ASSUME PatchSeq, PatchInv, [SettingsNext]_settingsVars
    PROVE  PatchSeq' /\ PatchInv' /\ Sticks
<1>1. CASE UNCHANGED <<row, patches>>
  BY <1>1, RowRests DEF PatchSeq, PatchInv
<1>2. ASSUME NEW c \in Cards, Edit(c) \/ LinkAccount(c) \/ AccountsLoaded(c)
      PROVE  PatchSeq' /\ PatchInv' /\ Sticks
  BY <1>1, <1>2 DEF Edit, LinkAccount, AccountsLoaded
<1>3. ASSUME NEW c \in Cards, Save(c) PROVE PatchSeq' /\ PatchInv' /\ Sticks
  BY <1>3, AppendPatch, RowRests DEF Save
<1>4. ASSUME PatchElsewhere PROVE PatchSeq' /\ PatchInv' /\ Sticks
  BY <1>4, AppendPatch, RowRests DEF PatchElsewhere
<1>5. ASSUME NEW i \in DOMAIN patches, ReadLimits(i) PROVE PatchSeq' /\ PatchInv' /\ Sticks
  <2> DEFINE p == [patches[i] EXCEPT !.prev = row,
                                     !.stage = IF Acceptable(patches[i].body) THEN "read" ELSE "refused"]
  <2>1. patches' = [patches EXCEPT ![i] = p] /\ UNCHANGED row
    BY <1>5 DEF ReadLimits
  <2>2. /\ DOMAIN p = PatchFields /\ p.prev = row /\ p.body = patches[i].body
        /\ p.stage = "read" => Acceptable(p.body)
    BY DEF PatchSeq, PatchFields
  <2> HIDE DEF p
  <2>3. /\ PatchSeq' /\ DOMAIN patches' = DOMAIN patches /\ patches'[i] = p
        /\ \A j \in DOMAIN patches : j # i => patches'[j] = patches[j]
    BY <2>1, <2>2, RewritePatch
  <2>4. PatchInv'
    BY <2>1, <2>2, <2>3 DEF PatchInv, Acceptable
  <2> QED  BY <2>1, <2>3, <2>4, RowRests
<1>6. ASSUME NEW i \in DOMAIN patches, WriteLimits(i) PROVE PatchSeq' /\ PatchInv' /\ Sticks
  <2>1. /\ patches[i].stage = "read" /\ row' = Merged(i)
        /\ patches' = [j \in DOMAIN patches |->
             IF j = i THEN [patches[i] EXCEPT !.stage = "written", !.prev = Merged(i)]
             ELSE [patches[j] EXCEPT !.raced = @ \/ patches[j].stage = "read"]]
    BY <1>6 DEF WriteLimits
  <2>2. DOMAIN patches' = DOMAIN patches /\ patches' = [j \in DOMAIN patches |-> patches'[j]]
    BY <2>1
  <2>3. DOMAIN patches'[i] = PatchFields /\ patches'[i].stage = "written"
    BY <2>1 DEF PatchSeq, PatchFields
  <2>4. ASSUME NEW j \in DOMAIN patches, j # i
        PROVE  /\ DOMAIN patches'[j] = PatchFields
               /\ patches'[j].stage = patches[j].stage /\ patches'[j].body = patches[j].body
               /\ patches'[j].prev = patches[j].prev
               /\ patches[j].stage = "read" => patches'[j].raced
    BY <2>1, <2>4 DEF PatchSeq, PatchFields
  <2>5. PatchSeq'
    <3>1. \E S : patches' \in Seq(S)
      BY <2>2, RewriteSeq DEF PatchSeq
    <3> QED  BY <2>2, <2>3, <2>4, <3>1 DEF PatchSeq
  <2>6. \A a \in DOMAIN row'.schedules : ValidWindow(row'.schedules[a])
    BY <2>1, MergeFacts DEF PatchInv, Acceptable
  <2>7. PatchInv'
    BY <2>2, <2>3, <2>4, <2>6 DEF PatchInv, Acceptable, ValidWindow
  <2>8. ASSUME NEW a \in Actions, ~ActionEnabled(row.enabled, a), ActionEnabled(row'.enabled, a)
        PROVE  patches[i].raced \/ (a \in DOMAIN patches[i].body.enabled
                                     /\ patches[i].body.enabled[a])
    <3>1. CASE patches[i].prev = row
      BY <2>1, <2>8, <3>1, MergeFacts DEF ActionEnabled
    <3> QED  BY <2>1, <3>1 DEF PatchInv
  <2> QED  BY <2>1, <2>3, <2>5, <2>6, <2>7, <2>8 DEF Sticks
<1>7. ASSUME NEW i \in DOMAIN patches, SaveDone(i) \/ SaveFailed(i)
      PROVE  PatchSeq' /\ PatchInv' /\ Sticks
  <2> DEFINE p == [patches[i] EXCEPT !.stage = "answered", !.body = <<>>, !.prev = <<>>]
  <2>1. patches' = [patches EXCEPT ![i] = p] /\ UNCHANGED row
    BY <1>7 DEF SaveDone, SaveFailed, Answered
  <2>2. DOMAIN p = PatchFields /\ p.stage = "answered"
    BY DEF PatchSeq, PatchFields
  <2> HIDE DEF p
  <2>3. /\ PatchSeq' /\ DOMAIN patches' = DOMAIN patches /\ patches'[i] = p
        /\ \A j \in DOMAIN patches : j # i => patches'[j] = patches[j]
    BY <2>1, <2>2, RewritePatch
  <2>4. PatchInv'
    BY <2>1, <2>2, <2>3 DEF PatchInv, Acceptable
  <2> QED  BY <2>1, <2>3, <2>4, RowRests
<1>8. CASE UNCHANGED settingsVars
  BY <1>1, <1>8 DEF settingsVars
<1> QED  BY <1>2, <1>3, <1>4, <1>5, <1>6, <1>7, <1>8 DEF SettingsNext

LEMMA PatchInit == SettingsInit => PatchSeq /\ PatchInv
<1>1. SettingsInit => patches = <<>> /\ row.schedules = <<>>
  BY DEF SettingsInit
<1>2. <<>> \in Seq({}) /\ DOMAIN <<>> = {}
  OBVIOUS
<1> QED  BY <1>1, <1>2 DEF PatchSeq, PatchInv

(* An action type that is switched off is switched on by a patch that says so,
   or by one that read the row before it was switched off, and no stored
   schedule is one that never opens: whatever the cards, the other clients and
   the order in which the server reads and writes. *)
THEOREM SwitchesStayOff == SettingsSpec => SwitchOffSticks
<1>1. ASSUME PatchSeq, PatchInv, [SettingsNext]_settingsVars PROVE [Sticks]_settingsVars
  BY <1>1, PatchStep
<1>2. ASSUME PatchSeq, PatchInv, [SettingsNext]_settingsVars PROVE PatchSeq' /\ PatchInv'
  BY <1>2, PatchStep
<1> QED  BY <1>1, <1>2, PatchInit, PTL DEF SettingsSpec, SwitchOffSticks, Sticks

-----------------------------------------------------------------------------
(* The signals of an account *)

SoftsIn(n) == {i \in 1 .. n : log[i] \in Soft}

\* A signal lengthens the streak by at most one, and only a soft one does.
LEMMA StreakGrows ==
    ASSUME NEW n \in Nat, NEW kind \in SignalKinds, NEW s
    PROVE  LET m == OnSignal(s, n, kind).streak IN
           m \in Nat /\ m <= n + 1 /\ (kind \notin Soft => m <= n)
<1>1. CASE kind \in Soft
  <2>1. OnSignal(s, n, kind) = ThrottleOrCooldown(s, n)
    BY <1>1 DEF OnSignal, Soft
  <2>2. ThrottleOrCooldown(s, n).streak \in {0, n + 1}
    BY DEF ThrottleOrCooldown
  <2> QED  BY <1>1, <2>1, <2>2
<1>2. CASE kind \notin Soft
  <2>1. OnSignal(s, n, kind).streak \in {0, n}
    BY <1>2 DEF OnSignal, Soft, SignalKinds
  <2> QED  BY <1>2, <2>1
<1> QED  BY <1>1, <1>2

\* One more signal of the log is one more soft one at most.
LEMMA SoftsGrow ==
    ASSUME NEW n \in Nat \ {0}
    PROVE  /\ IsFiniteSet(SoftsIn(n)) /\ Cardinality(SoftsIn(n)) \in Nat
           /\ Cardinality(SoftsIn(n)) =
                Cardinality(SoftsIn(n - 1)) + (IF log[n] \in Soft THEN 1 ELSE 0)
<1>1. n - 1 \in Nat /\ IsFiniteSet(1 .. n - 1) /\ SoftsIn(n - 1) \in SUBSET (1 .. n - 1)
  <2>1. SoftsIn(n - 1) \in SUBSET (1 .. n - 1)
    BY DEF SoftsIn
  <2> QED  BY <2>1, FS_Interval
<1>2. IsFiniteSet(SoftsIn(n - 1)) /\ Cardinality(SoftsIn(n - 1)) \in Nat
  BY <1>1, FS_Subset, FS_CardinalityType
<1>3. n \notin SoftsIn(n - 1)
  BY <1>1
<1>4. SoftsIn(n) = IF log[n] \in Soft THEN SoftsIn(n - 1) \cup {n} ELSE SoftsIn(n - 1)
  BY DEF SoftsIn
<1> HIDE DEF SoftsIn
<1>5. IsFiniteSet(SoftsIn(n - 1) \cup {n}) /\ Cardinality(SoftsIn(n - 1) \cup {n}) = Cardinality(SoftsIn(n - 1)) + 1
  BY <1>2, <1>3, FS_AddElement
<1> QED  BY <1>2, <1>4, <1>5

\* A replay counts no more than the soft signals of the log.
LEMMA ReplayCountsSofts ==
    ASSUME log \in Seq(SignalKinds)
    PROVE  Replayed \in Nat /\ Replayed <= Cardinality({i \in DOMAIN log : log[i] \in Soft})
<1> DEFINE n == Len(log)
           Turn(i, c) == OnSignal(state, c, log[i]).streak
           Rec(g) == [i \in 0 .. n |-> IF i = 0 THEN 0 ELSE Turn(i, g[i - 1])]
           F == [p \in (1 .. n) \X Nat |-> Turn(p[1], p[2])]
<1>1. n \in Nat /\ DOMAIN log = 1 .. n /\ \A i \in 1 .. n : log[i] \in SignalKinds
  OBVIOUS
<1>2. Replayed = (CHOOSE g : g = Rec(g))[n]
  BY DEF Replayed
<1>3. \A i \in 1 .. n, c \in Nat :
         Turn(i, c) \in Nat /\ Turn(i, c) <= c + 1 /\ (log[i] \notin Soft => Turn(i, c) <= c)
  BY <1>1, StreakGrows
<1> HIDE DEF n, Turn
<1>4. \E g : g = Rec(g)
  <2>1. F \in [(1 .. n) \X Nat -> Nat]
    BY <1>3
  <2>2. \A i \in 1 .. n, c \in Nat : F[<<i, c>>] = Turn(i, c)
    OBVIOUS
  <2> HIDE DEF F
  <2>3. PICK f \in [0 .. n -> Nat] : f[0] = 0 /\ \A i \in 1 .. n : f[i] = F[<<i, f[i - 1]>>]
    <3>1. Repeats(n, Nat, 0, F)
      BY <1>1, <2>1, RecursionExists
    <3> QED  BY <3>1 DEF Repeats
  <2>4. ASSUME NEW i \in 0 .. n PROVE f[i] = IF i = 0 THEN 0 ELSE Turn(i, f[i - 1])
    <3>1. CASE i = 0
      BY <2>3, <3>1
    <3>2. CASE i # 0
      <4>1. i \in 1 .. n /\ i - 1 \in 0 .. n
        BY <1>1, <3>2
      <4> QED  BY <2>2, <2>3, <3>2, <4>1
    <3> QED  BY <3>1, <3>2
  <2>5. f = Rec(f)
    BY <2>3, <2>4
  <2> QED  BY <2>5
<1> DEFINE f == CHOOSE g : g = Rec(g)
<1>5. f = Rec(f)
  BY <1>4
<1> HIDE DEF f
<1>6. 0 \in 0 .. n /\ n \in 0 .. n /\ \A i \in 1 .. n : i \in 0 .. n /\ i - 1 \in 0 .. n /\ i # 0
  BY <1>1
<1>7. f[0] = 0 /\ \A i \in 1 .. n : f[i] = Turn(i, f[i - 1])
  BY <1>5, <1>6
<1> DEFINE G == {i \in 0 .. n : f[i] \in Nat /\ f[i] <= Cardinality(SoftsIn(i))}
<1>8. G \in SUBSET (0 .. n) /\ 0 \in G
  <2>1. Cardinality(SoftsIn(0)) = 0
    <3>1. SoftsIn(0) = {}
      BY DEF SoftsIn
    <3> QED  BY <3>1, FS_EmptySet
  <2> QED  BY <1>6, <1>7, <2>1
<1>9. ASSUME NEW i \in 1 .. n, i - 1 \in G PROVE i \in G
  <2> DEFINE k == Cardinality(SoftsIn(i - 1))
             m == Cardinality(SoftsIn(i))
             c == f[i - 1]
  <2>1. i \in Nat \ {0} /\ c \in Nat /\ c <= k
    BY <1>1, <1>9
  <2>2. m \in Nat /\ m = k + (IF log[i] \in Soft THEN 1 ELSE 0) /\ k \in Nat
    <3>1. m \in Nat /\ m = k + (IF log[i] \in Soft THEN 1 ELSE 0)
      BY <2>1, SoftsGrow
    <3>2. IsFiniteSet(1 .. i - 1) /\ SoftsIn(i - 1) \in SUBSET (1 .. i - 1)
      <4>1. SoftsIn(i - 1) \in SUBSET (1 .. i - 1)
        BY DEF SoftsIn
      <4> QED  BY <2>1, <4>1, FS_Interval
    <3>3. k \in Nat
      BY <3>2, FS_Subset, FS_CardinalityType
    <3> QED  BY <3>1, <3>3
  <2>3. f[i] = Turn(i, c) /\ Turn(i, c) \in Nat /\ Turn(i, c) <= c + 1 /\ (log[i] \notin Soft => Turn(i, c) <= c)
    BY <1>3, <1>7, <2>1
  <2> HIDE DEF k, m, c
  <2>4. f[i] \in Nat /\ f[i] <= m
    BY <2>1, <2>2, <2>3
  <2> QED  BY <1>6, <2>4 DEF m
<1>10. G = 0 .. n
  <2> HIDE DEF G
  <2> QED  BY <1>1, <1>8, <1>9, StepByStep
<1>11. f[n] \in Nat /\ f[n] <= Cardinality(SoftsIn(n))
  BY <1>6, <1>10
<1> QED  BY <1>1, <1>2, <1>11 DEF f, SoftsIn

\* The streak counts no signal twice, an active account has had none since the
\* process started or it recovered, and a throttled one not enough of them.
SafetyInv ==
    /\ state \in {"Warming", "Active", "Throttled", "Cooldown", "Restricted"}
    /\ streak \in Nat /\ softs \in Nat /\ fresh \in Nat /\ log \in Seq(SignalKinds)
    /\ streak <= softs
    /\ state = "Active" => fresh = 0
    /\ state = "Throttled" => fresh <= streak /\ SignalsEscalate
    /\ BanEndsAccount

\* What a signal does to the streak, its histories and the state.
LEMMA SignalKeepsSafety ==
    ASSUME SafetyInv, NEW kind \in SignalKinds, Signal(kind)
    PROVE  SafetyInv' /\ (state # "Cooldown" /\ state' = "Cooldown" => softs' >= Threshold)
<1>1. Threshold \in Nat \ {0}
  BY SafetyAssumption
<1>2. log' \in Seq(SignalKinds)
  BY DEF Signal, SafetyInv
<1>3. CASE kind = "ban_banner"
  <2>1. OnSignal(state, streak, kind) = [state |-> Transition(state, "hard_signal"), streak |-> 0]
    BY <1>3 DEF OnSignal, Soft
  <2>2. state' = Transition(state, "hard_signal") /\ streak' = 0 /\ softs' = 0 /\ fresh' = 0
    BY <1>3, <2>1 DEF Signal, Tally, Soft
  <2>3. banned' <=> (banned \/ state # "Cooldown")
    BY <1>3 DEF Signal
  <2>4. state' = IF state \in {"Warming", "Active", "Throttled"} THEN "Restricted" ELSE state
    BY <2>2 DEF Transition
  <2> QED  BY <1>1, <1>2, <2>2, <2>3, <2>4 DEF SafetyInv, BanEndsAccount, SignalsEscalate
<1>4. CASE kind = "geo_drift"
  <2>1. OnSignal(state, streak, kind) = [state |-> state, streak |-> streak]
    BY <1>4 DEF OnSignal, Soft
  <2>2. state' = state /\ streak' = streak /\ softs' = softs /\ fresh' = fresh
    BY <1>4, <2>1 DEF Signal, Tally, Soft
  <2>3. banned' <=> banned
    BY <1>4 DEF Signal
  <2> QED  BY <1>1, <1>2, <2>2, <2>3 DEF SafetyInv, BanEndsAccount, SignalsEscalate
<1>5. CASE kind \in Soft
  <2>1. OnSignal(state, streak, kind) = ThrottleOrCooldown(state, streak) /\ kind # "ban_banner"
    BY <1>5 DEF OnSignal, Soft
  <2>2. /\ state' = ThrottleOrCooldown(state, streak).state /\ streak' = ThrottleOrCooldown(state, streak).streak
        /\ softs' = softs + 1 /\ fresh' = fresh + 1 /\ (banned' <=> banned)
    BY <1>5, <2>1 DEF Signal, Tally
  <2>3. \/ state = "Active" /\ state' = "Throttled" /\ streak' = streak + 1
        \/ state = "Throttled" /\ streak + 1 >= Threshold /\ state' = "Cooldown" /\ streak' = 0
        \/ state # "Active" /\ state' = state /\ streak' = streak + 1
           /\ ~(state = "Throttled" /\ streak + 1 >= Threshold)
    BY <2>2 DEF ThrottleOrCooldown, Transition
  <2> QED  BY <1>1, <1>2, <2>2, <2>3 DEF SafetyInv, BanEndsAccount, SignalsEscalate
<1> QED  BY <1>3, <1>4, <1>5 DEF SignalKinds, Soft

(* The soft-signal streak stops an account neither too late nor too early, and
   a ban banner outside a cooldown ends it for good, whatever signals,
   recoveries, restarts and replays follow, for every threshold.  The
   hypothesis is that no account starts "Cold": nothing produces that state any
   more, and the table has no step for a ban from it. *)
THEOREM SignalsStopAccounts ==
    ASSUME "Cold" \notin StartStates PROVE Spec => EscalationIsExact
<1> DEFINE Earned == state # "Cooldown" /\ state' = "Cooldown" => softs' >= Threshold
<1>1. Init => SafetyInv
  BY SafetyAssumption DEF Init, SafetyInv, BanEndsAccount, AccountStates, SignalsEscalate
<1>2. ASSUME SafetyInv, [Next]_vars PROVE SafetyInv' /\ [Earned]_vars
  <2>1. CASE UNCHANGED vars
    BY <1>2, <2>1 DEF vars, SafetyInv, BanEndsAccount, SignalsEscalate
  <2>2. ASSUME NEW kind \in SignalKinds, Signal(kind) PROVE SafetyInv' /\ Earned
    BY <1>2, <2>2, SignalKeepsSafety
  <2>3. CASE Recover
    BY <1>2, <2>3 DEF Recover, Transition, SafetyInv, BanEndsAccount
  <2>4. CASE Restart
    <3>1. streak' \in Nat /\ softs' \in Nat /\ streak' <= softs'
      <4>1. IsFiniteSet(DOMAIN log)
        <5>1. DOMAIN log = 1 .. Len(log) /\ Len(log) \in Nat
          BY <1>2 DEF SafetyInv
        <5> QED  BY <5>1, FS_Interval
      <4> DEFINE S == {i \in DOMAIN log : log[i] \in Soft}
      <4>2. S \in SUBSET DOMAIN log
        OBVIOUS
      <4>3. Cardinality(S) \in Nat
        <5> HIDE DEF S
        <5> QED  BY <4>1, <4>2, FS_Subset, FS_CardinalityType
      <4> QED  BY <1>2, <2>4, <4>3, ReplayCountsSofts DEF Restart, SafetyInv
    <3> QED  BY <1>2, <2>4, <3>1, SafetyAssumption DEF Restart, SafetyInv, BanEndsAccount, SignalsEscalate
  <2> QED  BY <1>2, <2>1, <2>2, <2>3, <2>4 DEF Next
<1>3. SafetyInv => SignalsEscalate /\ BanEndsAccount
  BY SafetyAssumption DEF SafetyInv, SignalsEscalate
<1>4. SafetyInv /\ [Next]_vars => SafetyInv'
  BY <1>2
<1>5. SafetyInv /\ [Next]_vars => [Earned]_vars
  BY <1>2
<1> QED  BY <1>1, <1>3, <1>4, <1>5, PTL DEF Spec, EscalationIsExact, EscalationIsEarned

-----------------------------------------------------------------------------
(* The review of a draft: types *)

CallType ==
    [tab : Tabs, mount : Nat, kind : {"approved", "edited", "rejected"}, text : Texts,
     stage : Stages, open : BOOLEAN]

TabType ==
    [shown : BOOLEAN, base : Texts, text : Texts, phase : Phases,
     reads : SUBSET (Nat \X Snapshots), mount : Nat]

DeskTypes ==
    /\ msg \in [status : {"draft", "approved", "rejected", "sent"}, body : Texts]
    /\ tab \in [Tabs -> TabType]
    /\ calls \in Seq(CallType)
    /\ sending \in Seq(Texts)
    /\ delivered \in Seq(Texts)
    /\ decisions \in Seq(Nat)
    /\ overlap \in BOOLEAN
    /\ torn \in BOOLEAN

\* One decision is under way at a time and finds the draft undecided; a body
\* it wrote is its own text.
SoloInv ==
    /\ \A i, j \in DOMAIN calls : UnderWay(i) /\ UnderWay(j) => i = j
    /\ \A i \in DOMAIN calls : UnderWay(i) => msg.status = "draft"
    /\ \A i \in DOMAIN calls :
          calls[i].stage = "edited" => calls[i].kind = "edited" /\ msg.body = calls[i].text

\* Until a body is replaced, every page and every plain approve has the body
\* of the draft.
BodyInv ==
    \/ torn
    \/ msg.status # "draft"
    \/ \E i \in DOMAIN calls : calls[i].stage = "edited"
    \/ /\ \A t \in Tabs : /\ tab[t].base = msg.body
                          /\ \A r \in tab[t].reads : r[2] \in {msg.body, Gone}
       /\ \A i \in DOMAIN calls : calls[i].kind = "approved" => calls[i].text = msg.body

\* The message is no draft once it is decided, by the one call that decided
\* it; what is being sent or was sent is the body it left.
FirstInv ==
    /\ decisions = <<>> <=> msg.status = "draft"
    /\ Len(decisions) <= 1
    /\ msg.status \in {"approved", "sent"} =>
          /\ decisions[1] \in DOMAIN calls
          /\ calls[decisions[1]].kind # "rejected"
          /\ torn \/ calls[decisions[1]].text = msg.body
    /\ sending # <<>> => msg.status = "approved" /\ sending = <<msg.body>>
    /\ msg.status # "sent" => delivered = <<>>
    /\ delivered # <<>> => delivered = <<msg.body>>

DeskInv == DeskTypes /\ (overlap \/ (SoloInv /\ BodyInv /\ FirstInv))

\* A composer just mounted.
LEMMA ComposerType ==
    ASSUME NEW body \in Texts, NEW mount \in Nat
    PROVE  /\ Composer(body, mount) \in TabType
           /\ Composer(body, mount).base = body
BY DEF Composer, TabType, Phases

LEMMA DeskInvInit == DeskInit => DeskInv
<1> SUFFICES ASSUME DeskInit PROVE DeskInv
  OBVIOUS
<1>1. PICK body \in Texts :
        /\ msg = [status |-> "draft", body |-> body]
        /\ tab = [t \in Tabs |-> Composer(body, 1)]
  BY DEF DeskInit
<1>2. /\ calls = <<>> /\ sending = <<>> /\ delivered = <<>> /\ decisions = <<>>
      /\ overlap = FALSE /\ torn = FALSE
  BY DEF DeskInit
<1>3. DeskTypes
  <2>1. tab \in [Tabs -> TabType]
    BY <1>1, ComposerType
  <2>2. calls \in Seq(CallType) /\ sending \in Seq(Texts) /\ delivered \in Seq(Texts)
          /\ decisions \in Seq(Nat)
    BY <1>2
  <2> QED  BY <1>1, <1>2, <2>1, <2>2 DEF DeskTypes
<1>4. SoloInv /\ BodyInv /\ FirstInv
  BY <1>1, <1>2 DEF SoloInv, BodyInv, FirstInv, UnderWay, Composer
<1> QED  BY <1>3, <1>4 DEF DeskInv

\* The inbox shows the draft's body, or that there is none.
LEMMA InboxType ==
    ASSUME DeskTypes
    PROVE  Inbox \in Snapshots /\ (msg.status = "draft" => Inbox = msg.body)
BY DEF DeskTypes, Inbox, Snapshots

\* A landed read leaves a composer that shows what the page showed or read.
LEMMA SetThreadsType ==
    ASSUME DeskTypes, NEW t \in Tabs, NEW r \in tab[t].reads
    PROVE  /\ SetThreads(t, r) \in TabType
           /\ SetThreads(t, r).base \in {tab[t].base, r[2]}
           /\ SetThreads(t, r).base = r[2] => r[2] # Gone \/ r[2] = tab[t].base
           /\ SetThreads(t, r).reads = tab[t].reads \ {r}
<1>1. tab[t] \in TabType /\ r \in Nat \X Snapshots
  BY DEF DeskTypes, TabType
<1>2. r[2] # Gone => r[2] \in Texts
  BY <1>1 DEF Snapshots
<1> DEFINE was == [tab[t] EXCEPT !.reads = @ \ {r}]
<1>3. was \in TabType /\ was.base = tab[t].base /\ was.reads = tab[t].reads \ {r}
  BY <1>1 DEF TabType
<1>4. CASE r[2] = Gone
  <2>1. SetThreads(t, r) = [was EXCEPT !.shown = FALSE]
    BY <1>4 DEF SetThreads
  <2> HIDE DEF was
  <2> QED  BY <1>3, <1>4, <2>1 DEF TabType
<1>5. CASE r[2] # Gone /\ was.shown
  <2>1. SetThreads(t, r) = [was EXCEPT !.base = r[2]]
    BY <1>5 DEF SetThreads
  <2> HIDE DEF was
  <2> QED  BY <1>2, <1>3, <1>5, <2>1 DEF TabType
<1>6. CASE r[2] # Gone /\ ~was.shown
  <2>1. SetThreads(t, r) = [Composer(r[2], was.mount + 1) EXCEPT !.reads = was.reads]
    BY <1>6 DEF SetThreads
  <2> DEFINE mounted == Composer(r[2], was.mount + 1)
  <2>2. was.mount + 1 \in Nat
    BY <1>3 DEF TabType
  <2>3. mounted \in TabType /\ mounted.base = r[2]
    BY <1>2, <1>6, <2>2, ComposerType
  <2> HIDE DEF was, mounted
  <2>4. SetThreads(t, r) = [mounted EXCEPT !.reads = was.reads]
    BY <2>1 DEF mounted
  <2> QED  BY <1>3, <1>6, <2>3, <2>4 DEF TabType
<1> QED  BY <1>4, <1>5, <1>6

\* Rewriting one field of one call.
LEMMA MoveType ==
    ASSUME DeskTypes, NEW i \in DOMAIN calls, NEW s \in Stages, Move(i, s)
    PROVE  /\ calls' \in Seq(CallType) /\ DOMAIN calls' = DOMAIN calls
           /\ calls'[i].stage = s
           /\ \A j \in DOMAIN calls : j # i => calls'[j] = calls[j]
           /\ \A j \in DOMAIN calls : calls'[j].kind = calls[j].kind /\ calls'[j].text = calls[j].text
<1>1. calls \in Seq(CallType) /\ DOMAIN calls = 1 .. Len(calls) /\ Len(calls) \in Nat
  BY DEF DeskTypes
<1>2. calls[i] \in CallType
  BY <1>1
<1> DEFINE c == [calls[i] EXCEPT !.stage = s]
<1>3. c \in CallType /\ c.stage = s /\ c.kind = calls[i].kind /\ c.text = calls[i].text
  BY <1>2 DEF CallType
<1>4. calls' = [calls EXCEPT ![i] = c]
  BY DEF Move
<1> HIDE DEF c
<1>5. calls' \in Seq(CallType) /\ DOMAIN calls' = DOMAIN calls
  BY <1>1, <1>3, <1>4, ExceptSeq
<1>6. calls'[i] = c /\ \A j \in DOMAIN calls : j # i => calls'[j] = calls[j]
  BY <1>4
<1> QED  BY <1>3, <1>5, <1>6

\* Every step of the pages, the server and the tick keeps the types.
LEMMA DeskTypeStep ==
    ASSUME DeskTypes, [DeskNext]_deskVars PROVE DeskTypes'
<1>0. CASE UNCHANGED deskVars
  BY <1>0 DEF deskVars, DeskTypes
<1>a. calls \in Seq(CallType) /\ DOMAIN calls = 1 .. Len(calls) /\ Len(calls) \in Nat
        /\ \A t \in Tabs : tab[t] \in TabType
        /\ \A i \in DOMAIN calls : calls[i] \in CallType
  BY DEF DeskTypes
<1>1. ASSUME NEW t \in Tabs, Poll(t) PROVE DeskTypes'
  <2>1. [tab[t] EXCEPT !.reads = @ \union {<<0, Inbox>>}] \in TabType
    BY SMTT(60), <1>a, InboxType DEF TabType
  <2>2. tab' = [tab EXCEPT ![t] = [tab[t] EXCEPT !.reads = @ \union {<<0, Inbox>>}]]
    BY <1>1 DEF Poll
  <2> QED  BY <1>1, <2>1, <2>2 DEF Poll, DeskTypes
<1>2. ASSUME NEW t \in Tabs, Loaded(t) PROVE DeskTypes'
  <2>1. PICK r \in tab[t].reads :
          \/ tab' = [tab EXCEPT ![t] = [SetThreads(t, r) EXCEPT !.phase = "done"]]
          \/ tab' = [tab EXCEPT ![t] = SetThreads(t, r)]
    BY <1>2 DEF Loaded
  <2>2. SetThreads(t, r) \in TabType
    BY SetThreadsType
  <2>3. [SetThreads(t, r) EXCEPT !.phase = "done"] \in TabType
    BY <2>2 DEF TabType, Phases
  <2>4. tab' \in [Tabs -> TabType]
    BY <2>1, <2>2, <2>3 DEF DeskTypes
  <2> QED  BY <1>2, <2>4 DEF Loaded, DeskTypes
<1>3. ASSUME NEW t \in Tabs, LoadFailed(t) PROVE DeskTypes'
  <2>1. PICK r \in tab[t].reads, phase \in {"stale", tab[t].phase} :
          tab' = [tab EXCEPT ![t].reads = @ \ {r}, ![t].phase = phase]
    BY <1>3 DEF LoadFailed
  <2>2. tab' = [tab EXCEPT ![t] = [tab[t] EXCEPT !.reads = @ \ {r}, !.phase = phase]]
    BY <1>a, <2>1 DEF DeskTypes
  <2>3. [tab[t] EXCEPT !.reads = @ \ {r}, !.phase = phase] \in TabType
    BY <1>a DEF TabType, Phases
  <2> QED  BY <1>3, <2>2, <2>3 DEF LoadFailed, DeskTypes
<1>4. ASSUME NEW t \in Tabs, Type(t) PROVE DeskTypes'
  <2>1. PICK text \in Texts : tab' = [tab EXCEPT ![t] = [tab[t] EXCEPT !.text = text]]
    BY <1>4 DEF Type
  <2>2. [tab[t] EXCEPT !.text = text] \in TabType
    BY <1>a DEF TabType
  <2> QED  BY <1>4, <2>1, <2>2 DEF Type, DeskTypes
<1>5. ASSUME NEW t \in Tabs, NEW kind \in {"approved", "edited", "rejected"}, Ask(t, kind)
      PROVE  DeskTypes'
  <2>1. Call(t, kind) \in CallType
    BY <1>a DEF Call, CallType, TabType, Stages
  <2>2. [tab[t] EXCEPT !.phase = "working"] \in TabType
    BY <1>a DEF TabType, Phases
  <2>3. tab' = [tab EXCEPT ![t] = [tab[t] EXCEPT !.phase = "working"]]
    BY <1>5 DEF Ask
  <2> QED  BY <1>5, <2>1, <2>2, <2>3 DEF Ask, DeskTypes
<1>6. ASSUME NEW i \in DOMAIN calls, NEW s \in Stages, Move(i, s), UNCHANGED <<tab, sending, delivered>>,
             msg' \in [status : {"draft", "approved", "rejected", "sent"}, body : Texts],
             decisions' \in Seq(Nat), overlap' \in BOOLEAN, torn' \in BOOLEAN
      PROVE  DeskTypes'
  BY <1>6, MoveType DEF DeskTypes
<1>7. ASSUME NEW i \in DOMAIN calls, Check(i) \/ Record(i) \/ DecideFails(i) PROVE DeskTypes'
  <2>1. \E s \in Stages : Move(i, s)
    BY <1>7 DEF Check, Record, DecideFails, Stages
  <2>2. overlap' \in BOOLEAN /\ torn' \in BOOLEAN
    BY <1>7 DEF Check, Record, DecideFails, DeskTypes
  <2>3. UNCHANGED <<msg, tab, sending, delivered, decisions>>
    BY <1>7 DEF Check, Record, DecideFails
  <2> QED  BY <1>6, <2>1, <2>2, <2>3 DEF DeskTypes
<1>8. ASSUME NEW i \in DOMAIN calls, SetBody(i) PROVE DeskTypes'
  <2>1. Move(i, "edited") /\ msg' = [msg EXCEPT !.body = calls[i].text]
          /\ UNCHANGED <<tab, sending, delivered, decisions, overlap, torn>>
    BY <1>8 DEF SetBody
  <2>2. calls[i].text \in Texts
    BY <1>a DEF CallType
  <2> QED  BY <1>6, <2>1, <2>2 DEF DeskTypes, Stages
<1>9. ASSUME NEW i \in DOMAIN calls, SetStatus(i) PROVE DeskTypes'
  <2>1. /\ Move(i, "decided")
        /\ msg' = [msg EXCEPT !.status = IF calls[i].kind = "rejected" THEN "rejected" ELSE "approved"]
        /\ decisions' = Append(decisions, i)
        /\ UNCHANGED <<tab, sending, delivered, overlap, torn>>
    BY <1>9 DEF SetStatus
  <2>2. decisions' \in Seq(Nat)
    BY <1>a, <2>1 DEF DeskTypes
  <2> QED  BY <1>6, <2>1, <2>2 DEF DeskTypes, Stages
<1>10. ASSUME NEW i \in DOMAIN calls, AnswerOk(i) \/ AnswerError(i) PROVE DeskTypes'
  <2>1. calls[i].tab \in Tabs /\ calls[i] \in CallType
    BY <1>a DEF CallType
  <2>2. calls' \in Seq(CallType)
    <3>1. [calls[i] EXCEPT !.open = FALSE] \in CallType
      BY <2>1 DEF CallType
    <3>2. calls' = [calls EXCEPT ![i] = [calls[i] EXCEPT !.open = FALSE]]
      BY <1>10 DEF AnswerOk, AnswerError
    <3> QED  BY <1>a, <3>1, <3>2, ExceptSeq
  <2>3. tab' \in [Tabs -> TabType]
    <3>1. CASE AnswerOk(i)
      <4>1. [tab[calls[i].tab] EXCEPT !.reads = @ \union {<<i, Inbox>>}] \in TabType
        BY SMTT(60), <1>a, <2>1, InboxType DEF TabType
      <4>2. tab' = [tab EXCEPT ![calls[i].tab] =
                      [tab[calls[i].tab] EXCEPT !.reads = @ \union {<<i, Inbox>>}]]
        BY <3>1 DEF AnswerOk
      <4> QED  BY <2>1, <4>1, <4>2 DEF DeskTypes
    <3>2. CASE AnswerError(i)
      <4>1. PICK phase \in {"error", tab[calls[i].tab].phase} :
              tab' = [tab EXCEPT ![calls[i].tab] = [tab[calls[i].tab] EXCEPT !.phase = phase]]
        BY <3>2 DEF AnswerError
      <4>2. [tab[calls[i].tab] EXCEPT !.phase = phase] \in TabType
        BY ZenonT(60), <1>a, <2>1 DEF TabType, Phases
      <4> QED  BY <2>1, <4>1, <4>2 DEF DeskTypes
    <3> QED  BY <1>10, <3>1, <3>2
  <2>4. UNCHANGED <<msg, sending, delivered, decisions, overlap, torn>>
    BY <1>10 DEF AnswerOk, AnswerError
  <2> QED  BY <2>2, <2>3, <2>4 DEF DeskTypes
<1>11. CASE ListApproved
  BY <1>11 DEF ListApproved, DeskTypes
<1>12. CASE SendApproved
  <2>1. /\ delivered' = Append(delivered, Head(sending)) /\ sending # <<>> /\ sending' = <<>>
        /\ msg' = [msg EXCEPT !.status = "sent"] /\ UNCHANGED <<tab, calls, decisions, overlap, torn>>
    BY <1>12 DEF SendApproved
  <2>2. delivered' \in Seq(Texts) /\ sending' \in Seq(Texts)
    BY <2>1 DEF DeskTypes
  <2>3. msg' \in [status : {"draft", "approved", "rejected", "sent"}, body : Texts]
    BY <2>1 DEF DeskTypes
  <2> QED  BY <2>1, <2>2, <2>3 DEF DeskTypes
<1>13. CASE DeskNext
  BY <1>1, <1>2, <1>3, <1>4, <1>5, <1>7, <1>8, <1>9, <1>10, <1>11, <1>12, <1>13
     DEF DeskNext, PageStep, ServerStep, ClickApprove, ClickReject
<1> QED  BY <1>0, <1>13

-----------------------------------------------------------------------------
(* The review of a draft: one decision at a time *)

Solely == SoloInv /\ BodyInv /\ FirstInv

PagesAgree ==
    \A t \in Tabs : tab[t].base = msg.body /\ \A r \in tab[t].reads : r[2] \in {msg.body, Gone}

CallersAgree == \A i \in DOMAIN calls : calls[i].kind = "approved" => calls[i].text = msg.body

\* A step of the pages changes no call on its way through decide; the calls it
\* adds have only been asked.
PagesOnly ==
    /\ UNCHANGED <<msg, sending, delivered, decisions, torn>>
    /\ DOMAIN calls \subseteq DOMAIN calls'
    /\ \A i \in DOMAIN calls : /\ calls'[i].stage = calls[i].stage
                               /\ calls'[i].kind = calls[i].kind
                               /\ calls'[i].text = calls[i].text
    /\ \A i \in DOMAIN calls' \ DOMAIN calls : calls'[i].stage = "asked"

\* Such a step keeps the invariant if it keeps what the pages list and what
\* the plain approves carry.
LEMMA PagesKeep ==
    ASSUME Solely, PagesOnly,
           PagesAgree /\ CallersAgree => PagesAgree' /\ CallersAgree'
    PROVE  Solely'
<1>1. SoloInv'
  BY DEF Solely, SoloInv, UnderWay, PagesOnly
<1>2. FirstInv'
  <2>1. decisions[1] \in DOMAIN calls =>
          /\ decisions[1] \in DOMAIN calls'
          /\ calls'[decisions[1]].kind = calls[decisions[1]].kind
          /\ calls'[decisions[1]].text = calls[decisions[1]].text
    BY DEF PagesOnly
  <2> QED  BY <2>1 DEF Solely, FirstInv, PagesOnly
<1>3. BodyInv'
  BY DEF Solely, BodyInv, PagesOnly, PagesAgree, CallersAgree
<1> QED  BY <1>1, <1>2, <1>3 DEF Solely

\* A read that lands shows the body the page has, or the same body again.
LEMMA LoadedKeeps ==
    ASSUME DeskTypes, Solely, NEW t \in Tabs, Loaded(t) PROVE Solely'
<1>1. PagesOnly /\ UNCHANGED calls
  BY DEF Loaded, PagesOnly
<1>2. PICK r \in tab[t].reads :
        \/ tab' = [tab EXCEPT ![t] = [SetThreads(t, r) EXCEPT !.phase = "done"]]
        \/ tab' = [tab EXCEPT ![t] = SetThreads(t, r)]
  BY DEF Loaded
<1> DEFINE seen == SetThreads(t, r)
<1>3. /\ seen \in TabType /\ seen.base \in {tab[t].base, r[2]}
      /\ seen.base = r[2] => r[2] # Gone \/ r[2] = tab[t].base
      /\ seen.reads = tab[t].reads \ {r}
  BY SetThreadsType
<1>4. tab' = [tab EXCEPT ![t] = [seen EXCEPT !.phase = "done"]] \/ tab' = [tab EXCEPT ![t] = seen]
  BY <1>2
<1> HIDE DEF seen
<1>5. tab'[t].base = seen.base /\ tab'[t].reads = seen.reads
  <2>1. DOMAIN tab = Tabs
    BY DEF DeskTypes
  <2>2. tab'[t] = [seen EXCEPT !.phase = "done"] \/ tab'[t] = seen
    BY <1>4, <2>1
  <2> QED  BY <1>3, <2>2 DEF TabType
<1>6. \A u \in Tabs : u # t => tab'[u] = tab[u]
  BY <1>4 DEF DeskTypes
<1>7. PagesAgree => PagesAgree'
  BY <1>1, <1>3, <1>5, <1>6 DEF PagesAgree, PagesOnly
<1>8. CallersAgree => CallersAgree'
  BY <1>1 DEF CallersAgree, PagesOnly
<1> QED  BY <1>1, <1>7, <1>8, PagesKeep

\* Every step of a page keeps the invariant.
LEMMA PageKeeps ==
    ASSUME DeskTypes, Solely, NEW t \in Tabs, PageStep(t) PROVE Solely'
<1>1. CASE Poll(t)
  <2>1. PagesOnly /\ UNCHANGED calls /\ tab' = [tab EXCEPT ![t].reads = @ \union {<<0, Inbox>>}]
    BY <1>1 DEF Poll, PagesOnly
  <2>2. Inbox \in {msg.body, Gone}
    BY DEF Inbox
  <2>3. \A u \in Tabs : tab'[u].base = tab[u].base
          /\ \A r \in tab'[u].reads : r \in tab[u].reads \/ r[2] \in {msg.body, Gone}
    BY <2>1, <2>2 DEF DeskTypes, TabType
  <2>4. (PagesAgree => PagesAgree') /\ (CallersAgree => CallersAgree')
    BY <2>1, <2>3 DEF PagesAgree, CallersAgree, PagesOnly
  <2> QED  BY <2>1, <2>4, PagesKeep
<1>2. CASE Loaded(t)
  BY <1>2, LoadedKeeps
<1>3. ASSUME LoadFailed(t) \/ Type(t) PROVE Solely'
  <2>1. PagesOnly /\ UNCHANGED calls
    BY <1>3 DEF LoadFailed, Type, PagesOnly
  <2>2. \A u \in Tabs : tab'[u].base = tab[u].base /\ tab'[u].reads \subseteq tab[u].reads
    <3>1. CASE LoadFailed(t)
      <4>1. PICK r \in tab[t].reads, phase \in {"stale", tab[t].phase} :
              tab' = [tab EXCEPT ![t].reads = @ \ {r}, ![t].phase = phase]
        BY <3>1 DEF LoadFailed
      <4> QED  BY <4>1 DEF DeskTypes, TabType
    <3>2. CASE Type(t)
      BY <3>2 DEF Type, DeskTypes, TabType
    <3> QED  BY <1>3, <3>1, <3>2
  <2>3. (PagesAgree => PagesAgree') /\ (CallersAgree => CallersAgree')
    BY <2>1, <2>2 DEF PagesAgree, CallersAgree, PagesOnly
  <2> QED  BY <2>1, <2>3, PagesKeep
<1>4. ASSUME NEW kind \in {"approved", "edited", "rejected"}, Ask(t, kind),
             kind = "approved" => tab[t].text = tab[t].base
      PROVE  Solely'
  <2>1. /\ calls' = Append(calls, Call(t, kind)) /\ tab' = [tab EXCEPT ![t].phase = "working"]
        /\ UNCHANGED <<msg, sending, delivered, decisions, torn>>
    BY <1>4 DEF Ask
  <2>2. calls \in Seq(CallType) /\ Len(calls) \in Nat /\ DOMAIN calls = 1 .. Len(calls)
    BY DEF DeskTypes
  <2>3. /\ DOMAIN calls' = 1 .. Len(calls) + 1 /\ calls'[Len(calls) + 1] = Call(t, kind)
        /\ \A i \in DOMAIN calls : calls'[i] = calls[i]
    BY <2>1, <2>2
  <2>4. Call(t, kind).stage = "asked" /\ Call(t, kind).kind = kind /\ Call(t, kind).text = tab[t].text
    BY DEF Call
  <2>5. PagesOnly
    BY <2>1, <2>2, <2>3, <2>4 DEF PagesOnly
  <2>6. \A u \in Tabs : tab'[u].base = tab[u].base /\ tab'[u].reads = tab[u].reads
    BY <2>1 DEF DeskTypes, TabType
  <2>7. PagesAgree => PagesAgree'
    BY <2>1, <2>6 DEF PagesAgree
  <2>8. PagesAgree /\ CallersAgree => CallersAgree'
    BY <1>4, <2>1, <2>2, <2>3, <2>4 DEF PagesAgree, CallersAgree
  <2> QED  BY <2>5, <2>7, <2>8, PagesKeep
<1> QED  BY <1>1, <1>2, <1>3, <1>4 DEF PageStep, ClickApprove, ClickReject

\* Every step of the server keeps the invariant, but for a check that passes
\* while another decision is under way.
LEMMA ServerKeeps ==
    ASSUME DeskTypes, Solely, NEW i \in DOMAIN calls, ServerStep(i), ~overlap, ~overlap'
    PROVE  Solely'
<1>a. calls \in Seq(CallType) /\ DOMAIN calls = 1 .. Len(calls) /\ Len(calls) \in Nat
        /\ \A j \in DOMAIN calls : calls[j] \in CallType
  BY DEF DeskTypes
<1>1. CASE Check(i)
  <2>1. PICK s \in {"checked", "refused"} :
          /\ Move(i, s) /\ calls[i].stage = "asked"
          /\ s = "checked" => msg.status = "draft" /\ \A j \in DOMAIN calls : ~UnderWay(j)
          /\ UNCHANGED <<msg, tab, sending, delivered, decisions, torn>>
    BY <1>1 DEF Check
  <2>2. /\ DOMAIN calls' = DOMAIN calls /\ calls'[i].stage = s
        /\ \A j \in DOMAIN calls : j # i => calls'[j] = calls[j]
        /\ \A j \in DOMAIN calls : calls'[j].kind = calls[j].kind /\ calls'[j].text = calls[j].text
    BY <2>1, MoveType DEF Stages
  <2>3. SoloInv'
    BY <2>1, <2>2 DEF Solely, SoloInv, UnderWay
  <2>4. BodyInv'
    BY <2>1, <2>2 DEF Solely, BodyInv
  <2>5. FirstInv'
    BY <2>1, <2>2 DEF Solely, FirstInv
  <2> QED  BY <2>3, <2>4, <2>5 DEF Solely
<1>2. CASE Record(i)
  <2>1. Move(i, "recorded") /\ calls[i].stage = "checked"
          /\ UNCHANGED <<msg, tab, sending, delivered, decisions, torn>>
    BY <1>2 DEF Record
  <2>2. /\ DOMAIN calls' = DOMAIN calls /\ calls'[i].stage = "recorded"
        /\ \A j \in DOMAIN calls : j # i => calls'[j] = calls[j]
        /\ \A j \in DOMAIN calls : calls'[j].kind = calls[j].kind /\ calls'[j].text = calls[j].text
    BY <2>1, MoveType DEF Stages
  <2>3. SoloInv'
    BY <2>1, <2>2 DEF Solely, SoloInv, UnderWay
  <2>4. BodyInv'
    BY <2>1, <2>2 DEF Solely, BodyInv
  <2>5. FirstInv'
    BY <2>1, <2>2 DEF Solely, FirstInv
  <2> QED  BY <2>3, <2>4, <2>5 DEF Solely
<1>3. CASE SetBody(i)
  <2>1. /\ Move(i, "edited") /\ calls[i].stage = "recorded" /\ calls[i].kind = "edited"
        /\ msg' = [msg EXCEPT !.body = calls[i].text]
        /\ UNCHANGED <<tab, sending, delivered, decisions, torn>>
    BY <1>3 DEF SetBody
  <2>2. /\ DOMAIN calls' = DOMAIN calls /\ calls'[i].stage = "edited"
        /\ \A j \in DOMAIN calls : j # i => calls'[j] = calls[j]
        /\ \A j \in DOMAIN calls : calls'[j].kind = calls[j].kind /\ calls'[j].text = calls[j].text
    BY <2>1, MoveType DEF Stages
  <2>3. msg'.status = msg.status /\ msg'.body = calls[i].text /\ msg.status = "draft"
    BY <2>1 DEF DeskTypes, Solely, SoloInv, UnderWay
  <2>4. SoloInv'
    BY <2>1, <2>2, <2>3 DEF Solely, SoloInv, UnderWay
  <2>5. BodyInv'
    BY <2>2 DEF BodyInv
  <2>6. FirstInv'
    BY <2>1, <2>3 DEF Solely, FirstInv
  <2> QED  BY <2>4, <2>5, <2>6 DEF Solely
<1>4. CASE SetStatus(i)
  <2>1. /\ Move(i, "decided")
        /\ calls[i].stage = IF calls[i].kind = "edited" THEN "edited" ELSE "recorded"
        /\ msg' = [msg EXCEPT !.status = IF calls[i].kind = "rejected" THEN "rejected" ELSE "approved"]
        /\ decisions' = Append(decisions, i)
        /\ UNCHANGED <<tab, sending, delivered, torn>>
    BY <1>4 DEF SetStatus
  <2>2. /\ DOMAIN calls' = DOMAIN calls /\ calls'[i].stage = "decided"
        /\ \A j \in DOMAIN calls : j # i => calls'[j] = calls[j]
        /\ \A j \in DOMAIN calls : calls'[j].kind = calls[j].kind /\ calls'[j].text = calls[j].text
    BY <2>1, MoveType DEF Stages
  <2>3. UnderWay(i) /\ msg.status = "draft" /\ decisions = <<>> /\ sending = <<>> /\ delivered = <<>>
    BY <2>1 DEF Solely, SoloInv, FirstInv, UnderWay
  <2>4. /\ msg'.status = IF calls[i].kind = "rejected" THEN "rejected" ELSE "approved"
        /\ msg'.body = msg.body
    BY <2>1 DEF DeskTypes
  <2>5. calls[i].kind = "rejected" \/ torn \/ calls[i].text = msg.body
    <3>1. CASE calls[i].kind = "edited"
      BY <2>1, <3>1 DEF Solely, SoloInv
    <3>2. CASE calls[i].kind = "approved"
      <4>1. calls[i].stage = "recorded"
        BY <2>1, <3>2
      <4>2. ASSUME NEW j \in DOMAIN calls, calls[j].stage = "edited" PROVE FALSE
        <5>1. UnderWay(j)
          BY <4>2 DEF UnderWay
        <5>2. i = j
          BY <2>3, <5>1 DEF Solely, SoloInv
        <5> QED  BY <4>1, <4>2, <5>2
      <4> QED  BY <2>3, <3>2, <4>2 DEF Solely, BodyInv
    <3> QED  BY <1>a, <3>1, <3>2 DEF CallType
  <2>6. SoloInv'
    BY <2>2, <2>3 DEF Solely, SoloInv, UnderWay
  <2>7. BodyInv'
    BY <2>4 DEF BodyInv
  <2>8. decisions' = <<i>>
    BY <2>1, <2>3
  <2>9. FirstInv'
    BY <2>1, <2>2, <2>3, <2>4, <2>5, <2>8 DEF FirstInv
  <2> QED  BY <2>6, <2>7, <2>9 DEF Solely
<1>5. CASE DecideFails(i)
  <2>1. /\ Move(i, "refused") /\ UnderWay(i) /\ torn' = (torn \/ calls[i].stage = "edited")
        /\ UNCHANGED <<msg, tab, sending, delivered, decisions>>
    BY <1>5 DEF DecideFails
  <2>2. /\ DOMAIN calls' = DOMAIN calls /\ calls'[i].stage = "refused"
        /\ \A j \in DOMAIN calls : j # i => calls'[j] = calls[j]
        /\ \A j \in DOMAIN calls : calls'[j].kind = calls[j].kind /\ calls'[j].text = calls[j].text
    BY <2>1, MoveType DEF Stages
  <2>3. SoloInv'
    BY <2>1, <2>2 DEF Solely, SoloInv, UnderWay
  <2>4. BodyInv'
    BY <2>1, <2>2 DEF Solely, BodyInv
  <2>5. FirstInv'
    BY <2>1, <2>2 DEF Solely, FirstInv
  <2> QED  BY <2>3, <2>4, <2>5 DEF Solely
<1>6. ASSUME AnswerOk(i) \/ AnswerError(i) PROVE Solely'
  <2>1. UNCHANGED <<msg, sending, delivered, decisions, torn>>
          /\ calls' = [calls EXCEPT ![i].open = FALSE] /\ calls[i].tab \in Tabs
    BY <1>6, <1>a DEF AnswerOk, AnswerError, CallType
  <2>2. /\ DOMAIN calls' = DOMAIN calls
        /\ \A j \in DOMAIN calls : /\ calls'[j].stage = calls[j].stage
                                   /\ calls'[j].kind = calls[j].kind
                                   /\ calls'[j].text = calls[j].text
    BY <1>a, <2>1 DEF CallType
  <2>3. PagesOnly
    BY <2>1, <2>2 DEF PagesOnly
  <2>4. \A u \in Tabs : tab'[u].base = tab[u].base
          /\ \A r \in tab'[u].reads : r \in tab[u].reads \/ r[2] \in {msg.body, Gone}
    <3>1. Inbox \in {msg.body, Gone}
      BY DEF Inbox
    <3>2. CASE AnswerOk(i)
      BY <2>1, <3>1, <3>2 DEF AnswerOk, DeskTypes, TabType
    <3>3. CASE AnswerError(i)
      <4>1. PICK phase \in {"error", tab[calls[i].tab].phase} :
              tab' = [tab EXCEPT ![calls[i].tab].phase = phase]
        BY <3>3 DEF AnswerError
      <4> QED  BY <2>1, <4>1 DEF DeskTypes, TabType
    <3> QED  BY <1>6, <3>2, <3>3
  <2>5. (PagesAgree => PagesAgree') /\ (CallersAgree => CallersAgree')
    BY <2>1, <2>2, <2>4 DEF PagesAgree, CallersAgree
  <2> QED  BY <2>3, <2>5, PagesKeep
<1> QED  BY <1>1, <1>2, <1>3, <1>4, <1>5, <1>6 DEF ServerStep

LEMMA DeskInvStep == DeskInv /\ [DeskNext]_deskVars => DeskInv'
<1> SUFFICES ASSUME DeskInv, [DeskNext]_deskVars PROVE DeskInv'
  OBVIOUS
<1>1. DeskTypes /\ DeskTypes'
  BY DeskTypeStep DEF DeskInv
<1>2. overlap \/ Solely
  BY DEF DeskInv, Solely
<1>3. overlap => overlap'
  BY DEF DeskNext, PageStep, ServerStep, Poll, Loaded, LoadFailed, Type, ClickApprove, ClickReject,
         Ask, Check, Record, SetBody, SetStatus, DecideFails, AnswerOk, AnswerError,
         ListApproved, SendApproved, deskVars
<1>4. ASSUME ~overlap, ~overlap' PROVE Solely'
  <2>0. Solely
    BY <1>2, <1>4
  <2>1. CASE UNCHANGED deskVars
    BY <2>0, <2>1 DEF deskVars, Solely, SoloInv, BodyInv, FirstInv, UnderWay
  <2>2. ASSUME NEW t \in Tabs, PageStep(t) PROVE Solely'
    BY <1>1, <2>0, <2>2, PageKeeps
  <2>3. ASSUME NEW i \in DOMAIN calls, ServerStep(i) PROVE Solely'
    BY <1>1, <1>4, <2>0, <2>3, ServerKeeps
  <2>4. CASE ListApproved
    <3>1. sending' = <<msg.body>> /\ msg.status = "approved"
            /\ UNCHANGED <<msg, tab, calls, delivered, decisions, torn>>
      BY <2>4 DEF ListApproved
    <3> QED  BY <2>0, <3>1 DEF Solely, SoloInv, BodyInv, FirstInv, UnderWay
  <2>5. CASE SendApproved
    <3>1. /\ delivered' = Append(delivered, Head(sending)) /\ sending # <<>> /\ sending' = <<>>
          /\ msg'.status = "sent" /\ msg'.body = msg.body
          /\ UNCHANGED <<tab, calls, decisions, torn>>
      BY <1>1, <2>5 DEF SendApproved, DeskTypes
    <3>2. msg.status = "approved" /\ sending = <<msg.body>> /\ delivered = <<>>
      BY <2>0, <3>1 DEF Solely, FirstInv
    <3>3. delivered' = <<msg.body>>
      BY <3>1, <3>2
    <3>4. SoloInv'
      BY <2>0, <3>1, <3>2 DEF Solely, SoloInv, UnderWay
    <3>5. BodyInv'
      BY <3>1 DEF BodyInv
    <3>6. FirstInv'
      BY <2>0, <3>1, <3>2, <3>3 DEF Solely, FirstInv
    <3> QED  BY <3>4, <3>5, <3>6 DEF Solely
  <2> QED  BY <2>1, <2>2, <2>3, <2>4, <2>5 DEF DeskNext
<1> QED  BY <1>1, <1>3, <1>4 DEF DeskInv, DeskTypes, Solely

LEMMA DeskInvDecides == DeskInv => DecidedOnce
<1> SUFFICES ASSUME DeskTypes, SoloInv, BodyInv, FirstInv, delivered # <<>>
             PROVE  DecidedOnce
  BY DEF DeskInv, DecidedOnce, FirstInv
<1>1. delivered = <<msg.body>> /\ msg.status = "sent" /\ decisions # <<>>
  BY DEF FirstInv
<1>2. DOMAIN delivered = {1} /\ delivered[1] = msg.body /\ Len(delivered) = 1
  BY <1>1
<1> QED  BY <1>1, <1>2 DEF FirstInv, DecidedOnce

(* A draft is decided once, whatever the tabs show and however often the
   operator retries: but for decisions that overlapped and for a text left by
   an edit that failed before its approval, the first call to pass decide's
   check decides, a rejected draft reaches nobody, and the text of the page
   that approved is sent, once. *)
THEOREM FirstDecisionStands == DeskSpec => []DecidedOnce
BY DeskInvInit, DeskInvStep, DeskInvDecides, PTL DEF DeskSpec
=============================================================================
