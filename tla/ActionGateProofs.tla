-------------------------- MODULE ActionGateProofs --------------------------
(***************************************************************************)
(* Proofs about ActionGate, for any number of callers and rows, any caps,  *)
(* gaps and day lengths with MaxDrive < MinGap, and any number of crashes  *)
(* and operator commands.                                                  *)
(***************************************************************************)
EXTENDS ActionGate, TLAPS, FiniteSetTheorems

HoldsRow == {"mint"} \cup Busy

\* A call past its insert holds a row, and a dead process has no calls.
CallsOK ==
    /\ \A c \in Callers : call[c].pc \in HoldsRow => call[c].row \in RowIds
    /\ ~up => admin = "none" /\ \A c \in Callers : call[c].pc = "idle"

Inv == TypeOK /\ now > 0 /\ CallsOK

\* Each running drive is younger than a drive may get, and the pacer knows it.
DriveInv ==
    /\ OneDriveAtATime
    /\ \A c \in Driving : /\ 0 < call[c].minted /\ call[c].minted <= last
                          /\ now <= call[c].minted + MaxDrive

PausedInLog == pauseLog.pause > pauseLog.resume

\* Registry and log agree, or the call in flight will make them.
PauseInv ==
    /\ PauseIsDurable
    /\ up /\ admin # "none" => (paused <=> admin = "pause")

\* Once an action has landed under a pause no other is in the browser.
AfterPauseInv ==
    /\ sincePause <= 1
    /\ sincePause # 0 => /\ PausedInLog /\ admin = "none"
                         /\ \A c \in Callers : call[c].pc # "drive"

-----------------------------------------------------------------------------

\* Setting a call's fields, or clearing it, keeps the type of the call table.
LEMMA CallUpdate ==
    ASSUME NEW f \in [Callers -> CallType], NEW c \in Callers, NEW v \in CallType
    PROVE  /\ [f EXCEPT ![c] = v] \in [Callers -> CallType]
           /\ [f EXCEPT ![c] = v][c] = v
           /\ \A d \in Callers : d # c => [f EXCEPT ![c] = v][d] = f[d]
OBVIOUS

\* So does recording a result and its time on a row.
LEMMA RowUpdate ==
    ASSUME NEW row \in RowType, NEW result \in ResultKinds, NEW t \in Nat
    PROVE  [row EXCEPT !.result = result, !.executed = t] \in RowType
BY DEF RowType

\* The idle call is a call.
LEMMA IdleType == Idle \in CallType
BY DEF Idle, CallType

\* Invariance of types and of the rows calls hold.
LEMMA InvInvariant == Inv /\ [Next]_vars => Inv'
<1> SUFFICES ASSUME Inv, [Next]_vars PROVE Inv'
  OBVIOUS
<1> USE ActionGateAssumption
<1>1. ASSUME NEW c \in Callers, NEW type \in Types, Check(c, type) PROVE Inv'
  BY ZenonT(60), <1>1, IdleType
     DEF Check, Inv, TypeOK, CallsOK, CallType, Idle, HoldsRow, Busy, operator, history
<1>2. ASSUME NEW c \in Callers, Create(c) PROVE Inv'
  <2>1. PICK r \in RowIds :
          /\ rows' = [rows EXCEPT ![r] = [result |-> "pending", type |-> call[c].type,
                                          created |-> now, executed |-> 0]]
          /\ call' = [call EXCEPT ![c].pc = "mint", ![c].row = r]
    BY <1>2 DEF Create
  <2>2. rows' \in [RowIds -> RowType]
    BY <2>1 DEF Inv, TypeOK, CallType, RowType, ResultKinds
  <2>3. call' \in [Callers -> CallType] /\ call'[c].row = r
        /\ \A d \in Callers : d # c => call'[d] = call[d]
    <3> DEFINE v == [call[c] EXCEPT !.pc = "mint", !.row = r]
    <3>1. v \in CallType /\ v.row = r
      BY DEF Inv, TypeOK, CallType
    <3>2. call' = [call EXCEPT ![c] = v]
      BY <2>1 DEF Inv, TypeOK
    <3> HIDE DEF v
    <3> QED  BY <3>1, <3>2 DEF Inv, TypeOK
  <2> QED
    BY <1>2, <2>2, <2>3 DEF Create, Inv, TypeOK, CallsOK, HoldsRow, Busy, operator, history
<1>3. ASSUME NEW c \in Callers, Mint(c) PROVE Inv'
  <2> DEFINE v == [call[c] EXCEPT !.pc = "drive", !.minted = now]
  <2>1. v \in CallType /\ v.row = call[c].row
    BY ZenonT(60) DEF Inv, TypeOK, CallType, Busy
  <2>2. call' = [call EXCEPT ![c] = v]
    BY <1>3 DEF Mint, Inv, TypeOK
  <2> HIDE DEF v
  <2>3. call' \in [Callers -> CallType] /\ call'[c].row = call[c].row
        /\ \A d \in Callers : d # c => call'[d] = call[d]
    BY <2>1, <2>2 DEF Inv, TypeOK
  <2>4. last' \in Nat
    BY <1>3 DEF Mint, Record, Inv, TypeOK
  <2> QED
    BY <1>3, <2>3, <2>4 DEF Mint, Inv, TypeOK, CallsOK, HoldsRow, operator, history
<1>4. ASSUME NEW c \in Callers, MintRefused(c) PROVE Inv'
  BY <1>4 DEF MintRefused, NoRow, Idle, Inv, TypeOK, CallsOK, CallType, RowType, ResultKinds, HoldsRow, Busy, operator, history
<1>5. ASSUME NEW c \in Callers, PageFails(c) PROVE Inv'
  BY <1>5 DEF PageFails, Idle, Inv, TypeOK, CallsOK, CallType, HoldsRow, Busy, operator, history
<1>6. ASSUME NEW c \in Callers, Lands(c) PROVE Inv'
  BY <1>6 DEF Lands, Inv, TypeOK, CallsOK, CallType, HoldsRow, Busy, operator, history
<1>7. ASSUME NEW c \in Callers, DriveFails(c) PROVE Inv'
  <2>1. rows' \in [RowIds -> RowType]
    <3> DEFINE v == [rows[call[c].row] EXCEPT !.result = "failed", !.executed = now]
    <3>1. call[c].row \in RowIds
      BY <1>7 DEF DriveFails, Inv, CallsOK, HoldsRow, Busy
    <3>2. v \in RowType
      BY <3>1, RowUpdate DEF Inv, TypeOK, ResultKinds
    <3>3. rows' = [rows EXCEPT ![call[c].row] = v]
      BY <1>7, <3>1 DEF DriveFails, Inv, TypeOK, RowType
    <3> HIDE DEF v
    <3> QED
      BY <3>1, <3>2, <3>3 DEF Inv, TypeOK
  <2>2. call' \in [Callers -> CallType] /\ call'[c] = Idle
        /\ \A d \in Callers : d # c => call'[d] = call[d]
    BY <1>7, IdleType, CallUpdate DEF DriveFails, Inv, TypeOK
  <2> QED
    BY <1>7, <2>1, <2>2 DEF DriveFails, Record, Idle, Inv, TypeOK, CallsOK, HoldsRow, Busy, operator
<1>8. ASSUME NEW c \in Callers, Returns(c) PROVE Inv'
  <2> DEFINE v == [call[c] EXCEPT !.pc = "persist", !.minted = now]
  <2>1. v \in CallType /\ v.row = call[c].row
    BY ZenonT(60) DEF Inv, TypeOK, CallType, Busy
  <2>2. call' = [call EXCEPT ![c] = v]
    BY <1>8 DEF Returns, Inv, TypeOK
  <2> HIDE DEF v
  <2>3. call' \in [Callers -> CallType] /\ call'[c].row = call[c].row
        /\ \A d \in Callers : d # c => call'[d] = call[d]
    BY <2>1, <2>2 DEF Inv, TypeOK
  <2>4. last' \in Nat
    BY <1>8 DEF Returns, Record, Inv, TypeOK
  <2> QED
    BY <1>8, <2>3, <2>4 DEF Returns, Inv, TypeOK, CallsOK, HoldsRow, Busy, operator, history
<1>9. ASSUME NEW c \in Callers, Persist(c) PROVE Inv'
  <2>1. rows' \in [RowIds -> RowType]
    <3> DEFINE v == [rows[call[c].row] EXCEPT !.result = "success", !.executed = call[c].minted]
    <3>1. call[c].row \in RowIds
      BY <1>9 DEF Persist, Inv, CallsOK, HoldsRow, Busy
    <3>2. v \in RowType
      <4>1. rows[call[c].row] \in RowType /\ call[c].minted \in Nat
        BY <3>1 DEF Inv, TypeOK, CallType
      <4> QED
        BY <4>1, RowUpdate DEF ResultKinds
    <3>3. rows' = [rows EXCEPT ![call[c].row] = v]
      BY <1>9, <3>1 DEF Persist, Inv, TypeOK, RowType
    <3> HIDE DEF v
    <3> QED
      BY <3>1, <3>2, <3>3 DEF Inv, TypeOK
  <2>2. call' \in [Callers -> CallType] /\ call'[c].row = call[c].row
        /\ \A d \in Callers : d # c => call'[d] = call[d]
    BY <1>9 DEF Persist, Inv, TypeOK, CallType, Busy
  <2> QED
    BY <1>9, <2>1, <2>2 DEF Persist, Inv, TypeOK, CallsOK, HoldsRow, Busy, operator, history
<1>10. ASSUME NEW c \in Callers, Count(c) PROVE Inv'
  BY <1>10 DEF Count, Idle, Inv, TypeOK, CallsOK, CallType, HoldsRow, Busy, operator, history
<1>11. ASSUME NEW kind \in {"pause", "resume"}, Command(kind) PROVE Inv'
  BY <1>11 DEF Command, Inv, TypeOK, CallsOK
<1>12. CASE Append
  BY <1>12 DEF Append, Inv, TypeOK, CallsOK, history
<1>13. CASE Crash
  <2>1. Cardinality({c \in Callers : call[c].pc \in {"landed", "persist"}}) \in Nat
    BY FS_Subset, FS_CardinalityType
  <2>2. call' \in [Callers -> CallType] /\ \A c \in Callers : call'[c].pc = "idle"
    BY <1>13, IdleType DEF Crash, Idle
  <2>3. up' \in BOOLEAN /\ paused' \in BOOLEAN
    BY <1>13 DEF Crash
  <2>4. lost' \in Nat /\ crashes' \in Nat
    BY <1>13, <2>1 DEF Crash, Inv, TypeOK
  <2> QED
    BY <1>13, <2>2, <2>3, <2>4 DEF Crash, Inv, TypeOK, CallsOK, HoldsRow, Busy
<1>14. CASE Boot
  <2>1. rows' \in [RowIds -> RowType]
    <3>1. \A r \in RowIds : [rows[r] EXCEPT !.result = "gone"] \in RowType /\ rows[r] \in RowType
      BY DEF Inv, TypeOK, RowType, ResultKinds
    <3> QED
      BY <1>14, <3>1 DEF Boot
  <2>2. \A r \in RowIds : Stamp(r) \in Nat
    BY DEF Stamp, Inv, TypeOK, RowType
  <2>3. last' \in Nat
    BY <1>14, <2>2 DEF Boot, Stored
  <2>4. up' \in BOOLEAN /\ paused' \in BOOLEAN
    BY <1>14 DEF Boot, PausedByLog
  <2>5. counted' \subseteq RowIds
    BY <1>14 DEF Boot, Succeeded
  <2> QED
    BY <1>14, <2>1, <2>3, <2>4, <2>5 DEF Boot, Inv, TypeOK, CallsOK, HoldsRow, Busy, history
<1>15. CASE Tick
  BY <1>15 DEF Tick, Inv, TypeOK, CallsOK, operator, history
<1>16. CASE UNCHANGED vars
  BY <1>16 DEF vars, Inv, TypeOK, CallsOK
<1> QED
  BY <1>1, <1>2, <1>3, <1>4, <1>5, <1>6, <1>7, <1>8, <1>9, <1>10, <1>11, <1>12, <1>13,
     <1>14, <1>15, <1>16 DEF Next, Executor

\* The first state has the right types.
LEMMA InitInv == Init => Inv
<1> SUFFICES ASSUME Init PROVE Inv
  OBVIOUS
<1>1. NoRow \in RowType
  BY DEF NoRow, RowType, ResultKinds
<1>2. rows \in [RowIds -> RowType] /\ call \in [Callers -> CallType]
  BY <1>1, IdleType DEF Init
<1>3. \A c \in Callers : call[c].pc = "idle"
  BY DEF Init, Idle
<1>4. up \in BOOLEAN /\ paused \in BOOLEAN /\ landed \in [RowIds -> Nat]
  BY DEF Init
<1> QED
  BY <1>2, <1>3, <1>4 DEF Init, Inv, TypeOK, CallsOK, HoldsRow, Busy

\* Every row, call, counter and clock of the gate keeps its type in every
\* behaviour: no handler records a stamp, a result or a row that does not exist.
THEOREM TypeCorrect == Spec => []TypeOK
<1>1. Inv => TypeOK
  BY DEF Inv
<1> QED
  BY <1>1, InitInv, InvInvariant, PTL DEF Spec

-----------------------------------------------------------------------------

\* The drive window: a mint finds the pacer's stamp at least MinGap old, and a
\* drive would have ended by then.
LEMMA DriveInvariant == Inv /\ DriveInv /\ [Next]_vars => DriveInv'
<1> SUFFICES ASSUME Inv, DriveInv, [Next]_vars PROVE DriveInv'
  OBVIOUS
<1> USE ActionGateAssumption DEF DriveInv, OneDriveAtATime, Driving, Inv, TypeOK
<1>1. ASSUME NEW c \in Callers, NEW type \in Types, Check(c, type) PROVE DriveInv'
  BY <1>1 DEF Check, Idle, Busy, CallType
<1>2. ASSUME NEW c \in Callers, Create(c) PROVE DriveInv'
  BY <1>2 DEF Create, Busy, CallType
<1>3. ASSUME NEW c \in Callers, Mint(c) PROVE DriveInv'
  <2>1. PICK gap \in Gaps : last # 0 => now >= last + gap
    BY <1>3 DEF Mint, Allowed
  <2>2. gap \in Nat /\ gap >= MinGap
    BY DEF Gaps
  <2>3. \A d \in Callers : call[d].pc \notin Busy
    BY <2>1, <2>2 DEF CallType
  <2>4. \A d \in Callers : call'[d].pc \in Busy => d = c
    BY <1>3, <2>3 DEF Mint
  <2>5. call'[c].minted = now
    BY <1>3 DEF Mint, CallType
  <2>6. last' >= now /\ now' = now
    BY <1>3 DEF Mint, Record
  <2> QED
    BY <2>4, <2>5, <2>6
<1>4. ASSUME NEW c \in Callers, MintRefused(c) PROVE DriveInv'
  BY <1>4 DEF MintRefused, Idle, Busy, CallType
<1>5. ASSUME NEW c \in Callers, PageFails(c) PROVE DriveInv'
  BY <1>5 DEF PageFails, Idle, Busy, CallType
<1>6. ASSUME NEW c \in Callers, Lands(c) PROVE DriveInv'
  BY <1>6 DEF Lands, Busy, CallType
<1>7. ASSUME NEW c \in Callers, DriveFails(c) PROVE DriveInv'
  BY <1>7 DEF DriveFails, Record, Idle, Busy, CallType
<1>8. ASSUME NEW c \in Callers, Returns(c) PROVE DriveInv'
  <2>1. c \in Driving
    BY <1>8 DEF Returns, Busy
  <2>2. \A d \in Callers : call'[d].pc \in Busy => d = c
    BY <1>8, <2>1 DEF Returns, CallType
  <2>3. call'[c].minted = now
    BY <1>8 DEF Returns, CallType
  <2>4. last' >= now /\ now' = now
    BY <1>8 DEF Returns, Record
  <2> QED
    BY <2>2, <2>3, <2>4
<1>9. ASSUME NEW c \in Callers, Persist(c) PROVE DriveInv'
  BY <1>9 DEF Persist, Busy, CallType
<1>10. ASSUME NEW c \in Callers, Count(c) PROVE DriveInv'
  BY <1>10 DEF Count, Idle, Busy, CallType
<1>11. ASSUME NEW kind \in {"pause", "resume"}, Command(kind) PROVE DriveInv'
  BY <1>11 DEF Command
<1>12. CASE Append
  BY <1>12 DEF Append
<1>13. CASE Crash
  BY <1>13 DEF Crash, Idle, Busy
<1>14. CASE Boot
  BY <1>14 DEF Boot, CallsOK, Busy
<1>15. CASE Tick
  BY <1>15 DEF Tick, CallType
<1>16. CASE UNCHANGED vars
  BY <1>16 DEF vars
<1> QED
  BY <1>1, <1>2, <1>3, <1>4, <1>5, <1>6, <1>7, <1>8, <1>9, <1>10, <1>11, <1>12, <1>13,
     <1>14, <1>15, <1>16 DEF Next, Executor

\* The registry and the log: a command sets the one, then stamps the other with
\* a time newer than both; a boot copies the log.
LEMMA PauseInvariant == Inv /\ PauseInv /\ [Next]_vars => PauseInv'
<1> SUFFICES ASSUME Inv, PauseInv, [Next]_vars PROVE PauseInv'
  OBVIOUS
<1> USE DEF PauseInv, PauseIsDurable
<1>1. CASE UNCHANGED <<up, operator>>
  BY <1>1 DEF operator
<1>2. ASSUME NEW c \in Callers, Executor(c) PROVE PauseInv'
  <2>1. UNCHANGED <<up, operator>>
    BY <1>2 DEF Executor, Check, Create, Mint, MintRefused, PageFails, Lands, DriveFails,
                Returns, Persist, Count
  <2> QED
    BY <1>1, <2>1
<1>3. ASSUME NEW kind \in {"pause", "resume"}, Command(kind) PROVE PauseInv'
  BY <1>3 DEF Command
<1>4. CASE Append
  BY <1>4 DEF Append, Inv, TypeOK
<1>5. CASE Crash
  BY <1>5 DEF Crash
<1>6. CASE Boot
  BY <1>6 DEF Boot, PausedByLog, Inv, CallsOK
<1>7. CASE Tick
  BY <1>1, <1>7 DEF Tick
<1>8. CASE UNCHANGED vars
  BY <1>1, <1>8 DEF vars, operator
<1> QED
  BY <1>2, <1>3, <1>4, <1>5, <1>6, <1>7, <1>8 DEF Next

\* Under an acknowledged pause nothing is minted, and the one drive there may
\* be leaves the browser when it lands.
LEMMA AfterPauseInvariant ==
    Inv /\ DriveInv /\ PauseInv /\ AfterPauseInv /\ [Next]_vars => AfterPauseInv'
<1> SUFFICES ASSUME Inv, DriveInv, PauseInv, AfterPauseInv, [Next]_vars PROVE AfterPauseInv'
  OBVIOUS
<1> USE DEF AfterPauseInv, PausedInLog, Inv, TypeOK
<1>1. ASSUME NEW c \in Callers, NEW type \in Types, Check(c, type) PROVE AfterPauseInv'
  BY <1>1 DEF Check, Idle, operator, history, CallType
<1>2. ASSUME NEW c \in Callers, Create(c) PROVE AfterPauseInv'
  BY <1>2 DEF Create, operator, history, CallType
<1>3. ASSUME NEW c \in Callers, Mint(c) PROVE AfterPauseInv'
  <2>1. up /\ ~paused
    BY <1>3 DEF Mint, Allowed
  <2>2. sincePause = 0
    BY <2>1 DEF PauseInv, PauseIsDurable
  <2> QED
    BY <1>3, <2>2 DEF Mint, history
<1>4. ASSUME NEW c \in Callers, MintRefused(c) PROVE AfterPauseInv'
  BY <1>4 DEF MintRefused, Idle, operator, history, CallType
<1>5. ASSUME NEW c \in Callers, PageFails(c) PROVE AfterPauseInv'
  BY <1>5 DEF PageFails, Idle, operator, history, CallType
<1>6. ASSUME NEW c \in Callers, Lands(c) PROVE AfterPauseInv'
  <2>1. sincePause = 0
    BY <1>6 DEF Lands
  <2>2. \A d \in Callers : call[d].pc = "drive" => d = c
    BY <1>6 DEF Lands, DriveInv, OneDriveAtATime, Driving, Busy
  <2>3. \A d \in Callers : call'[d].pc # "drive"
    BY <1>6, <2>2 DEF Lands, CallType
  <2>4. CASE paused /\ admin = "none"
    <3>1. PausedInLog
      BY <1>6, <2>4 DEF Lands, PauseInv, PauseIsDurable
    <3> QED
      BY <1>6, <2>1, <2>3, <2>4, <3>1 DEF Lands, operator
  <2>5. CASE ~(paused /\ admin = "none")
    BY <1>6, <2>1, <2>5 DEF Lands
  <2> QED
    BY <2>4, <2>5
<1>7. ASSUME NEW c \in Callers, DriveFails(c) PROVE AfterPauseInv'
  BY <1>7 DEF DriveFails, Idle, operator, CallType
<1>8. ASSUME NEW c \in Callers, Returns(c) PROVE AfterPauseInv'
  BY <1>8 DEF Returns, operator, history, CallType
<1>9. ASSUME NEW c \in Callers, Persist(c) PROVE AfterPauseInv'
  BY <1>9 DEF Persist, operator, history, CallType
<1>10. ASSUME NEW c \in Callers, Count(c) PROVE AfterPauseInv'
  BY <1>10 DEF Count, Idle, operator, history, CallType
<1>11. ASSUME NEW kind \in {"pause", "resume"}, Command(kind) PROVE AfterPauseInv'
  BY <1>11 DEF Command
<1>12. CASE Append
  BY <1>12 DEF Append, history
<1>13. CASE Crash
  BY <1>13 DEF Crash, Idle
<1>14. CASE Boot
  BY <1>14 DEF Boot, history
<1>15. CASE Tick
  BY <1>15 DEF Tick, operator, history
<1>16. CASE UNCHANGED vars
  BY <1>16 DEF vars
<1> QED
  BY <1>1, <1>2, <1>3, <1>4, <1>5, <1>6, <1>7, <1>8, <1>9, <1>10, <1>11, <1>12, <1>13,
     <1>14, <1>15, <1>16 DEF Next, Executor

\* The first state satisfies the strengthenings too.
LEMMA InitAll == Init => DriveInv /\ PauseInv /\ AfterPauseInv
BY DEF Init, DriveInv, OneDriveAtATime, Driving, Idle, Busy, PauseInv, PauseIsDurable, AfterPauseInv

\* Two drives of one account never overlap, however many callers there are:
\* mintToken's second check and the pacer slot taken with it serialise them.
THEOREM OneDrive == Spec => []OneDriveAtATime
<1>1. DriveInv => OneDriveAtATime
  BY DEF DriveInv
<1> QED
  BY <1>1, InitInv, InitAll, InvInvariant, DriveInvariant, PTL DEF Spec

\* A pause or a resume that has returned is what PauseRegistry.rehydrate
\* restores, after any number of commands and crashes.
THEOREM PauseDurable == Spec => []PauseIsDurable
<1>1. PauseInv => PauseIsDurable
  BY DEF PauseInv
<1> QED
  BY <1>1, InitInv, InitAll, InvInvariant, PauseInvariant, PTL DEF Spec

\* Once pause_account has returned at most one more action reaches LinkedIn
\* until the account is resumed, restarts included.
THEOREM OneAfterPause == Spec => []OneActionAfterPause
<1>1. AfterPauseInv => OneActionAfterPause
  BY DEF AfterPauseInv, OneActionAfterPause
<1> QED
  BY <1>1, InitInv, InitAll, InvInvariant, DriveInvariant, PauseInvariant, AfterPauseInvariant,
     PTL DEF Spec

-----------------------------------------------------------------------------
(* Caps and spacing: what LinkedIn has seen against what the gate has counted *)

HeldBy(r, pcs) == \E c \in Callers : call[c].pc \in pcs /\ call[c].row = r

\* What a call past its insert knows of its own row; no two calls share a row.
HoldOK(c) ==
    /\ rows[call[c].row].result = IF call[c].pc = "count" THEN "success" ELSE "pending"
    /\ rows[call[c].row].type = call[c].type
    /\ landed[call[c].row] > 0 <=> call[c].pc \in {"landed", "persist", "count"}
    /\ call[c].pc = "mint" => rows[call[c].row].created = now
    /\ call[c].pc \in {"drive", "landed"} => rows[call[c].row].created = call[c].minted
    /\ call[c].pc \in Busy => call[c].minted <= now
    /\ call[c].pc = "persist" => landed[call[c].row] <= call[c].minted

HoldInv ==
    /\ \A c \in Callers : call[c].pc \in HoldsRow => HoldOK(c)
    /\ \A c, d \in Callers : /\ call[c].pc \in HoldsRow /\ call[d].pc \in HoldsRow
                             /\ call[c].row = call[d].row
                             => c = d

\* What a row's stamps say of the moment its action landed.
StampOK(r) ==
    /\ rows[r].result # "absent" => 0 < rows[r].created
    /\ rows[r].result \in {"absent", "pending"} => rows[r].executed = 0
    /\ rows[r].result \in {"success", "failed"} => rows[r].executed > 0 /\ landed[r] <= rows[r].executed
    /\ rows[r].result = "absent" => landed[r] = 0
    /\ rows[r].result = "success" => landed[r] > 0
    /\ landed[r] <= now /\ rows[r].executed <= now
    /\ landed[r] > 0 => landed[r] <= Stamp(r) + MaxDrive

StampInv == \A r \in RowIds : StampOK(r)

\* A live process has counted every recorded success but the one being counted.
CountInv == up => Succeeded = counted \cup {r \in RowIds : HeldBy(r, {"count"})}

Landed == {r \in RowIds : landed[r] > 0}

\* Actions LinkedIn has seen and no row will ever report.
Orphans == {r \in Landed : rows[r].result # "success" /\ ~HeldBy(r, {"landed", "persist"})}

LostInv == IsFiniteSet(Landed) /\ Cardinality(Orphans) <= lost

\* What today's cap, and the week's ceiling, are charged with: the recorded
\* successes and the drive that is running.
Charged(type) ==
    {r \in RowIds : /\ rows[r].type = type
                    /\ \/ rows[r].result = "success" /\ DayOf(rows[r].executed) = DayOf(now)
                       \/ HeldBy(r, Busy)}

WeekCharged ==
    {r \in RowIds : /\ rows[r].type = "connect"
                    /\ \/ rows[r].result = "success" /\ rows[r].executed + WeekLen > now
                       \/ HeldBy(r, Busy)}

ChargeInv ==
    /\ \A type \in Types : Cardinality(Charged(type)) <= Cap[type]
    /\ Cardinality(WeekCharged) <= WeeklyCeiling

\* Up to the second crash the pacer's stamp is at most a drive older than any
\* landed action, and a drive begins a gap after it.
PaceInv ==
    /\ crashes = 0 => up
    /\ crashes = 0 \/ (crashes = 1 /\ ~up) => \A r \in RowIds : rows[r].result # "gone"
    /\ up /\ crashes <= 1 => \A r \in Landed : 0 < last /\ landed[r] <= last + MaxDrive
    /\ crashes <= 1 => \A c \in Callers : call[c].pc = "drive" =>
           \A r \in Landed : landed[r] + MinGap <= call[c].minted + MaxDrive

\* A row an executor step may have touched keeps its stamps and its holder's
\* knowledge of it.
LEMMA HoldInvariant ==
    Inv /\ DriveInv /\ HoldInv /\ StampInv /\ [Next]_vars => HoldInv' /\ StampInv'
<1> SUFFICES ASSUME Inv, DriveInv, HoldInv, StampInv, [Next]_vars PROVE HoldInv' /\ StampInv'
  OBVIOUS
<1> USE ActionGateAssumption DEF HoldsRow, Busy
<1>t. /\ \A c \in Callers : call[c] \in CallType
      /\ \A r \in RowIds : rows[r] \in RowType /\ landed[r] \in Nat
      /\ now \in Nat /\ now > 0
      /\ \A c \in Callers : call[c].pc \in HoldsRow => call[c].row \in RowIds
  BY DEF Inv, TypeOK, CallsOK
<1>h. /\ \A c \in Callers : call[c].pc \in HoldsRow => HoldOK(c)
      /\ \A r \in RowIds : StampOK(r)
      /\ \A c, d \in Callers : /\ call[c].pc \in HoldsRow /\ call[d].pc \in HoldsRow
                               /\ call[c].row = call[d].row
                               => c = d
  BY DEF HoldInv, StampInv
\* Steps that leave the rows, and what landed, alone.
<1>1. ASSUME UNCHANGED <<rows, landed, now>>,
             \A c \in Callers : call'[c].pc \in HoldsRow =>
                 /\ call[c].pc \in HoldsRow /\ call'[c].row = call[c].row
                 /\ HoldOK(c)'
      PROVE  HoldInv' /\ StampInv'
  BY <1>1, <1>h DEF HoldInv, StampInv, StampOK, Stamp
<1>2. ASSUME NEW c \in Callers, NEW type \in Types, Check(c, type) PROVE HoldInv' /\ StampInv'
  <2>1. /\ UNCHANGED <<rows, landed, now>> /\ call'[c].pc = "create"
        /\ \A d \in Callers : d # c => call'[d] = call[d]
    BY <1>2 DEF Check, Idle, history, Inv, TypeOK
  <2> QED
    BY <1>1, <1>h, <2>1 DEF HoldOK
<1>3. ASSUME NEW c \in Callers, Create(c) PROVE HoldInv' /\ StampInv'
  <2>1. PICK r \in RowIds :
          /\ rows[r].result = "absent"
          /\ rows' = [rows EXCEPT ![r] = [result |-> "pending", type |-> call[c].type,
                                          created |-> now, executed |-> 0]]
          /\ call' = [call EXCEPT ![c].pc = "mint", ![c].row = r]
    BY <1>3 DEF Create
  <2>2. /\ rows'[r] = [result |-> "pending", type |-> call[c].type, created |-> now, executed |-> 0]
        /\ \A s \in RowIds : s # r => rows'[s] = rows[s]
    BY <2>1 DEF Inv, TypeOK
  <2>3. /\ call'[c].pc = "mint" /\ call'[c].row = r /\ call'[c].type = call[c].type
        /\ call'[c].minted = call[c].minted
        /\ \A d \in Callers : d # c => call'[d] = call[d]
    BY <2>1 DEF Inv, TypeOK, CallType
  <2>4. UNCHANGED <<landed, now>> /\ call[c].pc = "create"
    BY <1>3 DEF Create, history
  <2>5. \A d \in Callers : call[d].pc \in HoldsRow => call[d].row # r
    BY <2>1, <1>h, <1>t DEF HoldOK
  <2>6. landed[r] = 0
    BY <2>1, <1>h DEF StampOK
  <2>7. StampInv'
    BY <2>2, <2>4, <2>6, <1>h, <1>t DEF StampInv, StampOK, Stamp
  <2>8. \A d \in Callers : d # c /\ call'[d].pc \in HoldsRow => HoldOK(d)'
    BY <2>2, <2>3, <2>4, <2>5, <1>h, <1>t DEF HoldOK
  <2> QED
    BY <2>2, <2>3, <2>4, <2>5, <2>6, <2>7, <2>8, <1>h, <1>t DEF HoldInv, HoldOK
<1>4. ASSUME NEW c \in Callers, Mint(c) PROVE HoldInv' /\ StampInv'
  <2>1. /\ UNCHANGED <<rows, landed, now>> /\ call[c].pc = "mint"
        /\ call'[c] = [call[c] EXCEPT !.pc = "drive", !.minted = now]
        /\ \A d \in Callers : d # c => call'[d] = call[d]
    BY <1>4 DEF Mint, history, Inv, TypeOK, CallType
  <2>2. HoldOK(c)' /\ call'[c].row = call[c].row
    BY <2>1, <1>h, <1>t DEF HoldOK, CallType
  <2>3. \A d \in Callers : d # c /\ call'[d].pc \in HoldsRow => HoldOK(d)'
    BY <2>1, <1>h DEF HoldOK
  <2> QED
    BY <1>1, <2>1, <2>2, <2>3
<1>5. ASSUME NEW c \in Callers, MintRefused(c) PROVE HoldInv' /\ StampInv'
  <2>0. PICK r \in RowIds : call[c].row = r
    BY <1>5, <1>t DEF MintRefused
  <2>1. /\ UNCHANGED <<landed, now>> /\ call[c].pc = "mint"
        /\ rows'[r] = NoRow
        /\ \A s \in RowIds : s # r => rows'[s] = rows[s]
        /\ call'[c].pc = "idle"
        /\ \A d \in Callers : d # c => call'[d] = call[d]
    BY <2>0, <1>5, <1>t DEF MintRefused, history, Inv, TypeOK, Idle
  <2>2. landed[r] = 0 /\ \A d \in Callers : d # c /\ call[d].pc \in HoldsRow => call[d].row # r
    BY <2>0, <2>1, <1>h, <1>t DEF HoldOK
  <2>3. StampInv'
    BY <2>0, <2>1, <2>2, <1>h, <1>t DEF StampInv, StampOK, Stamp, NoRow
  <2>4. \A d \in Callers : d # c /\ call'[d].pc \in HoldsRow => HoldOK(d)'
    BY <2>0, <2>1, <2>2, <1>h, <1>t DEF HoldOK
  <2> QED
    BY <2>0, <2>1, <2>2, <2>3, <2>4, <1>h DEF HoldInv
<1>6. ASSUME NEW c \in Callers, PageFails(c) PROVE HoldInv' /\ StampInv'
  <2>1. /\ UNCHANGED <<rows, landed, now>> /\ call'[c].pc = "idle"
        /\ \A d \in Callers : d # c => call'[d] = call[d]
    BY <1>6 DEF PageFails, Idle, history, Inv, TypeOK
  <2> QED
    BY <1>1, <1>h, <2>1 DEF HoldOK
<1>7. ASSUME NEW c \in Callers, Lands(c) PROVE HoldInv' /\ StampInv'
  <2>0. PICK r \in RowIds : call[c].row = r
    BY <1>7, <1>t DEF Lands
  <2>1. /\ UNCHANGED <<rows, now>> /\ call[c].pc = "drive"
        /\ landed'[r] = now
        /\ \A s \in RowIds : s # r => landed'[s] = landed[s]
        /\ call'[c] = [call[c] EXCEPT !.pc = "landed"]
        /\ \A d \in Callers : d # c => call'[d] = call[d]
    BY <2>0, <1>7, <1>t DEF Lands, history, Inv, TypeOK
  <2>2. \A d \in Callers : d # c /\ call[d].pc \in HoldsRow => call[d].row # r
    BY <2>0, <2>1, <1>h, <1>t
  <2>3. now <= call[c].minted + MaxDrive
    BY <2>0, <2>1 DEF DriveInv, Driving
  <2>4. /\ rows[r].result = "pending" /\ rows[r].created = call[c].minted /\ rows[r].executed = 0
        /\ rows[r].type = call[c].type /\ call[c].minted <= now
        /\ call'[c].pc = "landed" /\ call'[c].row = r /\ call'[c].type = call[c].type
        /\ call'[c].minted = call[c].minted
    BY <2>0, <2>1, <1>h, <1>t DEF HoldOK, StampOK, CallType
  <2>5. StampInv'
    <3>1. StampOK(r)'
      BY <2>0, <2>1, <2>3, <2>4, <1>h, <1>t DEF StampOK, Stamp
    <3>2. \A s \in RowIds : s # r => StampOK(s)'
      BY <2>0, <2>1, <1>h DEF StampOK, Stamp
    <3> QED
      BY <2>0, <3>1, <3>2 DEF StampInv
  <2>6. HoldOK(c)'
    BY <2>0, <2>1, <2>4, <1>t DEF HoldOK
  <2>7. \A d \in Callers : d # c /\ call'[d].pc \in HoldsRow => HoldOK(d)'
    BY <2>0, <2>1, <2>2, <1>h, <1>t DEF HoldOK
  <2> QED
    <3>1. \A d \in Callers : call'[d].pc \in HoldsRow =>
              call[d].pc \in HoldsRow /\ call'[d].row = call[d].row
      BY <2>0, <2>1, <2>4
    <3>2. \A d \in Callers : call'[d].pc \in HoldsRow => HoldOK(d)'
      BY <2>6, <2>7
    <3> QED
      BY <2>5, <3>1, <3>2, <1>h DEF HoldInv
<1>8. ASSUME NEW c \in Callers, DriveFails(c) PROVE HoldInv' /\ StampInv'
  <2>0. PICK r \in RowIds : call[c].row = r
    BY <1>8, <1>t DEF DriveFails
  <2>1. /\ UNCHANGED <<landed, now>> /\ call[c].pc \in {"drive", "landed"}
        /\ rows'[r] = [rows[r] EXCEPT !.result = "failed", !.executed = now]
        /\ \A s \in RowIds : s # r => rows'[s] = rows[s]
        /\ call'[c].pc = "idle"
        /\ \A d \in Callers : d # c => call'[d] = call[d]
    BY <2>0, <1>8, <1>t DEF DriveFails, Idle, Inv, TypeOK, RowType
  <2>2. \A d \in Callers : d # c /\ call[d].pc \in HoldsRow => call[d].row # r
    BY <2>0, <2>1, <1>h, <1>t
  <2>3. /\ rows'[r].result = "failed" /\ rows'[r].executed = now
        /\ rows'[r].created = rows[r].created /\ rows[r].result = "pending"
    BY <2>0, <2>1, <1>h, <1>t DEF HoldOK, RowType
  <2>4. StampInv'
    <3>1. StampOK(r)'
      BY <2>0, <2>1, <2>3, <1>h, <1>t DEF StampOK, Stamp, RowType
    <3>2. \A s \in RowIds : s # r => StampOK(s)'
      BY <2>1, <1>h DEF StampOK, Stamp
    <3> QED
      BY <3>1, <3>2 DEF StampInv
  <2>5. \A d \in Callers : d # c /\ call'[d].pc \in HoldsRow => HoldOK(d)'
    BY <2>0, <2>1, <2>2, <1>h, <1>t DEF HoldOK
  <2> QED
    BY <2>0, <2>1, <2>2, <2>4, <2>5, <1>h DEF HoldInv
<1>9. ASSUME NEW c \in Callers, Returns(c) PROVE HoldInv' /\ StampInv'
  <2>1. /\ UNCHANGED <<rows, landed, now>> /\ call[c].pc = "landed"
        /\ call'[c] = [call[c] EXCEPT !.pc = "persist", !.minted = now]
        /\ \A d \in Callers : d # c => call'[d] = call[d]
    BY <1>9 DEF Returns, history, Inv, TypeOK, CallType
  <2>2. HoldOK(c)' /\ call'[c].row = call[c].row
    BY <2>1, <1>h, <1>t DEF HoldOK, CallType, StampOK
  <2>3. \A d \in Callers : d # c /\ call'[d].pc \in HoldsRow => HoldOK(d)'
    BY <2>1, <1>h DEF HoldOK
  <2> QED
    BY <1>1, <2>1, <2>2, <2>3
<1>10. ASSUME NEW c \in Callers, Persist(c) PROVE HoldInv' /\ StampInv'
  <2>0. PICK r \in RowIds, m \in Nat : call[c].row = r /\ call[c].minted = m
    BY <1>10, <1>t DEF Persist, CallType
  <2>1. /\ UNCHANGED <<landed, now>> /\ call[c].pc = "persist"
        /\ rows'[r] = [rows[r] EXCEPT !.result = "success", !.executed = m]
        /\ \A s \in RowIds : s # r => rows'[s] = rows[s]
        /\ call'[c] = [call[c] EXCEPT !.pc = "count"]
        /\ \A d \in Callers : d # c => call'[d] = call[d]
    BY <2>0, <1>10, <1>t DEF Persist, history, Inv, TypeOK, RowType
  <2>2. \A d \in Callers : d # c /\ call[d].pc \in HoldsRow => call[d].row # r
    BY <2>0, <2>1, <1>h, <1>t
  <2>3. /\ rows'[r].result = "success" /\ rows'[r].executed = m
        /\ rows'[r].created = rows[r].created /\ rows'[r].type = rows[r].type
        /\ rows[r].result = "pending" /\ rows[r].type = call[c].type
        /\ landed[r] > 0 /\ landed[r] <= m /\ m \in Nat /\ m <= now
        /\ call'[c].pc = "count" /\ call'[c].row = r /\ call'[c].type = call[c].type
        /\ call'[c].minted = m
    BY <2>0, <2>1, <1>h, <1>t DEF HoldOK, RowType, CallType
  <2>4. m > 0
    BY <2>0, <2>1 DEF DriveInv, Driving
  <2>5. StampInv'
    <3>1. StampOK(r)'
      BY <2>0, <2>1, <2>3, <2>4, <1>h, <1>t DEF StampOK, Stamp, RowType
    <3>2. \A s \in RowIds : s # r => StampOK(s)'
      BY <2>1, <1>h DEF StampOK, Stamp
    <3> QED
      BY <3>1, <3>2 DEF StampInv
  <2>6. HoldOK(c)'
    <3>1. landed'[r] = landed[r] /\ now' = now
      BY <2>1
    <3> QED  BY <2>3, <3>1 DEF HoldOK, Busy
  <2>7. \A d \in Callers : d # c /\ call'[d].pc \in HoldsRow => HoldOK(d)'
    BY <2>0, <2>1, <2>2, <1>h, <1>t DEF HoldOK
  <2> QED
    <3>1. \A d \in Callers : call'[d].pc \in HoldsRow =>
              call[d].pc \in HoldsRow /\ call'[d].row = call[d].row
      <4>1. call[c].pc \in HoldsRow /\ call'[c].row = call[c].row
        BY <2>0, <2>1, <2>3
      <4> QED
        BY <2>1, <4>1
    <3>2. \A d \in Callers : call'[d].pc \in HoldsRow => HoldOK(d)'
      BY <2>6, <2>7
    <3> QED
      BY <2>5, <3>1, <3>2, <1>h DEF HoldInv
<1>11. ASSUME NEW c \in Callers, Count(c) PROVE HoldInv' /\ StampInv'
  <2>1. /\ UNCHANGED <<rows, landed, now>> /\ call'[c].pc = "idle"
        /\ \A d \in Callers : d # c => call'[d] = call[d]
    BY <1>11 DEF Count, Idle, history, Inv, TypeOK
  <2> QED
    BY <1>1, <1>h, <2>1 DEF HoldOK
<1>12. ASSUME UNCHANGED <<rows, landed, now, call>> PROVE HoldInv' /\ StampInv'
  BY <1>1, <1>h, <1>12 DEF HoldOK
<1>13. CASE Crash
  BY <1>1, <1>13 DEF Crash, Idle
<1>14. CASE Boot
  <2>1. UNCHANGED <<landed, now, call>> /\ \A c \in Callers : call[c].pc = "idle"
    BY <1>14 DEF Boot, history, Inv, CallsOK
  <2>2. \A r \in RowIds :
          \/ rows'[r] = rows[r]
          \/ rows[r].result = "pending" /\ rows'[r] = [rows[r] EXCEPT !.result = "gone"]
    BY <1>14 DEF Boot
  <2>3. StampInv'
    <3> SUFFICES ASSUME NEW r \in RowIds PROVE StampOK(r)'
      BY DEF StampInv
    <3>1. StampOK(r) /\ landed' = landed /\ now' = now
      BY <2>1, <1>h DEF StampInv
    <3>2. CASE rows'[r] = rows[r]
      BY <3>1, <3>2 DEF StampOK, Stamp
    <3>3. CASE rows[r].result = "pending" /\ rows'[r] = [rows[r] EXCEPT !.result = "gone"]
      <4>1. rows'[r].result = "gone" /\ rows'[r].created = rows[r].created
            /\ rows'[r].executed = rows[r].executed
        BY <3>3, <1>t DEF RowType
      <4> QED  BY <3>1, <3>3, <4>1 DEF StampOK, Stamp
    <3> QED  BY <2>2, <3>2, <3>3
  <2> QED
    BY <2>1, <2>3 DEF HoldInv
<1>15. CASE Tick
  <2>1. UNCHANGED <<rows, landed, call>> /\ now' = now + 1 /\ \A c \in Callers : call[c].pc # "mint"
    BY <1>15 DEF Tick, history
  <2>2. StampInv'
    BY <2>1, <1>h, <1>t DEF StampInv, StampOK, Stamp, RowType
  <2>3. \A c \in Callers : call[c].pc \in HoldsRow => HoldOK(c)'
    BY <2>1, <1>h, <1>t DEF HoldOK, CallType
  <2> QED
    BY <2>1, <2>2, <2>3, <1>h DEF HoldInv
<1>16. ASSUME NEW kind \in {"pause", "resume"}, Command(kind) PROVE HoldInv' /\ StampInv'
  BY <1>12, <1>16 DEF Command
<1>17. CASE Append
  BY <1>12, <1>17 DEF Append, history
<1>18. CASE UNCHANGED vars
  BY <1>12, <1>18 DEF vars
<1> QED
  BY <1>2, <1>3, <1>4, <1>5, <1>6, <1>7, <1>8, <1>9, <1>10, <1>11, <1>13, <1>14, <1>15, <1>16,
     <1>17, <1>18 DEF Next, Executor

\* A later moment is not on an earlier day.
LEMMA DayMonotone ==
    ASSUME NEW a \in Nat, NEW b \in Nat, a <= b
    PROVE  DayOf(a) <= DayOf(b)
BY ActionGateAssumption, Z3 DEF DayOf

\* Only a mint makes a row a drive's; a success was one, or was a drive's.
LEMMA ChargeStep ==
    ASSUME Inv, HoldInv, [Next]_vars, NEW r \in RowIds
    PROVE  /\ rows'[r].result = "success" =>
                  HeldBy(r, Busy) \/ (rows[r].result = "success" /\ rows'[r] = rows[r])
           /\ HeldBy(r, Busy)' =>
                  HeldBy(r, Busy) \/ \E c \in Callers : Mint(c) /\ call[c].row = r
           /\ rows'[r].result = "success" \/ HeldBy(r, Busy)' => rows'[r].type = rows[r].type
<1> DEFINE Goal ==
           /\ rows'[r].result = "success" =>
                  HeldBy(r, Busy) \/ (rows[r].result = "success" /\ rows'[r] = rows[r])
           /\ HeldBy(r, Busy)' =>
                  HeldBy(r, Busy) \/ \E c \in Callers : Mint(c) /\ call[c].row = r
           /\ rows'[r].result = "success" \/ HeldBy(r, Busy)' => rows'[r].type = rows[r].type
<1> SUFFICES Goal
  OBVIOUS
<1>t. /\ call \in [Callers -> CallType] /\ rows \in [RowIds -> RowType]
      /\ \A c \in Callers : call[c] \in CallType
      /\ \A c \in Callers : call[c].pc \in HoldsRow => call[c].row \in RowIds
  BY DEF Inv, TypeOK, CallsOK
<1>1. ASSUME rows' = rows, \A c \in Callers : call'[c].pc \in Busy =>
                               call[c].pc \in Busy /\ call'[c].row = call[c].row
      PROVE  Goal
  BY <1>1 DEF HeldBy
<1>2. ASSUME NEW c \in Callers, NEW type \in Types, Check(c, type) PROVE Goal
  BY <1>1, <1>2, <1>t DEF Check, Idle, Busy
<1>3. ASSUME NEW c \in Callers, Create(c) PROVE Goal
  <2>1. PICK s \in RowIds :
          /\ rows' = [rows EXCEPT ![s] = [result |-> "pending", type |-> call[c].type,
                                          created |-> now, executed |-> 0]]
          /\ call' = [call EXCEPT ![c].pc = "mint", ![c].row = s]
          /\ rows[s].result = "absent"
    BY <1>3 DEF Create
  <2>2. \A d \in Callers : call'[d].pc \in Busy => call[d].pc \in Busy /\ call'[d] = call[d]
    BY <2>1, <1>t DEF Busy, CallType
  <2>3. \A d \in Callers : call[d].pc \in Busy => call[d].row # s
    BY <2>1, <1>t DEF HoldInv, HoldOK, HoldsRow, Busy
  <2>4. rows'[s].result = "pending" /\ \A q \in RowIds : q # s => rows'[q] = rows[q]
    BY <2>1, <1>t
  <2> QED
    BY <2>2, <2>3, <2>4 DEF HeldBy
<1>4. ASSUME NEW c \in Callers, Mint(c) PROVE Goal
  <2>1. rows' = rows /\ call'[c].row = call[c].row
        /\ \A d \in Callers : d # c => call'[d] = call[d]
    BY <1>4, <1>t DEF Mint, history, CallType
  <2> QED
    BY <1>4, <2>1 DEF HeldBy
<1>5. ASSUME NEW c \in Callers, MintRefused(c) PROVE Goal
  <2>1. PICK s \in RowIds : call[c].row = s
    BY <1>5, <1>t DEF MintRefused, HoldsRow
  <2>2. /\ \A d \in Callers : call'[d].pc \in Busy => call[d].pc \in Busy /\ call'[d] = call[d] /\ d # c
        /\ rows'[s] = NoRow
        /\ \A q \in RowIds : q # s => rows'[q] = rows[q]
    BY <1>5, <2>1, <1>t DEF MintRefused, Idle, Busy
  <2>3. \A d \in Callers : d # c /\ call[d].pc \in Busy => call[d].row # s
    BY <1>5, <2>1, <1>t DEF MintRefused, HoldInv, HoldsRow, Busy
  <2> QED
    BY <2>2, <2>3 DEF HeldBy, NoRow
<1>6. ASSUME NEW c \in Callers, PageFails(c) PROVE Goal
  BY <1>1, <1>6, <1>t DEF PageFails, Idle, Busy, history
<1>7. ASSUME NEW c \in Callers, Lands(c) PROVE Goal
  BY <1>1, <1>7, <1>t DEF Lands, Busy, CallType, history
<1>8. ASSUME NEW c \in Callers, DriveFails(c) PROVE Goal
  <2>1. PICK s \in RowIds : call[c].row = s
    BY <1>8, <1>t DEF DriveFails, HoldsRow, Busy
  <2>2. /\ \A d \in Callers : call'[d].pc \in Busy => call[d].pc \in Busy /\ call'[d] = call[d] /\ d # c
        /\ rows'[s].result = "failed"
        /\ \A q \in RowIds : q # s => rows'[q] = rows[q]
    BY <1>8, <2>1, <1>t DEF DriveFails, Idle, Busy, RowType
  <2>3. \A d \in Callers : d # c /\ call[d].pc \in Busy => call[d].row # s
    BY <1>8, <2>1, <1>t DEF DriveFails, HoldInv, HoldsRow, Busy
  <2> QED
    BY <2>2, <2>3 DEF HeldBy
<1>9. ASSUME NEW c \in Callers, Returns(c) PROVE Goal
  BY <1>1, <1>9, <1>t DEF Returns, Busy, CallType, history
<1>10. ASSUME NEW c \in Callers, Persist(c) PROVE Goal
  <2>1. PICK s \in RowIds : call[c].row = s
    BY <1>10, <1>t DEF Persist, HoldsRow, Busy
  <2>2. /\ \A d \in Callers : call'[d].pc \in Busy => call[d].pc \in Busy /\ call'[d].row = call[d].row
        /\ call[c].pc \in Busy
        /\ rows'[s].type = rows[s].type
        /\ \A q \in RowIds : q # s => rows'[q] = rows[q]
    BY <1>10, <2>1, <1>t DEF Persist, Busy, RowType, CallType
  <2> QED
    BY <2>1, <2>2 DEF HeldBy
<1>11. ASSUME NEW c \in Callers, Count(c) PROVE Goal
  BY <1>1, <1>11, <1>t DEF Count, Idle, Busy, history
<1>12. ASSUME NEW kind \in {"pause", "resume"}, Command(kind) PROVE Goal
  BY <1>1, <1>12 DEF Command
<1>13. CASE Append
  BY <1>1, <1>13 DEF Append, history
<1>14. CASE Crash
  BY <1>1, <1>14 DEF Crash, Idle, Busy
<1>15. CASE Boot
  <2>1. call' = call /\ \A c \in Callers : call[c].pc \notin Busy
    BY <1>15 DEF Boot, Inv, CallsOK, Busy
  <2>2. rows'[r] = rows[r] \/ rows'[r] = [rows[r] EXCEPT !.result = "gone"]
    BY <1>15 DEF Boot
  <2> QED
    BY <2>1, <2>2, <1>t DEF HeldBy, RowType
<1>16. CASE Tick
  BY <1>1, <1>16 DEF Tick, history
<1>17. CASE UNCHANGED vars
  BY <1>1, <1>17 DEF vars
<1> HIDE DEF Goal
<1> QED
  BY <1>2, <1>3, <1>4, <1>5, <1>6, <1>7, <1>8, <1>9, <1>10, <1>11, <1>12, <1>13, <1>14, <1>15,
     <1>16, <1>17 DEF Next, Executor

\* The windows in memory and the success rows change together, but for the row
\* that Persist has written and Count has not yet told.
LEMMA CountInvariant == Inv /\ HoldInv /\ CountInv /\ [Next]_vars => CountInv'
<1> SUFFICES ASSUME Inv, HoldInv, CountInv, [Next]_vars PROVE CountInv'
  OBVIOUS
<1>t. /\ call \in [Callers -> CallType] /\ rows \in [RowIds -> RowType] /\ counted \subseteq RowIds
      /\ \A c \in Callers : call[c] \in CallType
      /\ \A c \in Callers : call[c].pc \in HoldsRow => call[c].row \in RowIds
      /\ \A c \in Callers : call[c].pc \in HoldsRow =>
            rows[call[c].row].result = IF call[c].pc = "count" THEN "success" ELSE "pending"
  BY DEF Inv, TypeOK, CallsOK, HoldInv, HoldOK
<1>c. up => \A r \in RowIds : rows[r].result = "success" <=>
                r \in counted \/ \E c \in Callers : call[c].pc = "count" /\ call[c].row = r
  BY DEF CountInv, Succeeded, HeldBy
\* Steps that write no success and finish no count.
<1>1. ASSUME up' => up, counted' = counted,
             \A r \in RowIds : rows'[r].result = "success" <=> rows[r].result = "success",
             \A c \in Callers : call'[c].pc = "count" <=> call[c].pc = "count",
             \A c \in Callers : call[c].pc = "count" => call'[c] = call[c]
      PROVE  CountInv'
  BY <1>1, <1>c, <1>t DEF CountInv, Succeeded, HeldBy
<1>2. ASSUME NEW c \in Callers, NEW type \in Types, Check(c, type) PROVE CountInv'
  BY <1>1, <1>2, <1>t DEF Check, Idle, history
<1>3. ASSUME NEW c \in Callers, Create(c) PROVE CountInv'
  <2>1. PICK s \in RowIds :
          /\ rows' = [rows EXCEPT ![s] = [result |-> "pending", type |-> call[c].type,
                                          created |-> now, executed |-> 0]]
          /\ call' = [call EXCEPT ![c].pc = "mint", ![c].row = s]
          /\ rows[s].result = "absent"
    BY <1>3 DEF Create
  <2>2. \A r \in RowIds : rows'[r].result = "success" <=> rows[r].result = "success"
    BY <2>1, <1>t
  <2>3. \A d \in Callers : /\ call'[d].pc = "count" <=> call[d].pc = "count"
                           /\ call[d].pc = "count" => call'[d] = call[d]
    BY <1>3, <2>1, <1>t DEF Create, CallType
  <2> QED
    BY <1>1, <1>3, <2>2, <2>3 DEF Create
<1>4. ASSUME NEW c \in Callers, Mint(c) PROVE CountInv'
  BY <1>1, <1>4, <1>t DEF Mint, CallType, history
<1>5. ASSUME NEW c \in Callers, MintRefused(c) PROVE CountInv'
  <2>1. \A r \in RowIds : rows'[r].result = "success" <=> rows[r].result = "success"
    BY <1>5, <1>t DEF MintRefused, NoRow, HoldsRow
  <2> QED
    BY <1>1, <1>5, <2>1, <1>t DEF MintRefused, Idle
<1>6. ASSUME NEW c \in Callers, PageFails(c) PROVE CountInv'
  BY <1>1, <1>6, <1>t DEF PageFails, Idle, history
<1>7. ASSUME NEW c \in Callers, Lands(c) PROVE CountInv'
  BY <1>1, <1>7, <1>t DEF Lands, CallType, history
<1>8. ASSUME NEW c \in Callers, DriveFails(c) PROVE CountInv'
  <2>1. \A r \in RowIds : rows'[r].result = "success" <=> rows[r].result = "success"
    BY <1>8, <1>t DEF DriveFails, HoldsRow, Busy, RowType
  <2> QED
    BY <1>1, <1>8, <2>1, <1>t DEF DriveFails, Idle
<1>9. ASSUME NEW c \in Callers, Returns(c) PROVE CountInv'
  BY <1>1, <1>9, <1>t DEF Returns, CallType, history
<1>10. ASSUME NEW c \in Callers, Persist(c) PROVE CountInv'
  <2>1. PICK s \in RowIds : call[c].row = s
    BY <1>10, <1>t DEF Persist, HoldsRow, Busy
  <2>2. /\ rows'[s].result = "success"
        /\ \A q \in RowIds : q # s => rows'[q] = rows[q]
    BY <1>10, <2>1, <1>t DEF Persist, RowType
  <2>3. /\ call'[c].pc = "count" /\ call'[c].row = s /\ call[c].pc # "count"
        /\ \A d \in Callers : d # c => call'[d] = call[d]
    BY <1>10, <2>1, <1>t DEF Persist, CallType
  <2>4. counted' = counted /\ up' = up /\ up
    BY <1>10 DEF Persist
  <2> QED
    BY <2>2, <2>3, <2>4, <1>c, <1>t DEF CountInv, Succeeded, HeldBy
<1>11. ASSUME NEW c \in Callers, Count(c) PROVE CountInv'
  <2>1. PICK s \in RowIds : call[c].row = s
    BY <1>11, <1>t DEF Count, HoldsRow, Busy
  <2>2. /\ rows' = rows /\ counted' = counted \cup {s} /\ up' = up /\ up
        /\ call[c].pc = "count" /\ call'[c].pc = "idle"
        /\ \A d \in Callers : d # c => call'[d] = call[d]
    BY <1>11, <2>1, <1>t DEF Count, Idle
  <2> QED
    BY <2>1, <2>2, <1>c, <1>t DEF CountInv, Succeeded, HeldBy
<1>12. ASSUME NEW kind \in {"pause", "resume"}, Command(kind) PROVE CountInv'
  BY <1>1, <1>12 DEF Command
<1>13. CASE Append
  BY <1>1, <1>13 DEF Append, history
<1>14. CASE Crash
  BY <1>14 DEF Crash, CountInv
<1>15. CASE Boot
  <2>1. /\ counted' = Succeeded /\ \A c \in Callers : call'[c].pc # "count"
        /\ \A r \in RowIds : rows'[r].result = "success" <=> rows[r].result = "success"
    BY <1>15, <1>t DEF Boot, Inv, CallsOK, RowType
  <2> QED
    BY <2>1 DEF CountInv, Succeeded, HeldBy
<1>16. CASE Tick
  BY <1>1, <1>16 DEF Tick, history
<1>17. CASE UNCHANGED vars
  BY <1>1, <1>17 DEF vars
<1> QED
  BY <1>2, <1>3, <1>4, <1>5, <1>6, <1>7, <1>8, <1>9, <1>10, <1>11, <1>12, <1>13, <1>14, <1>15,
     <1>16, <1>17 DEF Next, Executor

\* A set that gains at most one element grows by at most one.
LEMMA GrowsByOne ==
    ASSUME NEW S, IsFiniteSet(S), NEW x, NEW T \in SUBSET (S \cup {x})
    PROVE  /\ IsFiniteSet(T) /\ Cardinality(T) \in Nat /\ Cardinality(S) \in Nat
           /\ Cardinality(T) <= Cardinality(S) + 1
<1>1. Cardinality(S) \in Nat
  BY FS_CardinalityType
<1>2. /\ IsFiniteSet(S \cup {x})
      /\ Cardinality(S \cup {x}) = Cardinality(S) \/ Cardinality(S \cup {x}) = Cardinality(S) + 1
  BY FS_AddElement
<1>3. IsFiniteSet(T) /\ Cardinality(T) <= Cardinality(S \cup {x}) /\ Cardinality(T) \in Nat
  BY <1>2, FS_Subset, FS_CardinalityType
<1> QED
  BY <1>1, <1>2, <1>3

\* At most one row is a drive's, so what a cap is charged with is finite.
LEMMA ChargeFinite ==
    ASSUME Inv, DriveInv, LostInv, StampInv
    PROVE  /\ \A type \in Types : IsFiniteSet(Charged(type))
           /\ IsFiniteSet(WeekCharged)
<1>1. PICK held : \A c \in Driving : call[c].row = held
  BY DEF DriveInv, OneDriveAtATime
<1> DEFINE Seen == Landed \cup {held}
<1>2. IsFiniteSet(Seen)
  BY FS_AddElement DEF LostInv
<1>3. \A type \in Types : Charged(type) \in SUBSET Seen
  BY <1>1 DEF Charged, HeldBy, StampInv, StampOK, Landed, Driving
<1>4. WeekCharged \in SUBSET Seen
  BY <1>1 DEF WeekCharged, HeldBy, StampInv, StampOK, Landed, Driving
<1> HIDE DEF Seen
<1> QED
  BY <1>2, <1>3, <1>4, FS_Subset

\* A mint finds the running total below the cap and adds one; nothing else
\* adds, and midnight only takes away.
LEMMA ChargeInvariant ==
    Inv /\ DriveInv /\ HoldInv /\ StampInv /\ CountInv /\ LostInv /\ ChargeInv /\ [Next]_vars
        => ChargeInv'
<1> SUFFICES ASSUME Inv, DriveInv, HoldInv, StampInv, CountInv, LostInv, ChargeInv, [Next]_vars
             PROVE  ChargeInv'
  OBVIOUS
<1> USE ActionGateAssumption
<1>t. /\ call \in [Callers -> CallType] /\ rows \in [RowIds -> RowType] /\ counted \subseteq RowIds
      /\ \A r \in RowIds : rows[r] \in RowType
      /\ \A c \in Callers : call[c] \in CallType
      /\ \A c \in Callers : call[c].pc \in HoldsRow => call[c].row \in RowIds
      /\ now \in Nat
  BY DEF Inv, TypeOK, CallsOK
<1>n. now' = now \/ (now' = now + 1 /\ rows' = rows /\ call' = call)
  BY DEF Next, Executor, Check, Create, Mint, MintRefused, PageFails, Lands, DriveFails,
         Returns, Persist, Count, Command, Append, Crash, Boot, Tick, vars
<1>d. \A r \in RowIds : rows[r].executed \in Nat /\ rows[r].executed <= now
  BY <1>t DEF StampInv, StampOK, RowType
\* What was not charged for before the step is a drive just minted.
<1>1. ASSUME NEW r \in RowIds, NEW type \in Types, r \in Charged(type)'
      PROVE  r \in Charged(type) \/ \E c \in Callers : Mint(c) /\ call[c].row = r
  <2>1. /\ rows'[r].result = "success" =>
               HeldBy(r, Busy) \/ (rows[r].result = "success" /\ rows'[r] = rows[r])
        /\ HeldBy(r, Busy)' =>
               HeldBy(r, Busy) \/ \E c \in Callers : Mint(c) /\ call[c].row = r
        /\ rows'[r].result = "success" \/ HeldBy(r, Busy)' => rows'[r].type = rows[r].type
    BY ChargeStep
  <2>2. rows[r].type = type
    BY <1>1, <2>1 DEF Charged
  <2>3. CASE HeldBy(r, Busy)
    BY <2>2, <2>3 DEF Charged
  <2>4. CASE ~HeldBy(r, Busy) /\ HeldBy(r, Busy)'
    BY <2>1, <2>4
  <2>5. CASE ~HeldBy(r, Busy) /\ ~HeldBy(r, Busy)'
    <3>1. /\ rows'[r].result = "success" /\ DayOf(rows'[r].executed) = DayOf(now')
      BY <1>1, <2>5 DEF Charged, DayOf
    <3>2. rows[r].result = "success" /\ DayOf(rows[r].executed) = DayOf(now')
      BY <2>1, <2>5, <3>1
    <3>3. DayOf(now) = DayOf(now')
      <4>1. CASE now' = now
        BY <4>1 DEF DayOf
      <4>2. CASE now' = now + 1
        <5>1. DayOf(rows[r].executed) <= DayOf(now) /\ DayOf(now) <= DayOf(now + 1)
          BY <1>d, <1>t, DayMonotone
        <5>2. DayOf(now) \in Nat /\ DayOf(now + 1) \in Nat
          BY <1>t, Z3 DEF DayOf
        <5> QED
          BY <3>2, <4>2, <5>1, <5>2
      <4> QED
        BY <1>n, <4>1, <4>2
    <3> QED
      BY <2>2, <3>2, <3>3 DEF Charged
  <2> QED
    BY <2>3, <2>4, <2>5
<1>2. ASSUME NEW r \in RowIds, r \in WeekCharged'
      PROVE  r \in WeekCharged \/ \E c \in Callers : Mint(c) /\ call[c].row = r
  <2>1. /\ rows'[r].result = "success" =>
               HeldBy(r, Busy) \/ (rows[r].result = "success" /\ rows'[r] = rows[r])
        /\ HeldBy(r, Busy)' =>
               HeldBy(r, Busy) \/ \E c \in Callers : Mint(c) /\ call[c].row = r
        /\ rows'[r].result = "success" \/ HeldBy(r, Busy)' => rows'[r].type = rows[r].type
    BY ChargeStep
  <2>2. rows[r].type = "connect"
    BY <1>2, <2>1 DEF WeekCharged
  <2>3. CASE HeldBy(r, Busy)
    BY <2>2, <2>3 DEF WeekCharged
  <2>4. CASE ~HeldBy(r, Busy) /\ HeldBy(r, Busy)'
    BY <2>1, <2>4
  <2>5. CASE ~HeldBy(r, Busy) /\ ~HeldBy(r, Busy)'
    <3>1. rows'[r].result = "success" /\ rows'[r].executed + WeekLen > now'
      BY <1>2, <2>5 DEF WeekCharged
    <3>2. rows[r].result = "success" /\ rows[r].executed + WeekLen > now'
      BY <2>1, <2>5, <3>1
    <3>3. rows[r].executed + WeekLen > now
      BY <3>2, <1>n, <1>d, <1>t
    <3> QED
      BY <2>2, <3>2, <3>3 DEF WeekCharged
  <2> QED
    BY <2>3, <2>4, <2>5
<1>f. /\ \A type \in Types : IsFiniteSet(Charged(type)) /\ Cardinality(Charged(type)) \in Nat
      /\ IsFiniteSet(WeekCharged) /\ Cardinality(WeekCharged) \in Nat
  BY ChargeFinite, FS_CardinalityType
<1>3. ASSUME NEW c \in Callers, Mint(c) PROVE ChargeInv'
  <2>1. PICK gap \in Gaps : Allowed(call[c].type, gap)
    BY <1>3 DEF Mint
  <2>2. PICK r \in RowIds : call[c].row = r
    BY <1>3, <1>t DEF Mint, HoldsRow
  <2>3. \A d \in Callers : call[d].pc \notin Busy
    <3>1. last # 0 => now >= last + gap
      BY <2>1 DEF Allowed
    <3>2. gap \in Nat /\ gap >= MinGap
      BY DEF Gaps
    <3>3. \A d \in Callers : call[d].minted \in Nat
      BY <1>t DEF CallType
    <3>4. last \in Nat
      BY DEF Inv, TypeOK
    <3> QED
      BY <3>1, <3>2, <3>3, <3>4, <1>t DEF DriveInv, Driving
  <2>4. \A d \in Callers : Mint(d) => d = c
    <3> SUFFICES ASSUME NEW d \in Callers, Mint(d) PROVE d = c
      OBVIOUS
    <3>1. call[d].pc = "mint" /\ call'[d].pc = "drive"
      BY <1>t DEF Mint, CallType
    <3> QED
      BY <1>3, <3>1, <1>t DEF Mint
  <2>5. Succeeded = counted
    BY <1>3, <2>3 DEF Mint, CountInv, HeldBy, Busy
  <2>6. \A q \in RowIds : ~HeldBy(q, Busy)
    BY <2>3 DEF HeldBy
  <2>7. rows[r].type = call[c].type
    BY <1>3, <2>2 DEF Mint, HoldInv, HoldOK, HoldsRow
  <2>8. ASSUME NEW type \in Types PROVE Cardinality(Charged(type))' <= Cap[type]
    <3>1. CASE type = call[c].type
      <4>1. Charged(type) = {q \in counted : rows[q].type = type /\ DayOf(rows[q].executed) = DayOf(now)}
        BY <2>5, <2>6, <1>t DEF Charged, Succeeded
      <4>2. Cardinality(Charged(type)) < Cap[type]
        BY <2>1, <3>1, <4>1 DEF Allowed, UsedToday
      <4>3. Charged(type)' \in SUBSET (Charged(type) \cup {r})
        <5> SUFFICES ASSUME NEW q \in RowIds, q \in Charged(type)' PROVE q \in Charged(type) \cup {r}
          BY DEF Charged
        <5> QED
          BY <1>1, <2>2, <2>4
      <4> QED
        BY <4>2, <4>3, <1>f, GrowsByOne
    <3>2. CASE type # call[c].type
      <4>1. Charged(type)' \in SUBSET Charged(type)
        <5> SUFFICES ASSUME NEW q \in RowIds, q \in Charged(type)' PROVE q \in Charged(type)
          BY DEF Charged
        <5>1. rows'[q].type = type /\ rows' = rows
          BY <1>3 DEF Charged, Mint
        <5> QED
          BY <1>1, <2>2, <2>4, <2>7, <3>2, <5>1
      <4>2. /\ Cardinality(Charged(type)') \in Nat
            /\ Cardinality(Charged(type)') <= Cardinality(Charged(type))
        BY <4>1, <1>f, FS_Subset, FS_CardinalityType
      <4> QED
        BY <4>2, <1>f DEF ChargeInv
    <3> QED
      BY <3>1, <3>2
  <2>9. Cardinality(WeekCharged)' <= WeeklyCeiling
    <3>1. CASE call[c].type = "connect"
      <4>1. WeekCharged = {q \in counted : rows[q].type = "connect" /\ rows[q].executed + WeekLen > now}
        BY <2>5, <2>6, <1>t DEF WeekCharged, Succeeded
      <4>2. Cardinality(WeekCharged) < WeeklyCeiling
        BY <2>1, <3>1, <4>1 DEF Allowed, InvitesLast7d
      <4>3. WeekCharged' \in SUBSET (WeekCharged \cup {r})
        <5> SUFFICES ASSUME NEW q \in RowIds, q \in WeekCharged' PROVE q \in WeekCharged \cup {r}
          BY DEF WeekCharged
        <5> QED
          BY <1>2, <2>2, <2>4
      <4> QED
        BY <4>2, <4>3, <1>f, GrowsByOne
    <3>2. CASE call[c].type # "connect"
      <4>1. WeekCharged' \in SUBSET WeekCharged
        <5> SUFFICES ASSUME NEW q \in RowIds, q \in WeekCharged' PROVE q \in WeekCharged
          BY DEF WeekCharged
        <5>1. rows'[q].type = "connect" /\ rows' = rows
          BY <1>3 DEF WeekCharged, Mint
        <5> QED
          BY <1>2, <2>2, <2>4, <2>7, <3>2, <5>1
      <4>2. /\ Cardinality(WeekCharged') \in Nat
            /\ Cardinality(WeekCharged') <= Cardinality(WeekCharged)
        BY <4>1, <1>f, FS_Subset, FS_CardinalityType
      <4> QED
        BY <4>2, <1>f DEF ChargeInv
    <3> QED
      BY <3>1, <3>2
  <2> QED
    BY <2>8, <2>9 DEF ChargeInv
<1>4. ASSUME \A c \in Callers : ~Mint(c) PROVE ChargeInv'
  <2>1. ASSUME NEW type \in Types PROVE Cardinality(Charged(type))' <= Cap[type]
    <3>1. Charged(type)' \in SUBSET Charged(type)
      BY <1>1, <1>4 DEF Charged
    <3>2. /\ Cardinality(Charged(type)') \in Nat
          /\ Cardinality(Charged(type)') <= Cardinality(Charged(type))
      BY <3>1, <1>f, FS_Subset, FS_CardinalityType
    <3> QED
      BY <3>2, <1>f DEF ChargeInv
  <2>2. WeekCharged' \in SUBSET WeekCharged
    BY <1>2, <1>4 DEF WeekCharged
  <2>3. /\ Cardinality(WeekCharged') \in Nat
        /\ Cardinality(WeekCharged') <= Cardinality(WeekCharged)
    BY <2>2, <1>f, FS_Subset, FS_CardinalityType
  <2> QED
    BY <2>1, <2>3, <1>f DEF ChargeInv
<1> QED
  BY <1>3, <1>4

\* Only a landed drive that fails, or a crash, leaves an action no row reports;
\* both are counted.
LEMMA LostInvariant ==
    Inv /\ DriveInv /\ HoldInv /\ StampInv /\ LostInv /\ [Next]_vars => LostInv'
<1> SUFFICES ASSUME Inv, DriveInv, HoldInv, StampInv, LostInv, [Next]_vars PROVE LostInv'
  OBVIOUS
<1>t. /\ call \in [Callers -> CallType] /\ rows \in [RowIds -> RowType] /\ landed \in [RowIds -> Nat]
      /\ \A c \in Callers : call[c] \in CallType
      /\ \A c \in Callers : call[c].pc \in HoldsRow => call[c].row \in RowIds
      /\ now \in Nat /\ now > 0 /\ lost \in Nat
  BY DEF Inv, TypeOK, CallsOK
<1>h. /\ \A c \in Callers : call[c].pc \in HoldsRow =>
            /\ rows[call[c].row].result = IF call[c].pc = "count" THEN "success" ELSE "pending"
            /\ landed[call[c].row] > 0 <=> call[c].pc \in {"landed", "persist", "count"}
      /\ \A c, d \in Callers : /\ call[c].pc \in HoldsRow /\ call[d].pc \in HoldsRow
                               /\ call[c].row = call[d].row
                               => c = d
  BY DEF HoldInv, HoldOK
<1>f. IsFiniteSet(Landed) /\ IsFiniteSet(Orphans) /\ Cardinality(Orphans) \in Nat
  <2>1. Orphans \in SUBSET Landed
    BY DEF Orphans
  <2> QED
    BY <2>1, FS_Subset, FS_CardinalityType DEF LostInv
\* Steps after which every orphan was one before.
<1>1. ASSUME landed' = landed, lost' = lost,
             \A r \in RowIds : landed[r] > 0 /\ rows'[r].result # "success" => rows[r].result # "success",
             \A c \in Callers :
                 call[c].pc \in {"landed", "persist"} /\ rows'[call[c].row].result # "success" =>
                     call'[c].pc \in {"landed", "persist"} /\ call'[c].row = call[c].row
      PROVE  LostInv'
  <2>1. Landed' = Landed
    BY <1>1 DEF Landed
  <2>2. Orphans' \in SUBSET Orphans
    <3> SUFFICES ASSUME NEW r \in Orphans' PROVE r \in Orphans
      OBVIOUS
    <3>1. r \in RowIds /\ landed[r] > 0 /\ rows'[r].result # "success"
          /\ \A c \in Callers : ~(call'[c].pc \in {"landed", "persist"} /\ call'[c].row = r)
      BY <1>1 DEF Orphans, Landed, HeldBy
    <3> QED
      BY <1>1, <3>1 DEF Orphans, Landed, HeldBy
  <2>3. Cardinality(Orphans') \in Nat /\ Cardinality(Orphans') <= Cardinality(Orphans)
    BY <2>2, <1>f, FS_Subset, FS_CardinalityType
  <2> QED
    BY <1>1, <1>f, <1>t, <2>1, <2>3 DEF LostInv
<1>2. ASSUME NEW c \in Callers, NEW type \in Types, Check(c, type) PROVE LostInv'
  BY <1>1, <1>2, <1>t DEF Check, Idle, history
<1>3. ASSUME NEW c \in Callers, Create(c) PROVE LostInv'
  <2>1. PICK s \in RowIds :
          /\ rows' = [rows EXCEPT ![s] = [result |-> "pending", type |-> call[c].type,
                                          created |-> now, executed |-> 0]]
          /\ call' = [call EXCEPT ![c].pc = "mint", ![c].row = s]
          /\ rows[s].result = "absent"
    BY <1>3 DEF Create
  <2>2. \A r \in RowIds : rows'[r].result # "success" => rows[r].result # "success"
    BY <2>1, <1>t
  <2>3. \A d \in Callers : call[d].pc \in {"landed", "persist"} => call'[d] = call[d]
    BY <1>3, <2>1, <1>t DEF Create, CallType
  <2> QED
    BY <1>1, <1>3, <2>2, <2>3 DEF Create, history
<1>4. ASSUME NEW c \in Callers, Mint(c) PROVE LostInv'
  BY <1>1, <1>4, <1>t DEF Mint, CallType, history
<1>5. ASSUME NEW c \in Callers, MintRefused(c) PROVE LostInv'
  <2>1. \A r \in RowIds : landed[r] > 0 => rows'[r] = rows[r]
    BY <1>5, <1>t, <1>h DEF MintRefused, HoldsRow
  <2> QED
    BY <1>1, <1>5, <2>1, <1>t DEF MintRefused, Idle, history
<1>6. ASSUME NEW c \in Callers, PageFails(c) PROVE LostInv'
  BY <1>1, <1>6, <1>t DEF PageFails, Idle, history
<1>7. ASSUME NEW c \in Callers, Lands(c) PROVE LostInv'
  <2>1. PICK s \in RowIds : call[c].row = s
    BY <1>7, <1>t DEF Lands, HoldsRow, Busy
  <2>2. /\ landed'[s] = now /\ \A q \in RowIds : q # s => landed'[q] = landed[q]
        /\ rows' = rows /\ lost' = lost
    BY <1>7, <2>1, <1>t DEF Lands
  <2>3. call'[c].pc = "landed" /\ call'[c].row = s
    BY <1>7, <2>1, <1>t DEF Lands, CallType
  <2>4. \A d \in Callers : d # c => call'[d] = call[d]
    BY <1>7, <1>t DEF Lands
  <2>5. Landed' \in SUBSET (Landed \cup {s})
    BY <2>2 DEF Landed
  <2>6. Orphans' \in SUBSET Orphans
    <3> SUFFICES ASSUME NEW r \in Orphans' PROVE r \in Orphans
      OBVIOUS
    <3>1. r \in RowIds /\ landed'[r] > 0 /\ rows[r].result # "success"
          /\ \A d \in Callers : ~(call'[d].pc \in {"landed", "persist"} /\ call'[d].row = r)
      BY <2>2 DEF Orphans, Landed, HeldBy
    <3>2. r # s
      BY <2>3, <3>1
    <3>3. call[c].pc = "drive"
      BY <1>7 DEF Lands
    <3> QED
      BY <2>2, <2>4, <3>1, <3>2, <3>3 DEF Orphans, Landed, HeldBy
  <2>7. IsFiniteSet(Landed')
    BY <2>5, <1>f, GrowsByOne
  <2>8. Cardinality(Orphans') \in Nat /\ Cardinality(Orphans') <= Cardinality(Orphans)
    BY <2>6, <1>f, FS_Subset, FS_CardinalityType
  <2> QED
    BY <2>2, <2>7, <2>8, <1>f, <1>t DEF LostInv
<1>8. ASSUME NEW c \in Callers, DriveFails(c) PROVE LostInv'
  <2>1. PICK s \in RowIds : call[c].row = s
    BY <1>8, <1>t DEF DriveFails, HoldsRow, Busy
  <2>2. /\ landed' = landed /\ rows'[s].result = "failed" /\ rows[s].result # "success"
        /\ \A q \in RowIds : q # s => rows'[q] = rows[q]
        /\ \A d \in Callers : d # c => call'[d] = call[d]
    BY <1>8, <2>1, <1>t, <1>h DEF DriveFails, RowType, HoldsRow, Busy
  <2>3. CASE call[c].pc = "drive"
    <3>1. landed[s] = 0 /\ lost' = lost
      BY <1>8, <2>1, <2>3, <1>h, <1>t DEF DriveFails, HoldsRow, Busy
    <3> QED
      BY <1>1, <2>1, <2>2, <2>3, <3>1, <1>t
  <2>4. CASE call[c].pc = "landed"
    <3>1. lost' = lost + 1 /\ Landed' = Landed
      BY <1>8, <2>2, <2>4 DEF DriveFails, Landed
    <3>2. Orphans' \in SUBSET (Orphans \cup {s})
      <4> SUFFICES ASSUME NEW r \in Orphans', r # s PROVE r \in Orphans
        OBVIOUS
      <4>1. r \in RowIds /\ landed[r] > 0 /\ rows'[r].result # "success"
            /\ \A d \in Callers : ~(call'[d].pc \in {"landed", "persist"} /\ call'[d].row = r)
        BY <2>2 DEF Orphans, Landed, HeldBy
      <4> QED
        BY <2>1, <2>2, <4>1 DEF Orphans, Landed, HeldBy
    <3>3. Cardinality(Orphans') \in Nat /\ Cardinality(Orphans') <= Cardinality(Orphans) + 1
      BY <3>2, <1>f, GrowsByOne
    <3> QED
      BY <3>1, <3>3, <1>f, <1>t DEF LostInv
  <2> QED
    BY <1>8, <2>3, <2>4 DEF DriveFails
<1>9. ASSUME NEW c \in Callers, Returns(c) PROVE LostInv'
  BY <1>1, <1>9, <1>t DEF Returns, CallType, history
<1>10. ASSUME NEW c \in Callers, Persist(c) PROVE LostInv'
  <2>1. PICK s \in RowIds : call[c].row = s
    BY <1>10, <1>t DEF Persist, HoldsRow, Busy
  <2>2. /\ landed' = landed /\ lost' = lost /\ rows'[s].result = "success"
        /\ \A q \in RowIds : q # s => rows'[q] = rows[q]
        /\ \A d \in Callers : d # c => call'[d] = call[d]
    BY <1>10, <2>1, <1>t DEF Persist, RowType, history
  <2> QED
    BY <1>1, <2>1, <2>2
<1>11. ASSUME NEW c \in Callers, Count(c) PROVE LostInv'
  BY <1>1, <1>11, <1>t DEF Count, Idle, history
<1>12. ASSUME NEW kind \in {"pause", "resume"}, Command(kind) PROVE LostInv'
  BY <1>1, <1>12 DEF Command
<1>13. CASE Append
  BY <1>1, <1>13 DEF Append, history
<1>14. CASE Crash
  <2> DEFINE Lost == {c \in Callers : call[c].pc \in {"landed", "persist"}}
  <2>1. landed' = landed /\ rows' = rows /\ Landed' = Landed /\ lost' = lost + Cardinality(Lost)
    BY <1>14 DEF Crash, Landed
  <2>2. CASE Lost = {}
    <3>1. Orphans' \in SUBSET Orphans
      BY <2>1, <2>2 DEF Orphans, HeldBy
    <3>2. Cardinality(Orphans') \in Nat /\ Cardinality(Orphans') <= Cardinality(Orphans)
      BY <3>1, <1>f, FS_Subset, FS_CardinalityType
    <3>3. Cardinality(Lost) = 0
      BY <2>2, FS_EmptySet
    <3> QED
      BY <2>1, <3>2, <3>3, <1>f, <1>t DEF LostInv
  <2>3. ASSUME NEW c \in Lost PROVE LostInv'
    <3>1. Lost = {c}
      BY DEF DriveInv, OneDriveAtATime, Driving, Busy
    <3>2. Orphans' \in SUBSET (Orphans \cup {call[c].row})
      BY <2>1, <3>1 DEF Orphans, HeldBy
    <3>3. Cardinality(Orphans') \in Nat /\ Cardinality(Orphans') <= Cardinality(Orphans) + 1
      BY <3>2, <1>f, GrowsByOne
    <3>4. Cardinality(Lost) = 1
      BY <3>1, FS_Singleton
    <3> HIDE DEF Lost
    <3> QED
      BY <2>1, <3>3, <3>4, <1>f, <1>t DEF LostInv
  <2> QED
    BY <2>2, <2>3
<1>15. CASE Boot
  <2>1. /\ landed' = landed /\ lost' = lost /\ call' = call
        /\ \A r \in RowIds : rows'[r].result # "success" => rows[r].result # "success"
    BY <1>15, <1>t DEF Boot, RowType, history
  <2> QED
    BY <1>1, <2>1
<1>16. CASE Tick
  BY <1>1, <1>16 DEF Tick, history
<1>17. CASE UNCHANGED vars
  BY <1>1, <1>17 DEF vars
<1> QED
  BY <1>2, <1>3, <1>4, <1>5, <1>6, <1>7, <1>8, <1>9, <1>10, <1>11, <1>12, <1>13, <1>14, <1>15,
     <1>16, <1>17 DEF Next, Executor

\* The pacer's stamp follows what lands, and the rows restore it at the first
\* boot: a row still pending then was created as its drive began.
LEMMA PaceInvariant ==
    Inv /\ DriveInv /\ HoldInv /\ StampInv /\ PaceInv /\ Spaced /\ [Next]_vars
        => PaceInv' /\ Spaced'
<1> SUFFICES ASSUME Inv, DriveInv, HoldInv, StampInv, PaceInv, Spaced, [Next]_vars
             PROVE  PaceInv' /\ Spaced'
  OBVIOUS
<1> USE ActionGateAssumption
<1>t. /\ call \in [Callers -> CallType] /\ rows \in [RowIds -> RowType] /\ landed \in [RowIds -> Nat]
      /\ \A c \in Callers : call[c] \in CallType
      /\ \A c \in Callers : call[c].pc \in HoldsRow => call[c].row \in RowIds
      /\ now \in Nat /\ now > 0 /\ last \in Nat /\ crashes \in Nat
  BY DEF Inv, TypeOK, CallsOK
\* Steps that land nothing, mint nothing and keep the process alive.
<1>1. ASSUME up' = up, crashes' = crashes, landed' = landed, last' \in Nat, last' >= last,
             \A r \in RowIds : rows'[r].result = "gone" => rows[r].result = "gone",
             \A c \in Callers : call'[c].pc = "drive" =>
                 call[c].pc = "drive" /\ call'[c].minted = call[c].minted
      PROVE  PaceInv' /\ Spaced'
  <2>1. Landed' = Landed
    BY <1>1 DEF Landed
  <2>2. Spaced'
    BY <1>1 DEF Spaced
  <2>3. \A r \in Landed : landed[r] \in Nat
    BY <1>t DEF Landed
  <2>4. up' /\ crashes' <= 1 => \A r \in Landed' : 0 < last' /\ landed'[r] <= last' + MaxDrive
    BY <1>1, <2>1, <2>3, <1>t DEF PaceInv
  <2>5. crashes' <= 1 => \A c \in Callers : call'[c].pc = "drive" =>
           \A r \in Landed' : landed'[r] + MinGap <= call'[c].minted + MaxDrive
    BY <1>1, <2>1 DEF PaceInv
  <2> QED
    BY <1>1, <2>2, <2>4, <2>5 DEF PaceInv
<1>2. ASSUME NEW c \in Callers, NEW type \in Types, Check(c, type) PROVE PaceInv' /\ Spaced'
  BY <1>1, <1>2, <1>t DEF Check, Idle, history
<1>3. ASSUME NEW c \in Callers, Create(c) PROVE PaceInv' /\ Spaced'
  BY <1>1, <1>3, <1>t DEF Create, CallType, history
<1>4. ASSUME NEW c \in Callers, Mint(c) PROVE PaceInv' /\ Spaced'
  <2>1. PICK gap \in Gaps : Allowed(call[c].type, gap)
    BY <1>4 DEF Mint
  <2>2. gap \in Nat /\ gap >= MinGap /\ (last # 0 => now >= last + gap)
    BY <2>1 DEF Allowed, Gaps
  <2>3. /\ up /\ up' = up /\ crashes' = crashes /\ landed' = landed /\ rows' = rows
        /\ call'[c].minted = now
        /\ \A d \in Callers : d # c => call'[d] = call[d]
    BY <1>4, <1>t DEF Mint, CallType, history
  <2>4. last' \in Nat /\ last' >= last
    BY <1>4, <1>t DEF Mint, Record
  <2>5. Landed' = Landed /\ \A r \in Landed : landed[r] \in Nat
    BY <2>3, <1>t DEF Landed
  <2>6. Spaced'
    BY <2>3 DEF Spaced
  <2>7. crashes <= 1 => \A r \in Landed : landed[r] + MinGap <= now + MaxDrive
    BY <2>2, <2>3, <2>5, <1>t DEF PaceInv
  <2>8. crashes <= 1 => \A r \in Landed : 0 < last' /\ landed[r] <= last' + MaxDrive
    BY <2>3, <2>4, <2>5, <1>t DEF PaceInv
  <2>9. crashes' <= 1 => \A d \in Callers : call'[d].pc = "drive" =>
           \A r \in Landed' : landed'[r] + MinGap <= call'[d].minted + MaxDrive
    <3> SUFFICES ASSUME crashes <= 1, NEW d \in Callers, call'[d].pc = "drive", NEW r \in Landed
                 PROVE  landed[r] + MinGap <= call'[d].minted + MaxDrive
      BY <2>3, <2>5
    <3>1. CASE d = c
      BY <2>3, <2>7, <3>1
    <3>2. CASE d # c
      BY <2>3, <3>2 DEF PaceInv
    <3> QED
      BY <3>1, <3>2
  <2> QED
    BY <2>3, <2>5, <2>6, <2>8, <2>9 DEF PaceInv
<1>5. ASSUME NEW c \in Callers, MintRefused(c) PROVE PaceInv' /\ Spaced'
  <2>1. \A r \in RowIds : rows'[r].result = "gone" => rows[r].result = "gone"
    BY <1>5, <1>t DEF MintRefused, NoRow
  <2> QED
    BY <1>1, <1>5, <2>1, <1>t DEF MintRefused, Idle, history
<1>6. ASSUME NEW c \in Callers, PageFails(c) PROVE PaceInv' /\ Spaced'
  BY <1>1, <1>6, <1>t DEF PageFails, Idle, history
<1>7. ASSUME NEW c \in Callers, Lands(c) PROVE PaceInv' /\ Spaced'
  <2>1. PICK s \in RowIds : call[c].row = s
    BY <1>7, <1>t DEF Lands, HoldsRow, Busy
  <2>2. /\ up /\ up' = up /\ crashes' = crashes /\ last' = last /\ rows' = rows
        /\ landed'[s] = now
        /\ \A r \in RowIds : r # s => landed'[r] = landed[r]
    BY <1>7, <2>1, <1>t DEF Lands
  <2>3. /\ call[c].pc = "drive" /\ call[c].minted \in Nat
        /\ 0 < call[c].minted /\ call[c].minted <= last /\ now <= call[c].minted + MaxDrive
        /\ call[c].minted <= now
    <3>1. c \in Driving /\ call[c].pc = "drive" /\ call[c].pc \in HoldsRow
      BY <1>7 DEF Lands, Driving, Busy, HoldsRow
    <3> QED
      BY <3>1, <1>t DEF DriveInv, HoldInv, HoldOK, CallType, Busy
  <2>4. \A d \in Callers : call'[d].pc # "drive"
    BY <1>7, <1>t DEF Lands, DriveInv, OneDriveAtATime, Driving, Busy, CallType
  <2>5. \A r \in RowIds : landed[r] \in Nat /\ landed'[r] \in Nat
    BY <2>2, <1>t
  <2>6. crashes <= 1 => \A r \in RowIds : landed[r] > 0 =>
            /\ landed[r] + MinGap <= now + MaxDrive /\ landed[r] <= last + MaxDrive
    <3>1. crashes <= 1 => \A r \in RowIds : landed[r] > 0 => landed[r] + MinGap <= call[c].minted + MaxDrive
      BY <2>3 DEF PaceInv, Landed
    <3> QED
      BY <2>2, <2>3, <2>5, <3>1, <1>t DEF PaceInv, Landed
  <2>7. crashes <= 1 => \A r \in RowIds : landed'[r] > 0 => landed'[r] <= last + MaxDrive
    BY <2>2, <2>3, <2>5, <2>6, <1>t
  <2>8. ASSUME crashes <= 1, NEW p \in RowIds, NEW q \in RowIds, p # q,
               landed'[p] > 0, landed'[q] >= landed'[p]
        PROVE  landed'[q] >= landed'[p] + MinGap - MaxDrive
    <3>1. CASE p = s
      <4>1. landed'[q] = landed[q] /\ landed[q] >= now /\ landed[q] > 0
        BY <2>2, <2>8, <3>1, <1>t
      <4> QED
        BY <4>1, <2>5, <2>6, <2>8, <1>t
    <3>2. CASE q = s
      <4>1. landed'[p] = landed[p] /\ landed'[q] = now
        BY <2>2, <2>8, <3>2
      <4> QED
        BY <4>1, <2>5, <2>6, <2>8, <1>t
    <3>3. CASE p # s /\ q # s
      BY <2>2, <2>8, <3>3 DEF Spaced
    <3> QED
      BY <3>1, <3>2, <3>3
  <2>9. Spaced'
    BY <2>2, <2>8 DEF Spaced
  <2> QED
    BY <2>2, <2>3, <2>4, <2>7, <2>9, <1>t DEF PaceInv, Landed
<1>8. ASSUME NEW c \in Callers, DriveFails(c) PROVE PaceInv' /\ Spaced'
  <2>1. \A r \in RowIds : rows'[r].result = "gone" => rows[r].result = "gone"
    BY <1>8, <1>t DEF DriveFails, RowType
  <2> QED
    BY <1>1, <1>8, <2>1, <1>t DEF DriveFails, Record, Idle
<1>9. ASSUME NEW c \in Callers, Returns(c) PROVE PaceInv' /\ Spaced'
  BY <1>1, <1>9, <1>t DEF Returns, Record, CallType, history
<1>10. ASSUME NEW c \in Callers, Persist(c) PROVE PaceInv' /\ Spaced'
  <2>1. \A r \in RowIds : rows'[r].result = "gone" => rows[r].result = "gone"
    BY <1>10, <1>t DEF Persist, RowType
  <2> QED
    BY <1>1, <1>10, <2>1, <1>t DEF Persist, CallType, history
<1>11. ASSUME NEW c \in Callers, Count(c) PROVE PaceInv' /\ Spaced'
  BY <1>1, <1>11, <1>t DEF Count, Idle, history
<1>12. ASSUME NEW kind \in {"pause", "resume"}, Command(kind) PROVE PaceInv' /\ Spaced'
  BY <1>1, <1>12, <1>t DEF Command
<1>13. CASE Append
  BY <1>1, <1>13, <1>t DEF Append, history
<1>14. CASE Crash
  <2>1. /\ up /\ ~up' /\ crashes' = crashes + 1 /\ landed' = landed /\ rows' = rows
        /\ \A c \in Callers : call'[c].pc = "idle"
    BY <1>14 DEF Crash, Idle
  <2>2. Spaced'
    BY <2>1, <1>t DEF Spaced
  <2> QED
    BY <2>1, <2>2, <1>t DEF PaceInv
<1>15. CASE Boot
  <2>1. /\ ~up /\ up' /\ crashes' = crashes /\ landed' = landed
        /\ \A c \in Callers : call'[c].pc = "idle"
    BY <1>15 DEF Boot, Inv, CallsOK, history
  <2>2. crashes # 0
    BY <2>1 DEF PaceInv
  <2>3. ASSUME crashes = 1, NEW r \in Landed PROVE 0 < last' /\ landed[r] <= last' + MaxDrive
    <3>1. r \in Stored
      BY <2>1, <2>3 DEF PaceInv, StampInv, StampOK, Landed, Stored
    <3>2. \A q \in RowIds : Stamp(q) \in Nat /\ rows[q].created \in Nat /\ rows[q].executed \in Nat
      BY <1>t DEF Stamp, RowType
    <3>3. PICK top \in Stored : Stamp(r) <= Stamp(top) /\ last' = Stamp(top)
      BY <1>15, <3>1 DEF Boot
    <3>4. landed[r] <= Stamp(r) + MaxDrive /\ 0 < Stamp(r) /\ landed[r] \in Nat
      BY <3>1, <3>2, <1>t DEF StampInv, StampOK, Landed, Stored, Stamp
    <3> QED
      BY <3>1, <3>2, <3>3, <3>4 DEF Stored
  <2>4. Spaced'
    BY <2>1 DEF Spaced
  <2>5. Landed' = Landed
    BY <2>1 DEF Landed
  <2> QED
    BY <2>1, <2>2, <2>3, <2>4, <2>5, <1>t DEF PaceInv
<1>16. CASE Tick
  BY <1>1, <1>16, <1>t DEF Tick, history
<1>17. CASE UNCHANGED vars
  BY <1>1, <1>17, <1>t DEF vars
<1> QED
  BY <1>2, <1>3, <1>4, <1>5, <1>6, <1>7, <1>8, <1>9, <1>10, <1>11, <1>12, <1>13, <1>14, <1>15,
     <1>16, <1>17 DEF Next, Executor

\* In the first state nothing has landed and nothing is charged for.
LEMMA InitCaps ==
    Init => HoldInv /\ StampInv /\ CountInv /\ LostInv /\ ChargeInv /\ PaceInv /\ Spaced
<1> SUFFICES ASSUME Init
             PROVE  HoldInv /\ StampInv /\ CountInv /\ LostInv /\ ChargeInv /\ PaceInv /\ Spaced
  OBVIOUS
<1> USE ActionGateAssumption
<1>1. /\ \A c \in Callers : call[c].pc = "idle"
      /\ \A r \in RowIds : rows[r] = NoRow /\ landed[r] = 0
      /\ counted = {} /\ crashes = 0 /\ up = TRUE /\ lost = 0 /\ now = 1
  BY DEF Init, Idle
<1>2. HoldInv /\ StampInv
  BY <1>1 DEF HoldInv, StampInv, StampOK, Stamp, HoldsRow, Busy, NoRow
<1>3. CountInv
  BY <1>1 DEF CountInv, Succeeded, HeldBy, NoRow
<1>4. Landed = {} /\ Orphans = {} /\ WeekCharged = {} /\ \A type \in Types : Charged(type) = {}
  BY <1>1 DEF Landed, Orphans, Charged, WeekCharged, HeldBy, NoRow, Busy
<1>5. LostInv /\ ChargeInv
  BY <1>1, <1>4, FS_EmptySet DEF LostInv, ChargeInv
<1>6. PaceInv /\ Spaced
  BY <1>1, <1>4 DEF PaceInv, Spaced, NoRow
<1> QED
  BY <1>2, <1>3, <1>5, <1>6

\* What landed today, or this week, is charged for or is an orphan.
LEMMA CapsFollow == Inv /\ DriveInv /\ HoldInv /\ StampInv /\ LostInv /\ ChargeInv => CapsHold
<1> SUFFICES ASSUME Inv, DriveInv, HoldInv, StampInv, LostInv, ChargeInv PROVE CapsHold
  OBVIOUS
<1> USE ActionGateAssumption
<1>t. /\ \A r \in RowIds : rows[r] \in RowType /\ landed[r] \in Nat /\ rows[r].executed \in Nat
      /\ now \in Nat /\ lost \in Nat
  BY DEF Inv, TypeOK, RowType
<1>1. ASSUME NEW S, IsFiniteSet(S), NEW n \in Nat, Cardinality(S) <= n,
             NEW T \in SUBSET (S \cup Orphans)
      PROVE  Cardinality(T) <= n + lost
  <2>1. IsFiniteSet(Orphans) /\ Cardinality(Orphans) <= lost
    <3>1. Orphans \in SUBSET Landed
      BY DEF Orphans
    <3> QED
      BY <3>1, FS_Subset DEF LostInv
  <2>2. Cardinality(S) \in Nat /\ Cardinality(Orphans) \in Nat /\ Cardinality(S \cap Orphans) \in Nat
    <3>1. S \cap Orphans \in SUBSET S
      OBVIOUS
    <3> QED
      BY <1>1, <2>1, <3>1, FS_Subset, FS_CardinalityType
  <2>3. IsFiniteSet(S \cup Orphans)
        /\ Cardinality(S \cup Orphans) = Cardinality(S) + Cardinality(Orphans) - Cardinality(S \cap Orphans)
    BY <1>1, <2>1, FS_Union
  <2>4. Cardinality(T) \in Nat /\ Cardinality(T) <= Cardinality(S \cup Orphans)
    BY <1>1, <2>3, FS_Subset, FS_CardinalityType
  <2> QED
    BY <1>1, <2>1, <2>2, <2>3, <2>4, <1>t
<1>2. ASSUME NEW r \in RowIds, landed[r] > 0, r \notin Orphans
      PROVE  \/ rows[r].result = "success" /\ landed[r] <= rows[r].executed /\ rows[r].executed <= now
             \/ HeldBy(r, Busy)
  BY <1>2, <1>t DEF Orphans, Landed, StampInv, StampOK, HeldBy, Busy
<1>3. ASSUME NEW type \in Types
      PROVE  Cardinality(LandedToday(type)) <= Cap[type] + lost
  <2>1. LandedToday(type) \in SUBSET (Charged(type) \cup Orphans)
    <3> SUFFICES ASSUME NEW r \in LandedToday(type), r \notin Orphans PROVE r \in Charged(type)
      OBVIOUS
    <3>1. /\ r \in RowIds /\ landed[r] > 0 /\ rows[r].type = type
          /\ DayOf(landed[r]) = DayOf(now)
      BY DEF LandedToday
    <3>2. CASE HeldBy(r, Busy)
      BY <3>1, <3>2 DEF Charged
    <3>3. CASE /\ rows[r].result = "success"
               /\ landed[r] <= rows[r].executed /\ rows[r].executed <= now
      <4>1. DayOf(landed[r]) <= DayOf(rows[r].executed) /\ DayOf(rows[r].executed) <= DayOf(now)
        BY <3>1, <3>3, <1>t, DayMonotone
      <4>2. DayOf(now) \in Nat /\ DayOf(rows[r].executed) \in Nat
        BY <3>1, <1>t, Z3 DEF DayOf
      <4>3. DayOf(rows[r].executed) = DayOf(now)
        BY <3>1, <4>1, <4>2
      <4> QED
        BY <3>1, <3>3, <4>3 DEF Charged
    <3> QED
      BY <1>2, <3>1, <3>2, <3>3
  <2>2. IsFiniteSet(Charged(type)) /\ Cardinality(Charged(type)) <= Cap[type] /\ Cap[type] \in Nat
    BY ChargeFinite DEF ChargeInv
  <2> QED
    BY <1>1, <2>1, <2>2
<1>4. Cardinality({r \in RowIds : /\ landed[r] > 0 /\ rows[r].type = "connect"
                                  /\ landed[r] + WeekLen > now}) <= WeeklyCeiling + lost
  <2> DEFINE T == {r \in RowIds : /\ landed[r] > 0 /\ rows[r].type = "connect"
                                  /\ landed[r] + WeekLen > now}
  <2>1. T \in SUBSET (WeekCharged \cup Orphans)
    <3> SUFFICES ASSUME NEW r \in T, r \notin Orphans PROVE r \in WeekCharged
      OBVIOUS
    <3> QED
      BY <1>2, <1>t DEF WeekCharged
  <2>2. IsFiniteSet(WeekCharged) /\ Cardinality(WeekCharged) <= WeeklyCeiling
    BY ChargeFinite DEF ChargeInv
  <2> HIDE DEF T
  <2>3. Cardinality(T) <= WeeklyCeiling + lost
    BY <1>1, <2>1, <2>2
  <2> QED
    BY <2>3 DEF T
<1> QED
  BY <1>3, <1>4 DEF CapsHold, DailyCapHolds, WeeklyCeilingHolds

\* The daily cap and the weekly ceiling bound what reached LinkedIn, for any
\* number of callers, crashes and midnights, up to the actions whose success
\* was never recorded: canAct's counters, the rows they are rebuilt from and
\* the drive that is running never promise more between them.
THEOREM CapsRespected == Spec => []CapsHold
<1>1. Init => Inv /\ DriveInv /\ HoldInv /\ StampInv /\ CountInv /\ LostInv /\ ChargeInv
  BY InitInv, InitAll, InitCaps
<1>2. Inv /\ DriveInv /\ HoldInv /\ StampInv /\ CountInv /\ LostInv /\ ChargeInv /\ [Next]_vars
        => Inv' /\ DriveInv' /\ HoldInv' /\ StampInv' /\ CountInv' /\ LostInv' /\ ChargeInv'
  BY InvInvariant, DriveInvariant, HoldInvariant, CountInvariant, LostInvariant, ChargeInvariant
<1> QED
  BY <1>1, <1>2, CapsFollow, PTL DEF Spec

\* Two actions reach LinkedIn at least MinGap - MaxDrive apart up to the second
\* crash, for any gap longer than a drive: the slot the pacer takes at the mint
\* outlives the process in the rows.
THEOREM ActionsSpaced == Spec => []Spaced
<1>1. Init => Inv /\ DriveInv /\ HoldInv /\ StampInv /\ PaceInv /\ Spaced
  BY InitInv, InitAll, InitCaps
<1>2. Inv /\ DriveInv /\ HoldInv /\ StampInv /\ PaceInv /\ Spaced /\ [Next]_vars
        => Inv' /\ DriveInv' /\ HoldInv' /\ StampInv' /\ PaceInv' /\ Spaced'
  BY InvInvariant, DriveInvariant, HoldInvariant, PaceInvariant
<1> QED
  BY <1>1, <1>2, PTL DEF Spec
=============================================================================
