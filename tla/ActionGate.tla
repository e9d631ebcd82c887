----------------------------- MODULE ActionGate -----------------------------
(***************************************************************************)
(* The way of every outbound action to LinkedIn: SafetyGate.canAct, the    *)
(* executor that asks it twice, the in-memory counters it reads, the rows  *)
(* they are rebuilt from at boot, and the operator's pause.                *)
(*                                                                         *)
(* Callers (the dispatch tick, MCP act tools) run in one event loop and    *)
(* interleave at every await.  One account is modelled, in a state that    *)
(* permits acting; the caps are the ones of that state.  Time is counted   *)
(* in ticks of about a minute.                                             *)
(***************************************************************************)
EXTENDS Naturals, FiniteSets

CONSTANTS
    Callers,         \* concurrent users of the executor
    RowIds,          \* action rows that may be created
    Types,           \* action types in play; "connect" has the weekly ceiling
    Cap,             \* [Types -> Nat], the daily caps
    WeeklyCeiling,   \* cfg.weeklyInviteCeiling
    MinGap, Jitter,  \* cfg.minActionGapMs, cfg.actionGapJitterMs
    MaxDrive,        \* longest drive, and longest recording of its result
    StaleAge,        \* main.ts: age at which boot deletes a pending row
    DayLen, WeekLen, \* ticks in a local day and in the rolling week
    MaxTime,         \* bound on the clock
    MaxCrashes,      \* bound on process deaths
    MaxCommands,     \* bound on pause and resume calls
    None

\* The drive takes 10-60 s ("the 10-60s the browser takes",
\* account-runner-executor.ts), the gap is at least 180 s (config.ts).
ASSUME ActionGateAssumption ==
    /\ Cap \in [Types -> Nat] /\ WeeklyCeiling \in Nat
    /\ MinGap \in Nat /\ Jitter \in Nat /\ MaxDrive \in Nat /\ MaxDrive < MinGap
    /\ StaleAge \in Nat /\ DayLen \in Nat \ {0} /\ WeekLen \in Nat
    /\ MaxTime \in Nat /\ MaxCrashes \in Nat /\ MaxCommands \in Nat
    /\ None \notin RowIds /\ IsFiniteSet(Callers)

VARIABLES
    now,       \* the clock
    up,        \* the process runs
    rows,      \* the actions table
    call,      \* per caller: where it stands, its type, its row, when its token was minted
    counted,   \* rows in the in-memory daily and weekly windows
    last,      \* StoreBackedActionPacer.last, 0 before the first action
    paused,    \* PauseRegistry
    pauseLog,  \* newest account_paused and account_resumed events
    admin,     \* the pause or resume call in flight
    landed,    \* history: when a row's action reached LinkedIn, 0 if it has not
    lost,      \* history: landed actions whose success was never recorded
    crashes, commands,  \* history: deaths, operator calls
    sincePause \* history: actions that landed since a pause was acknowledged

vars == <<now, up, rows, call, counted, last, paused, pauseLog, admin,
          landed, lost, crashes, commands, sincePause>>
history == <<landed, lost, crashes, commands, sincePause>>
operator == <<paused, pauseLog, admin>>

Idle == [pc |-> "idle", type |-> None, row |-> None, minted |-> 0]
NoRow == [result |-> "absent", type |-> None, created |-> 0, executed |-> 0]
DayOf(t) == t \div DayLen
Busy == {"drive", "landed", "persist", "count"}

-----------------------------------------------------------------------------
(* canAct *)

\* usedToday: successes stamped since local midnight.
UsedToday(type) ==
    Cardinality({r \in counted : rows[r].type = type /\ DayOf(rows[r].executed) = DayOf(now)})

InvitesLast7d ==
    Cardinality({r \in counted : rows[r].type = "connect" /\ rows[r].executed + WeekLen > now})

\* Fault: an account at its cap may act once more.
AllowedOneMore(type, gap) ==
    /\ ~paused
    /\ UsedToday(type) <= Cap[type]
    /\ type = "connect" => InvitesLast7d < WeeklyCeiling
    /\ last # 0 => now >= last + gap

\* The decision is allow.  The outstanding-invite ceiling, the working hours,
\* the operator's toggles and the account state only ever refuse more: callers
\* may be refused at any time.
Allowed(type, gap) ==
    /\ ~paused
    /\ UsedToday(type) < Cap[type]
    /\ type = "connect" => InvitesLast7d < WeeklyCeiling
    /\ last # 0 => now >= last + gap

Gaps == MinGap .. MinGap + Jitter

\* StoreBackedActionPacer.record keeps the newest stamp.
Record(t) == last' = IF t > last THEN t ELSE last

-----------------------------------------------------------------------------
(* gateAct and AccountRunnerExecutor.runOne *)

\* gateAct: the first check; a caller that is refused returns.
Check(c, type) ==
    /\ up /\ call[c].pc = "idle"
    /\ \E gap \in Gaps : Allowed(type, gap)
    /\ call' = [call EXCEPT ![c] = [Idle EXCEPT !.pc = "create", !.type = type]]
    /\ UNCHANGED <<now, up, rows, counted, last, operator, history>>

\* The action row comes first, so that the token binds to a real id.
Create(c) ==
    /\ up /\ call[c].pc = "create"
    /\ \E r \in RowIds :
         /\ rows[r].result = "absent"
         /\ rows' = [rows EXCEPT ![r] = [result |-> "pending", type |-> call[c].type,
                                         created |-> now, executed |-> 0]]
         /\ call' = [call EXCEPT ![c].pc = "mint", ![c].row = r]
    /\ UNCHANGED <<now, up, counted, last, operator, history>>

\* Fault: the token is minted on the strength of the first check.
MintUnchecked(c) ==
    /\ up /\ call[c].pc = "mint"
    /\ call' = [call EXCEPT ![c].pc = "drive", ![c].minted = now]
    /\ Record(now)
    /\ UNCHANGED <<now, up, rows, counted, operator, history>>

\* Fault: the pacer is stamped only when the drive is over.
MintUnreserved(c) ==
    /\ up /\ call[c].pc = "mint"
    /\ \E gap \in Gaps : Allowed(call[c].type, gap)
    /\ call' = [call EXCEPT ![c].pc = "drive", ![c].minted = now]
    /\ UNCHANGED <<now, up, rows, counted, last, operator, history>>

\* mintToken asks canAct again and the pacer slot is reserved at once.
Mint(c) ==
    /\ up /\ call[c].pc = "mint"
    /\ \E gap \in Gaps : Allowed(call[c].type, gap)
    /\ call' = [call EXCEPT ![c].pc = "drive", ![c].minted = now]
    /\ Record(now)
    /\ UNCHANGED <<now, up, rows, counted, operator, history>>

\* SafetyDeferredError: nothing drove the page, the row goes.
MintRefused(c) ==
    /\ up /\ call[c].pc = "mint"
    /\ rows' = [rows EXCEPT ![call[c].row] = NoRow]
    /\ call' = [call EXCEPT ![c] = Idle]
    /\ UNCHANGED <<now, up, counted, last, operator, history>>

\* pageFor throws: the row stays pending, the slot stays taken.
PageFails(c) ==
    /\ up /\ call[c].pc = "drive"
    /\ call' = [call EXCEPT ![c] = Idle]
    /\ UNCHANGED <<now, up, rows, counted, last, operator, history>>

\* The action takes effect on LinkedIn, some time before the drive returns.
Lands(c) ==
    /\ up /\ call[c].pc = "drive"
    /\ landed' = [landed EXCEPT ![call[c].row] = now]
    /\ sincePause' = IF paused /\ admin = "none" THEN sincePause + 1 ELSE sincePause
    /\ call' = [call EXCEPT ![c].pc = "landed"]
    /\ UNCHANGED <<now, up, rows, counted, last, operator, lost, crashes, commands>>

\* The drive threw or the outcome was not ok ('skipped', for a no-op, charges
\* no limiter either).  A throw may come after the effect: that success is lost.
DriveFails(c) ==
    /\ up /\ call[c].pc \in {"drive", "landed"}
    /\ Record(now)
    /\ rows' = [rows EXCEPT ![call[c].row].result = "failed", ![call[c].row].executed = now]
    /\ lost' = IF call[c].pc = "landed" THEN lost + 1 ELSE lost
    /\ call' = [call EXCEPT ![c] = Idle]
    /\ UNCHANGED <<now, up, counted, operator, landed, crashes, commands, sincePause>>

\* The drive returns ok: executedAt is taken and the pacer moves to it ...
Returns(c) ==
    /\ up /\ call[c].pc = "landed"
    /\ Record(now)
    /\ call' = [call EXCEPT ![c].pc = "persist", ![c].minted = now]
    /\ UNCHANGED <<now, up, rows, counted, operator, history>>

\* ... the row is set to success with that stamp ...
Persist(c) ==
    /\ up /\ call[c].pc = "persist"
    /\ rows' = [rows EXCEPT ![call[c].row].result = "success",
                            ![call[c].row].executed = call[c].minted]
    /\ call' = [call EXCEPT ![c].pc = "count"]
    /\ UNCHANGED <<now, up, counted, last, operator, history>>

\* ... and the in-memory windows are told.
Count(c) ==
    /\ up /\ call[c].pc = "count"
    /\ counted' = counted \cup {call[c].row}
    /\ call' = [call EXCEPT ![c] = Idle]
    /\ UNCHANGED <<now, up, rows, last, operator, history>>

-----------------------------------------------------------------------------
(* pause_account, resume_account, kill_all *)

\* The registry changes at once, the event is appended after an await.
Command(kind) ==
    /\ up /\ admin = "none" /\ commands < MaxCommands
    /\ paused' = (kind = "pause")
    /\ admin' = kind
    /\ commands' = commands + 1
    /\ sincePause' = 0
    /\ UNCHANGED <<now, up, rows, call, counted, last, pauseLog, landed, lost, crashes>>

\* Two commands are never stamped with the same millisecond.
Append ==
    /\ up /\ admin # "none"
    /\ now > pauseLog.pause /\ now > pauseLog.resume
    /\ pauseLog' = [pauseLog EXCEPT ![admin] = now]
    /\ admin' = "none"
    /\ UNCHANGED <<now, up, rows, call, counted, last, paused, history>>

-----------------------------------------------------------------------------
(* Death and boot *)

Crash ==
    /\ up /\ crashes < MaxCrashes
    /\ up' = FALSE
    /\ crashes' = crashes + 1
    /\ lost' = lost + Cardinality({c \in Callers : call[c].pc \in {"landed", "persist"}})
    /\ call' = [c \in Callers |-> Idle]
    /\ counted' = {} /\ last' = 0 /\ paused' = FALSE /\ admin' = "none"
    /\ UNCHANGED <<now, rows, pauseLog, landed, commands, sincePause>>

Succeeded == {r \in RowIds : rows[r].result = "success"}
Stored == {r \in RowIds : rows[r].result \notin {"absent", "gone"}}
Stamp(r) == IF rows[r].executed = 0 THEN rows[r].created ELSE rows[r].executed

\* Fault: a pause ever recorded counts, resumed or not.
PausedByLogEver == pauseLog.pause > 0

\* PauseRegistry.rehydrate.
PausedByLog == pauseLog.pause > pauseLog.resume

\* Fault: the pacer starts afresh.
BootUnpaced ==
    /\ ~up /\ up' = TRUE
    /\ counted' = Succeeded
    /\ last' = 0
    /\ paused' = PausedByLog
    /\ rows' = [r \in RowIds |->
         IF rows[r].result = "pending" /\ rows[r].created + StaleAge <= now
         THEN [rows[r] EXCEPT !.result = "gone"] ELSE rows[r]]
    /\ UNCHANGED <<now, call, pauseLog, admin, history>>

\* rehydrateSafety, then reclaimStalePending, before anything may act.
Boot ==
    /\ ~up /\ up' = TRUE
    /\ counted' = Succeeded
    /\ IF Stored = {} THEN last' = 0
       ELSE \E r \in Stored : /\ \A s \in Stored : Stamp(s) <= Stamp(r)
                              /\ last' = Stamp(r)
    /\ paused' = PausedByLog
    /\ rows' = [r \in RowIds |->
         IF rows[r].result = "pending" /\ rows[r].created + StaleAge <= now
         THEN [rows[r] EXCEPT !.result = "gone"] ELSE rows[r]]
    /\ UNCHANGED <<now, call, pauseLog, admin, history>>

\* Time passes, but not beyond what a drive may take; the insert of a row is
\* followed by the mint within the tick.
Tick ==
    /\ now < MaxTime
    /\ \A c \in Callers : call[c].pc # "mint"
    /\ \A c \in Callers : call[c].pc \in Busy => now < call[c].minted + MaxDrive
    /\ now' = now + 1
    /\ UNCHANGED <<up, rows, call, counted, last, operator, history>>

-----------------------------------------------------------------------------
Init ==
    /\ now = 1 /\ up = TRUE
    /\ rows = [r \in RowIds |-> NoRow]
    /\ call = [c \in Callers |-> Idle]
    /\ counted = {} /\ last = 0
    /\ paused = FALSE /\ pauseLog = [pause |-> 0, resume |-> 0] /\ admin = "none"
    /\ landed = [r \in RowIds |-> 0]
    /\ lost = 0 /\ crashes = 0 /\ commands = 0 /\ sincePause = 0

Executor(c) ==
    \/ \E type \in Types : Check(c, type)
    \/ Create(c) \/ Mint(c) \/ MintRefused(c) \/ PageFails(c) \/ Lands(c)
    \/ DriveFails(c) \/ Returns(c) \/ Persist(c) \/ Count(c)

Next ==
    \/ \E c \in Callers : Executor(c)
    \/ \E kind \in {"pause", "resume"} : Command(kind)
    \/ Append \/ Crash \/ Boot \/ Tick

Spec == Init /\ [][Next]_vars

-----------------------------------------------------------------------------
(* Properties *)

ResultKinds == {"absent", "pending", "success", "failed", "gone"}
RowType == [result : ResultKinds, type : Types \cup {None}, created : Nat, executed : Nat]
CallType == [pc : {"idle", "create", "mint"} \cup Busy, type : Types \cup {None},
             row : RowIds \cup {None}, minted : Nat]

\* Rows, calls, counters and clocks keep their types, and only rows that exist
\* are counted.
TypeOK ==
    /\ now \in Nat /\ up \in BOOLEAN
    /\ rows \in [RowIds -> RowType]
    /\ call \in [Callers -> CallType]
    /\ counted \subseteq RowIds /\ last \in Nat
    /\ paused \in BOOLEAN
    /\ pauseLog \in [pause : Nat, resume : Nat]
    /\ admin \in {"none", "pause", "resume"}
    /\ landed \in [RowIds -> Nat]
    /\ lost \in Nat /\ crashes \in Nat /\ commands \in Nat /\ sincePause \in Nat

Driving == {c \in Callers : call[c].pc \in Busy}

\* Two drives of one account never overlap, whoever asked for them: the token
\* is minted and the pacer slot taken in one step.
OneDriveAtATime == \A c, d \in Driving : c = d

LandedToday(type) ==
    {r \in RowIds : landed[r] > 0 /\ rows[r].type = type /\ DayOf(landed[r]) = DayOf(now)}

\* The daily cap bounds what really reached LinkedIn, across concurrent
\* callers, midnight and restarts; each success that was never recorded (a
\* lost acknowledgement, a crash before the row was written) costs one.
DailyCapHolds == \A type \in Types : Cardinality(LandedToday(type)) <= Cap[type] + lost

\* The rolling weekly ceiling bounds the invites that went out in the same way.
WeeklyCeilingHolds ==
    Cardinality({r \in RowIds : /\ landed[r] > 0 /\ rows[r].type = "connect"
                                /\ landed[r] + WeekLen > now}) <= WeeklyCeiling + lost

\* Both caps hold at once: the counters in memory, the rows and what LinkedIn
\* has seen drift apart only by what was lost.
CapsHold == DailyCapHolds /\ WeeklyCeilingHolds

\* Two actions reach LinkedIn at least a gap less one drive apart, a restart
\* between them included.
Spaced ==
    crashes <= 1 =>
        \A r, s \in RowIds :
            r # s /\ landed[r] > 0 /\ landed[s] >= landed[r]
                => landed[s] >= landed[r] + MinGap - MaxDrive

\* What the operator last ordered is what a restart would restore, whenever no
\* order is half recorded.
PauseIsDurable == up /\ admin = "none" => (paused <=> pauseLog.pause > pauseLog.resume)

\* After pause_account has returned at most the one action in the browser can
\* still reach LinkedIn.
OneActionAfterPause == paused /\ admin = "none" => sincePause <= 1
=============================================================================
