---------------------------- MODULE SendForecast ----------------------------
(***************************************************************************)
(* Will an approved message go out?  Two answers to the question: the      *)
(* decision of SafetyGate.canAct in the runtime, from the account's state, *)
(* its limits and the in-memory pause registry, and the reading the web    *)
(* inbox gives the operator from the rows alone.  How an account's state   *)
(* moves is AccountSafety's matter: here its row may be set to any state   *)
(* at any time.  Pause and resume are logged with millisecond stamps.      *)
(***************************************************************************)
EXTENDS Naturals, Vocabulary

CONSTANTS
    RowStates,   \* states the account's row is set to
    DefaultCap,  \* DEFAULT_CAPS.message
    OwnCaps,     \* what caps.message of an account's own table may be
    MaxClock     \* bound: milliseconds at which commands are stamped

ASSUME ForecastAssumption ==
    RowStates \subseteq AccountStates /\ DefaultCap \in Nat \ {0} /\ OwnCaps \subseteq Nat /\ MaxClock \in Nat

VARIABLES
    state,    \* accounts.state
    limits,   \* accounts.limits: no cap table, one older than the action type or a
              \* full one, its message cap, and the operator's toggle
    used,     \* successful messages since local midnight
    open,     \* the working window is open
    ready,    \* the pacer's gap has passed
    paused,   \* PauseRegistry
    pausedAt, resumedAt, \* newest account_paused and account_resumed events, 0 for none
    clock

acct == <<state, limits, used, open, ready, paused, pausedAt, resumedAt, clock>>

-----------------------------------------------------------------------------
(* safety-gate.ts *)

\* baseCaps: the account's table replaces the default one, holes included.
BaseCap ==
    CASE limits.table = "none" -> DefaultCap [] limits.table = "older" -> 0 [] OTHER -> limits.cap

\* capsForState: a throttled account gets half, rounded down.
CapForState(s) ==
    CASE s \in {"Cold", "Warming", "Active"} -> BaseCap
      [] s = "Throttled" -> BaseCap \div 2
      [] OTHER -> 0

\* canAct for a message; "pace" is the defer of the pacer.
CanAct(s) ==
    IF paused \/ s \in {"Restricted", "Cooldown"} \/ ~limits.enabled THEN "deny"
    ELSE IF CapForState(s) <= 0 THEN "deny"
    ELSE IF used >= CapForState(s) \/ ~open THEN "defer"
    ELSE IF ~ready THEN "pace" ELSE "allow"

-----------------------------------------------------------------------------
(* safety-state.ts and queries.ts *)

\* PauseRegistry.rehydrate and its twin derivePausedAccountIds.
PausedByEvents == pausedAt > resumedAt

\* accountGateConfig: the account's table is laid over the default one.
ViewCap == IF limits.table = "full" THEN limits.cap ELSE DefaultCap

\* Fault: the cap is looked at before the stops.
DeriveCapFirst ==
    IF used >= ViewCap THEN "queued_capped"
    ELSE IF PausedByEvents \/ state \in {"Restricted", "Cooldown"} \/ ~limits.enabled THEN "queued_blocked"
    ELSE IF ~open THEN "queued_window" ELSE "queued_soon"

\* deriveMessageTiming of an approved row.
DeriveMessageTiming ==
    IF PausedByEvents \/ state \in {"Restricted", "Cooldown"} \/ ~limits.enabled THEN "queued_blocked"
    ELSE IF used >= ViewCap THEN "queued_capped"
    ELSE IF ~open THEN "queued_window" ELSE "queued_soon"

-----------------------------------------------------------------------------
ForecastInit ==
    /\ state \in RowStates
    /\ limits \in [table : {"none", "older", "full"}, cap : OwnCaps, enabled : BOOLEAN]
    /\ used = 0 /\ open \in BOOLEAN /\ ready = TRUE
    /\ paused = FALSE /\ pausedAt = 0 /\ resumedAt = 0 /\ clock = 1

\* The host stores the state a signal or a recovery led to.
SetState == state' \in RowStates /\ UNCHANGED <<limits, used, open, ready, paused, pausedAt, resumedAt, clock>>

\* A message the gate allows goes out and takes the pacer's slot.
Send ==
    /\ CanAct(state) = "allow"
    /\ used' = used + 1 /\ ready' = FALSE
    /\ UNCHANGED <<state, limits, open, paused, pausedAt, resumedAt, clock>>

GapPasses ==
    /\ ~ready /\ ready' = TRUE
    /\ UNCHANGED <<state, limits, used, open, paused, pausedAt, resumedAt, clock>>

\* The window opens or closes; local midnight empties the counter.
WindowMoves == open' = ~open /\ UNCHANGED <<state, limits, used, ready, paused, pausedAt, resumedAt, clock>>
Midnight == used' = 0 /\ UNCHANGED <<state, limits, open, ready, paused, pausedAt, resumedAt, clock>>

\* The registry is set, then the event is written with the clock's millisecond.
PauseAccount ==
    /\ paused' = TRUE /\ pausedAt' = clock
    /\ UNCHANGED <<state, limits, used, open, ready, resumedAt, clock>>
ResumeAccount ==
    /\ paused' = FALSE /\ resumedAt' = clock
    /\ UNCHANGED <<state, limits, used, open, ready, pausedAt, clock>>

\* A millisecond passes.
Elapse ==
    /\ clock < MaxClock /\ clock' = clock + 1
    /\ UNCHANGED <<state, limits, used, open, ready, paused, pausedAt, resumedAt>>

\* The process restarts: the registry is rebuilt from the events.
Reboot == paused' = PausedByEvents /\ UNCHANGED <<state, limits, used, open, ready, pausedAt, resumedAt, clock>>

AccountStep ==
    \/ SetState \/ Send \/ GapPasses \/ WindowMoves \/ Midnight
    \/ PauseAccount \/ ResumeAccount \/ Elapse \/ Reboot

-----------------------------------------------------------------------------
(* Properties *)

\* The two differ where the view cannot know or does not look: a throttled
\* account's halved caps, a cap of zero, a hole in the cap table.
Comparable == state # "Throttled" /\ BaseCap > 0 /\ paused = PausedByEvents

PauseForgottenOnlyOnTie == paused # PausedByEvents => paused /\ pausedAt = resumedAt

(* The inbox tells the operator what the gate will do with an approved message:
   blocked when it denies, a time when it defers, soon when only pacing is left.
   Both read the pauses alike, across restarts, except for a pause stamped with
   the millisecond of a resume: that one is forgotten, and no resume ever is. *)
TimingHonest ==
    /\ Comparable =>
        CASE CanAct(state) = "deny"  -> DeriveMessageTiming = "queued_blocked"
          [] CanAct(state) = "defer" -> DeriveMessageTiming \in {"queued_capped", "queued_window"}
          [] OTHER                   -> DeriveMessageTiming = "queued_soon"
    /\ PauseForgottenOnlyOnTie
=============================================================================
