--------------------------- MODULE AccountSafety ---------------------------
(***************************************************************************)
(* The account state machine of @loa/safety: what onSignal and recover do  *)
(* to an account's state and to the gate's private soft-signal streak, and *)
(* what a restart leaves of them when recorded signals are replayed.       *)
(*                                                                         *)
(* The gate only returns transitions.  The host that feeds it signals,     *)
(* stores the state it answers and records the safety_signal event is not  *)
(* part of the repository: it is modelled from what replaySignals reads.   *)
(***************************************************************************)
EXTENDS Naturals, Sequences, FiniteSets, Vocabulary

CONSTANTS
    StartStates,  \* states an account row may hold at first
    Threshold,    \* cfg.softSignalCooldownThreshold
    MaxSignals    \* bound: signals raised

ASSUME SafetyAssumption ==
    StartStates \subseteq AccountStates /\ Threshold \in Nat \ {0} /\ MaxSignals \in Nat

VARIABLES
    state,   \* accounts.state
    streak,  \* softStreak, in memory
    log,     \* safety_signal events, oldest first
    softs,   \* history: soft signals since the last recovery or ban, replays counted again
    fresh,   \* history: the same since the process started
    banned   \* history: a ban banner was raised outside a cooldown

vars == <<state, streak, log, softs, fresh, banned>>

Soft == {"velocity", "low_acceptance", "challenge"}

-----------------------------------------------------------------------------
(* state-machine.ts *)

\* TABLE: where an event leads; an event that is not legal leads nowhere.
Transition(from, event) ==
    CASE event = "recovered" /\ from \in {"Cold", "Warming", "Throttled", "Cooldown"} -> "Active"
      [] event = "soft_signal" /\ from = "Active" -> "Throttled"
      [] event = "repeated_soft_signal" /\ from = "Throttled" -> "Cooldown"
      [] event = "hard_signal" /\ from \in {"Warming", "Active", "Throttled"} -> "Restricted"
      [] OTHER -> from

-----------------------------------------------------------------------------
(* safety-gate.ts *)

\* throttleOrCooldown: the streak grows in every state; it escalates, and is
\* spent, only when the account is already throttled.
ThrottleOrCooldown(s, n) ==
    CASE s = "Active" -> [state |-> Transition(s, "soft_signal"), streak |-> n + 1]
      [] s = "Throttled" /\ n + 1 >= Threshold ->
             [state |-> Transition(s, "repeated_soft_signal"), streak |-> 0]
      [] OTHER -> [state |-> s, streak |-> n + 1]

OnSignal(s, n, kind) ==
    CASE kind = "ban_banner" -> [state |-> Transition(s, "hard_signal"), streak |-> 0]
      [] kind = "geo_drift"  -> [state |-> s, streak |-> n]
      [] kind \in Soft       -> ThrottleOrCooldown(s, n)

Tally(n, kind) == IF kind \in Soft THEN n + 1 ELSE IF kind = "ban_banner" THEN 0 ELSE n

Signal(kind) ==
    LET after == OnSignal(state, streak, kind) IN
    /\ Len(log) < MaxSignals
    /\ state' = after.state /\ streak' = after.streak
    /\ log' = Append(log, kind)
    /\ softs' = Tally(softs, kind) /\ fresh' = Tally(fresh, kind)
    /\ banned' = (banned \/ (kind = "ban_banner" /\ state # "Cooldown"))

\* Fault: the streak outlives the recovery.
RecoverKeepsStreak ==
    /\ state \in {"Throttled", "Cooldown"}
    /\ state' = Transition(state, "recovered")
    /\ softs' = 0 /\ fresh' = 0
    /\ UNCHANGED <<streak, log, banned>>

\* recover: Throttled or Cooldown to Active, the streak is dropped; any other
\* state is refused.
Recover ==
    /\ state \in {"Throttled", "Cooldown"}
    /\ state' = Transition(state, "recovered")
    /\ streak' = 0 /\ softs' = 0 /\ fresh' = 0
    /\ UNCHANGED <<log, banned>>

-----------------------------------------------------------------------------
(* replaySignals *)

\* The streak after each prefix of the log, every signal judged against the
\* state the account row holds at boot.
Replayed ==
    LET after[i \in 0 .. Len(log)] ==
          IF i = 0 THEN 0 ELSE OnSignal(state, after[i - 1], log[i]).streak
    IN  after[Len(log)]

\* Recoveries are not in the log, so signals from before them count again.
Restart ==
    /\ streak' = Replayed
    /\ softs' = Cardinality({i \in DOMAIN log : log[i] \in Soft}) /\ fresh' = 0
    /\ UNCHANGED <<state, log, banned>>

Init ==
    /\ state \in StartStates
    /\ streak = 0 /\ log = <<>> /\ softs = 0 /\ fresh = 0 /\ banned = FALSE

Next ==
    \/ \E kind \in SignalKinds : Signal(kind)
    \/ Recover
    \/ Restart

Spec == Init /\ [][Next]_vars

-----------------------------------------------------------------------------
(* Properties *)

\* States come from the vocabulary, counters are natural numbers.
TypeOK ==
    /\ state \in AccountStates /\ streak \in Nat
    /\ log \in Seq(SignalKinds) /\ softs \in Nat /\ fresh \in Nat /\ banned \in BOOLEAN

EscalationIsEarned == [][state # "Cooldown" /\ state' = "Cooldown" => softs' >= Threshold]_vars

\* The first soft signal only throttles, so a threshold of one acts as two.
SignalsEscalate == state \in {"Active", "Throttled"} => fresh < Threshold \/ fresh < 2

BanEndsAccount == banned => state = "Restricted"

(* The soft-signal streak stops an account neither too late nor too early: an
   account cools down only for a full streak of soft signals raised, or
   replayed, since it last recovered; Threshold of them raised since the
   process started, with no recovery between, never leave it sending; and a
   ban banner ends the account for good, unless it is raised during a cooldown,
   where the table has no step for it and a later recovery sends again. *)
EscalationIsExact == [](SignalsEscalate /\ BanEndsAccount) /\ EscalationIsEarned
=============================================================================
