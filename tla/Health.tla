------------------------------- MODULE Health -------------------------------
(***************************************************************************)
(* What the dashboard says about the two background ticks, derived from    *)
(* the events their host leaves: one event per boot for each tick, and one *)
(* per scan of the reply tick.  A boot writes them one after the other and *)
(* may die in between; the process may die at any time and come back with  *)
(* other settings.                                                         *)
(***************************************************************************)
EXTENDS Naturals, Sequences

CONSTANTS
    Intervals,     \* poll intervals a host may be given
    DefaultStale,  \* age that makes a scan stale when no interval is known
    ScanWindow,    \* limit of the scan query (32 in the code)
    MaxClock       \* bound: the clock

ASSUME HealthAssumption ==
    /\ Intervals \subseteq Nat \ {0} /\ DefaultStale \in Nat
    /\ ScanWindow \in Nat \ {0} /\ MaxClock \in Nat

Kinds == {"reply_detector_started", "reply_detector_idle", "reply_scan_succeeded",
          "reply_scan_failed", "dispatch_tick_started", "dispatch_tick_idle"}

VARIABLES
    clock,     \* the time, from 1 on
    newest,    \* events: the time of the newest of each kind, 0 when there is none
    interval,  \* intervalMs of the newest reply_detector_started
    failures,  \* reply_scan_failed rows since the last reply_scan_succeeded, up to ScanWindow
    process,   \* the runtime: "down", "booting", "scanning" or "idle"
    told       \* history: the newest boot event of each tick and the newest scan event

healthVars == <<clock, newest, interval, failures, process, told>>

HealthTypeOK ==
    /\ clock \in 1 .. MaxClock
    /\ newest \in [Kinds -> 0 .. MaxClock]
    /\ interval \in Intervals \union {0}
    /\ failures \in 0 .. ScanWindow
    /\ process \in {"down", "booting", "scanning", "idle"}
    /\ told \in [detector : Kinds \union {"none"}, scan : Kinds \union {"none"},
                 dispatch : Kinds \union {"none"}]

-----------------------------------------------------------------------------
(* The host *)

Event(kind) == newest' = [newest EXCEPT ![kind] = clock]

\* main: the dispatch tick's event first.
BootDispatch ==
    /\ process = "down"
    /\ process' = "booting"
    /\ \E kind \in {"dispatch_tick_started", "dispatch_tick_idle"} :
         Event(kind) /\ told' = [told EXCEPT !.dispatch = kind]
    /\ UNCHANGED <<clock, interval, failures>>

\* Then the reply tick's: it runs with an interval and a real session.
BootDetector ==
    /\ process = "booting"
    /\ \E i \in Intervals :
         /\ Event("reply_detector_started") /\ interval' = i
         /\ told' = [told EXCEPT !.detector = "reply_detector_started"]
    /\ process' = "scanning"
    /\ UNCHANGED <<clock, failures>>

BootWithoutDetector ==
    /\ process = "booting"
    /\ Event("reply_detector_idle")
    /\ told' = [told EXCEPT !.detector = "reply_detector_idle"]
    /\ process' = "idle"
    /\ UNCHANGED <<clock, interval, failures>>

\* onScan
ScanSucceeded ==
    /\ process = "scanning"
    /\ Event("reply_scan_succeeded") /\ failures' = 0
    /\ told' = [told EXCEPT !.scan = "reply_scan_succeeded"]
    /\ UNCHANGED <<clock, interval, process>>

ScanFailed ==
    /\ process = "scanning"
    /\ Event("reply_scan_failed")
    /\ failures' = IF failures = ScanWindow THEN failures ELSE failures + 1
    /\ told' = [told EXCEPT !.scan = "reply_scan_failed"]
    /\ UNCHANGED <<clock, interval, process>>

Stops == process # "down" /\ process' = "down" /\ UNCHANGED <<clock, newest, interval, failures, told>>

Passes == clock < MaxClock /\ clock' = clock + 1
          /\ UNCHANGED <<newest, interval, failures, process, told>>

-----------------------------------------------------------------------------
(* queries.ts *)

\* A success that the window of scans no longer holds is not seen.
At(kind) ==
    IF kind = "reply_scan_succeeded" /\ failures = ScanWindow THEN 0 ELSE newest[kind]

Seen(kind) == At(kind) > 0

\* Fault: a boot that declined to start the tick is overlooked.
IdleIsNewestNever == FALSE

IdleIsNewest ==
    /\ Seen("reply_detector_idle")
    /\ \A kind \in {"reply_detector_started", "reply_scan_succeeded", "reply_scan_failed"} :
         Seen(kind) => At(kind) < At("reply_detector_idle")

FailedAfterSuccess ==
    /\ Seen("reply_scan_failed")
    /\ Seen("reply_scan_succeeded") => At("reply_scan_failed") > At("reply_scan_succeeded")

StaleAfter == IF interval > 0 THEN 2 * interval ELSE DefaultStale

DeriveReplyDetectorHealth ==
    CASE ~Seen("reply_scan_succeeded") /\ ~Seen("reply_scan_failed") ->
           IF IdleIsNewest THEN "disabled" ELSE "never_run"
      [] (Seen("reply_scan_succeeded") \/ Seen("reply_scan_failed")) /\ FailedAfterSuccess ->
           "failing"
      [] Seen("reply_scan_succeeded") /\ ~FailedAfterSuccess /\ IdleIsNewest -> "disabled"
      [] OTHER -> IF clock - At("reply_scan_succeeded") > StaleAfter THEN "stale" ELSE "healthy"

DeriveDispatchHealth ==
    CASE ~Seen("dispatch_tick_started") /\ ~Seen("dispatch_tick_idle") -> "never_run"
      [] Seen("dispatch_tick_started")
           /\ newest["dispatch_tick_started"] >= newest["dispatch_tick_idle"] -> "running"
      [] OTHER -> "disabled"

-----------------------------------------------------------------------------
HealthInit ==
    /\ clock = 1 /\ newest = [kind \in Kinds |-> 0] /\ interval = 0 /\ failures = 0
    /\ process = "down"
    /\ told = [detector |-> "none", scan |-> "none", dispatch |-> "none"]

HealthNext ==
    \/ BootDispatch \/ BootDetector \/ BootWithoutDetector
    \/ ScanSucceeded \/ ScanFailed \/ Stops \/ Passes

HealthSpec == HealthInit /\ [][HealthNext]_healthVars

-----------------------------------------------------------------------------
Tie(k1, k2) == newest[k1] = newest[k2] /\ newest[k1] > 0

(* 'healthy' is never said of a detector that is not scanning: the last boot
   to announce itself started the tick, the last scan succeeded and is at most
   two of that boot's intervals old; a boot that declined to start the tick is
   said to be 'disabled', unless the last scan before it failed, which stays
   'failing' for as long as no scan succeeds; and dispatch is said to run when
   its last boot started it.  All of this across crashes in the middle of a
   boot and changed intervals, and up to two events of the same millisecond,
   which the timestamps cannot order. *)
HealthIsHonest ==
    LET health == DeriveReplyDetectorHealth
        bootTied == \E k \in {"reply_detector_started", "reply_scan_succeeded", "reply_scan_failed"} :
                      Tie("reply_detector_idle", k)
        scanTied == Tie("reply_scan_succeeded", "reply_scan_failed") IN
    /\ health = "healthy" =>
         /\ told.detector = "reply_detector_started" \/ bootTied
         /\ told.scan = "reply_scan_succeeded" \/ scanTied
         /\ clock - newest["reply_scan_succeeded"] <= 2 * interval
    /\ told.detector = "reply_detector_idle" /\ ~bootTied =>
         \/ health = IF told.scan = "reply_scan_failed" THEN "failing" ELSE "disabled"
         \/ scanTied /\ health \in {"failing", "disabled"}
    /\ told.detector = "reply_detector_started" /\ ~bootTied => health # "disabled"
    /\ Tie("dispatch_tick_started", "dispatch_tick_idle")
         \/ (DeriveDispatchHealth = "running") = (told.dispatch = "dispatch_tick_started")
=============================================================================
