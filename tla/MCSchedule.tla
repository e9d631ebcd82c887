----------------------------- MODULE MCSchedule -----------------------------
(* One instance of what is computed from lists that others change: each
   behaviour grows a batch of enrollments, a table of queued sends or a queue
   of follow-ups, rewrites a sequence, reads the feeds or LinkedIn, or uses
   one of the client's pages. *)
EXTENDS Forecast, Pacing, StepEditor, Feed, LiveReads, Views

VARIABLE part

mcVars == <<vars, forecastVars, pacingVars, editorVars, feedVars, readVars, viewVars, part>>

NoBatch == given = <<>> /\ ledger = <<>>

MCInit ==
    /\ part \in {"stagger", "forecast", "pacing", "batch", "editor", "feed", "reads", "panel", "table", "inbox"}
    /\ IF part = "stagger" THEN Init
       ELSE now \in 0 .. Week * Day - 1 /\ sched \in Schedules /\ NoBatch
    /\ IF part = "forecast" THEN ForecastInit ELSE ForecastIdle
    \* The ladder counts days: fewer hours do.
    /\ part = "forecast" => now % Day \in {0, Hours} /\ sched.hoursStart = 1
    \* A batch only asks whether it is working time.
    /\ part = "batch" => now \in {0, Hours} /\ sched.days = 0 .. Week - 1 /\ sched.hoursStart = 1 /\ sched.hoursEnd = 2
    /\ PacingInit /\ EditorInit /\ FeedInit /\ ReadsInit /\ ViewsInit
    /\ part # "editor" => stepRows = RowsOf(<<BlankStep, BlankStep>>)
    /\ part # "reads" => Promo \notin ToSet(hits)
    /\ part # "panel" => panel.sel = All
    /\ part # "inbox" => inbox.focus = Nobody
    /\ part \notin {"stagger", "forecast", "pacing", "batch"} => now = 0 /\ sched = CHOOSE s \in Schedules : TRUE

PageStep ==
    \/ part = "panel" /\ PanelStep
    \/ part = "table" /\ TableStep
    \/ part = "inbox" /\ InboxStep

MCNext ==
    /\ UNCHANGED part
    /\ \/ part = "stagger" /\ Next /\ UNCHANGED <<forecastVars, pacingVars, editorVars, feedVars, readVars, viewVars>>
       \/ part = "forecast" /\ GetScheduled /\ UNCHANGED <<vars, pacingVars, editorVars, feedVars, readVars, viewVars>>
       \/ part = "pacing" /\ EnqueueFollowUp /\ UNCHANGED <<vars, forecastVars, editorVars, feedVars, readVars, viewVars>>
       \/ part = "batch" /\ CallDueActions /\ UNCHANGED <<vars, forecastVars, editorVars, feedVars, readVars, viewVars>>
       \/ part = "editor" /\ EditorNext /\ UNCHANGED <<vars, forecastVars, pacingVars, feedVars, readVars, viewVars>>
       \/ part = "feed" /\ FeedNext /\ UNCHANGED <<vars, forecastVars, pacingVars, editorVars, readVars, viewVars>>
       \/ part = "reads" /\ ReadsNext /\ UNCHANGED <<vars, forecastVars, pacingVars, editorVars, feedVars, viewVars>>
       \/ part \in {"panel", "table", "inbox"} /\ PageStep
          /\ UNCHANGED <<vars, forecastVars, pacingVars, editorVars, feedVars, readVars>>

MCSpec == MCInit /\ [][MCNext]_mcVars

\* The editor's blank step, a message without a text and one switched off.
MCSteps ==
    {BlankStep, [type |-> "message", filled |-> FALSE, enabled |-> TRUE],
     [type |-> "message", filled |-> TRUE, enabled |-> FALSE]}

\* The sorted column: two rows tie and one has no value.
MCCell == 1 :> 2 @@ 2 :> 0 @@ 3 :> 1 @@ 4 :> 2

\* Callers of define_sequence are interchangeable.
Symmetry == Permutations(Definers)
=============================================================================
