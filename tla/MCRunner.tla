------------------------------ MODULE MCRunner ------------------------------
(* One instance of the parts that meet LinkedIn: each behaviour is one of an
   account's browser session, the watch on one thread, a withdrawal sweep or
   the actions on a page. *)
EXTENDS Browser, ReplyWatch, Sweep, PageActions

VARIABLE part

mcVars == <<browserVars, watchVars, sweepVars, pageVars, part>>

\* What stands still has one initial state.
SweepRests ==
    /\ pile = <<>> /\ age = [i \in Invites |-> "unsent"] /\ parked = {} /\ counter = 0
    /\ sweep = NoSweep /\ tale = Calm /\ sweeps = 0
PageRests == PageInit /\ profile.shows = "bar" /\ profile.invite = "none" /\ profile.gate = "open"

MCInit ==
    /\ part \in {"browser", "watch", "sweep", "page"}
    /\ BrowserInit /\ WatchInit
    /\ IF part = "sweep" THEN SweepInit ELSE SweepRests
    /\ IF part = "page" THEN PageInit ELSE PageRests

MCNext ==
    /\ UNCHANGED part
    /\ \/ part = "browser" /\ BrowserNext /\ UNCHANGED <<watchVars, sweepVars, pageVars>>
       \/ part = "watch" /\ WatchNext /\ UNCHANGED <<browserVars, sweepVars, pageVars>>
       \/ part = "sweep" /\ SweepNext /\ UNCHANGED <<browserVars, watchVars, pageVars>>
       \/ part = "page" /\ PageNext /\ UNCHANGED <<browserVars, watchVars, sweepVars>>

MCSpec == MCInit /\ [][MCNext]_mcVars
=============================================================================
