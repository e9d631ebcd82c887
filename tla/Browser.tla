------------------------------- MODULE Browser -------------------------------
(***************************************************************************)
(* The live browser of one account: LiveSessionProvider's cache of opening *)
(* sessions, the launch with its lock files, cookies and render probe, and *)
(* the executor's recycle of a browser whose page drive timed out.  The    *)
(* cache holds a promise, so every caller that comes while a session is    *)
(* opening waits for the same one; each await is a step of its own.        *)
(*                                                                         *)
(* A cookie jar is a number: the age of the LinkedIn session in it, 0 for  *)
(* none.  LinkedIn and Chromium are external: LinkedIn rotates a session   *)
(* under a live browser, Chromium locks its profile and refuses to start   *)
(* on a locked one.                                                        *)
(***************************************************************************)
EXTENDS Naturals, FiniteSets

CONSTANTS
    Callers,   \* ticks and tools that drive this account's page
    MaxOpens,  \* bound: sessions opened
    MaxIssued  \* bound: LinkedIn sessions issued

ASSUME BrowserAssumption == Callers # {} /\ MaxOpens \in Nat \ {0} /\ MaxIssued \in Nat \ {0}

VARIABLES
    cache,    \* sessions: the opening or open session of the account, 0 for none
    opening,  \* what becomes of each open() call
    caller,   \* what each caller is doing, on which session, and what was retired when it asked
    live,     \* sessions whose Chromium runs
    lock,     \* SingletonLock in the profile: 0 for none, or who wrote it
    jar,      \* the session in the profile's cookie jar
    vault,    \* the session in the account's vault file
    issued,   \* history: LinkedIn sessions issued
    retired   \* history: sessions recycled

browserVars == <<cache, opening, caller, live, lock, jar, vault, issued, retired>>

Opens == 1 .. MaxOpens

Unopened == [pc |-> "unused", tries |-> 0, empty |-> FALSE, alone |-> TRUE]

AtRest == [pc |-> "idle", on |-> 0, seen |-> {}]

Newer == issued + 1

-----------------------------------------------------------------------------
(* session-provider.ts: the cache *)

\* pageFor: join the cached session, or begin to open one.
PageFor(c) ==
    /\ caller[c].pc = "idle"
    /\ IF cache # 0
       THEN /\ caller' = [caller EXCEPT ![c] = [pc |-> "waiting", on |-> cache, seen |-> retired]]
            /\ UNCHANGED <<cache, opening>>
       ELSE \E o \in Opens :
            /\ opening[o].pc = "unused" /\ \A p \in 1 .. o - 1 : opening[p].pc # "unused"
            /\ cache' = o
            /\ opening' = [opening EXCEPT ![o].pc = "locks", ![o].tries = 1]
            /\ caller' = [caller EXCEPT ![c] = [pc |-> "waiting", on |-> o, seen |-> retired]]
    /\ UNCHANGED <<live, lock, jar, vault, issued, retired>>

\* The promise settled: drive the page, or give the error to the caller.
Settled(c) ==
    /\ caller[c].pc = "waiting"
    /\ \/ opening[caller[c].on].pc = "ready" /\ caller' = [caller EXCEPT ![c].pc = "driving"]
       \/ opening[caller[c].on].pc = "failed" /\ caller' = [caller EXCEPT ![c] = AtRest]
    /\ UNCHANGED <<cache, opening, live, lock, jar, vault, issued, retired>>

\* The drive ends well, or in an error that is not a renderer stall.
Driven(c) ==
    /\ caller[c].pc = "driving"
    /\ caller' = [caller EXCEPT ![c] = AtRest]
    /\ UNCHANGED <<cache, opening, live, lock, jar, vault, issued, retired>>

\* Fault: the entry is dropped once the browser is closed.
RecycleLate(c) ==
    /\ caller[c].pc = "driving"
    /\ retired' = retired \union ({cache} \ {0})
    /\ caller' = [caller EXCEPT ![c] = IF cache = 0 THEN AtRest ELSE [@ EXCEPT !.pc = "closing", !.on = cache]]
    /\ UNCHANGED <<cache, opening, live, lock, jar, vault, issued>>

\* The drive timed out: recycle forgets whatever session is cached by now.
Recycle(c) ==
    /\ caller[c].pc = "driving"
    /\ retired' = retired \union ({cache} \ {0})
    /\ caller' = [caller EXCEPT ![c] = IF cache = 0 THEN AtRest ELSE [@ EXCEPT !.pc = "closing", !.on = cache]]
    /\ cache' = 0
    /\ UNCHANGED <<opening, live, lock, jar, vault, issued>>

Unlocked(o) == IF lock = o THEN 0 ELSE lock

\* ... and closes it once it is open; a session that failed to open is gone.
RecycleClose(c) ==
    /\ caller[c].pc = "closing"
    /\ \/ /\ opening[caller[c].on].pc = "ready"
          /\ live' = live \ {caller[c].on} /\ lock' = Unlocked(caller[c].on)
       \/ opening[caller[c].on].pc = "failed" /\ UNCHANGED <<live, lock>>
    /\ caller' = [caller EXCEPT ![c] = AtRest]
    /\ UNCHANGED <<cache, opening, jar, vault, issued, retired>>

-----------------------------------------------------------------------------
(* session-provider.ts: open; lifecycle.ts: resume *)

\* open rejects: its catch handler drops the account's entry, whichever it is.
Rejected(o) == opening' = [opening EXCEPT ![o].pc = "failed"] /\ cache' = 0

\* The guards of an unclean exit are removed, whoever wrote them.
ClearSingletonLocks(o) ==
    /\ opening[o].pc = "locks"
    /\ opening' = [opening EXCEPT ![o].pc = "launch"]
    /\ lock' = 0
    /\ UNCHANGED <<cache, caller, live, jar, vault, issued, retired>>

\* No proxy identity, or the launch itself fails: on a locked profile it must.
LaunchFails(o) ==
    /\ opening[o].pc = "launch" /\ Rejected(o)
    /\ UNCHANGED <<caller, live, lock, jar, vault, issued, retired>>

\* resume: Chromium runs; does the profile hold a session of its own?
Launch(o) ==
    /\ opening[o].pc = "launch" /\ lock = 0
    /\ opening' = [p \in Opens |->
         IF p = o THEN [opening[o] EXCEPT !.pc = "seed", !.empty = (jar = 0),
                                          !.alone = (live = {})]
         ELSE [opening[p] EXCEPT !.alone = @ /\ p \notin live]]
    /\ live' = live \union {o} /\ lock' = o
    /\ UNCHANGED <<cache, caller, jar, vault, issued, retired>>

\* Fault: the vault's cookies are put in whatever the profile holds.
SeedAlways(o) ==
    /\ opening[o].pc = "seed" /\ vault # 0
    /\ jar' = vault
    /\ opening' = [opening EXCEPT ![o].pc = "probe"]
    /\ UNCHANGED <<cache, caller, live, lock, vault, issued, retired>>

\* An empty profile gets the vault's cookies, a logged-in one keeps its own.
Seed(o) ==
    /\ opening[o].pc = "seed" /\ (opening[o].empty => vault # 0)
    /\ jar' = IF opening[o].empty THEN vault ELSE jar
    /\ opening' = [opening EXCEPT ![o].pc = "probe"]
    /\ UNCHANGED <<cache, caller, live, lock, vault, issued, retired>>

\* The vault is missing or unreadable: resume throws, the browser stays up.
SeedFails(o) ==
    /\ opening[o].pc = "seed" /\ opening[o].empty /\ vault = 0
    /\ Rejected(o)
    /\ UNCHANGED <<caller, live, lock, jar, vault, issued, retired>>

Probe(o, healthy) ==
    /\ opening[o].pc = "probe"
    /\ IF healthy
       THEN opening' = [opening EXCEPT ![o].pc = "ready"] /\ UNCHANGED <<cache, live, lock>>
       ELSE /\ live' = live \ {o} /\ lock' = Unlocked(o)
            /\ IF opening[o].tries = 1
               THEN opening' = [opening EXCEPT ![o].pc = "locks", ![o].tries = 2] /\ UNCHANGED cache
               ELSE Rejected(o)
    /\ UNCHANGED <<caller, jar, vault, issued, retired>>

-----------------------------------------------------------------------------
(* Around the provider *)

\* bootstrap, by the login tool while the runtime has no browser up: a human
\* logs in, the profile and the vault hold the new session.
Login ==
    /\ issued < MaxIssued /\ live = {} /\ lock = 0
    /\ issued' = Newer /\ jar' = Newer /\ vault' = Newer
    /\ UNCHANGED <<cache, opening, caller, live, lock, retired>>

\* linkAccount: pasted cookies go to the vault only.
LinkCookies ==
    /\ issued < MaxIssued
    /\ issued' = Newer /\ vault' = Newer
    /\ UNCHANGED <<cache, opening, caller, live, lock, jar, retired>>

\* LinkedIn rotates the session of a logged-in browser.
Rotate ==
    /\ issued < MaxIssued /\ live # {} /\ jar # 0
    /\ issued' = Newer /\ jar' = Newer
    /\ UNCHANGED <<cache, opening, caller, live, lock, vault, retired>>

\* The process ends, with close() or without: every session dies with it, the
\* profile and its lock stay unless the browser was closed in order.
RuntimeRestart ==
    /\ \/ lock' = lock
       \/ cache # 0 /\ opening[cache].pc = "ready" /\ lock' = Unlocked(cache)
    /\ cache' = 0 /\ live' = {} /\ caller' = [c \in Callers |-> AtRest]
    /\ opening' = [o \in Opens |-> IF opening[o].pc = "unused" THEN Unopened
                                   ELSE [opening[o] EXCEPT !.pc = "failed"]]
    /\ UNCHANGED <<jar, vault, issued, retired>>

BrowserInit ==
    /\ cache = 0 /\ live = {} /\ lock = 0
    /\ opening = [o \in Opens |-> Unopened]
    /\ caller = [c \in Callers |-> AtRest]
    /\ jar = 0 /\ vault = 0 /\ issued = 0 /\ retired = {}

BrowserNext ==
    \/ \E c \in Callers :
         PageFor(c) \/ Settled(c) \/ Driven(c) \/ Recycle(c) \/ RecycleClose(c)
    \/ \E o \in Opens :
         \/ ClearSingletonLocks(o) \/ LaunchFails(o) \/ Launch(o) \/ Seed(o) \/ SeedFails(o)
         \/ \E healthy \in BOOLEAN : Probe(o, healthy)
    \/ Login \/ LinkCookies \/ Rotate
    \/ RuntimeRestart

BrowserSpec == BrowserInit /\ [][BrowserNext]_browserVars

-----------------------------------------------------------------------------
(* Properties *)

FreshAfterRecycle == \A c \in Callers : caller[c].pc # "closing" => caller[c].on \notin caller[c].seen

FailedOpenIsDropped == cache # 0 => opening[cache].pc # "failed"

StaleLockIsCleared == \A o \in Opens : opening[o].pc = "launch" => lock \in live \union {0}

(* A wedged or failed session never outlives its failure: a caller that asks
   for the page after a session was recycled is not given that session, one
   that asks after an open failed is not given the failed open, and a profile
   lock left by a dead browser never refuses the next launch. *)
NoDeadSession == FreshAfterRecycle /\ FailedOpenIsDropped /\ StaleLockIsCleared

\* The vault's stale cookies never replace a newer session of the profile,
\* unless another browser ran on the profile beside the one being seeded:
\* pageFor's one session per account holds for its cache, not for the browsers
\* that a recycle has not closed yet.
SessionNeverRollsBack ==
    [][jar' < jar => \E o \in live : ~opening[o].alone]_browserVars
=============================================================================
