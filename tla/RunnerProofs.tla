---------------------------- MODULE RunnerProofs ----------------------------
(***************************************************************************)
(* Theorems about Browser, PageActions, Sweep and ReplyWatch, for every    *)
(* set of callers, every bound on sessions, cookies, drives, invites and   *)
(* events, and every sequence of steps.                                    *)
(***************************************************************************)
EXTENDS Browser, ReplyWatch, Sweep, PageActions, Recursion, FiniteSetTheorems, SequenceTheorems

-----------------------------------------------------------------------------
(* The browser: types *)

OpenType ==
    [pc : {"unused", "locks", "launch", "seed", "probe", "ready", "failed"},
     tries : {0, 1, 2}, empty : BOOLEAN, alone : BOOLEAN]

CallerType ==
    [pc : {"idle", "waiting", "driving", "closing"}, on : Opens \union {0}, seen : SUBSET Opens]

BrowserTypeOK ==
    /\ cache \in Opens \union {0}
    /\ opening \in [Opens -> OpenType]
    /\ caller \in [Callers -> CallerType]
    /\ live \in SUBSET Opens
    /\ lock \in Opens \union {0}
    /\ jar \in Nat
    /\ vault \in Nat
    /\ issued \in Nat
    /\ retired \in SUBSET Opens

\* A caller that waits, drives or closes does so on a session.
OnASession == \A c \in Callers : caller[c].pc # "idle" => caller[c].on \in Opens

\* The bounds of Opens.
LEMMA OpensFacts == 0 \notin Opens
BY BrowserAssumption DEF Opens

\* An opening that moves on, to a second try included, is an opening.
LEMMA OpeningEdits ==
    ASSUME NEW e \in OpenType
    PROVE  /\ \A p \in {"locks", "launch", "seed", "failed", "probe", "ready"} : [e EXCEPT !.pc = p] \in OpenType
           /\ \A n \in {1, 2} : [e EXCEPT !.pc = "locks", !.tries = n] \in OpenType
<1>1. ASSUME NEW p \in {"locks", "launch", "seed", "failed", "probe", "ready"}
      PROVE  [e EXCEPT !.pc = p] \in OpenType
  BY DEF OpenType
<1>2. ASSUME NEW n \in {1, 2} PROVE [e EXCEPT !.pc = "locks", !.tries = n] \in OpenType
  BY DEF OpenType
<1> QED  BY <1>1, <1>2

\* So the table of openings keeps its type.
LEMMA OpeningType ==
    ASSUME NEW f \in [Opens -> OpenType], NEW o \in Opens
    PROVE  /\ \A p \in {"locks", "launch", "seed", "failed", "probe", "ready"} :
                 [f EXCEPT ![o].pc = p] \in [Opens -> OpenType]
           /\ \A n \in {1, 2} : [f EXCEPT ![o].pc = "locks", ![o].tries = n] \in [Opens -> OpenType]
<1>1. ASSUME NEW p \in {"locks", "launch", "seed", "failed", "probe", "ready"}
      PROVE  [f EXCEPT ![o].pc = p] \in [Opens -> OpenType]
  <2>1. [f[o] EXCEPT !.pc = p] \in OpenType
    BY <1>1, OpeningEdits
  <2>2. [f EXCEPT ![o].pc = p] = [f EXCEPT ![o] = [f[o] EXCEPT !.pc = p]]
    OBVIOUS
  <2> QED  BY SMTT(60), <2>1, <2>2
<1>2. ASSUME NEW n \in {1, 2}
      PROVE  [f EXCEPT ![o].pc = "locks", ![o].tries = n] \in [Opens -> OpenType]
  <2>1. [f[o] EXCEPT !.pc = "locks", !.tries = n] \in OpenType
    BY <1>2, OpeningEdits
  <2>2. [f EXCEPT ![o].pc = "locks", ![o].tries = n] = [f EXCEPT ![o] = [f[o] EXCEPT !.pc = "locks", !.tries = n]]
    OBVIOUS
  <2> QED  BY SMTT(60), <2>1, <2>2
<1> QED  BY <1>1, <1>2

\* The steps of callers and sessions keep the types.
LEMMA BrowserTypeStep ==
    ASSUME BrowserTypeOK, OnASession, [BrowserNext]_browserVars
    PROVE  BrowserTypeOK' /\ OnASession'
<1> USE DEF BrowserTypeOK
<1>0. CASE UNCHANGED browserVars
  BY <1>0 DEF browserVars, OnASession
<1>o. opening \in [Opens -> OpenType]
  OBVIOUS
<1>1. ASSUME NEW c \in Callers, PageFor(c) PROVE BrowserTypeOK' /\ OnASession'
  <2>1. CASE cache # 0
    <3>1. caller' = [caller EXCEPT ![c] = [pc |-> "waiting", on |-> cache, seen |-> retired]]
      BY <1>1, <2>1 DEF PageFor
    <3>2. UNCHANGED <<cache, opening, live, lock, jar, vault, issued, retired>>
      BY <1>1, <2>1 DEF PageFor
    <3> QED  BY <2>1, <3>1, <3>2 DEF CallerType, OnASession
  <2>2. CASE cache = 0
    <3>1. PICK o \in Opens :
            /\ cache' = o
            /\ opening' = [opening EXCEPT ![o].pc = "locks", ![o].tries = 1]
            /\ caller' = [caller EXCEPT ![c] = [pc |-> "waiting", on |-> o, seen |-> retired]]
      BY <1>1, <2>2 DEF PageFor
    <3>2. UNCHANGED <<live, lock, jar, vault, issued, retired>>
      BY <1>1 DEF PageFor
    <3>3. opening' \in [Opens -> OpenType]
      BY <3>1, OpeningType
    <3>4. caller' \in [Callers -> CallerType]
      BY <3>1 DEF CallerType
    <3>5. OnASession'
      BY <3>1 DEF OnASession
    <3> QED  BY <3>1, <3>2, <3>3, <3>4, <3>5
  <2> QED  BY <2>1, <2>2
<1>2. ASSUME NEW c \in Callers, Settled(c) PROVE BrowserTypeOK' /\ OnASession'
  BY <1>2 DEF Settled, AtRest, CallerType, OnASession
<1>3. ASSUME NEW c \in Callers, Driven(c) PROVE BrowserTypeOK' /\ OnASession'
  BY <1>3 DEF Driven, AtRest, CallerType, OnASession
<1>4. ASSUME NEW c \in Callers, Recycle(c) PROVE BrowserTypeOK' /\ OnASession'
  <2>1. CASE cache = 0
    BY <1>4, <2>1 DEF Recycle, AtRest, CallerType, OnASession
  <2>2. CASE cache # 0
    BY ZenonT(60), <1>4, <2>2 DEF Recycle, AtRest, CallerType, OnASession
  <2> QED  BY <2>1, <2>2
<1>5. ASSUME NEW c \in Callers, RecycleClose(c) PROVE BrowserTypeOK' /\ OnASession'
  BY <1>5 DEF RecycleClose, Unlocked, AtRest, CallerType, OnASession
<1>6. ASSUME NEW o \in Opens, \/ ClearSingletonLocks(o) \/ LaunchFails(o) \/ Seed(o) \/ SeedFails(o)
      PROVE  BrowserTypeOK' /\ OnASession'
  <2>1. PICK p \in {"launch", "failed", "probe"} : opening' = [opening EXCEPT ![o].pc = p]
    <3>1. CASE ClearSingletonLocks(o)
      BY <3>1 DEF ClearSingletonLocks
    <3>2. CASE LaunchFails(o) \/ SeedFails(o)
      BY <3>2 DEF LaunchFails, SeedFails, Rejected
    <3>3. CASE Seed(o)
      BY <3>3 DEF Seed
    <3> QED  BY <1>6, <3>1, <3>2, <3>3
  <2>2. opening' \in [Opens -> OpenType]
    BY <1>o, <2>1, OpeningType
  <2> QED  BY <1>6, <2>2 DEF ClearSingletonLocks, LaunchFails, Seed, SeedFails, Rejected, OnASession
<1>7. ASSUME NEW o \in Opens, Launch(o) PROVE BrowserTypeOK' /\ OnASession'
  <2>1. \A p \in Opens, b \in BOOLEAN, d \in BOOLEAN :
          /\ [opening[p] EXCEPT !.pc = "seed", !.empty = b, !.alone = d] \in OpenType
          /\ [opening[p] EXCEPT !.alone = d] \in OpenType
          /\ opening[p].alone \in BOOLEAN
    <3> SUFFICES ASSUME NEW e \in OpenType, NEW b \in BOOLEAN, NEW d \in BOOLEAN
                 PROVE  /\ [e EXCEPT !.pc = "seed", !.empty = b, !.alone = d] \in OpenType
                        /\ [e EXCEPT !.alone = d] \in OpenType
                        /\ e.alone \in BOOLEAN
      BY <1>o
    <3> HIDE DEF BrowserTypeOK
    <3> QED  BY DEF OpenType
  <2>2. \A p \in Opens : [opening[p] EXCEPT !.alone = @ /\ p \notin live] \in OpenType
    <3> SUFFICES ASSUME NEW p \in Opens PROVE [opening[p] EXCEPT !.alone = @ /\ p \notin live] \in OpenType
      OBVIOUS
    <3>1. PICK d \in BOOLEAN : d = (opening[p].alone /\ p \notin live)
      OBVIOUS
    <3> QED  BY <2>1, <3>1
  <2>3. [opening[o] EXCEPT !.pc = "seed", !.empty = (jar = 0), !.alone = (live = {})] \in OpenType
    <3>1. PICK b \in BOOLEAN, d \in BOOLEAN : b = (jar = 0) /\ d = (live = {})
      OBVIOUS
    <3> QED  BY <2>1, <3>1
  <2>4. opening' \in [Opens -> OpenType]
    BY <1>7, <2>2, <2>3 DEF Launch
  <2> QED  BY <1>7, <2>4 DEF Launch, OnASession
<1>8. ASSUME NEW o \in Opens, NEW healthy \in BOOLEAN, Probe(o, healthy)
      PROVE  BrowserTypeOK' /\ OnASession'
  <2>1. opening' \in [Opens -> OpenType]
    <3>1. \/ opening' = [opening EXCEPT ![o].pc = "ready"]
          \/ opening' = [opening EXCEPT ![o].pc = "failed"]
          \/ opening' = [opening EXCEPT ![o].pc = "locks", ![o].tries = 2]
      BY <1>8 DEF Probe, Rejected
    <3>2. /\ [opening EXCEPT ![o].pc = "ready"] \in [Opens -> OpenType]
          /\ [opening EXCEPT ![o].pc = "failed"] \in [Opens -> OpenType]
          /\ [opening EXCEPT ![o].pc = "locks", ![o].tries = 2] \in [Opens -> OpenType]
      BY <1>o, OpeningType
    <3> QED  BY <3>1, <3>2
  <2> QED  BY <1>8, <2>1 DEF Probe, Rejected, Unlocked, OnASession
<1>9. ASSUME Login \/ LinkCookies \/ Rotate PROVE BrowserTypeOK' /\ OnASession'
  BY <1>9 DEF Login, LinkCookies, Rotate, Newer, OnASession
<1>10. ASSUME RuntimeRestart PROVE BrowserTypeOK' /\ OnASession'
  <2>1. Unopened \in OpenType /\ AtRest \in CallerType
    BY DEF Unopened, AtRest, OpenType, CallerType
  <2>2. \A o \in Opens : [opening[o] EXCEPT !.pc = "failed"] \in OpenType
    BY <1>o, OpeningEdits
  <2>3. opening' \in [Opens -> OpenType] /\ caller' \in [Callers -> CallerType]
    BY <1>10, <2>1, <2>2 DEF RuntimeRestart
  <2>4. OnASession'
    BY <1>10 DEF RuntimeRestart, AtRest, OnASession
  <2> QED  BY <1>10, <2>3, <2>4 DEF RuntimeRestart, Unlocked
<1> QED
  BY <1>0, <1>1, <1>2, <1>3, <1>4, <1>5, <1>6, <1>7, <1>8, <1>9, <1>10 DEF BrowserNext

-----------------------------------------------------------------------------
(* The browser: no dead session *)

\* A session that was recycled has been opened, and is not the cached one.
RetiredInv ==
    /\ cache \notin retired
    /\ \A o \in retired : opening[o].pc # "unused"
    /\ cache # 0 => opening[cache].pc # "unused"

SessionInv == BrowserTypeOK /\ OnASession /\ RetiredInv /\ NoDeadSession

LEMMA SessionInvInit == BrowserInit => SessionInv
BY BrowserAssumption DEF BrowserInit, SessionInv, BrowserTypeOK, OnASession, RetiredInv, NoDeadSession,
   FreshAfterRecycle, FailedOpenIsDropped, StaleLockIsCleared, Opens, Unopened, AtRest, OpenType,
   CallerType

\* Every step keeps retired sessions out of the cache and out of later hands,
\* drops a failed open and leaves no lock of a dead browser to a launch.
LEMMA SessionInvStep ==
    ASSUME SessionInv, [BrowserNext]_browserVars PROVE SessionInv'
<1> USE DEF BrowserTypeOK
<1> DEFINE Rest == /\ RetiredInv' /\ FreshAfterRecycle'
                   /\ FailedOpenIsDropped' /\ StaleLockIsCleared'
<1>0. BrowserTypeOK' /\ OnASession'
  BY BrowserTypeStep DEF SessionInv
<1>a. BrowserTypeOK /\ OnASession /\ RetiredInv /\ FreshAfterRecycle /\ FailedOpenIsDropped
        /\ StaleLockIsCleared
  BY DEF SessionInv, NoDeadSession
<1>1. CASE UNCHANGED browserVars
  BY <1>0, <1>1, <1>a DEF browserVars, RetiredInv, FreshAfterRecycle, FailedOpenIsDropped,
     StaleLockIsCleared, SessionInv, NoDeadSession
<1>2. ASSUME NEW c \in Callers, PageFor(c) PROVE Rest
  <2>1. UNCHANGED <<live, lock, retired>>
    BY <1>2 DEF PageFor
  <2>2. CASE cache # 0
    <3>1. /\ caller' = [caller EXCEPT ![c] = [pc |-> "waiting", on |-> cache, seen |-> retired]]
          /\ UNCHANGED <<cache, opening>>
      BY <1>2, <2>2 DEF PageFor
    <3> QED  BY <1>a, <2>1, <3>1 DEF RetiredInv, FreshAfterRecycle, FailedOpenIsDropped,
                 StaleLockIsCleared, CallerType
  <2>3. CASE cache = 0
    <3>1. PICK o \in Opens :
            /\ opening[o].pc = "unused"
            /\ cache' = o
            /\ opening' = [opening EXCEPT ![o].pc = "locks", ![o].tries = 1]
            /\ caller' = [caller EXCEPT ![c] = [pc |-> "waiting", on |-> o, seen |-> retired]]
      BY <1>2, <2>3 DEF PageFor
    <3>2. o \notin retired
      BY <1>a, <3>1 DEF RetiredInv
    <3>3. RetiredInv' /\ FailedOpenIsDropped' /\ StaleLockIsCleared'
      BY <1>a, <2>1, <3>1, <3>2 DEF RetiredInv, FailedOpenIsDropped, StaleLockIsCleared, OpenType
    <3>4. FreshAfterRecycle'
      BY <1>a, <3>1, <3>2 DEF FreshAfterRecycle, CallerType
    <3> QED  BY <3>3, <3>4
  <2> QED  BY <2>2, <2>3
<1>3. ASSUME NEW c \in Callers, Settled(c) \/ Driven(c) PROVE Rest
  BY <1>3, <1>a, OpensFacts DEF Settled, Driven, AtRest, RetiredInv, FreshAfterRecycle,
     FailedOpenIsDropped, StaleLockIsCleared, CallerType
<1>4. ASSUME NEW c \in Callers, Recycle(c) PROVE Rest
  BY <1>4, <1>a, OpensFacts DEF Recycle, AtRest, RetiredInv, FreshAfterRecycle,
     FailedOpenIsDropped, StaleLockIsCleared, CallerType
<1>5. ASSUME NEW c \in Callers, RecycleClose(c) PROVE Rest
  BY <1>5, <1>a, OpensFacts DEF RecycleClose, Unlocked, AtRest, RetiredInv, FreshAfterRecycle,
     FailedOpenIsDropped, StaleLockIsCleared, CallerType
<1>6. ASSUME NEW o \in Opens,
             ClearSingletonLocks(o) \/ LaunchFails(o) \/ Seed(o) \/ SeedFails(o)
      PROVE  Rest
  BY <1>6, <1>a, OpensFacts DEF ClearSingletonLocks, LaunchFails, Seed, SeedFails, Rejected,
     RetiredInv, FreshAfterRecycle, FailedOpenIsDropped, StaleLockIsCleared, OpenType
<1>7. ASSUME NEW o \in Opens, Launch(o) PROVE Rest
  <2>1. UNCHANGED <<cache, caller, retired>> /\ lock' = o /\ live' = live \union {o}
    BY <1>7 DEF Launch
  <2>2. /\ opening[o].pc = "launch" /\ opening'[o].pc = "seed"
        /\ \A p \in Opens : p # o => opening'[p].pc = opening[p].pc
    <3>1. opening[o].pc = "launch" /\ \A p \in Opens : opening[p] \in OpenType
      BY <1>7, <1>a DEF Launch
    <3>2. opening'[o] = [opening[o] EXCEPT !.pc = "seed", !.empty = (jar = 0), !.alone = (live = {})]
      BY <1>7 DEF Launch
    <3>3. \A p \in Opens : p # o => opening'[p] = [opening[p] EXCEPT !.alone = @ /\ p \notin live]
      BY <1>7 DEF Launch
    <3>4. opening'[o].pc = "seed"
      BY <3>1, <3>2 DEF OpenType
    <3> QED  BY <3>1, <3>3, <3>4 DEF OpenType
  <2>3. RetiredInv' /\ FailedOpenIsDropped'
    BY <1>a, <2>1, <2>2 DEF RetiredInv, FailedOpenIsDropped
  <2>4. FreshAfterRecycle'
    BY <1>a, <2>1 DEF FreshAfterRecycle
  <2>5. StaleLockIsCleared'
    BY <1>a, <2>1, <2>2 DEF StaleLockIsCleared
  <2> QED  BY <2>3, <2>4, <2>5
<1>8. ASSUME NEW o \in Opens, NEW healthy \in BOOLEAN, Probe(o, healthy) PROVE Rest
  BY <1>8, <1>a, OpensFacts DEF Probe, Rejected, Unlocked, RetiredInv, FreshAfterRecycle,
     FailedOpenIsDropped, StaleLockIsCleared, OpenType
<1>9. ASSUME Login \/ LinkCookies \/ Rotate PROVE Rest
  BY <1>9, <1>a DEF Login, LinkCookies, Rotate, RetiredInv, FreshAfterRecycle,
     FailedOpenIsDropped, StaleLockIsCleared
<1>10. ASSUME RuntimeRestart PROVE Rest
  BY <1>10, <1>a, OpensFacts DEF RuntimeRestart, Unopened, AtRest, RetiredInv, FreshAfterRecycle,
     FailedOpenIsDropped, StaleLockIsCleared, OpenType
<1>11. CASE BrowserNext
  BY <1>0, <1>2, <1>3, <1>4, <1>5, <1>6, <1>7, <1>8, <1>9, <1>10, <1>11
     DEF BrowserNext, SessionInv, NoDeadSession
<1> QED  BY <1>1, <1>11

(* Whatever callers, launches, recycles, logins and restarts come together, no
   caller that asks for the page after a session was recycled is given it, no
   caller is given an open that failed, and the lock of a dead browser never
   refuses a launch. *)
THEOREM NoSessionOutlivesItsFailure == BrowserSpec => []NoDeadSession
<1>1. SessionInv => NoDeadSession
  BY DEF SessionInv
<1> QED  BY <1>1, SessionInvInit, SessionInvStep, PTL DEF BrowserSpec

-----------------------------------------------------------------------------
(* The browser: whose cookies are in the jar *)

\* A browser that puts cookies in runs; of two that run each knows it is not
\* alone; a profile found empty stays empty until someone else fills it; and
\* no jar holds a session LinkedIn has not issued.
JarInv ==
    /\ \A o \in Opens : opening[o].pc = "seed" => o \in live
    /\ \A o, p \in live : o # p => ~opening[o].alone
    /\ \A o \in Opens : opening[o].pc = "seed" /\ opening[o].empty =>
          jar = 0 \/ ~opening[o].alone
    /\ jar <= issued /\ vault <= issued

CookieInv == BrowserTypeOK /\ OnASession /\ JarInv

LEMMA CookieInvInit == BrowserInit => CookieInv
BY BrowserAssumption DEF BrowserInit, CookieInv, BrowserTypeOK, OnASession, JarInv, Opens, Unopened,
   AtRest, OpenType, CallerType

\* Every step keeps the books of the jar, and only a seeding browser that is
\* not alone takes the jar back.
LEMMA CookieInvStep ==
    ASSUME CookieInv, [BrowserNext]_browserVars
    PROVE  CookieInv' /\ (jar' < jar => \E o \in live : ~opening[o].alone)
<1> USE DEF BrowserTypeOK
<1> DEFINE Forward == jar' < jar => \E o \in live : ~opening[o].alone
<1>0. BrowserTypeOK' /\ OnASession'
  BY BrowserTypeStep DEF CookieInv
<1>a. BrowserTypeOK /\ OnASession /\ JarInv
  BY DEF CookieInv
<1>1. CASE UNCHANGED browserVars
  BY <1>0, <1>1, <1>a DEF browserVars, JarInv, CookieInv
<1>2. ASSUME NEW c \in Callers, PageFor(c) PROVE JarInv' /\ Forward
  <2>1. UNCHANGED <<live, jar, vault, issued>>
    BY <1>2 DEF PageFor
  <2>2. CASE cache # 0
    <3>1. UNCHANGED opening
      BY <1>2, <2>2 DEF PageFor
    <3> QED  BY <1>a, <2>1, <3>1 DEF JarInv
  <2>3. CASE cache = 0
    <3>1. PICK o \in Opens : opening' = [opening EXCEPT ![o].pc = "locks", ![o].tries = 1]
      BY <1>2, <2>3 DEF PageFor
    <3> QED  BY <1>a, <2>1, <3>1 DEF JarInv, OpenType
  <2> QED  BY <2>2, <2>3
<1>3. ASSUME NEW c \in Callers, Settled(c) \/ Driven(c) \/ Recycle(c) PROVE JarInv' /\ Forward
  BY <1>3, <1>a DEF Settled, Driven, Recycle, JarInv
<1>4. ASSUME NEW c \in Callers, RecycleClose(c) PROVE JarInv' /\ Forward
  BY <1>4, <1>a DEF RecycleClose, JarInv
<1>5. ASSUME NEW o \in Opens, ClearSingletonLocks(o) \/ LaunchFails(o) \/ SeedFails(o)
      PROVE  JarInv' /\ Forward
  BY <1>5, <1>a DEF ClearSingletonLocks, LaunchFails, SeedFails, Rejected, JarInv, OpenType
<1>6. ASSUME NEW o \in Opens, Seed(o) PROVE JarInv' /\ Forward
  <2>1. /\ opening[o].pc = "seed"
        /\ jar' = IF opening[o].empty THEN vault ELSE jar
        /\ opening' = [opening EXCEPT ![o].pc = "probe"]
        /\ UNCHANGED <<live, vault, issued>>
    BY <1>6 DEF Seed
  <2>2. o \in live
    BY <1>a, <2>1 DEF JarInv
  <2>3. Forward
    BY <1>a, <2>1, <2>2 DEF JarInv
  <2>4. \A p \in Opens : p # o => opening'[p] = opening[p]
    BY <2>1
  <2>5. opening'[o].pc = "probe" /\ opening'[o].alone = opening[o].alone
    BY <1>a, <2>1 DEF OpenType
  <2>6. ASSUME NEW p \in Opens, opening'[p].pc = "seed"
        PROVE  p \in live' /\ p # o /\ ~opening'[p].alone
    <3>1. p # o /\ opening'[p] = opening[p]
      BY <2>4, <2>5, <2>6
    <3>2. p \in live
      BY <1>a, <2>6, <3>1 DEF JarInv
    <3> QED  BY <1>a, <2>1, <2>2, <3>1, <3>2 DEF JarInv
  <2>7. \A p, q \in live' : p # q => ~opening'[p].alone
    BY <1>a, <2>1, <2>4, <2>5 DEF JarInv
  <2>8. jar' <= issued' /\ vault' <= issued'
    BY <1>a, <2>1 DEF JarInv
  <2> QED  BY <2>3, <2>6, <2>7, <2>8 DEF JarInv
<1>7. ASSUME NEW o \in Opens, Launch(o) PROVE JarInv' /\ Forward
  <2>1. /\ live' = live \union {o}
        /\ UNCHANGED <<jar, vault, issued>>
    BY <1>7 DEF Launch
  <2>2. /\ opening'[o].pc = "seed"
        /\ opening'[o].empty = (jar = 0)
        /\ opening'[o].alone = (live = {})
    BY <1>7, <1>a DEF Launch, OpenType
  <2>3. ASSUME NEW p \in Opens, p # o
        PROVE  /\ opening'[p].pc = opening[p].pc
               /\ opening'[p].empty = opening[p].empty
               /\ opening'[p].alone = (opening[p].alone /\ p \notin live)
    BY ZenonT(60), <1>7, <1>a, <2>3 DEF Launch, OpenType
  <2>4. \A p \in Opens : opening'[p].pc = "seed" => p \in live'
    BY <1>a, <2>1, <2>2, <2>3 DEF JarInv
  <2>5. \A p, q \in live' : p # q => ~opening'[p].alone
    <3>1. ASSUME NEW p \in live', NEW q \in live', p # q PROVE ~opening'[p].alone
      <4>1. CASE p = o
        BY <2>1, <2>2, <3>1, <4>1
      <4>2. CASE p # o
        BY <1>a, <2>1, <2>3, <3>1, <4>2
      <4> QED  BY <4>1, <4>2
    <3> QED  BY <3>1
  <2>6. ASSUME NEW p \in Opens, opening'[p].pc = "seed", opening'[p].empty
        PROVE  jar' = 0 \/ ~opening'[p].alone
    <3>1. CASE p = o
      BY <2>1, <2>2, <2>6, <3>1
    <3>2. CASE p # o
      BY <1>a, <2>1, <2>3, <2>6, <3>2 DEF JarInv
    <3> QED  BY <3>1, <3>2
  <2> QED  BY SMTT(60), <1>a, <2>1, <2>4, <2>5, <2>6 DEF JarInv
<1>8. ASSUME NEW o \in Opens, NEW healthy \in BOOLEAN, Probe(o, healthy) PROVE JarInv' /\ Forward
  BY <1>8, <1>a DEF Probe, Rejected, JarInv, OpenType
<1>9. ASSUME Login \/ LinkCookies PROVE JarInv' /\ Forward
  BY <1>9, <1>a DEF Login, LinkCookies, Newer, JarInv
<1>10. ASSUME Rotate PROVE JarInv' /\ Forward
  BY <1>10, <1>a DEF Rotate, Newer, JarInv
<1>11. ASSUME RuntimeRestart PROVE JarInv' /\ Forward
  BY <1>11, <1>a DEF RuntimeRestart, Unopened, JarInv, OpenType
<1>12. CASE BrowserNext
  BY <1>0, <1>2, <1>3, <1>4, <1>5, <1>6, <1>7, <1>8, <1>9, <1>10, <1>11, <1>12
     DEF BrowserNext, CookieInv
<1> QED  BY <1>1, <1>12

(* An older LinkedIn session never replaces a newer one in the profile, but
   where a second Chromium runs on it: however launches, seeds, logins,
   rotations, recycles and restarts are interleaved. *)
THEOREM JarMovesForward == BrowserSpec => SessionNeverRollsBack
<1>1. ASSUME CookieInv, [BrowserNext]_browserVars
      PROVE  [jar' < jar => \E o \in live : ~opening[o].alone]_browserVars
  BY <1>1, CookieInvStep
<1>2. ASSUME CookieInv, [BrowserNext]_browserVars PROVE CookieInv'
  BY <1>2, CookieInvStep
<1> QED  BY <1>1, <1>2, CookieInvInit, PTL DEF BrowserSpec, SessionNeverRollsBack

-----------------------------------------------------------------------------
(* The page actions: types *)

ConnectPcs == {"connect", "menu", "clicked", "send", "check"}
MessagePcs == {"message", "url", "anchor", "compose", "press"}
WithdrawPcs == {"withdraw", "post"}

ActType ==
    [kind : {"none", "connect", "message", "withdraw", "touch"},
     pc : ConnectPcs \union MessagePcs \union WithdrawPcs \union {"touch", "idle"},
     res : {"none", "ok", "noop", "refused", "threw"},
     note : BOOLEAN, member : BOOLEAN, verified : BOOLEAN,
     typed : {"none", "main", "overlay"}, late : BOOLEAN]

ChatType ==
    [who : Cards \union {"none"}, flow : {"none", "new", "existing", "inmail"},
     card : BOOLEAN, quotes : BOOLEAN, sidebar : BOOLEAN,
     overlay : {"none", "target", "namesake"},
     main : {"empty", "suggested", "body"}, bubble : {"empty", "body"}]

PageTypeOK ==
    /\ profile \in Profiles
    /\ pane \in {"nothing", "email", "lockout", "modal", "toast"}
    /\ inflight \in {"none", "connect", "send"}
    /\ chat \in ChatType
    /\ act \in ActType
    /\ drives \in Nat

\* A place in an action belongs to its kind, and an answer ends it.
KindInv ==
    /\ act.pc \in ConnectPcs => act.kind = "connect"
    /\ act.pc \in MessagePcs => act.kind = "message"
    /\ act.pc \in WithdrawPcs => act.kind = "withdraw"
    /\ act.pc = "touch" => act.kind = "touch"
    /\ act.res # "none" => act.pc = "idle"

LEMMA AnswerType ==
    ASSUME PageTypeOK, NEW r \in {"ok", "noop", "refused", "threw"}
    PROVE  /\ Answer(r) \in ActType
           /\ Answer(r).pc = "idle" /\ Answer(r).kind = act.kind /\ Answer(r).res = r
           /\ Answer(r).late = act.late /\ Answer(r).verified = act.verified
BY DEF Answer, ActType, PageTypeOK

\* An action that moves on keeps the rest of its record.
LEMMA MovesOn ==
    ASSUME PageTypeOK,
           NEW p \in ConnectPcs \union MessagePcs \union WithdrawPcs \union {"touch", "idle"}
    PROVE  /\ [act EXCEPT !.pc = p] \in ActType /\ [act EXCEPT !.pc = p].pc = p
           /\ [act EXCEPT !.pc = p].kind = act.kind /\ [act EXCEPT !.pc = p].res = act.res
           /\ [act EXCEPT !.pc = p].late = act.late
           /\ [act EXCEPT !.pc = p].verified = act.verified
BY DEF ActType, PageTypeOK

\* A thread that is opened, and a box that is typed in or emptied, stay in type.
LEMMA ChatEdits ==
    ASSUME NEW c \in ChatType
    PROVE  /\ \A w \in Cards, f \in {"new", "existing", "inmail"}, q \in BOOLEAN, b \in BOOLEAN,
                 t \in {"empty", "suggested"} :
                 [c EXCEPT !.who = w, !.flow = f, !.quotes = q, !.sidebar = b, !.main = t] \in ChatType
           /\ \A t \in {"empty", "body"} : [c EXCEPT !.main = t] \in ChatType
           /\ \A t \in {"empty", "body"} : [c EXCEPT !.bubble = t] \in ChatType
<1>1. ASSUME NEW w \in Cards, NEW f \in {"new", "existing", "inmail"}, NEW q \in BOOLEAN,
             NEW b \in BOOLEAN, NEW t \in {"empty", "suggested"}
      PROVE  [c EXCEPT !.who = w, !.flow = f, !.quotes = q, !.sidebar = b, !.main = t] \in ChatType
  BY DEF ChatType
<1>2. ASSUME NEW t \in {"empty", "body"}
      PROVE  [c EXCEPT !.main = t] \in ChatType
  BY DEF ChatType
<1>3. ASSUME NEW t \in {"empty", "body"}
      PROVE  [c EXCEPT !.bubble = t] \in ChatType
  BY DEF ChatType
<1> QED  BY <1>1, <1>2, <1>3

\* The first card that fits is one of the cards.
LEMMA PickedCard ==
    ASSUME NEW fit, fit \subseteq 1 .. 2, fit # {}
    PROVE  (CHOOSE i \in fit : \A j \in fit : i <= j) \in fit
<1>1. \E i \in fit : \A j \in fit : i <= j
  <2>1. CASE 1 \in fit
    <3>1. \A j \in fit : 1 <= j
      OBVIOUS
    <3> QED  BY <2>1, <3>1
  <2>2. CASE 1 \notin fit
    <3>1. \A j \in fit : j = 2
      BY <2>2
    <3>2. PICK j \in fit : TRUE
      OBVIOUS
    <3>3. 2 \in fit /\ \A k \in fit : 2 <= k
      BY <3>1, <3>2
    <3> QED  BY <3>3
  <2> QED  BY <2>1, <2>2
<1> QED  BY <1>1

\* A drive begins on a page that is reloaded, at the start of its action or
\* with a refused token.
LEMMA DriveStarts ==
    ASSUME PageTypeOK, Drive
    PROVE  /\ \E kind \in {"connect", "message", "withdraw", "touch"} :
                \/ act'.kind = kind /\ act'.pc = kind /\ act'.res = "none"
                \/ act'.kind = kind /\ act'.pc = "idle" /\ act'.res = "threw"
           /\ act' \in ActType
           /\ inflight' = "none" /\ pane' = "nothing" /\ chat' = NoChat
           /\ profile' \in Profiles /\ profile'.invite # "ours"
           /\ drives' = drives + 1 /\ UNCHANGED delivered
<1> USE DEF PageTypeOK
<1>1. PICK kind \in {"connect", "message", "withdraw", "touch"}, token \in {"valid", "rejected"},
           options \in ActType :
        Start(kind, token, options) /\ options.pc = "idle" /\ options.res = "none"
  <2>1. PICK kind \in {"connect", "message", "withdraw", "touch"}, token \in {"valid", "rejected"},
             note \in BOOLEAN, member \in BOOLEAN :
          Start(kind, token, [Idle EXCEPT !.note = note /\ kind = "connect",
                                          !.member = member /\ kind = "message"])
    BY DEF Drive
  <2>2. PICK n \in BOOLEAN, m \in BOOLEAN :
          n = (note /\ kind = "connect") /\ m = (member /\ kind = "message")
    OBVIOUS
  <2>3. Start(kind, token, [Idle EXCEPT !.note = n, !.member = m])
    BY <2>1, <2>2
  <2>4. /\ [Idle EXCEPT !.note = n, !.member = m] \in ActType
        /\ [Idle EXCEPT !.note = n, !.member = m].pc = "idle"
        /\ [Idle EXCEPT !.note = n, !.member = m].res = "none"
    BY ZenonT(60) DEF Idle, ActType
  <2> QED  BY <2>3, <2>4
<1>2. /\ act' \in ActType
      /\ \/ act'.kind = kind /\ act'.pc = kind /\ act'.res = "none"
         \/ act'.kind = kind /\ act'.pc = "idle" /\ act'.res = "threw"
  <2>1. act' = IF token = "valid" THEN [options EXCEPT !.kind = kind, !.pc = kind]
               ELSE [Idle EXCEPT !.kind = kind, !.res = "threw"]
    BY <1>1 DEF Start
  <2>2. kind \in ConnectPcs \union MessagePcs \union WithdrawPcs \union {"touch", "idle"}
    BY DEF ConnectPcs, MessagePcs, WithdrawPcs
  <2>3. CASE token = "valid"
    <3>1. act' = [options EXCEPT !.kind = kind, !.pc = kind]
      BY <2>1, <2>3
    <3>2. act' \in ActType
      BY <1>1, <2>2, <3>1 DEF ActType
    <3>3. act'.kind = kind /\ act'.pc = kind /\ act'.res = options.res
      BY <1>1, <3>1 DEF ActType
    <3> QED  BY <1>1, <3>2, <3>3
  <2>4. CASE token # "valid"
    <3>1. act' = [Idle EXCEPT !.kind = kind, !.res = "threw"]
      BY <2>1, <2>4
    <3>2. act' = [kind |-> kind, pc |-> "idle", res |-> "threw", note |-> FALSE, member |-> FALSE,
                  verified |-> FALSE, typed |-> "none", late |-> FALSE]
      BY <3>1 DEF Idle
    <3> QED  BY <2>2, <3>2 DEF ActType
  <2> QED  BY <2>3, <2>4
<1>3. /\ inflight' = "none" /\ pane' = "nothing" /\ chat' = NoChat
      /\ profile' \in Profiles /\ profile'.invite # "ours"
  BY <1>1 DEF Start, Profiles
<1>4. drives' = drives + 1 /\ UNCHANGED delivered
  BY <1>1 DEF Start
<1> QED  BY <1>2, <1>3, <1>4

\* Every step of the page, of LinkedIn and of the actions keeps the types.
LEMMA PageTypeStep ==
    ASSUME PageTypeOK, KindInv, [PageNext]_pageVars PROVE PageTypeOK' /\ KindInv'
<1> USE DEF PageTypeOK
<1>0. CASE UNCHANGED pageVars
  BY <1>0 DEF pageVars, KindInv
<1>1. CASE Drive
  <2>1. KindInv'
    <3>1. PICK kind \in {"connect", "message", "withdraw", "touch"} :
            \/ act'.kind = kind /\ act'.pc = kind /\ act'.res = "none"
            \/ act'.kind = kind /\ act'.pc = "idle" /\ act'.res = "threw"
      BY <1>1, DriveStarts
    <3> QED  BY <3>1 DEF KindInv, ConnectPcs, MessagePcs, WithdrawPcs
  <2>2. NoChat \in ChatType
    BY SMTT(60) DEF NoChat, ChatType
  <2> QED  BY <1>1, <2>1, <2>2, DriveStarts
<1>2. CASE Touch \/ WaitForConnectSignal \/ OpenConnectMenu \/ AfterConnectClick \/ SendWithNote
             \/ SendWithoutNote \/ UrlCheck \/ AnchorCheck \/ WithdrawFind
  <2>1. \/ \E r \in {"ok", "noop", "refused", "threw"} : act' = Answer(r)
        \/ act.pc = "connect" /\ \E p \in {"clicked", "menu"} : act' = [act EXCEPT !.pc = p]
        \/ act.pc = "menu" /\ act' = [act EXCEPT !.pc = "clicked"]
        \/ act.pc = "clicked" /\ act' = [act EXCEPT !.pc = "send"]
        \/ act.pc = "send" /\ act' = [act EXCEPT !.pc = "check"]
        \/ act.pc = "url" /\ \E v \in BOOLEAN, p \in {"compose", "anchor"} :
                               act' = [act EXCEPT !.verified = v, !.pc = p]
        \/ act.pc = "anchor" /\ act' = [act EXCEPT !.pc = "compose"]
        \/ act.pc = "withdraw" /\ act' = [act EXCEPT !.pc = "post"]
    BY ZenonT(60), <1>2 DEF Touch, WaitForConnectSignal, OpenConnectMenu, AfterConnectClick, SendWithNote,
       SendWithoutNote, UrlCheck, UrlVerified, AnchorCheck, WithdrawFind
  <2>2. act' \in ActType /\ KindInv'
    <3>1. ASSUME NEW r \in {"ok", "noop", "refused", "threw"}, act' = Answer(r)
          PROVE  act' \in ActType /\ KindInv'
      BY <3>1, AnswerType DEF KindInv, ConnectPcs, MessagePcs, WithdrawPcs
    <3>2. ASSUME NEW p, act' = [act EXCEPT !.pc = p],
                 \/ act.pc \in ConnectPcs /\ p \in ConnectPcs
                 \/ act.pc \in MessagePcs /\ p \in MessagePcs
                 \/ act.pc \in WithdrawPcs /\ p \in WithdrawPcs
          PROVE  act' \in ActType /\ KindInv'
      <4>1. act' \in ActType /\ act'.pc = p /\ act'.kind = act.kind /\ act'.res = act.res
        BY <3>2, MovesOn
      <4> QED  BY <3>2, <4>1 DEF KindInv, ConnectPcs, MessagePcs, WithdrawPcs
    <3>3. ASSUME act.pc = "url", NEW v \in BOOLEAN, NEW p \in {"compose", "anchor"},
                 act' = [act EXCEPT !.verified = v, !.pc = p]
          PROVE  act' \in ActType /\ KindInv'
      <4>1. act' \in ActType /\ act'.pc = p /\ act'.kind = act.kind /\ act'.res = act.res
        BY <3>3 DEF ActType, MessagePcs
      <4> QED  BY <3>3, <4>1 DEF KindInv, ConnectPcs, MessagePcs, WithdrawPcs
    <3> QED  BY <2>1, <3>1, <3>2, <3>3 DEF ConnectPcs, MessagePcs, WithdrawPcs
  <2>3. UNCHANGED <<profile, chat, drives>>
          /\ pane' \in {pane, "nothing"} /\ inflight' \in {inflight, "connect", "send"}
    BY <1>2 DEF Touch, WaitForConnectSignal, OpenConnectMenu, AfterConnectClick, SendWithNote,
       SendWithoutNote, UrlCheck, AnchorCheck, WithdrawFind
  <2> QED  BY <2>2, <2>3
<1>3. CASE Render
  BY <1>3 DEF Render, Profiles, KindInv
<1>4. CASE AnswerClick
  BY <1>4 DEF AnswerClick, Profiles, KindInv
<1>5. CASE AnswerSend
  BY <1>5 DEF AnswerSend, Profiles, KindInv
<1>6. CASE PageMoves
  <2>1. PICK o \in {"none", "target", "namesake"}, c \in BOOLEAN :
          chat' = [chat EXCEPT !.overlay = o, !.card = c,
                               !.bubble = IF o = chat.overlay THEN @ ELSE "empty"]
    BY <1>6 DEF PageMoves
  <2>2. act' = [act EXCEPT !.late = @ \/ act.pc = "press"]
          /\ UNCHANGED <<profile, pane, inflight, drives>>
    BY <1>6 DEF PageMoves
  <2>3. chat' \in ChatType
    BY ZenonT(60), <2>1 DEF ChatType
  <2>4. act' \in ActType /\ KindInv'
    BY ZenonT(60), <2>2 DEF ActType, KindInv
  <2> QED  BY <2>2, <2>3, <2>4
<1>7. CASE CheckToast
  <2>1. PICK r \in {"refused", "ok"} : act' = [Answer(r) EXCEPT !.late = (inflight = "send")]
    BY <1>7 DEF CheckToast
  <2>2. act' \in ActType /\ KindInv'
    <3>1. Answer(r) \in ActType /\ Answer(r).pc = "idle" /\ Answer(r).kind = act.kind
      BY AnswerType
    <3>2. act' \in ActType /\ act'.pc = "idle"
      <4> HIDE DEF PageTypeOK
      <4> QED  BY <2>1, <3>1 DEF ActType
    <3> QED  BY <3>2 DEF KindInv, ConnectPcs, MessagePcs, WithdrawPcs
  <2>3. UNCHANGED <<profile, pane, inflight, chat, drives>>
    BY <1>7 DEF CheckToast
  <2> QED  BY <2>2, <2>3
<1>8. CASE PickCard
  <2>1. PICK input \in {"noId", "noName", "truncated", "usable"}, lost \in BOOLEAN,
             n \in 0 .. 2, cards \in [{1, 2} -> Cards] :
          LET fit == {i \in 1 .. n : NameMatches(cards[i]) /\ ReadsFirstDegree(cards[i], lost)} IN
          \/ /\ input # "usable" \/ fit = {}
             /\ act' = Answer("refused") /\ UNCHANGED chat
          \/ /\ input = "usable" /\ fit # {}
             /\ LET who == cards[CHOOSE i \in fit : \A j \in fit : i <= j] IN
                \E flow \in {"new", "existing"}, quotes \in BOOLEAN, sidebar \in BOOLEAN,
                   text \in {"empty", "suggested"} :
                  /\ quotes => flow = "existing" /\ who # "target"
                  /\ chat' = [chat EXCEPT !.who = who, !.flow = IF who = "stranger" THEN "inmail" ELSE flow,
                                       !.quotes = quotes, !.sidebar = sidebar, !.main = text]
             /\ act' = [act EXCEPT !.pc = "url"]
    BY <1>8, Zenon DEF PickCard
  <2>2. UNCHANGED <<profile, pane, inflight, drives>> /\ act.pc = "message"
    BY <1>8 DEF PickCard
  <2> DEFINE fit == {i \in 1 .. n : NameMatches(cards[i]) /\ ReadsFirstDegree(cards[i], lost)}
             first == CHOOSE i \in fit : \A j \in fit : i <= j
  <2>3. CASE act' = Answer("refused") /\ UNCHANGED chat
    BY <2>2, <2>3, AnswerType DEF KindInv, ConnectPcs, MessagePcs, WithdrawPcs
  <2>4. CASE ~(act' = Answer("refused") /\ UNCHANGED chat)
    <3>1. fit # {} /\ fit \subseteq 1 .. 2
      <4>1. fit \subseteq 1 .. n /\ n \in 0 .. 2
        OBVIOUS
      <4>2. fit # {}
        BY <2>1, <2>4, Zenon
      <4> HIDE DEF fit
      <4> QED  BY <4>1, <4>2
    <3>2. first \in 1 .. 2
      <4> HIDE DEF fit
      <4> QED  BY <3>1, PickedCard
    <3>3. cards[first] \in Cards
      <4> HIDE DEF first
      <4>1. first \in {1, 2}
        BY <3>2
      <4> QED  BY <4>1
    <3>4. PICK flow \in {"new", "existing"}, quotes \in BOOLEAN, sidebar \in BOOLEAN,
               text \in {"empty", "suggested"} :
            chat' = [chat EXCEPT !.who = cards[first],
                                 !.flow = IF cards[first] = "stranger" THEN "inmail" ELSE flow,
                                 !.quotes = quotes, !.sidebar = sidebar, !.main = text]
      BY ZenonT(60), <2>1, <2>4
    <3>5. act' = [act EXCEPT !.pc = "url"]
      BY <2>1, <2>4
    <3>6. act' \in ActType /\ KindInv'
      <4>1. act' \in ActType /\ act'.pc = "url" /\ act'.kind = act.kind /\ act'.res = act.res
        BY <3>5, MovesOn DEF MessagePcs
      <4> QED  BY <2>2, <4>1 DEF KindInv, ConnectPcs, MessagePcs, WithdrawPcs
    <3>7. chat' \in ChatType
      <4> DEFINE w == cards[first]
                 f == IF w = "stranger" THEN "inmail" ELSE flow
      <4>1. w \in Cards /\ f \in {"new", "existing", "inmail"}
        BY <3>3
      <4>2. chat' = [chat EXCEPT !.who = w, !.flow = f, !.quotes = quotes, !.sidebar = sidebar,
                                 !.main = text]
        BY <3>4
      <4>3. chat \in ChatType
        OBVIOUS
      <4> HIDE DEF w, f, PageTypeOK
      <4>4. [chat EXCEPT !.who = w, !.flow = f, !.quotes = quotes, !.sidebar = sidebar,
                         !.main = text] \in ChatType
        BY <4>1, <4>3 DEF ChatType
      <4> QED  BY <4>2, <4>4
    <3> QED  BY <2>2, <3>6, <3>7
  <2> QED  BY <2>3, <2>4
<1>9. CASE HumanType
  <2>1. FirstOf(Scope) \in {"main", "overlay"}
    BY DEF FirstOf
  <2>2. \/ act' = Answer("threw") /\ UNCHANGED chat
        \/ /\ act' = [act EXCEPT !.pc = "press", !.typed = FirstOf(Scope)]
           /\ chat' = IF FirstOf(Scope) = "main" THEN [chat EXCEPT !.main = "body"]
                      ELSE [chat EXCEPT !.bubble = "body"]
    BY <1>9 DEF HumanType
  <2>3. UNCHANGED <<profile, pane, inflight, drives>> /\ act.pc = "compose"
    BY <1>9 DEF HumanType
  <2>4. act' \in ActType /\ KindInv'
    <3>1. CASE act' = Answer("threw")
      BY <3>1, AnswerType DEF KindInv, ConnectPcs, MessagePcs, WithdrawPcs
    <3>2. CASE act' = [act EXCEPT !.pc = "press", !.typed = FirstOf(Scope)]
      <4> DEFINE box == FirstOf(Scope)
      <4>1. box \in {"main", "overlay"} /\ act' = [act EXCEPT !.pc = "press", !.typed = box]
        BY <2>1, <3>2
      <4> HIDE DEF box
      <4>2. act' \in ActType /\ act'.pc = "press" /\ act'.kind = act.kind /\ act'.res = act.res
        BY <4>1 DEF ActType, MessagePcs
      <4> QED  BY <2>3, <4>2 DEF KindInv, ConnectPcs, MessagePcs, WithdrawPcs
    <3> QED  BY <2>2, <3>1, <3>2
  <2>5. chat' \in ChatType
    BY <2>2, ChatEdits
  <2> QED  BY <2>3, <2>4, <2>5
<1>10. CASE PressButton
  <2>1. \E r \in {"threw", "ok"} : act' = Answer(r)
    BY <1>10 DEF PressButton
  <2>2. \/ UNCHANGED chat
        \/ chat' = [chat EXCEPT !.main = "empty"]
        \/ chat' = [chat EXCEPT !.bubble = "empty"]
    BY <1>10 DEF PressButton
  <2>3. UNCHANGED <<profile, pane, inflight, drives>>
    BY <1>10 DEF PressButton
  <2>4. act' \in ActType /\ KindInv'
    BY <2>1, AnswerType DEF KindInv, ConnectPcs, MessagePcs, WithdrawPcs
  <2>5. chat' \in ChatType
    BY <2>2, ChatEdits
  <2> QED  BY <2>3, <2>4, <2>5
<1>11. CASE InviteAnswered
  BY <1>11 DEF InviteAnswered, Profiles, KindInv
<1>12. CASE WithdrawPost
  <2>1. UNCHANGED <<pane, inflight, chat, drives>>
    BY <1>12 DEF WithdrawPost
  <2>2. act' = Answer("ok") \/ act' = Answer("refused")
    BY <1>12 DEF WithdrawPost
  <2>3. act' \in ActType /\ KindInv'
    BY <2>2, AnswerType DEF KindInv, ConnectPcs, MessagePcs, WithdrawPcs
  <2>4. profile' \in Profiles
    BY <1>12 DEF WithdrawPost, Profiles
  <2> QED  BY <2>1, <2>3, <2>4
<1> QED
  BY <1>0, <1>1, <1>2, <1>3, <1>4, <1>5, <1>6, <1>7, <1>8, <1>9, <1>10, <1>11, <1>12 DEF PageNext

-----------------------------------------------------------------------------
(* The page actions: the answer is true *)

\* Before Connect is clicked nothing is in flight and no invite is this
\* call's; from the click to the answer, LinkedIn is still to speak, has made
\* the invite, or has put up what stops it.
ConnectInv ==
    /\ inflight # "none" => act.kind = "connect"
    /\ act.pc \in {"connect", "menu"} =>
          inflight = "none" /\ pane = "nothing" /\ profile.invite # "ours"
    /\ act.pc \in {"clicked", "send"} =>
          \/ inflight = "connect" /\ pane = "nothing" /\ profile.invite = "none"
          \/ inflight = "none" /\ pane = "nothing" /\ profile.invite = "ours"
          \/ inflight = "none" /\ pane \in {"email", "lockout", "modal"} /\ profile.invite = "none"
    /\ act.pc = "check" =>
          \/ inflight = "send" /\ pane = "nothing" /\ profile.invite = "none"
          \/ inflight = "none" /\ pane = "nothing" /\ profile.invite = "ours"
          \/ inflight = "none" /\ pane = "toast" /\ profile.invite = "none"

\* What an answer to connect or to withdrawInvite left on LinkedIn.
InviteAnswerInv ==
    /\ act.kind = "connect" /\ act.res = "ok" => profile.invite = "ours" \/ act.late
    /\ act.kind = "connect" /\ act.res \in {"noop", "refused"} =>
          inflight = "none" /\ profile.invite # "ours"
    /\ act.kind = "withdraw" /\ act.res = "ok" => profile.invite = "none"

\* The text of a container's box, and who reads what is sent from it.
Box(c) == IF c = "main" THEN chat.main ELSE chat.bubble

Reader(c) == IF c = "main" THEN chat.who ELSE chat.overlay

\* A verified conversation is the target's; the box of the first container in
\* scope holds the typed text until the page changes under the press.
MessageInv ==
    /\ act.pc \in {"anchor", "compose", "press"} /\ act.verified => chat.who = "target"
    /\ act.pc = "press" /\ ~act.late => Scope # {} /\ Box(FirstOf(Scope)) = "body"
    /\ act.kind = "message" /\ act.res = "ok" => act.late \/ \E d \in delivered : d.drive = drives
    /\ OnlyTheTargetIsWritten

PageInv == PageTypeOK /\ KindInv /\ ConnectInv /\ InviteAnswerInv /\ MessageInv

LEMMA PageInvInit == PageInit => PageInv
<1>1. PageInit => PageTypeOK /\ KindInv
  BY DEF PageInit, PageTypeOK, KindInv, Idle, NoChat, ChatType, ActType, Profiles, ConnectPcs,
     MessagePcs, WithdrawPcs
<1>2. PageInit => ConnectInv /\ InviteAnswerInv /\ MessageInv
  BY DEF PageInit, ConnectInv, InviteAnswerInv, MessageInv, OnlyTheTargetIsWritten, Idle
<1> QED  BY <1>1, <1>2 DEF PageInv

\* A card is picked or refused, and the action goes no further.
LEMMA PickAnswers ==
    ASSUME PickCard
    PROVE  act' = Answer("refused") \/ act' = [act EXCEPT !.pc = "url"]
BY ZenonT(60) DEF PickCard

\* connect never loses track of what LinkedIn did with its clicks.
LEMMA ConnectStep ==
    ASSUME PageTypeOK, KindInv, ConnectInv, InviteAnswerInv, [PageNext]_pageVars
    PROVE  ConnectInv' /\ InviteAnswerInv'
<1> USE DEF PageTypeOK
<1>0. CASE UNCHANGED pageVars
  BY <1>0 DEF pageVars, ConnectInv, InviteAnswerInv
<1>1. CASE Drive
  <2>1. PICK kind \in {"connect", "message", "withdraw", "touch"} :
          \/ act'.kind = kind /\ act'.pc = kind /\ act'.res = "none"
          \/ act'.kind = kind /\ act'.pc = "idle" /\ act'.res = "threw"
    BY <1>1, DriveStarts
  <2>2. inflight' = "none" /\ pane' = "nothing" /\ profile'.invite # "ours"
    BY <1>1, DriveStarts
  <2> QED  BY <2>1, <2>2 DEF ConnectInv, InviteAnswerInv
<1>2. CASE Touch \/ UrlCheck \/ AnchorCheck \/ PickCard \/ HumanType \/ PressButton
  <2>1. act.pc \in MessagePcs \union {"touch"} /\ UNCHANGED <<profile, pane, inflight>>
    BY <1>2 DEF Touch, UrlCheck, AnchorCheck, PickCard, HumanType, PressButton, MessagePcs
  <2>2. act.kind \in {"message", "touch"}
    BY <2>1 DEF KindInv
  <2>3. act'.kind = act.kind
    <3>1. CASE Touch \/ UrlCheck \/ AnchorCheck
      BY <3>1 DEF Touch, UrlCheck, AnchorCheck, Answer, ActType
    <3>2. CASE PickCard
      <4>1. act' = Answer("refused") \/ act' = [act EXCEPT !.pc = "url"]
        BY <3>2, PickAnswers
      <4>2. CASE act' = Answer("refused")
        BY <4>2, AnswerType
      <4>3. CASE act' = [act EXCEPT !.pc = "url"]
        BY <4>3, MovesOn DEF MessagePcs
      <4> QED  BY <4>1, <4>2, <4>3
    <3>3. CASE HumanType
      <4>1. act' = Answer("threw") \/ act' = [act EXCEPT !.pc = "press", !.typed = FirstOf(Scope)]
        BY <3>3 DEF HumanType
      <4> QED  BY <4>1 DEF Answer, ActType
    <3>4. CASE PressButton
      <4>1. act' = Answer("threw") \/ act' = Answer("ok")
        BY <3>4 DEF PressButton
      <4> QED  BY <4>1 DEF Answer, ActType
    <3> QED  BY <1>2, <3>1, <3>2, <3>3, <3>4
  <2>4. KindInv'
    BY <1>2, PageTypeStep DEF PageNext
  <2> QED  BY SMTT(60), <2>1, <2>2, <2>3, <2>4 DEF ConnectInv, InviteAnswerInv, KindInv, ConnectPcs
<1>3. CASE Render
  BY <1>3 DEF Render, Profiles, ConnectInv, InviteAnswerInv
<1>4. CASE AnswerClick
  BY <1>4 DEF AnswerClick, Profiles, ConnectInv, InviteAnswerInv, KindInv
<1>5. CASE AnswerSend
  BY <1>5 DEF AnswerSend, Profiles, ConnectInv, InviteAnswerInv, KindInv
<1>6. CASE PageMoves
  <2>1. act' = [act EXCEPT !.late = @ \/ act.pc = "press"] /\ UNCHANGED <<profile, pane, inflight>>
    BY <1>6 DEF PageMoves
  <2>2. /\ act'.kind = act.kind /\ act'.pc = act.pc /\ act'.res = act.res
        /\ act.late => act'.late
    BY <2>1 DEF ActType
  <2> QED  BY <2>1, <2>2 DEF ConnectInv, InviteAnswerInv
<1>7. CASE WaitForConnectSignal \/ OpenConnectMenu
  <2>1. UNCHANGED <<profile, pane>> /\ act.pc \in {"connect", "menu"}
    BY <1>7 DEF WaitForConnectSignal, OpenConnectMenu
  <2>2. \/ act' = Answer("noop") /\ UNCHANGED inflight
        \/ act' = Answer("refused") /\ UNCHANGED inflight
        \/ act' = [act EXCEPT !.pc = "menu"] /\ UNCHANGED inflight
        \/ act' = [act EXCEPT !.pc = "clicked"] /\ inflight' = "connect" /\ profile.invite = "none"
    BY <1>7 DEF WaitForConnectSignal, OpenConnectMenu, ConnectButton, InMenu
  <2>3. act.kind = "connect" /\ act.res = "none"
    BY <2>1 DEF KindInv, ConnectPcs
  <2>4. inflight = "none" /\ pane = "nothing" /\ profile.invite # "ours"
    BY <2>1 DEF ConnectInv
  <2>5. CASE (act' = Answer("noop") \/ act' = Answer("refused")) /\ UNCHANGED inflight
    <3>1. act'.pc = "idle" /\ act'.kind = "connect" /\ act'.res \in {"noop", "refused"}
      BY <2>3, <2>5, AnswerType
    <3> QED  BY <2>1, <2>4, <2>5, <3>1 DEF ConnectInv, InviteAnswerInv
  <2>6. CASE act' = [act EXCEPT !.pc = "menu"] /\ UNCHANGED inflight
    <3>1. act'.pc = "menu" /\ act'.kind = "connect" /\ act'.res = "none"
      BY <2>3, <2>6, MovesOn DEF ConnectPcs
    <3> QED  BY <2>1, <2>4, <2>6, <3>1 DEF ConnectInv, InviteAnswerInv
  <2>7. CASE act' = [act EXCEPT !.pc = "clicked"] /\ inflight' = "connect" /\ profile.invite = "none"
    <3>1. act'.pc = "clicked" /\ act'.kind = "connect" /\ act'.res = "none"
      BY <2>3, <2>7, MovesOn DEF ConnectPcs
    <3> QED  BY <2>1, <2>4, <2>7, <3>1 DEF ConnectInv, InviteAnswerInv
  <2> QED  BY <2>2, <2>5, <2>6, <2>7
<1>8. CASE AfterConnectClick
  <2>1. UNCHANGED <<profile, pane, inflight>> /\ act.pc = "clicked"
    BY <1>8 DEF AfterConnectClick
  <2>2. act.kind = "connect" /\ act.res = "none"
    BY <2>1 DEF KindInv, ConnectPcs
  <2>3. CASE pane \in {"email", "lockout"}
    <3>1. act' = Answer("refused")
      BY <1>8, <2>3 DEF AfterConnectClick
    <3>2. act'.pc = "idle" /\ act'.kind = "connect" /\ act'.res = "refused"
      BY <2>2, <3>1, AnswerType
    <3> QED  BY <2>1, <2>3, <3>2 DEF ConnectInv, InviteAnswerInv
  <2>4. CASE pane \notin {"email", "lockout"}
    <3>1. act' = [act EXCEPT !.pc = "send"]
      BY <1>8, <2>4 DEF AfterConnectClick
    <3>2. act'.pc = "send" /\ act'.kind = "connect" /\ act'.res = "none"
      BY <2>2, <3>1, MovesOn DEF ConnectPcs
    <3> QED  BY <2>1, <3>2 DEF ConnectInv, InviteAnswerInv
  <2> QED  BY <2>3, <2>4
<1>9. CASE SendWithNote \/ SendWithoutNote
  <2>1. UNCHANGED profile /\ act.pc = "send"
    BY <1>9 DEF SendWithNote, SendWithoutNote
  <2>2. \/ act' = [act EXCEPT !.pc = "check"] /\ pane = "modal" /\ inflight' = "send" /\ pane' = "nothing"
        \/ /\ act' = [act EXCEPT !.pc = "check"] /\ pane # "modal" /\ profile.invite # "none"
           /\ UNCHANGED <<inflight, pane>>
        \/ act' = Answer("refused") /\ pane = "lockout" /\ UNCHANGED <<inflight, pane>>
        \/ act' = Answer("threw") /\ UNCHANGED <<inflight, pane>>
    BY <1>9 DEF SendWithNote, SendWithoutNote, PendingIndicator
  <2>3. act.kind = "connect" /\ act.res = "none"
    BY <2>1 DEF KindInv, ConnectPcs
  <2>4. CASE act' = [act EXCEPT !.pc = "check"]
    <3>1. act'.pc = "check" /\ act'.kind = "connect" /\ act'.res = "none"
      BY <2>3, <2>4, MovesOn DEF ConnectPcs
    <3>2. \/ inflight' = "send" /\ pane' = "nothing" /\ profile.invite = "none"
          \/ inflight' = "none" /\ pane' = "nothing" /\ profile.invite = "ours"
      <4>1. act' # Answer("refused") /\ act' # Answer("threw")
        BY <3>1, AnswerType
      <4> QED  BY <2>1, <2>2, <4>1 DEF ConnectInv
    <3> QED  BY <2>1, <3>1, <3>2 DEF ConnectInv, InviteAnswerInv
  <2>5. CASE act' = Answer("refused") /\ pane = "lockout" /\ UNCHANGED <<inflight, pane>>
    <3>1. act'.pc = "idle" /\ act'.kind = "connect" /\ act'.res = "refused"
      BY <2>3, <2>5, AnswerType
    <3> QED  BY <2>1, <2>5, <3>1 DEF ConnectInv, InviteAnswerInv
  <2>6. CASE act' = Answer("threw") /\ UNCHANGED <<inflight, pane>>
    <3>1. act'.pc = "idle" /\ act'.kind = "connect" /\ act'.res = "threw"
      BY <2>3, <2>6, AnswerType
    <3> QED  BY <2>1, <2>6, <3>1 DEF ConnectInv, InviteAnswerInv
  <2> QED  BY <2>2, <2>4, <2>5, <2>6
<1>10. CASE CheckToast
  <2>1. UNCHANGED <<profile, pane, inflight>> /\ act.pc = "check"
    BY <1>10 DEF CheckToast
  <2>2. act.kind = "connect"
    BY <2>1 DEF KindInv, ConnectPcs
  <2>3. PICK r \in {"refused", "ok"} : /\ act' = [Answer(r) EXCEPT !.late = (inflight = "send")]
                                       /\ r = "refused" <=> pane = "toast"
    BY <1>10 DEF CheckToast
  <2>4. /\ act'.pc = "idle" /\ act'.kind = "connect" /\ act'.res = r
        /\ act'.late = (inflight = "send")
    <3>1. Answer(r) \in ActType /\ Answer(r).pc = "idle" /\ Answer(r).kind = act.kind
            /\ Answer(r).res = r
      BY AnswerType
    <3> HIDE DEF PageTypeOK
    <3> QED  BY <2>2, <2>3, <3>1 DEF ActType
  <2> QED  BY <2>1, <2>2, <2>3, <2>4 DEF ConnectInv, InviteAnswerInv
<1>11. CASE WithdrawFind
  <2>1. UNCHANGED <<profile, pane, inflight>> /\ act.pc = "withdraw"
    BY <1>11 DEF WithdrawFind
  <2>2. act.kind = "withdraw" /\ act.res = "none"
    BY <2>1 DEF KindInv, WithdrawPcs
  <2>3. act' = Answer("refused") \/ act' = [act EXCEPT !.pc = "post"]
    BY <1>11 DEF WithdrawFind
  <2>4. act'.kind = "withdraw" /\ act'.pc \in {"idle", "post"} /\ act'.res # "ok"
    <3>1. CASE act' = Answer("refused")
      BY <2>2, <3>1, AnswerType
    <3>2. CASE act' = [act EXCEPT !.pc = "post"]
      BY <2>2, <3>2, MovesOn DEF WithdrawPcs
    <3> QED  BY <2>3, <3>1, <3>2
  <2> QED  BY <2>1, <2>2, <2>4 DEF ConnectInv, InviteAnswerInv
<1>12. CASE InviteAnswered
  <2>1. /\ profile' = [profile EXCEPT !.invite = "none"] /\ UNCHANGED <<pane, inflight, act>>
        /\ act.kind # "connect" /\ inflight = "none"
    BY <1>12 DEF InviteAnswered
  <2>2. profile'.invite = "none"
    BY <2>1 DEF Profiles
  <2> QED  BY <2>1, <2>2 DEF ConnectInv, InviteAnswerInv, KindInv, ConnectPcs
<1>13. CASE WithdrawPost
  <2>1. UNCHANGED <<pane, inflight>> /\ act.pc = "post"
    BY <1>13 DEF WithdrawPost
  <2>2. act.kind = "withdraw"
    BY <2>1 DEF KindInv, WithdrawPcs
  <2>3. \/ profile' = [profile EXCEPT !.invite = "none", !.gate = "lockout"] /\ act' = Answer("ok")
        \/ UNCHANGED profile /\ act' = Answer("refused")
    BY <1>13 DEF WithdrawPost
  <2>4. act'.kind = "withdraw" /\ act'.pc = "idle"
    BY <2>2, <2>3, AnswerType
  <2>5. act'.res = "ok" => profile'.invite = "none"
    <3>1. CASE profile' = [profile EXCEPT !.invite = "none", !.gate = "lockout"]
      BY <3>1 DEF Profiles
    <3>2. CASE act' = Answer("refused")
      BY <3>2, AnswerType
    <3> QED  BY <2>3, <3>1, <3>2
  <2> QED  BY <2>1, <2>2, <2>4, <2>5 DEF ConnectInv, InviteAnswerInv
<1> QED
  BY <1>0, <1>1, <1>2, <1>3, <1>4, <1>5, <1>6, <1>7, <1>8, <1>9, <1>10, <1>11, <1>12, <1>13
     DEF PageNext

\* What a press delivers leaves the box of the first container in scope.
LEMMA PressFacts ==
    ASSUME PressButton, Scope # {}
    PROVE  LET c == FirstOf(Scope) IN
           /\ act' = Answer("ok")
           /\ delivered' = IF Box(c) = "empty" THEN delivered ELSE
                           delivered \cup {[to |-> Reader(c), text |-> Box(c),
                                            quotes |-> c = "main" /\ chat.quotes,
                                            drive |-> drives, late |-> act.late]}
           /\ UNCHANGED drives
BY Zenon DEF PressButton, Box, Reader

\* message keeps the conversation it verified and the text it typed, and
\* sends from a container that is the target's.
LEMMA MessageStep ==
    ASSUME PageTypeOK, KindInv, MessageInv, [PageNext]_pageVars
    PROVE  MessageInv'
<1> USE DEF PageTypeOK
<1>t. PageTypeOK' /\ KindInv'
  BY PageTypeStep
<1>0. CASE UNCHANGED pageVars
  <2>1. UNCHANGED <<chat, act, delivered, drives>>
    BY <1>0 DEF pageVars
  <2>2. Scope' = Scope /\ \A c : Box(c)' = Box(c)
    BY <2>1 DEF Scope, Linked, Box
  <2> QED  BY <2>1, <2>2 DEF MessageInv, OnlyTheTargetIsWritten, Box
<1>1. CASE Drive
  <2>1. PICK kind \in {"connect", "message", "withdraw", "touch"} :
          \/ act'.kind = kind /\ act'.pc = kind /\ act'.res = "none"
          \/ act'.kind = kind /\ act'.pc = "idle" /\ act'.res = "threw"
    BY <1>1, DriveStarts
  <2>2. UNCHANGED delivered
    BY <1>1, DriveStarts
  <2> QED  BY <2>1, <2>2 DEF MessageInv, OnlyTheTargetIsWritten
<1>2. CASE \/ Touch \/ WaitForConnectSignal \/ OpenConnectMenu \/ AfterConnectClick \/ SendWithNote
           \/ SendWithoutNote \/ CheckToast \/ WithdrawFind \/ WithdrawPost
  <2>1. act.pc \in ConnectPcs \union WithdrawPcs \union {"touch"} /\ UNCHANGED <<delivered, drives>>
    BY <1>2 DEF Touch, WaitForConnectSignal, OpenConnectMenu, AfterConnectClick, SendWithNote,
       SendWithoutNote, CheckToast, WithdrawFind, WithdrawPost, ConnectPcs, WithdrawPcs
  <2>2. act.kind \in {"connect", "withdraw", "touch"}
    BY <2>1 DEF KindInv
  <2>3. act'.kind = act.kind
    BY <1>2 DEF Touch, WaitForConnectSignal, OpenConnectMenu, AfterConnectClick, SendWithNote,
       SendWithoutNote, CheckToast, WithdrawFind, WithdrawPost, Answer, ActType
  <2>4. act'.pc \notin MessagePcs
    BY <1>t, <2>2, <2>3 DEF KindInv
  <2> QED  BY <2>1, <2>2, <2>3, <2>4 DEF MessageInv, OnlyTheTargetIsWritten, MessagePcs
<1>3. CASE Render \/ AnswerClick \/ AnswerSend \/ InviteAnswered
  <2>1. UNCHANGED <<chat, act, delivered, drives>>
    BY <1>3 DEF Render, AnswerClick, AnswerSend, InviteAnswered
  <2>2. Scope' = Scope
    BY <2>1 DEF Scope, Linked
  <2> QED  BY <2>1, <2>2 DEF MessageInv, OnlyTheTargetIsWritten, Box
<1>4. CASE PageMoves
  <2>1. PICK o \in {"none", "target", "namesake"}, c \in BOOLEAN :
          chat' = [chat EXCEPT !.overlay = o, !.card = c,
                               !.bubble = IF o = chat.overlay THEN @ ELSE "empty"]
    BY <1>4 DEF PageMoves
  <2>2. act' = [act EXCEPT !.late = @ \/ act.pc = "press"] /\ UNCHANGED <<delivered, drives>>
          /\ act.pc \in {"anchor", "compose", "press"}
    BY <1>4 DEF PageMoves
  <2>3. chat'.who = chat.who
    BY <2>1 DEF ChatType
  <2>4. /\ act'.kind = act.kind /\ act'.pc = act.pc /\ act'.res = act.res
        /\ act'.verified = act.verified /\ (act'.pc = "press" => act'.late)
    BY <2>2 DEF ActType
  <2>5. act'.res = "none"
    BY <1>t, <2>2, <2>4 DEF KindInv
  <2> QED  BY <2>2, <2>3, <2>4, <2>5 DEF MessageInv, OnlyTheTargetIsWritten
<1>5. CASE PickCard
  <2>1. act' = Answer("refused") \/ act' = [act EXCEPT !.pc = "url"]
    BY <1>5, PickAnswers
  <2>2. UNCHANGED <<delivered, drives>> /\ act.pc = "message"
    BY <1>5 DEF PickCard
  <2>3. act'.pc \in {"idle", "url"} /\ act'.res # "ok"
    <3>1. CASE act' = Answer("refused")
      BY <3>1, AnswerType
    <3>2. CASE act' = [act EXCEPT !.pc = "url"]
      BY <2>2, <3>2, MovesOn DEF MessagePcs, KindInv
    <3> QED  BY <2>1, <3>1, <3>2
  <2> QED  BY <2>2, <2>3 DEF MessageInv, OnlyTheTargetIsWritten
<1>6. CASE UrlCheck
  <2>1. UNCHANGED <<chat, delivered, drives>> /\ act.pc = "url" /\ act.res = "none"
    BY <1>6 DEF UrlCheck, KindInv
  <2>2. \/ act' = Answer("refused")
        \/ act' = [act EXCEPT !.verified = UrlVerified, !.pc = IF UrlVerified THEN "compose" ELSE "anchor"]
    BY <1>6 DEF UrlCheck
  <2>3. act'.res # "ok" /\ act'.pc # "press"
    BY <2>1, <2>2 DEF Answer, ActType
  <2>4. act'.pc \in {"anchor", "compose"} /\ act'.verified => UrlVerified
    BY <2>1, <2>2 DEF Answer, ActType
  <2> QED  BY <2>1, <2>3, <2>4 DEF MessageInv, OnlyTheTargetIsWritten, UrlVerified
<1>7. CASE AnchorCheck
  BY ZenonT(60), <1>7 DEF AnchorCheck, MessageInv, OnlyTheTargetIsWritten, Answer, ActType, KindInv
<1>8. CASE HumanType
  <2>1. act.pc = "compose" /\ act.res = "none" /\ UNCHANGED <<delivered, drives>>
    BY <1>8 DEF HumanType, KindInv
  <2>2. CASE Scope = {}
    BY <1>8, <2>1, <2>2 DEF HumanType, MessageInv, OnlyTheTargetIsWritten, Answer, ActType
  <2>3. CASE Scope # {}
    <3>1. /\ act' = [act EXCEPT !.pc = "press", !.typed = FirstOf(Scope)]
          /\ chat' = IF FirstOf(Scope) = "main" THEN [chat EXCEPT !.main = "body"]
                     ELSE [chat EXCEPT !.bubble = "body"]
      BY <1>8, <2>3 DEF HumanType
    <3>2. /\ act'.pc = "press" /\ act'.verified = act.verified /\ act'.res = act.res
          /\ act'.kind = act.kind
      BY <3>1 DEF ActType
    <3>3. /\ chat'.who = chat.who /\ chat'.card = chat.card /\ chat'.quotes = chat.quotes
          /\ chat'.overlay = chat.overlay
      BY <3>1 DEF ChatType
    <3>4. Scope' = Scope
      BY <3>2, <3>3 DEF Scope, Linked
    <3>5. Box(FirstOf(Scope))' = "body"
      <4>1. FirstOf(Scope)' = FirstOf(Scope)
        BY <3>4 DEF FirstOf
      <4>2. CASE FirstOf(Scope) = "main"
        BY <3>1, <4>1, <4>2 DEF Box, ChatType
      <4>3. CASE FirstOf(Scope) # "main"
        BY <3>1, <4>1, <4>3 DEF Box, ChatType
      <4> QED  BY <4>2, <4>3
    <3> QED  BY <2>1, <2>3, <3>2, <3>3, <3>4, <3>5 DEF MessageInv, OnlyTheTargetIsWritten
  <2> QED  BY <2>2, <2>3
<1>9. CASE PressButton
  <2>1. act.pc = "press" /\ act.res = "none" /\ act.kind = "message"
    BY <1>9 DEF PressButton, KindInv, MessagePcs
  <2>2. CASE Scope = {}
    <3>1. act' = Answer("threw") /\ UNCHANGED delivered
      BY <1>9, <2>2 DEF PressButton
    <3> QED  BY <3>1 DEF MessageInv, OnlyTheTargetIsWritten, Answer, ActType
  <2>3. CASE Scope # {}
    <3> DEFINE c == FirstOf(Scope)
               m == [to |-> Reader(c), text |-> Box(c), quotes |-> c = "main" /\ chat.quotes,
                     drive |-> drives, late |-> act.late]
    <3>1. act' = Answer("ok") /\ UNCHANGED drives
            /\ delivered' = IF Box(c) = "empty" THEN delivered ELSE delivered \cup {m}
      BY <1>9, <2>3, PressFacts
    <3>2. act'.pc = "idle" /\ act'.res = "ok" /\ act'.late = act.late
      BY <3>1 DEF Answer, ActType
    <3>3. ~act.late => Box(c) = "body"
      BY <2>1 DEF MessageInv
    <3>4. m.to = "target" \/ m.quotes
      <4>1. CASE act.verified
        <5>1. Scope = {"main"}
          BY <4>1 DEF Scope
        <5>2. c = "main"
          BY <5>1 DEF FirstOf
        <5> QED  BY <2>1, <4>1, <5>2 DEF MessageInv, Reader
      <4>2. CASE ~act.verified
        <5>1. Scope = Linked
          BY <4>2 DEF Scope
        <5>2. CASE "main" \in Linked
          BY <5>1, <5>2 DEF FirstOf, Linked, Reader
        <5>3. CASE "main" \notin Linked
          <6>1. c = "overlay" /\ "overlay" \in Linked
            BY <2>3, <5>1, <5>3 DEF FirstOf, Linked
          <6> QED  BY <6>1 DEF Linked, Reader
        <5> QED  BY <5>2, <5>3
      <4> QED  BY <4>1, <4>2
    <3>5. m.text = "body" \/ m.late
      BY <3>3
    <3>6. \A d \in delivered' : d \in delivered \/ (d = m /\ m \in delivered')
      BY <3>1
    <3>7. OnlyTheTargetIsWritten'
      BY <3>4, <3>5, <3>6 DEF MessageInv, OnlyTheTargetIsWritten
    <3>8. act.late \/ \E d \in delivered' : d.drive = drives'
      <4>1. CASE ~act.late
        <5>1. m \in delivered'
          BY <3>1, <3>3, <4>1
        <5>2. m.drive = drives
          OBVIOUS
        <5> HIDE DEF m
        <5> QED  BY <3>1, <5>1, <5>2
      <4> QED  BY <4>1
    <3> QED  BY <3>2, <3>7, <3>8 DEF MessageInv
  <2> QED  BY <2>2, <2>3
<1> QED
  BY <1>0, <1>1, <1>2, <1>3, <1>4, <1>5, <1>6, <1>7, <1>8, <1>9 DEF PageNext

LEMMA PageInvStep ==
    ASSUME PageInv, [PageNext]_pageVars PROVE PageInv'
BY PageTypeStep, ConnectStep, MessageStep DEF PageInv

(* What an action answers is what it did, however late LinkedIn renders and
   answers: an ok of connect made the invite, a refusal or a no-op made none,
   an ok of message sent the text, an ok of withdrawInvite took the invite. *)
THEOREM ActionsAnswerTruly == PageSpec => []AnswerIsTrue
<1>1. PageInv => AnswerIsTrue
  BY DEF PageInv, InviteAnswerInv, MessageInv, AnswerIsTrue
<1> QED  BY <1>1, PageInvInit, PageInvStep, PTL DEF PageSpec

(* A message reaches the target and nobody else and holds the approved text,
   whichever cards, threads and overlays the page shows and however they move
   between the looks at it. *)
THEOREM NobodyElseIsWritten == PageSpec => []OnlyTheTargetIsWritten
<1>1. PageInv => OnlyTheTargetIsWritten
  BY DEF PageInv, MessageInv
<1> QED  BY <1>1, PageInvInit, PageInvStep, PTL DEF PageSpec

-----------------------------------------------------------------------------
(* The withdrawal sweep: the counter and the throttle *)

SweepFields ==
    {"pc", "out", "start", "stale", "aged", "tries", "unrested", "withdrawn", "failed", "stopped"}

TaleFields == {"moved", "partial", "lost", "refused", "throttles"}

\* Only invites that were sent park a cursor, and each is counted once.
CounterInv ==
    /\ age \in [Invites -> {"old", "fresh", "undated", "broken", "unsent"}]
    /\ parked \subseteq Invites
    /\ \A i \in parked : age[i] # "unsent"
    /\ CounterMatchesCursors

\* The throttles in a row are those of the invite under way.
ThrottleInv ==
    /\ DOMAIN sweep = SweepFields /\ DOMAIN tale = TaleFields
    /\ sweep.tries \in Nat /\ tale.throttles \in Nat
    /\ sweep.pc \in {"reading", "read"} => sweep.tries = 0 /\ tale.throttles = 0
    /\ sweep.pc = "release" => tale.throttles = 0
    /\ sweep.pc = "attempt" => tale.throttles <= sweep.tries /\ sweep.tries <= MaxThrottles
    /\ NeverHammers

\* Taking an invite out of, or putting a new one into, the parked cursors.
LEMMA ParkedCount ==
    ASSUME NEW P, P \subseteq Invites, NEW i
    PROVE  /\ Cardinality(P) \in Nat
           /\ i \in P => Cardinality(P) > 0 /\ Cardinality(P \ {i}) = Cardinality(P) - 1
           /\ i \notin P => Cardinality(P \ {i}) = Cardinality(P)
           /\ i \notin P => Cardinality(P \union {i}) = Cardinality(P) + 1
<1>1. IsFiniteSet(Invites)
  BY FS_Interval, SweepAssumption DEF Invites
<1>2. IsFiniteSet(P)
  BY <1>1, FS_Subset
<1>3. Cardinality(P) \in Nat
  BY <1>2, FS_CardinalityType
<1>4. i \in P => Cardinality(P \ {i}) = Cardinality(P) - 1
  BY <1>2, FS_RemoveElement
<1>5. i \in P => Cardinality(P) > 0
  <2>1. IsFiniteSet(P \ {i})
    BY <1>2, FS_RemoveElement
  <2>2. Cardinality(P \ {i}) \in Nat
    BY <2>1, FS_CardinalityType
  <2> QED  BY <1>3, <1>4, <2>2
<1>6. i \notin P => P \ {i} = P
  OBVIOUS
<1>7. i \notin P => Cardinality(P \union {i}) = Cardinality(P) + 1
  BY <1>2, FS_AddElement
<1> QED  BY <1>3, <1>4, <1>5, <1>6, <1>7

\* Every step keeps the counter at the number of parked cursors.
LEMMA CounterStep ==
    ASSUME CounterInv, [SweepNext]_sweepVars PROVE CounterInv'
<1>a. /\ age \in [Invites -> {"old", "fresh", "undated", "broken", "unsent"}]
      /\ parked \subseteq Invites
      /\ \A i \in parked : age[i] # "unsent"
      /\ counter = Cardinality(parked) /\ counter \in Nat
  BY ParkedCount DEF CounterInv, CounterMatchesCursors
<1>1. CASE UNCHANGED <<age, parked, counter>>
  BY <1>1 DEF CounterInv, CounterMatchesCursors
<1>2. CASE Withdrawn
  <2>1. ReleaseParkedCursor(Head(sweep.stale)) /\ UNCHANGED age
    BY <1>2 DEF Withdrawn
  <2>2. counter' = Cardinality(parked')
    BY <1>a, <2>1, ParkedCount DEF ReleaseParkedCursor
  <2> QED  BY <1>a, <2>1, <2>2 DEF CounterInv, CounterMatchesCursors, ReleaseParkedCursor
<1>3. CASE SweepCrash
  BY <1>3 DEF SweepCrash, CounterInv, CounterMatchesCursors
<1>4. ASSUME NEW i \in Invites, AcceptanceSeen(i) PROVE CounterInv'
  <2>1. /\ i \in parked /\ parked' = parked \ {i} /\ UNCHANGED age
        /\ counter' = IF counter > 0 THEN counter - 1 ELSE 0
    BY <1>4 DEF AcceptanceSeen
  <2>2. counter' = Cardinality(parked')
    BY <1>a, <2>1, ParkedCount
  <2> QED  BY <1>a, <2>1, <2>2 DEF CounterInv, CounterMatchesCursors
<1>5. ASSUME NEW i \in Invites, InviteSent(i) PROVE CounterInv'
  <2>1. /\ age[i] = "unsent" /\ age' = [age EXCEPT ![i] = "fresh"]
        /\ parked' = parked \union {i} /\ counter' = counter + 1
    BY <1>5 DEF InviteSent
  <2>2. i \notin parked
    BY <1>a, <2>1
  <2>3. counter' = Cardinality(parked')
    BY <1>a, <2>1, <2>2, ParkedCount
  <2>4. \A j \in parked' : age'[j] # "unsent"
    BY <1>a, <2>1
  <2> QED  BY <1>a, <2>1, <2>3, <2>4 DEF CounterInv, CounterMatchesCursors
<1>6. CASE SweepBegin \/ ReadPage \/ PageFails \/ SelectStale
  BY <1>1, <1>6 DEF SweepBegin, ReadPage, PageFails, SelectStale
<1>7. ASSUME NEW answer \in {"ok", "throttle", "lost", "skip"}, Attempt(answer) PROVE CounterInv'
  BY <1>1, <1>7 DEF Attempt
<1>8. ASSUME NEW i \in Invites, InviteAccepted(i) PROVE CounterInv'
  BY <1>1, <1>8 DEF InviteAccepted
<1>9. CASE UNCHANGED sweepVars
  BY <1>1, <1>9 DEF sweepVars
<1> QED  BY <1>2, <1>3, <1>4, <1>5, <1>6, <1>7, <1>8, <1>9 DEF SweepNext

\* No step refuses an invite more often in a row than the back-off allows.
LEMMA ThrottleStep ==
    ASSUME ThrottleInv, [SweepNext]_sweepVars PROVE ThrottleInv'
<1> USE SweepAssumption DEF SweepFields, TaleFields
<1>a. MaxThrottles \in Nat
  OBVIOUS
<1>b. /\ DOMAIN sweep = SweepFields /\ DOMAIN tale = TaleFields
      /\ sweep.tries \in Nat /\ tale.throttles \in Nat
  BY DEF ThrottleInv
<1>n. /\ DOMAIN NoSweep = SweepFields /\ NoSweep.tries = 0 /\ NoSweep.pc = "idle"
      /\ DOMAIN Calm = TaleFields /\ Calm.throttles = 0
  BY DEF NoSweep, Calm
<1>1. CASE UNCHANGED <<sweep, tale>>
  BY <1>1 DEF ThrottleInv, NeverHammers
<1>2. CASE SweepBegin
  <2>1. sweep' = [NoSweep EXCEPT !.pc = "reading"] /\ tale' = Calm
    BY <1>2 DEF SweepBegin
  <2> QED  BY <1>n, <2>1 DEF ThrottleInv, NeverHammers
<1>3. CASE ReadPage
  <2>1. /\ DOMAIN sweep' = SweepFields /\ sweep'.tries = sweep.tries
        /\ sweep'.pc \in {"reading", "read"} /\ sweep.pc = "reading"
    BY <1>3, <1>b DEF ReadPage
  <2>2. DOMAIN tale' = TaleFields /\ tale'.throttles = tale.throttles
    BY <1>3, <1>b DEF ReadPage
  <2> QED  BY <2>1, <2>2 DEF ThrottleInv, NeverHammers
<1>4. CASE PageFails
  <2>1. DOMAIN tale' = TaleFields /\ tale'.throttles = tale.throttles /\ sweep.pc = "reading"
    BY <1>4, <1>b DEF PageFails
  <2>2. sweep' = NoSweep \/ sweep' = [sweep EXCEPT !.pc = "read"]
    BY <1>4 DEF PageFails
  <2>3. CASE sweep' = NoSweep
    BY <1>n, <2>1, <2>3 DEF ThrottleInv, NeverHammers
  <2>4. CASE sweep' = [sweep EXCEPT !.pc = "read"]
    BY <1>b, <2>1, <2>4 DEF ThrottleInv, NeverHammers
  <2> QED  BY <2>2, <2>3, <2>4
<1>5. CASE SelectStale
  <2>1. /\ DOMAIN sweep' = SweepFields /\ sweep'.tries = sweep.tries
        /\ sweep'.pc \in {"done", "attempt"} /\ sweep.pc = "read" /\ UNCHANGED tale
    BY <1>5, <1>b DEF SelectStale
  <2> QED  BY <1>a, <2>1 DEF ThrottleInv, NeverHammers
<1>6. CASE Withdrawn
  <2>1. /\ DOMAIN sweep' = SweepFields /\ sweep'.tries = 0
        /\ sweep'.pc \in {"done", "attempt"} /\ sweep.pc = "release" /\ UNCHANGED tale
    BY <1>6, <1>b DEF Withdrawn, Onward
  <2> QED  BY <1>a, <2>1 DEF ThrottleInv, NeverHammers
<1>7. CASE SweepCrash
  BY <1>7, <1>n DEF SweepCrash, ThrottleInv, NeverHammers
<1>8. ASSUME NEW answer \in {"ok", "throttle", "lost", "skip"}, Attempt(answer) PROVE ThrottleInv'
  <2>1. /\ sweep.pc = "attempt"
        /\ DOMAIN tale' = TaleFields
        /\ tale'.throttles = IF answer \in {"throttle", "lost"} THEN tale.throttles + 1 ELSE 0
    BY <1>8, <1>b DEF Attempt
  <2>2. CASE answer = "ok"
    <3>1. sweep' = [sweep EXCEPT !.pc = "release"]
      BY <1>8, <2>2 DEF Attempt
    <3> QED  BY <1>b, <2>1, <2>2, <3>1 DEF ThrottleInv, NeverHammers
  <2>3. CASE answer = "skip"
    <3>1. sweep' = Onward([sweep EXCEPT !.failed = @ + 1])
      BY <1>8, <2>3 DEF Attempt
    <3>2. DOMAIN sweep' = SweepFields /\ sweep'.tries = 0 /\ sweep'.pc \in {"done", "attempt"}
      BY <1>b, <3>1 DEF Onward
    <3> QED  BY <2>1, <2>3, <3>2 DEF ThrottleInv, NeverHammers
  <2>4. CASE answer \in {"throttle", "lost"}
    <3>1. sweep' = BackOff(sweep)
      BY <1>8, <2>4 DEF Attempt
    <3>2. CASE sweep.tries < MaxThrottles
      <4>1. sweep' = [sweep EXCEPT !.tries = @ + 1]
        BY <3>1, <3>2 DEF BackOff
      <4> QED  BY <1>b, <2>1, <2>4, <3>2, <4>1 DEF ThrottleInv, NeverHammers
    <3>3. CASE ~(sweep.tries < MaxThrottles)
      <4>1. sweep' = [sweep EXCEPT !.pc = "done", !.stopped = "throttled"]
        BY <3>1, <3>3 DEF BackOff
      <4> QED  BY <1>b, <2>1, <2>4, <4>1 DEF ThrottleInv, NeverHammers
    <3> QED  BY <3>2, <3>3
  <2> QED  BY <2>2, <2>3, <2>4
<1>9. ASSUME NEW i \in Invites, InviteAccepted(i) \/ AcceptanceSeen(i) \/ InviteSent(i)
      PROVE  ThrottleInv'
  <2>1. /\ UNCHANGED sweep
        /\ DOMAIN tale' = TaleFields /\ tale'.throttles = tale.throttles
    BY <1>9, <1>b DEF InviteAccepted, AcceptanceSeen, InviteSent
  <2> QED  BY <2>1 DEF ThrottleInv, NeverHammers
<1>10. CASE UNCHANGED sweepVars
  BY <1>1, <1>10 DEF sweepVars
<1> QED  BY <1>2, <1>3, <1>4, <1>5, <1>6, <1>7, <1>8, <1>9, <1>10 DEF SweepNext

(* The outstanding counter is the number of cursors that wait for acceptance,
   whoever withdraws, accepts, invites or crashes. *)
THEOREM CounterCountsCursors == SweepSpec => []CounterMatchesCursors
<1>1. SweepInit => CounterInv
  BY SweepAssumption DEF SweepInit, CounterInv, CounterMatchesCursors, Invites
<1>2. CounterInv => CounterMatchesCursors
  BY DEF CounterInv
<1> QED  BY <1>1, <1>2, CounterStep, PTL DEF SweepSpec

(* LinkedIn refuses no more than MaxThrottles + 1 withdrawals in a row before
   a sweep gives up. *)
THEOREM SweepsBackOff == SweepSpec => []NeverHammers
<1>1. SweepInit => ThrottleInv
  BY SweepAssumption DEF SweepInit, NoSweep, Calm, SweepFields, TaleFields, ThrottleInv, NeverHammers
<1>2. ThrottleInv => NeverHammers
  BY DEF ThrottleInv
<1> QED  BY <1>1, <1>2, ThrottleStep, PTL DEF SweepSpec

-----------------------------------------------------------------------------
(* The withdrawal sweep: the books *)

Whole == {i \in Invites : age[i] # "broken"}

SweepTyped ==
    /\ DOMAIN sweep = SweepFields /\ DOMAIN tale = TaleFields
    /\ pile \in Seq(Invites) /\ Distinct(pile)
    /\ age \in [Invites -> {"old", "fresh", "undated", "broken", "unsent"}]
    /\ \A i \in ToSet(pile) : age[i] # "unsent"
    /\ sweep.out \in Seq(Invites) /\ sweep.stale \in Seq(Invites) /\ sweep.start \in Nat
    /\ sweep.aged \in Int /\ sweep.withdrawn \in Int /\ sweep.failed \in Int
    /\ tale.refused \in SUBSET Invites
    /\ sweep.pc \in {"attempt", "release"} => sweep.stale # <<>>
    /\ sweep.pc \in {"reading", "read"} => sweep.withdrawn = 0 /\ sweep.failed = 0 /\ tale.refused = {}

Balance == sweep.aged - sweep.withdrawn - sweep.failed + Cardinality(tale.refused)

\* What is read is what the list holds, what is chosen is still there, and
\* every old invite is either left over or refused.
Books ==
    /\ sweep.pc = "reading" => /\ sweep.start <= Len(pile) /\ Distinct(sweep.out)
                               /\ ToSet(sweep.out) = {pile[k] : k \in 1 .. sweep.start} \cap Whole
    /\ sweep.pc = "read" => Distinct(sweep.out) /\ ToSet(sweep.out) = ToSet(pile) \cap Whole
    /\ sweep.pc \in {"attempt", "release"} =>
          Distinct(sweep.stale) /\ \A i \in ToSet(sweep.stale) : age[i] = "old" /\ i \notin tale.refused
    /\ sweep.pc = "attempt" => ToSet(sweep.stale) \subseteq ToSet(pile)
    /\ sweep.pc = "release" => ToSet(Tail(sweep.stale)) \subseteq ToSet(pile)
    /\ sweep.pc \in {"attempt", "done"} => Cardinality(StillOld) = Balance
    /\ sweep.pc = "release" => Cardinality(StillOld) = Balance - 1

BooksInv == SweepTyped /\ (~tale.moved /\ ~tale.partial /\ ~tale.lost => Books)

LEMMA SetOf ==
    ASSUME NEW E, NEW s \in Seq(E)
    PROVE  ToSet(s) = {s[x] : x \in 1 .. Len(s)} /\ ToSet(s) \subseteq E
BY DEF ToSet

\* A stretch of a list, after its first a elements.
LEMMA PieceFacts ==
    ASSUME NEW E, NEW s \in Seq(E), NEW a \in Nat, NEW b \in 0 .. Len(s)
    PROVE  LET c == SubSeq(s, a + 1, b) IN
           /\ c \in Seq(E) /\ Len(c) = IF a <= b THEN b - a ELSE 0
           /\ \A p \in 1 .. Len(c) : a + p \in 1 .. b /\ a + p \in 1 .. Len(s) /\ c[p] = s[a + p]
<1>1. Len(s) \in Nat
  OBVIOUS
<1>2. PICK lo : lo = a + 1
  OBVIOUS
<1>3. CASE a <= b
  <2>1. lo \in 1 .. Len(s) + 1 /\ b \in lo - 1 .. Len(s)
    BY <1>1, <1>2, <1>3
  <2>2. /\ SubSeq(s, lo, b) \in Seq(E)
        /\ Len(SubSeq(s, lo, b)) = IF lo <= b THEN b - lo + 1 ELSE 0
        /\ \A i \in 1 .. b - lo + 1 : SubSeq(s, lo, b)[i] = s[lo + i - 1]
    BY SMTT(60), <2>1, SubSeqProperties
  <2>3. Len(SubSeq(s, lo, b)) = b - a /\ b - lo + 1 = b - a
    BY <1>1, <1>2, <1>3, <2>2
  <2>4. ASSUME NEW p \in 1 .. b - a PROVE a + p \in 1 .. b /\ a + p \in 1 .. Len(s) /\ lo + p - 1 = a + p
    BY <1>1, <1>2, <1>3
  <2> QED  BY <1>2, <1>3, <2>2, <2>3, <2>4
<1>4. CASE ~(a <= b)
  <2>1. lo > b /\ lo \in Int /\ b \in Int
    BY <1>1, <1>2, <1>4
  <2>2. SubSeq(s, lo, b) = <<>>
    BY <2>1, SubSeqEmpty
  <2>3. <<>> \in Seq(E) /\ Len(<<>>) = 0 /\ 1 .. 0 = {}
    OBVIOUS
  <2> QED  BY <1>2, <1>4, <2>2, <2>3
<1> QED  BY <1>3, <1>4

\* What a filter keeps of a list, as a set.
LEMMA ChosenSet ==
    ASSUME NEW E, NEW s \in Seq(E), NEW S
    PROVE  LET c == Chosen(s, S) IN
           /\ c \in Seq(E) /\ ToSet(c) = ToSet(s) \cap S
           /\ Distinct(s) => Distinct(c) /\ Len(c) <= Len(s)
<1> DEFINE c == Chosen(s, S)
<1>1. c \in Seq(E) /\ {c[x] : x \in 1 .. Len(c)} = {s[p] : p \in 1 .. Len(s)} \cap S
  BY SMTT(60), ChosenMembers
<1>2. ASSUME Distinct(s) PROVE Distinct(c) /\ Len(c) = Cardinality({s[p] : p \in 1 .. Len(s)} \cap S)
  BY <1>2, ChosenOnce
<1> HIDE DEF c
<1>3. ToSet(c) = ToSet(s) \cap S
  BY <1>1, SetOf
<1>4. ASSUME Distinct(s) PROVE Len(c) <= Len(s)
  <2> DEFINE M == {s[p] : p \in 1 .. Len(s)}
  <2>1. IsFiniteSet(M) /\ Cardinality(M) = Len(s)
    BY <1>4, OnceCounts
  <2> HIDE DEF M
  <2>2. Cardinality(M \cap S) <= Cardinality(M)
    BY <2>1, FS_Subset
  <2> QED  BY <1>2, <1>4, <2>1, <2>2 DEF M
<1> QED  BY <1>1, <1>2, <1>3, <1>4 DEF c

\* Two lists, one after the other.
LEMMA JoinedFacts ==
    ASSUME NEW E, NEW s \in Seq(E), NEW t \in Seq(E)
    PROVE  /\ s \o t \in Seq(E) /\ Len(s \o t) \in Nat /\ ToSet(s \o t) = ToSet(s) \cup ToSet(t)
           /\ Distinct(s) /\ Distinct(t) /\ ToSet(s) \cap ToSet(t) = {} => Distinct(s \o t)
<1> DEFINE m == Len(s)
           n == Len(t)
           a == s \o t
<1>1. a \in Seq(E) /\ Len(a) = m + n /\ m \in Nat /\ n \in Nat
  OBVIOUS
<1>2. \A x \in 1 .. m : x \in 1 .. Len(a) /\ a[x] = s[x]
  BY <1>1
<1>3. \A x \in 1 .. n : m + x \in 1 .. Len(a) /\ a[m + x] = t[x]
  BY <1>1
<1> HIDE DEF a
<1>4. ToSet(a) = {a[x] : x \in 1 .. Len(a)} /\ ToSet(s) = {s[x] : x \in 1 .. m} /\ ToSet(t) = {t[x] : x \in 1 .. n}
  BY <1>1, SetOf
<1> HIDE DEF m, n
\* Where an element of the whole is.
<1>5. ASSUME NEW x \in 1 .. Len(a)
      PROVE  \/ x \in 1 .. m /\ a[x] = s[x] /\ a[x] \in ToSet(s)
             \/ x \notin 1 .. m /\ \E y \in 1 .. n : x = m + y /\ a[x] = t[y] /\ a[x] \in ToSet(t)
  <2>1. CASE x \in 1 .. m
    BY <1>2, <1>4, <2>1
  <2>2. CASE x \notin 1 .. m
    <3>1. PICK y : y = x - m
      OBVIOUS
    <3>2. y \in 1 .. n /\ x = m + y
      BY <1>1, <2>2, <3>1
    <3> QED  BY <1>3, <1>4, <2>2, <3>2
  <2> QED  BY <2>1, <2>2
<1>6. ToSet(a) = ToSet(s) \cup ToSet(t)
  <2>1. ToSet(a) \subseteq ToSet(s) \cup ToSet(t)
    BY <1>4, <1>5
  <2>2. ToSet(s) \subseteq ToSet(a)
    BY <1>2, <1>4
  <2>3. ToSet(t) \subseteq ToSet(a)
    BY <1>3, <1>4
  <2> QED  BY <2>1, <2>2, <2>3
<1>7. ASSUME Distinct(s), Distinct(t), ToSet(s) \cap ToSet(t) = {}, NEW x \in 1 .. Len(a), NEW y \in 1 .. Len(a), a[x] = a[y]
      PROVE  x = y
  <2>1. CASE x \in 1 .. m /\ y \in 1 .. m
    BY <1>2, <1>7, <2>1 DEF Distinct, m
  <2>2. CASE x \notin 1 .. m /\ y \notin 1 .. m
    BY <1>5, <1>7, <2>2 DEF Distinct, n
  <2>3. CASE x \in 1 .. m /\ y \notin 1 .. m
    BY <1>5, <1>7, <2>3
  <2>4. CASE x \notin 1 .. m /\ y \in 1 .. m
    BY <1>5, <1>7, <2>4
  <2> QED  BY <2>1, <2>2, <2>3, <2>4
<1> QED  BY SMTT(60), <1>1, <1>6, <1>7 DEF a, Distinct

LEMMA ReadPageKeeps ==
    ASSUME BooksInv, ReadPage PROVE BooksInv'
<1> DEFINE start == sweep.start
           hi == IF start + PageSize < Len(pile) THEN start + PageSize ELSE Len(pile)
           page == SubSeq(pile, start + 1, hi)
           items == NormalizeSentInvitationsResponse(page)
           all == sweep.out \o items
           out == SubSeq(all, 1, IF Len(all) < Ceiling THEN Len(all) ELSE Ceiling)
           more == Len(items) = PageSize /\ Len(out) < Ceiling /\ start + PageSize < Ceiling
<1>1. /\ sweep.pc = "reading" /\ UNCHANGED <<pile, age>>
      /\ sweep' = [sweep EXCEPT !.out = out, !.start = @ + PageSize, !.pc = IF more THEN "reading" ELSE "read"]
      /\ tale' = [tale EXCEPT !.partial = @ \/ Len(out) < Len(all) \/ (~more /\ start + PageSize < Len(pile))]
  BY DEF ReadPage
<1>2. /\ pile \in Seq(Invites) /\ Distinct(pile) /\ start \in Nat /\ sweep.out \in Seq(Invites) /\ Len(pile) \in Nat
      /\ PageSize \in Nat \ {0} /\ Ceiling \in Nat \ {0} /\ DOMAIN sweep = SweepFields /\ DOMAIN tale = TaleFields
  BY SweepAssumption DEF BooksInv, SweepTyped
<1> HIDE DEF start
<1>3. hi \in 0 .. Len(pile) /\ hi \in Nat /\ (start <= Len(pile) => start <= hi)
  BY <1>2
<1> HIDE DEF hi
<1>4. /\ page \in Seq(Invites) /\ Len(page) = IF start <= hi THEN hi - start ELSE 0
      /\ \A p \in 1 .. Len(page) : start + p \in 1 .. hi /\ start + p \in 1 .. Len(pile) /\ page[p] = pile[start + p]
  BY <1>2, <1>3, PieceFacts
<1> HIDE DEF page
<1>5. Distinct(page)
  BY <1>2, <1>4 DEF Distinct
<1>6. items \in Seq(Invites) /\ ToSet(items) = ToSet(page) \cap Whole /\ Distinct(items) /\ Len(items) <= Len(page)
  <2>1. items = Chosen(page, Whole)
    BY DEF NormalizeSentInvitationsResponse, Whole
  <2> HIDE DEF items
  <2> QED  BY <1>4, <1>5, <2>1, ChosenSet
<1> HIDE DEF items
<1>7. all \in Seq(Invites) /\ Len(all) \in Nat /\ ToSet(all) = ToSet(sweep.out) \cup ToSet(items)
  BY <1>2, <1>6, JoinedFacts
<1> DEFINE m == IF Len(all) < Ceiling THEN Len(all) ELSE Ceiling
<1>8. out \in Seq(Invites) /\ Len(out) = m
  <2>1. m \in 0 .. Len(all)
    BY <1>2, <1>7
  <2> HIDE DEF all, m
  <2>2. 1 \in 1 .. Len(all) + 1 /\ m \in 1 - 1 .. Len(all)
    BY <1>7, <2>1
  <2>3. SubSeq(all, 1, m) \in Seq(Invites) /\ Len(SubSeq(all, 1, m)) = IF 1 <= m THEN m - 1 + 1 ELSE 0
    BY <1>7, <2>2, SubSeqProperties
  <2> QED  BY <1>7, <2>1, <2>3 DEF m
<1> HIDE DEF out
<1>9. ASSUME Len(out) >= Len(all) PROVE out = all
  <2>1. m = Len(all)
    BY <1>2, <1>7, <1>8, <1>9
  <2>2. out = SubSeq(all, 1, m)
    BY DEF out
  <2> HIDE DEF m, all
  <2> QED  BY <1>7, <2>1, <2>2, SubSeqFull
<1> HIDE DEF m
<1>10. /\ DOMAIN sweep' = SweepFields /\ sweep'.out = out /\ sweep'.start = start + PageSize
       /\ sweep'.pc = (IF more THEN "reading" ELSE "read") /\ sweep'.stale = sweep.stale /\ sweep'.aged = sweep.aged
       /\ sweep'.withdrawn = sweep.withdrawn /\ sweep'.failed = sweep.failed
  <2> HIDE DEF more
  <2> QED  BY <1>1, <1>2 DEF SweepFields, start
<1>11. /\ DOMAIN tale' = TaleFields /\ tale'.moved = tale.moved /\ tale'.lost = tale.lost /\ tale'.refused = tale.refused
  <2> HIDE DEF more
  <2> QED  BY <1>1, <1>2 DEF TaleFields
<1>12. tale'.partial = (tale.partial \/ Len(out) < Len(all) \/ (~more /\ start + PageSize < Len(pile)))
  <2> HIDE DEF more
  <2> QED  BY <1>1, <1>2 DEF TaleFields
<1>13. SweepTyped'
  <2>1. start + PageSize \in Nat
    BY <1>2
  <2>2. sweep'.pc \in {"reading", "read"}
    BY <1>10
  <2> HIDE DEF more
  <2> QED  BY <1>1, <1>8, <1>10, <1>11, <2>1, <2>2 DEF BooksInv, SweepTyped
<1>14. ASSUME ~tale'.moved, ~tale'.partial, ~tale'.lost PROVE Books'
  <2>1. ~tale.partial /\ ~(Len(out) < Len(all)) /\ (more \/ ~(start + PageSize < Len(pile)))
    BY <1>12, <1>14, Zenon
  <2>2. Books
    BY <1>11, <1>14, <2>1, Zenon DEF BooksInv
  <2>3. /\ start <= Len(pile) /\ Distinct(sweep.out)
        /\ ToSet(sweep.out) = {pile[k] : k \in 1 .. start} \cap Whole
    BY <1>1, <2>2 DEF Books, start
  <2>4. out = all
    BY <1>7, <1>8, <1>9, <2>1
  <2>5. {pile[k] : k \in 1 .. hi} = {pile[k] : k \in 1 .. start} \cup ToSet(page)
    <3>1. ASSUME NEW k \in 1 .. hi PROVE k \in 1 .. start \/ (k - start \in 1 .. Len(page) /\ start + (k - start) = k)
      BY <1>2, <1>3, <1>4, <2>3
    <3>2. \A k \in 1 .. hi : k \in 1 .. start \/ pile[k] \in ToSet(page)
      <4> SUFFICES ASSUME NEW k \in 1 .. hi, k \notin 1 .. start PROVE pile[k] \in ToSet(page)
        OBVIOUS
      <4>1. k - start \in 1 .. Len(page) /\ page[k - start] = pile[k]
        BY <1>4, <3>1
      <4> QED  BY <1>4, <4>1, SetOf
    <3>3. \A k \in 1 .. start : k \in 1 .. hi
      BY <1>2, <1>3, <2>3
    <3>4. ToSet(page) \subseteq {pile[k] : k \in 1 .. hi}
      BY <1>4, SetOf
    <3> QED  BY <3>2, <3>3, <3>4
  <2>6. ToSet(out) = {pile[k] : k \in 1 .. hi} \cap Whole
    BY <1>6, <1>7, <2>3, <2>4, <2>5
  <2>7. Distinct(out)
    <3>1. ToSet(sweep.out) \cap ToSet(items) = {}
      <4> SUFFICES ASSUME NEW i \in ToSet(sweep.out), i \in ToSet(items) PROVE FALSE
        OBVIOUS
      <4>1. PICK k \in 1 .. start : i = pile[k]
        BY <2>3
      <4>2. PICK p \in 1 .. Len(page) : i = page[p]
        BY <1>4, <1>6, SetOf
      <4>3. start + p \in 1 .. Len(pile) /\ pile[start + p] = i /\ k \in 1 .. Len(pile)
        BY <1>2, <1>4, <2>3, <4>2
      <4>4. k = start + p
        BY <1>2, <4>1, <4>3 DEF Distinct
      <4> QED  BY <1>2, <1>4, <4>4
    <3>2. Distinct(all)
      BY <1>2, <1>6, <2>3, <3>1, JoinedFacts
    <3> QED  BY <2>4, <3>2
  <2>8. CASE more
    <3>1. hi = start + PageSize /\ start + PageSize <= Len(pile)
      <4>1. PageSize <= hi - start
        BY <1>2, <1>3, <1>4, <1>6, <2>3, <2>8
      <4> QED  BY <1>2, <1>3, <4>1 DEF hi
    <3>2. sweep'.pc = "reading"
      BY <1>10, <2>8
    <3> HIDE DEF more
    <3> QED  BY <1>1, <1>10, <2>6, <2>7, <3>1, <3>2 DEF Books, Whole
  <2>9. CASE ~more
    <3>1. hi = Len(pile)
      BY <1>2, <2>1, <2>9 DEF hi
    <3>2. sweep'.pc = "read"
      BY <1>10, <2>9
    <3>3. ToSet(out) = ToSet(pile) \cap Whole
      BY <1>2, <2>6, <3>1, SetOf
    <3> HIDE DEF more
    <3> QED  BY <1>1, <1>10, <2>7, <3>2, <3>3 DEF Books, Whole
  <2> QED  BY <2>8, <2>9
<1> QED  BY <1>13, <1>14 DEF BooksInv

\* The oldest first: every old invite of the list, once if it is there once.
LEMMA AgedFacts ==
    ASSUME NEW out \in Seq(Invites), age \in [Invites -> {"old", "fresh", "undated", "broken", "unsent"}]
    PROVE  /\ Aged(out) \in Seq(Invites)
           /\ \A i \in ToSet(Aged(out)) : i \in ToSet(out) /\ age[i] = "old"
           /\ Distinct(out) => /\ Distinct(Aged(out))
                               /\ Len(Aged(out)) = Cardinality({i \in ToSet(out) : age[i] = "old"})
<1> DEFINE places == {k \in DOMAIN out : age[out[k]] = "old"}
           R == {p \in places \X places : out[p[1]] < out[p[2]] \/ (out[p[1]] = out[p[2]] /\ p[1] < p[2])}
           order == Arranged(places, R)
           n == Cardinality(places)
           c == Aged(out)
<1>1. /\ Len(out) \in Nat /\ DOMAIN out = 1 .. Len(out)
      /\ \A k \in 1 .. Len(out) : k \in Nat /\ out[k] \in Invites /\ out[k] \in Nat
  <2>1. \A k \in 1 .. Len(out) : out[k] \in Invites
    OBVIOUS
  <2>2. \A i \in Invites : i \in Nat
    BY SweepAssumption DEF Invites
  <2> QED  BY <2>1, <2>2
<1>2. \A k : k \in places <=> k \in 1 .. Len(out) /\ age[out[k]] = "old"
  BY <1>1
<1>3. IsFiniteSet(places)
  <2>1. IsFiniteSet(1 .. Len(out)) /\ places \in SUBSET (1 .. Len(out))
    BY <1>1, FS_Interval
  <2> QED  BY <2>1, FS_Subset
<1>4. \A j, k \in places : <<j, k>> \in R <=> out[j] < out[k] \/ (out[j] = out[k] /\ j < k)
  OBVIOUS
<1>5. c = [x \in DOMAIN order |-> out[order[x]]]
  BY DEF Aged
<1> HIDE DEF places, R
<1>6. StrictOrder(places, R)
  <2>1. \A k \in places : k \in Nat /\ out[k] \in Nat
    BY <1>1, <1>2
  <2> QED  BY SMTT(60), <1>4, <2>1 DEF StrictOrder
<1>7. /\ n \in Nat /\ order \in [1 .. n -> places] /\ DOMAIN order = 1 .. n
      /\ \A k \in places : \E x \in 1 .. n : order[x] = k
      /\ \A x, y \in 1 .. n : order[x] = order[y] => x = y
  BY <1>3, <1>6, ArrangedIsWhole
<1> HIDE DEF n, order, c
<1>8. /\ c = [x \in 1 .. n |-> out[order[x]]]
      /\ \A x \in 1 .. n : order[x] \in 1 .. Len(out) /\ age[out[order[x]]] = "old" /\ out[order[x]] \in Invites
  BY <1>1, <1>2, <1>5, <1>7
<1>9. c \in Seq(Invites) /\ Len(c) = n /\ \A x \in 1 .. n : c[x] = out[order[x]]
  <2>1. c \in [1 .. n -> Invites]
    BY <1>8
  <2> QED  BY <1>7, <1>8, <2>1
<1>10. ToSet(c) = {i \in ToSet(out) : age[i] = "old"}
  <2>1. ToSet(c) = {c[x] : x \in 1 .. n} /\ ToSet(out) = {out[x] : x \in 1 .. Len(out)}
    BY <1>9, SetOf
  <2>2. \A i \in ToSet(c) : i \in ToSet(out) /\ age[i] = "old"
    BY <1>8, <1>9, <2>1
  <2>3. ASSUME NEW k \in 1 .. Len(out), age[out[k]] = "old" PROVE out[k] \in ToSet(c)
    <3>1. PICK x \in 1 .. n : order[x] = k
      BY <1>2, <1>7, <2>3
    <3> QED  BY <1>9, <2>1, <3>1
  <2> QED  BY <2>1, <2>2, <2>3
<1>11. ASSUME Distinct(out) PROVE Distinct(c)
  BY <1>7, <1>8, <1>9, <1>11 DEF Distinct
<1>12. ASSUME Distinct(c) PROVE Len(c) = Cardinality(ToSet(c))
  <2>1. ToSet(c) = {c[x] : x \in 1 .. Len(c)}
    BY <1>9, SetOf
  <2> QED  BY <1>9, <1>12, <2>1, OnceCounts
<1> QED  BY <1>9, <1>10, <1>11, <1>12 DEF c

LEMMA SelectStaleKeeps ==
    ASSUME BooksInv, SelectStale PROVE BooksInv'
<1> DEFINE aged == Aged(sweep.out)
           m == IF Len(aged) < SweepMax THEN Len(aged) ELSE SweepMax
           chosen == SubSeq(aged, 1, m)
<1>1. /\ sweep.pc = "read" /\ UNCHANGED <<pile, age, tale>>
      /\ sweep' = [sweep EXCEPT !.pc = IF aged = <<>> THEN "done" ELSE "attempt", !.aged = Len(aged), !.stale = chosen]
  BY DEF SelectStale
<1>2. /\ pile \in Seq(Invites) /\ Distinct(pile) /\ sweep.out \in Seq(Invites) /\ DOMAIN sweep = SweepFields
      /\ age \in [Invites -> {"old", "fresh", "undated", "broken", "unsent"}]
      /\ sweep.withdrawn = 0 /\ sweep.failed = 0 /\ tale.refused = {} /\ SweepMax \in Nat \ {0}
  BY <1>1, SweepAssumption DEF BooksInv, SweepTyped
<1>3. /\ aged \in Seq(Invites) /\ \A i \in ToSet(aged) : i \in ToSet(sweep.out) /\ age[i] = "old"
      /\ Distinct(sweep.out) => /\ Distinct(aged)
                                /\ Len(aged) = Cardinality({i \in ToSet(sweep.out) : age[i] = "old"})
  BY <1>2, AgedFacts
<1> HIDE DEF aged
<1>4. Len(aged) \in Nat /\ m \in 0 .. Len(aged) /\ (aged # <<>> => m # 0)
  BY <1>2, <1>3
<1> HIDE DEF m
<1>5. /\ chosen \in Seq(Invites) /\ Len(chosen) = m
      /\ \A p \in 1 .. Len(chosen) : p \in 1 .. Len(aged) /\ chosen[p] = aged[p]
  <2>1. 0 \in Nat /\ 0 + 1 = 1
    OBVIOUS
  <2>2. LET d == SubSeq(aged, 0 + 1, m) IN
        /\ d \in Seq(Invites) /\ Len(d) = IF 0 <= m THEN m - 0 ELSE 0
        /\ \A p \in 1 .. Len(d) : 0 + p \in 1 .. Len(aged) /\ d[p] = aged[0 + p]
    BY <1>3, <1>4, <2>1, PieceFacts
  <2> HIDE DEF chosen
  <2>3. /\ chosen \in Seq(Invites) /\ Len(chosen) = IF 0 <= m THEN m - 0 ELSE 0
        /\ \A p \in 1 .. Len(chosen) : 0 + p \in 1 .. Len(aged) /\ chosen[p] = aged[0 + p]
    BY <2>1, <2>2 DEF chosen
  <2>4. Len(chosen) = m
    BY <1>4, <2>3
  <2>5. \A p \in 1 .. Len(chosen) : 0 + p = p
    BY <1>4, <2>4
  <2> QED  BY <2>3, <2>4, <2>5
<1> HIDE DEF chosen
<1>6. ToSet(chosen) \subseteq ToSet(aged)
  BY <1>3, <1>5, SetOf
<1>7. /\ DOMAIN sweep' = SweepFields /\ sweep'.out = sweep.out /\ sweep'.start = sweep.start
      /\ sweep'.pc = (IF aged = <<>> THEN "done" ELSE "attempt") /\ sweep'.stale = chosen /\ sweep'.aged = Len(aged)
      /\ sweep'.withdrawn = 0 /\ sweep'.failed = 0
  BY <1>1, <1>2 DEF SweepFields
<1>8. aged # <<>> => chosen # <<>>
  BY <1>4, <1>5
<1>9. SweepTyped'
  BY <1>1, <1>2, <1>4, <1>5, <1>7, <1>8 DEF BooksInv, SweepTyped
<1>10. ASSUME Books PROVE Books'
  <2>1. Distinct(sweep.out) /\ ToSet(sweep.out) = ToSet(pile) \cap Whole
    BY <1>1, <1>10 DEF Books
  <2>2. {i \in ToSet(sweep.out) : age[i] = "old"} = StillOld
    <3>1. ToSet(pile) \subseteq Invites
      BY <1>2, SetOf
    <3> QED  BY <2>1, <3>1 DEF StillOld, Whole
  <2>3. Cardinality(StillOld) = Len(aged) /\ Distinct(aged)
    BY <1>3, <2>1, <2>2
  <2>4. Distinct(chosen)
    BY <1>5, <2>3 DEF Distinct
  <2>5. StillOld' = StillOld
    BY <1>1 DEF StillOld
  <2>6. Balance' = Len(aged)
    <3>1. Balance' = Len(aged) - 0 - 0 + Cardinality({})
      BY <1>1, <1>2, <1>7 DEF Balance
    <3> QED  BY <1>4, <3>1, FS_EmptySet
  <2>7. \A i \in ToSet(chosen) : age[i] = "old" /\ i \in ToSet(pile) /\ i \notin tale.refused
    BY <1>2, <1>3, <1>6, <2>1
  <2>8. sweep'.pc \in {"attempt", "done"}
    BY <1>7
  <2> QED  BY <1>1, <1>7, <2>3, <2>4, <2>5, <2>6, <2>7, <2>8 DEF Books
<1> QED  BY <1>1, <1>9, <1>10 DEF BooksInv

\* The head and the tail of a list without repetition.
LEMMA HeadAndTail ==
    ASSUME NEW E, NEW s \in Seq(E), s # <<>>
    PROVE  /\ Head(s) \in ToSet(s) /\ Head(s) \in E /\ Tail(s) \in Seq(E) /\ ToSet(Tail(s)) \subseteq ToSet(s)
           /\ Distinct(s) => Distinct(Tail(s)) /\ Head(s) \notin ToSet(Tail(s))
           /\ (Tail(s) = <<>> <=> Len(s) = 1)
<1> DEFINE t == Tail(s)
<1>1. Len(s) \in Nat \ {0} /\ Head(s) = s[1] /\ 1 \in 1 .. Len(s) /\ s[1] \in E
  OBVIOUS
<1>2. t \in Seq(E) /\ Len(t) = Len(s) - 1
  OBVIOUS
<1>3. \A x \in 1 .. Len(t) : x + 1 \in 1 .. Len(s) /\ t[x] = s[x + 1] /\ x + 1 # 1
  BY <1>1, <1>2
<1> HIDE DEF t
<1>4. ToSet(s) = {s[x] : x \in 1 .. Len(s)} /\ ToSet(t) = {t[x] : x \in 1 .. Len(t)}
  BY <1>2, SetOf
<1>5. ToSet(t) \subseteq ToSet(s)
  BY <1>3, <1>4
<1>6. ASSUME Distinct(s) PROVE Distinct(t) /\ s[1] \notin ToSet(t)
  <2>1. s[1] \notin ToSet(t)
    BY <1>1, <1>3, <1>4, <1>6 DEF Distinct
  <2>2. ASSUME NEW x \in 1 .. Len(t), NEW y \in 1 .. Len(t), t[x] = t[y] PROVE x = y
    <3>1. x + 1 = y + 1
      BY <1>3, <1>6, <2>2 DEF Distinct
    <3> QED  BY <1>2, <3>1
  <2> QED  BY <2>1, <2>2 DEF Distinct
<1>7. t = <<>> <=> Len(s) = 1
  BY <1>1, <1>2
<1> QED  BY <1>1, <1>2, <1>4, <1>5, <1>6, <1>7 DEF t

\* Moving on drops the invite under way and leaves the reads and the tallies.
LEMMA OnwardFacts ==
    ASSUME NEW s, DOMAIN s = SweepFields, s.stale \in Seq(Invites), s.stale # <<>>
    PROVE  LET t == Onward(s) IN
           /\ DOMAIN t = SweepFields /\ t.stale = Tail(s.stale) /\ t.out = s.out /\ t.start = s.start
           /\ t.aged = s.aged /\ t.withdrawn = s.withdrawn /\ t.failed = s.failed
           /\ t.pc \in {"attempt", "done"} /\ (t.pc = "attempt" => Tail(s.stale) # <<>>)
<1> DEFINE t == Onward(s)
<1>1. t = [s EXCEPT !.stale = Tail(@), !.tries = 0, !.pc = IF Len(s.stale) = 1 THEN "done" ELSE "attempt",
                    !.unrested = IF @ >= BatchSize THEN 0 ELSE @]
  BY DEF Onward
<1>2. Tail(s.stale) = <<>> <=> Len(s.stale) = 1
  BY HeadAndTail
<1> HIDE DEF t
<1>3. /\ DOMAIN t = SweepFields /\ t.stale = Tail(s.stale) /\ t.out = s.out /\ t.start = s.start
      /\ t.aged = s.aged /\ t.withdrawn = s.withdrawn /\ t.failed = s.failed
      /\ t.pc = IF Len(s.stale) = 1 THEN "done" ELSE "attempt"
  BY <1>1 DEF SweepFields
<1> QED  BY <1>2, <1>3 DEF t

\* Taking one invite off the list, or refusing one, moves its count by one.
LEMMA OldCounts ==
    ASSUME NEW S, S \subseteq Invites, NEW i \in Invites
    PROVE  /\ Cardinality(S) \in Nat
           /\ i \in S => Cardinality(S \ {i}) = Cardinality(S) - 1
           /\ i \notin S => Cardinality(S \cup {i}) = Cardinality(S) + 1
<1>1. IsFiniteSet(Invites)
  BY FS_Interval, SweepAssumption DEF Invites
<1>2. IsFiniteSet(S)
  BY <1>1, FS_Subset
<1> QED  BY <1>2, FS_CardinalityType, FS_RemoveElement, FS_AddElement

LEMMA WithoutFacts ==
    ASSUME SweepTyped, NEW i
    PROVE  Without(pile, i) \in Seq(Invites) /\ ToSet(Without(pile, i)) = ToSet(pile) \ {i} /\ Distinct(Without(pile, i))
<1>1. pile \in Seq(Invites) /\ Distinct(pile) /\ Without(pile, i) = Chosen(pile, ToSet(pile) \ {i})
  BY DEF SweepTyped, Without
<1>2. ToSet(pile) \cap (ToSet(pile) \ {i}) = ToSet(pile) \ {i}
  OBVIOUS
<1> QED  BY <1>1, <1>2, ChosenSet

LEMMA AttemptKeeps ==
    ASSUME BooksInv, NEW answer \in {"ok", "throttle", "lost", "skip"}, Attempt(answer) PROVE BooksInv'
<1> DEFINE inv == Head(sweep.stale)
           pending == \E k \in DOMAIN pile : pile[k] = inv
<1>1. /\ sweep.pc = "attempt" /\ UNCHANGED age /\ (answer \in {"ok", "lost"} => pending)
      /\ pile' = IF answer \in {"ok", "lost"} THEN Without(pile, inv) ELSE pile
      /\ tale' = [tale EXCEPT !.lost = @ \/ answer = "lost",
                              !.refused = IF answer = "skip" /\ pending THEN @ \union {inv} ELSE @,
                              !.throttles = IF answer \in {"throttle", "lost"} THEN @ + 1 ELSE 0]
  BY DEF Attempt
<1>2. /\ SweepTyped /\ pile \in Seq(Invites) /\ Distinct(pile) /\ DOMAIN sweep = SweepFields /\ DOMAIN tale = TaleFields
      /\ sweep.stale \in Seq(Invites) /\ sweep.stale # <<>> /\ tale.refused \in SUBSET Invites
      /\ sweep.aged \in Int /\ sweep.withdrawn \in Int /\ sweep.failed \in Int
  BY <1>1 DEF BooksInv, SweepTyped
<1>3. /\ inv \in ToSet(sweep.stale) /\ inv \in Invites /\ Tail(sweep.stale) \in Seq(Invites)
      /\ ToSet(Tail(sweep.stale)) \subseteq ToSet(sweep.stale)
      /\ Distinct(sweep.stale) => Distinct(Tail(sweep.stale)) /\ inv \notin ToSet(Tail(sweep.stale))
  BY <1>2, HeadAndTail
<1>4. pending <=> inv \in ToSet(pile)
  BY DEF ToSet
<1> HIDE DEF inv, pending
<1>5. /\ DOMAIN tale' = TaleFields /\ tale'.moved = tale.moved /\ tale'.partial = tale.partial
      /\ tale'.refused = IF answer = "skip" /\ pending THEN tale.refused \cup {inv} ELSE tale.refused
  BY <1>1, <1>2 DEF TaleFields
<1>6. tale'.lost = (tale.lost \/ answer = "lost")
  BY <1>1, <1>2 DEF TaleFields
<1>7. Without(pile, inv) \in Seq(Invites) /\ ToSet(Without(pile, inv)) = ToSet(pile) \ {inv} /\ Distinct(Without(pile, inv))
  BY <1>2, WithoutFacts
<1>8. /\ pile' \in Seq(Invites) /\ Distinct(pile') /\ ToSet(pile') \subseteq ToSet(pile)
      /\ tale'.refused \in SUBSET Invites
  BY <1>1, <1>2, <1>3, <1>5, <1>7
\* What the sweep is after the answer.
<1>9. /\ DOMAIN sweep' = SweepFields /\ sweep'.out = sweep.out /\ sweep'.start = sweep.start
      /\ sweep'.aged = sweep.aged /\ sweep'.withdrawn = sweep.withdrawn
      /\ sweep'.failed = (IF answer = "skip" THEN sweep.failed + 1 ELSE sweep.failed)
      /\ sweep'.stale = (IF answer = "skip" THEN Tail(sweep.stale) ELSE sweep.stale)
      /\ answer = "ok" => sweep'.pc = "release"
      /\ answer # "ok" => sweep'.pc \in {"attempt", "done"}
      /\ sweep'.pc \in {"attempt", "release"} => sweep'.stale # <<>>
  <2>1. CASE answer = "ok"
    <3>1. sweep' = [sweep EXCEPT !.pc = "release"]
      BY <2>1 DEF Attempt
    <3> QED  BY <1>2, <2>1, <3>1 DEF SweepFields
  <2>2. CASE answer \in {"throttle", "lost"}
    <3>1. sweep' = BackOff(sweep)
      BY <2>2 DEF Attempt
    <3>2. sweep' = [sweep EXCEPT !.tries = @ + 1] \/ sweep' = [sweep EXCEPT !.pc = "done", !.stopped = "throttled"]
      BY <3>1 DEF BackOff
    <3> QED  BY <1>1, <1>2, <2>2, <3>2 DEF SweepFields
  <2>3. CASE answer = "skip"
    <3> DEFINE s == [sweep EXCEPT !.failed = @ + 1]
    <3>1. sweep' = Onward(s)
      BY <2>3 DEF Attempt
    <3>2. /\ DOMAIN s = SweepFields /\ s.stale = sweep.stale /\ s.out = sweep.out /\ s.start = sweep.start
          /\ s.aged = sweep.aged /\ s.withdrawn = sweep.withdrawn /\ s.failed = sweep.failed + 1
      BY <1>2 DEF SweepFields
    <3> HIDE DEF s
    <3>3. /\ DOMAIN sweep' = SweepFields /\ sweep'.stale = Tail(s.stale) /\ sweep'.out = s.out /\ sweep'.start = s.start
          /\ sweep'.aged = s.aged /\ sweep'.withdrawn = s.withdrawn /\ sweep'.failed = s.failed
          /\ sweep'.pc \in {"attempt", "done"} /\ (sweep'.pc = "attempt" => Tail(s.stale) # <<>>)
      BY <1>2, <3>1, <3>2, OnwardFacts
    <3> QED  BY <2>3, <3>2, <3>3
  <2> QED  BY <2>1, <2>2, <2>3
<1>10. sweep'.pc \notin {"reading", "read"}
  BY <1>9
<1>11. SweepTyped'
  <2>1. sweep'.stale \in Seq(Invites) /\ sweep'.failed \in Int /\ sweep'.aged \in Int /\ sweep'.withdrawn \in Int
    BY <1>2, <1>3, <1>9
  <2>2. sweep'.out \in Seq(Invites) /\ sweep'.start \in Nat
    BY <1>9 DEF BooksInv, SweepTyped
  <2>3. \A i \in ToSet(pile') : age'[i] # "unsent"
    BY <1>1, <1>2, <1>8 DEF SweepTyped
  <2>4. age' \in [Invites -> {"old", "fresh", "undated", "broken", "unsent"}]
    BY <1>1, <1>2 DEF SweepTyped
  <2> QED  BY <1>5, <1>8, <1>9, <1>10, <2>1, <2>2, <2>3, <2>4 DEF SweepTyped
<1>12. ASSUME ~tale'.moved, ~tale'.partial, ~tale'.lost PROVE Books'
  <2>1. ~tale.lost /\ answer # "lost"
    BY <1>6, <1>12, Zenon
  <2>2. Books
    BY <1>5, <1>12, <2>1, Zenon DEF BooksInv
  <2>3. /\ Distinct(sweep.stale) /\ (\A i \in ToSet(sweep.stale) : age[i] = "old" /\ i \notin tale.refused)
        /\ ToSet(sweep.stale) \subseteq ToSet(pile) /\ Cardinality(StillOld) = Balance
    BY <1>1, <2>2 DEF Books
  <2>4. /\ Balance \in Int /\ Balance = sweep.aged - sweep.withdrawn - sweep.failed + Cardinality(tale.refused)
        /\ Cardinality(tale.refused) \in Nat
    <3>1. tale.refused \subseteq Invites
      BY <1>2
    <3>2. Cardinality(tale.refused) \in Nat
      BY <1>3, <3>1, OldCounts
    <3> QED  BY <1>2, <3>2 DEF Balance
  <2>5. StillOld \subseteq Invites /\ inv \in StillOld /\ inv \notin tale.refused /\ pending
    <3>1. ToSet(pile) \subseteq Invites
      BY <1>2, SetOf
    <3> QED  BY <1>3, <1>4, <2>3, <3>1 DEF StillOld
  <2>6. Balance' = sweep'.aged - sweep'.withdrawn - sweep'.failed + Cardinality(tale'.refused)
    BY DEF Balance
  <2>7. CASE answer = "ok"
    <3>1. sweep'.pc = "release" /\ tale'.refused = tale.refused /\ ToSet(pile') = ToSet(pile) \ {inv}
      BY <1>1, <1>5, <1>7, <1>9, <2>7
    <3>2. StillOld' = StillOld \ {inv}
      BY <1>1, <3>1 DEF StillOld
    <3>3. Balance' = Balance
      BY <1>9, <2>4, <2>6, <2>7, <3>1
    <3>4. Cardinality(StillOld') = Balance' - 1
      BY <1>3, <2>3, <2>5, <3>2, <3>3, OldCounts
    <3>5. ToSet(Tail(sweep.stale)) \subseteq ToSet(pile')
      BY <1>3, <2>3, <3>1
    <3> QED  BY <1>1, <1>9, <2>3, <2>7, <3>1, <3>4, <3>5 DEF Books
  <2>8. CASE answer = "throttle"
    <3>1. UNCHANGED <<pile, age>> /\ tale'.refused = tale.refused /\ sweep'.pc \in {"attempt", "done"}
      BY <1>1, <1>5, <1>9, <2>8
    <3>2. StillOld' = StillOld /\ Balance' = Balance
      BY <1>9, <2>4, <2>6, <2>8, <3>1 DEF StillOld
    <3> QED  BY <1>1, <1>9, <2>3, <2>8, <3>1, <3>2 DEF Books
  <2>9. CASE answer = "skip"
    <3>1. UNCHANGED <<pile, age>> /\ tale'.refused = tale.refused \cup {inv} /\ sweep'.pc \in {"attempt", "done"}
      BY <1>1, <1>5, <1>9, <2>5, <2>9
    <3>2. StillOld' = StillOld
      BY <3>1 DEF StillOld
    <3>3. Cardinality(tale'.refused) = Cardinality(tale.refused) + 1
      BY SMTT(60), <1>2, <1>3, <2>5, <3>1, OldCounts
    <3>4. Balance' = Balance
      <4>1. sweep'.aged = sweep.aged /\ sweep'.withdrawn = sweep.withdrawn /\ sweep'.failed = sweep.failed + 1
        BY <1>9, <2>9
      <4>2. Balance' = sweep.aged - sweep.withdrawn - (sweep.failed + 1) + (Cardinality(tale.refused) + 1)
        BY <2>6, <3>3, <4>1
      <4>3. sweep.aged \in Int /\ sweep.withdrawn \in Int /\ sweep.failed \in Int /\ Cardinality(tale.refused) \in Nat
        BY <1>2, <2>4
      <4>4. Balance = sweep.aged - sweep.withdrawn - sweep.failed + Cardinality(tale.refused)
        BY <2>4
      <4> DEFINE b == Balance
                 a == sweep.aged
                 w == sweep.withdrawn
                 f == sweep.failed
                 n == Cardinality(tale.refused)
      <4>5. /\ a \in Int /\ w \in Int /\ f \in Int /\ n \in Int
            /\ b = a - w - f + n /\ Balance' = a - w - (f + 1) + (n + 1)
        BY <4>2, <4>3, <4>4
      <4> HIDE DEF b, a, w, f, n
      <4>6. Balance' = b
        BY <4>5
      <4> QED  BY <4>6 DEF b
    <3>5. \A i \in ToSet(sweep'.stale) : age'[i] = "old" /\ i \notin tale'.refused /\ i \in ToSet(pile')
      BY <1>3, <1>9, <2>3, <2>9, <3>1
    <3> QED  BY <1>3, <1>9, <2>3, <2>9, <3>1, <3>2, <3>4, <3>5 DEF Books
  <2> QED  BY <2>1, <2>7, <2>8, <2>9
<1> QED  BY <1>11, <1>12 DEF BooksInv

LEMMA WithdrawnKeeps ==
    ASSUME BooksInv, Withdrawn PROVE BooksInv'
<1> DEFINE s == [sweep EXCEPT !.withdrawn = @ + 1, !.unrested = @ + 1]
<1>1. sweep.pc = "release" /\ sweep' = Onward(s) /\ UNCHANGED <<pile, age, tale>>
  BY DEF Withdrawn
<1>2. /\ DOMAIN sweep = SweepFields /\ sweep.stale \in Seq(Invites) /\ sweep.stale # <<>>
      /\ sweep.aged \in Int /\ sweep.withdrawn \in Int /\ sweep.failed \in Int /\ tale.refused \in SUBSET Invites
  BY <1>1 DEF BooksInv, SweepTyped
<1>3. /\ Tail(sweep.stale) \in Seq(Invites) /\ ToSet(Tail(sweep.stale)) \subseteq ToSet(sweep.stale)
      /\ Distinct(sweep.stale) => Distinct(Tail(sweep.stale))
  BY <1>2, HeadAndTail
<1>4. /\ DOMAIN s = SweepFields /\ s.stale = sweep.stale /\ s.out = sweep.out /\ s.start = sweep.start
      /\ s.aged = sweep.aged /\ s.withdrawn = sweep.withdrawn + 1 /\ s.failed = sweep.failed
  BY <1>2 DEF SweepFields
<1> HIDE DEF s
<1>5. /\ DOMAIN sweep' = SweepFields /\ sweep'.stale = Tail(s.stale) /\ sweep'.out = s.out /\ sweep'.start = s.start
      /\ sweep'.aged = s.aged /\ sweep'.withdrawn = s.withdrawn /\ sweep'.failed = s.failed
      /\ sweep'.pc \in {"attempt", "done"} /\ (sweep'.pc = "attempt" => Tail(s.stale) # <<>>)
  BY <1>1, <1>2, <1>4, OnwardFacts
<1>6. SweepTyped'
  BY <1>1, <1>2, <1>3, <1>4, <1>5 DEF BooksInv, SweepTyped
<1>7. ASSUME Books PROVE Books'
  <2>1. /\ Distinct(sweep.stale) /\ \A i \in ToSet(sweep.stale) : age[i] = "old" /\ i \notin tale.refused
        /\ ToSet(Tail(sweep.stale)) \subseteq ToSet(pile) /\ Cardinality(StillOld) = Balance - 1
    BY <1>1, <1>7 DEF Books
  <2>2. StillOld' = StillOld
    BY <1>1 DEF StillOld
  <2>3. Balance' = Balance - 1
    <3>1. Balance' = sweep.aged - (sweep.withdrawn + 1) - sweep.failed + Cardinality(tale.refused)
      BY <1>1, <1>4, <1>5 DEF Balance
    <3>2. tale.refused \subseteq Invites
      BY <1>2
    <3>3. Cardinality(tale.refused) \in Nat
      <4>1. IsFiniteSet(Invites)
        BY FS_Interval, SweepAssumption DEF Invites
      <4> QED  BY <3>2, <4>1, FS_Subset, FS_CardinalityType
    <3> QED  BY SMTT(60), <1>2, <3>1, <3>3 DEF Balance
  <2> QED  BY <1>1, <1>3, <1>4, <1>5, <2>1, <2>2, <2>3 DEF Books
<1> QED  BY <1>1, <1>6, <1>7 DEF BooksInv

\* A sweep that has read nothing yet.
LEMMA FreshSweep ==
    /\ DOMAIN NoSweep = SweepFields /\ NoSweep.out = <<>> /\ NoSweep.stale = <<>> /\ NoSweep.start = 0
    /\ NoSweep.aged = 0 /\ NoSweep.withdrawn = 0 /\ NoSweep.failed = 0 /\ NoSweep.pc = "idle"
    /\ DOMAIN Calm = TaleFields /\ Calm.refused = {}
BY DEF NoSweep, Calm, SweepFields, TaleFields

LEMMA SweepBeginKeeps ==
    ASSUME BooksInv, SweepBegin PROVE BooksInv'
<1>1. sweep' = [NoSweep EXCEPT !.pc = "reading"] /\ tale' = Calm /\ UNCHANGED <<pile, age>>
  BY DEF SweepBegin
<1>2. /\ DOMAIN sweep' = SweepFields /\ sweep'.out = <<>> /\ sweep'.stale = <<>> /\ sweep'.start = 0
      /\ sweep'.aged = 0 /\ sweep'.withdrawn = 0 /\ sweep'.failed = 0 /\ sweep'.pc = "reading"
  BY <1>1, FreshSweep DEF SweepFields
<1>3. SweepTyped'
  <2>1. DOMAIN tale' = TaleFields /\ tale'.refused = {} /\ pile' = pile /\ age' = age
    BY <1>1, FreshSweep
  <2>2. <<>> \in Seq(Invites)
    OBVIOUS
  <2> QED  BY <1>2, <2>1, <2>2 DEF BooksInv, SweepTyped
<1>4. Books'
  <2>1. Distinct(<<>>) /\ ToSet(<<>>) = {} /\ 1 .. 0 = {}
    BY DEF Distinct, ToSet
  <2>2. pile' \in Seq(Invites)
    BY <1>3 DEF SweepTyped
  <2>3. 0 <= Len(pile')
    BY <2>2
  <2> QED  BY <1>2, <2>1, <2>3 DEF Books
<1> QED  BY <1>3, <1>4 DEF BooksInv

LEMMA PageFailsKeeps ==
    ASSUME BooksInv, PageFails PROVE BooksInv'
<1>1. /\ sweep.pc = "reading" /\ tale' = [tale EXCEPT !.partial = TRUE] /\ UNCHANGED <<pile, age>>
      /\ sweep' = NoSweep \/ sweep' = [sweep EXCEPT !.pc = "read"]
  BY DEF PageFails
<1>2. DOMAIN tale' = TaleFields /\ tale'.partial /\ tale'.refused = tale.refused
  BY <1>1 DEF BooksInv, SweepTyped, TaleFields
<1>3. SweepTyped'
  <2>1. CASE sweep' = NoSweep
    BY <1>1, <1>2, <2>1, FreshSweep DEF BooksInv, SweepTyped
  <2>2. CASE sweep' = [sweep EXCEPT !.pc = "read"]
    <3>1. DOMAIN sweep = SweepFields
      BY DEF BooksInv, SweepTyped
    <3>2. /\ DOMAIN sweep' = SweepFields /\ sweep'.out = sweep.out /\ sweep'.stale = sweep.stale /\ sweep'.start = sweep.start
          /\ sweep'.aged = sweep.aged /\ sweep'.withdrawn = sweep.withdrawn /\ sweep'.failed = sweep.failed
          /\ sweep'.pc = "read"
      BY <2>2, <3>1 DEF SweepFields
    <3> QED  BY <1>1, <1>2, <3>2 DEF BooksInv, SweepTyped
  <2> QED  BY <1>1, <2>1, <2>2
<1> QED  BY <1>2, <1>3 DEF BooksInv

LEMMA SweepCrashKeeps ==
    ASSUME BooksInv, SweepCrash PROVE BooksInv'
<1>1. sweep' = NoSweep /\ UNCHANGED <<pile, age, tale>>
  BY DEF SweepCrash
<1>2. SweepTyped'
  BY <1>1, FreshSweep DEF BooksInv, SweepTyped
<1>3. Books'
  BY <1>1, FreshSweep DEF Books
<1> QED  BY <1>2, <1>3 DEF BooksInv

\* What LinkedIn's users do moves the list under the sweep.
LEMMA ListMoves ==
    ASSUME BooksInv, NEW i \in Invites, InviteAccepted(i) \/ InviteSent(i) PROVE BooksInv'
<1>1. tale' = [tale EXCEPT !.moved = TRUE] /\ UNCHANGED sweep
  BY DEF InviteAccepted, InviteSent
<1>2. /\ DOMAIN tale' = TaleFields /\ tale'.moved /\ tale'.refused = tale.refused
  BY <1>1 DEF BooksInv, SweepTyped, TaleFields
<1>3. /\ SweepTyped /\ pile \in Seq(Invites) /\ Distinct(pile) /\ \A j \in ToSet(pile) : age[j] # "unsent"
      /\ age \in [Invites -> {"old", "fresh", "undated", "broken", "unsent"}]
  BY DEF BooksInv, SweepTyped
<1>4. ToSet(pile) \subseteq Invites
  BY <1>3, SetOf
<1>5. /\ pile' \in Seq(Invites) /\ Distinct(pile') /\ \A j \in ToSet(pile') : age'[j] # "unsent"
      /\ age' \in [Invites -> {"old", "fresh", "undated", "broken", "unsent"}]
  <2>1. CASE InviteAccepted(i)
    <3>1. pile' = Without(pile, i) /\ age' = age
      BY <2>1 DEF InviteAccepted
    <3>2. pile' \in Seq(Invites) /\ ToSet(pile') = ToSet(pile) \ {i} /\ Distinct(pile')
      BY <1>3, <3>1, WithoutFacts
    <3> QED  BY <1>3, <3>1, <3>2
  <2>2. CASE InviteSent(i)
    <3>1. age[i] = "unsent" /\ pile' = <<i>> \o pile /\ age' = [age EXCEPT ![i] = "fresh"]
      BY <2>2 DEF InviteSent
    <3>2. <<i>> \in Seq(Invites) /\ ToSet(<<i>>) = {i} /\ Distinct(<<i>>)
      BY DEF ToSet, Distinct
    <3>3. ToSet(<<i>>) \cap ToSet(pile) = {}
      BY <1>3, <3>1, <3>2
    <3> DEFINE one == <<i>>
    <3>a. one \in Seq(Invites) /\ ToSet(one) = {i} /\ Distinct(one) /\ ToSet(one) \cap ToSet(pile) = {}
      BY <3>2, <3>3
    <3>b. pile' = one \o pile
      BY <3>1
    <3> HIDE DEF one
    <3>4. pile' \in Seq(Invites) /\ ToSet(pile') = {i} \cup ToSet(pile) /\ Distinct(pile')
      BY <1>3, <3>a, <3>b, JoinedFacts
    <3>5. \A j \in ToSet(pile') : age'[j] # "unsent"
      BY <1>3, <1>4, <3>1, <3>4
    <3> QED  BY <1>3, <3>1, <3>4, <3>5
  <2> QED  BY <2>1, <2>2
<1>6. SweepTyped'
  BY <1>1, <1>2, <1>3, <1>5 DEF SweepTyped
<1> QED  BY <1>2, <1>6 DEF BooksInv

LEMMA BooksInvBegin == SweepInit => BooksInv
<1> SUFFICES ASSUME SweepInit PROVE BooksInv
  OBVIOUS
<1>1. PICK n \in 0 .. MaxInvites - 1 :
        /\ age \in [Invites -> {"old", "fresh", "undated", "broken", "unsent"}]
        /\ \A i \in Invites : (i > n) = (age[i] = "unsent")
        /\ pile = [k \in 1 .. n |-> n + 1 - k]
  BY DEF SweepInit
<1>2. sweep = NoSweep /\ tale = Calm /\ MaxInvites \in Nat
  BY SweepAssumption DEF SweepInit
<1>3. \A k \in 1 .. n : n + 1 - k \in Invites /\ n + 1 - k <= n
  BY <1>2 DEF Invites
<1>4. n \in Nat /\ pile \in Seq(Invites) /\ Len(pile) = n /\ \A k \in 1 .. n : pile[k] = n + 1 - k
  <2>1. n \in Nat
    BY <1>2
  <2>2. pile \in [1 .. n -> Invites] /\ \A k \in 1 .. n : pile[k] = n + 1 - k
    BY <1>1, <1>3
  <2>3. pile \in Seq(Invites) /\ DOMAIN pile = 1 .. n
    BY <2>1, <2>2
  <2> QED  BY <2>1, <2>2, <2>3
<1>5. Distinct(pile)
  BY <1>4 DEF Distinct
<1>6. \A i \in ToSet(pile) : age[i] # "unsent"
  <2>1. ToSet(pile) = {pile[k] : k \in 1 .. n}
    BY <1>4, SetOf
  <2>2. \A k \in 1 .. n : ~(n + 1 - k > n)
    BY <1>4
  <2> QED  BY <1>1, <1>3, <1>4, <2>1, <2>2
<1>7. SweepTyped
  BY <1>1, <1>2, <1>4, <1>5, <1>6, FreshSweep DEF SweepTyped
<1>8. Books
  BY <1>2, FreshSweep DEF Books
<1> QED  BY <1>7, <1>8 DEF BooksInv

LEMMA BooksInvStep == BooksInv /\ [SweepNext]_sweepVars => BooksInv'
<1> SUFFICES ASSUME BooksInv, [SweepNext]_sweepVars PROVE BooksInv'
  OBVIOUS
<1>1. CASE UNCHANGED <<pile, age, sweep, tale>>
  BY <1>1 DEF BooksInv, SweepTyped, Books, Balance, StillOld, Whole
<1>2. CASE SweepBegin
  BY <1>2, SweepBeginKeeps
<1>3. CASE ReadPage
  BY <1>3, ReadPageKeeps
<1>4. CASE PageFails
  BY <1>4, PageFailsKeeps
<1>5. CASE SelectStale
  BY <1>5, SelectStaleKeeps
<1>6. CASE Withdrawn
  BY <1>6, WithdrawnKeeps
<1>7. CASE SweepCrash
  BY <1>7, SweepCrashKeeps
<1>8. CASE \E answer \in {"ok", "throttle", "lost", "skip"} : Attempt(answer)
  BY <1>8, AttemptKeeps
<1>9. CASE \E i \in Invites : InviteAccepted(i) \/ InviteSent(i)
  BY <1>9, ListMoves
<1>10. CASE \E i \in Invites : AcceptanceSeen(i)
  BY <1>1, <1>10 DEF AcceptanceSeen
<1>11. CASE UNCHANGED sweepVars
  BY <1>1, <1>11 DEF sweepVars
<1> QED  BY <1>2, <1>3, <1>4, <1>5, <1>6, <1>7, <1>8, <1>9, <1>10, <1>11 DEF SweepNext

LEMMA BooksBalance == BooksInv => RemainingIsHonest
<1> SUFFICES ASSUME BooksInv, sweep.pc = "done", ~tale.moved, ~tale.partial, ~tale.lost
             PROVE  Cardinality(StillOld) = Remaining + Cardinality(tale.refused)
  BY DEF RemainingIsHonest
<1>1. Books
  BY DEF BooksInv
<1> QED  BY <1>1 DEF Books, Balance, Remaining

(* What a sweep reports as remaining is what a re-run would find, when it read
   the whole list, nobody else moved it and no answer was lost; the outstanding
   counter is the number of waiting cursors; and LinkedIn refuses no more than
   MaxThrottles + 1 withdrawals in a row. *)
THEOREM SweepKeepsItsBooks == SweepSpec => []SweepBalances
<1>1. SweepSpec => []RemainingIsHonest
  BY BooksInvBegin, BooksInvStep, BooksBalance, PTL DEF SweepSpec
<1>2. RemainingIsHonest /\ CounterMatchesCursors /\ NeverHammers => SweepBalances
  BY DEF SweepBalances
<1> QED  BY <1>1, <1>2, CounterCountsCursors, SweepsBackOff, PTL

-----------------------------------------------------------------------------
(* The watch on a thread: the invariant *)

EventType == [text : Texts \cup {Other}, at : Nat \cup {Never}]
ItemType == [event : Nat, key : [at : Nat, text : Texts \cup {Other}]]
ReaderType ==
    [pc : {"idle", "paced", "handling", "inbox", "snippets"}, row : Nat \cup {Never}, todo : Seq(ItemType)]

WatchTypes ==
    /\ thread \in Seq(EventType) /\ Len(thread) <= MaxEvents
    /\ clock \in Nat
    /\ listCache \in [at : Nat \cup {Never}, row : Nat \cup {Never}]
    /\ inboxCache \in [at : Nat \cup {Never}, shown : Seq(ItemType)]
    /\ mark \in Nat \cup {Never}
    /\ transcript \in Seq(Texts \cup {Other})
    /\ reader \in [Readers -> ReaderType]
    /\ routings \in [1 .. MaxEvents -> Nat]

\* The key under which a stamped event is marked, whenever it is read.
KeyOf(i) == [at |-> thread[i].at, text |-> thread[i].text]

ItemOK(m) == m.event \in Inbound /\ (thread[m.event].at # Never => m.key = KeyOf(m.event))

\* What a reader holds, or the cached inbox shows, is of the thread.
ItemsInv ==
    /\ \A r \in Readers : \A k \in DOMAIN reader[r].todo : ItemOK(reader[r].todo[k])
    /\ \A k \in DOMAIN inboxCache.shown : ItemOK(inboxCache.shown[k])

\* A stamped event that was routed is marked seen, and was routed once.
RoutedInv ==
    /\ \A i \in DOMAIN thread : thread[i].at # Never =>
          routings[i] = 0 \/ (routings[i] = 1 /\ KeyOf(i) \in seenKeys)
    /\ \A i \in 1 .. MaxEvents : i \notin DOMAIN thread => routings[i] = 0

TranscriptInv == \A j, k \in DOMAIN transcript : transcript[j] = transcript[k] => j = k

\* Nothing is of the future; below the mark everything inbound was marked seen,
\* below the row the tick works on it is that or still to do.
MarkInv ==
    /\ mark <= clock /\ listCache.row <= clock /\ \A r \in Readers : reader[r].row <= clock
    /\ \A i \in DOMAIN thread : thread[i].at <= clock
    /\ \A i \in Inbound : thread[i].at # Never /\ thread[i].at < mark => KeyOf(i) \in seenKeys
    /\ reader["tick"].pc = "handling" =>
          \A i \in Inbound : thread[i].at # Never /\ thread[i].at < reader["tick"].row =>
              \/ KeyOf(i) \in seenKeys
              \/ \E k \in DOMAIN reader["tick"].todo : reader["tick"].todo[k].event = i

WatchInv == WatchTypes /\ ItemsInv /\ RoutedInv /\ TranscriptInv /\ MarkInv

-----------------------------------------------------------------------------
(* The history of a thread lists every inbound message, once *)

LEMMA HistorySorts ==
    ASSUME WatchTypes
    PROVE  /\ IsFiniteSet(Inbound) /\ Cardinality(Inbound) \in Nat
           /\ History \in [1 .. Cardinality(Inbound) -> Inbound]
           /\ \A i \in Inbound : \E k \in DOMAIN History : History[k] = i
<1> DEFINE S == Inbound
           n == Cardinality(S)
<1>1. /\ S \subseteq 1 .. Len(thread) /\ Len(thread) \in Nat
      /\ \A i \in S : i \in Nat /\ ReceivedAt(i) \in Nat
  <2>1. DOMAIN thread = 1 .. Len(thread) /\ Len(thread) \in Nat
          /\ \A i \in DOMAIN thread : thread[i].at \in Nat \cup {Never}
    <3>1. DOMAIN thread = 1 .. Len(thread) /\ Len(thread) \in Nat
            /\ \A i \in DOMAIN thread : thread[i] \in EventType
      BY DEF WatchTypes
    <3> QED  BY <3>1 DEF EventType
  <2> QED  BY <2>1 DEF Inbound, ReceivedAt, WatchTypes
<1>2. IsFiniteSet(S) /\ n \in Nat
  <2>1. IsFiniteSet(1 .. Len(thread))
    BY <1>1, FS_Interval
  <2> QED  BY <1>1, <2>1, FS_Subset, FS_CardinalityType
<1>3. /\ \A i \in S : ~Before(i, i)
      /\ \A i, j \in S : i # j => Before(i, j) \/ Before(j, i)
      /\ \A i, j, k \in S : Before(i, j) /\ Before(j, k) => Before(i, k)
  BY <1>1 DEF Before
<1> HIDE DEF S
<1> DEFINE Under(i) == {j \in S : Before(j, i)}
<1>4. \A i \in S : IsFiniteSet(Under(i)) /\ Cardinality(Under(i)) \in 0 .. n - 1
  <2> SUFFICES ASSUME NEW i \in S
               PROVE  IsFiniteSet(Under(i)) /\ Cardinality(Under(i)) \in 0 .. n - 1
    OBVIOUS
  <2>1. Under(i) \subseteq S \ {i}
    BY <1>3
  <2>2. IsFiniteSet(S \ {i}) /\ Cardinality(S \ {i}) = n - 1
    BY <1>2, FS_RemoveElement
  <2>3. IsFiniteSet(Under(i)) /\ Cardinality(Under(i)) <= n - 1
    BY <2>1, <2>2, FS_Subset
  <2>4. Cardinality(Under(i)) \in Nat
    BY <2>3, FS_CardinalityType
  <2> QED  BY <1>2, <2>3, <2>4
<1>5. \A i, j \in S : Before(i, j) => Cardinality(Under(i)) < Cardinality(Under(j))
  <2> SUFFICES ASSUME NEW i \in S, NEW j \in S, Before(i, j)
               PROVE  Cardinality(Under(i)) < Cardinality(Under(j))
    OBVIOUS
  <2>1. Under(i) \subseteq Under(j) /\ i \in Under(j) /\ i \notin Under(i)
    BY <1>3
  <2>2. IsFiniteSet(Under(j)) /\ Cardinality(Under(i)) \in Nat /\ Cardinality(Under(j)) \in Nat
    BY SMTT(60), <1>2, <1>4
  <2>3. Cardinality(Under(i)) <= Cardinality(Under(j))
          /\ Cardinality(Under(i)) # Cardinality(Under(j))
    BY <2>1, <2>2, FS_Subset
  <2> QED  BY <2>2, <2>3
<1> HIDE DEF Under
<1> DEFINE rank == [i \in S |-> Cardinality(Under(i)) + 1]
<1>6. rank \in Surjection(S, 1 .. n)
  <2>1. rank \in [S -> 1 .. n]
    BY <1>2, <1>4
  <2>2. \A i, j \in S : i # j => rank[i] # rank[j]
    <3> SUFFICES ASSUME NEW i \in S, NEW j \in S, i # j PROVE rank[i] # rank[j]
      OBVIOUS
    <3>1. Cardinality(Under(i)) \in Nat /\ Cardinality(Under(j)) \in Nat
      BY <1>2, <1>4
    <3>2. Cardinality(Under(i)) # Cardinality(Under(j))
      BY <1>3, <1>5, <3>1
    <3> QED  BY <3>1, <3>2
  <2>3. rank \in Injection(S, 1 .. n)
    BY <2>1, <2>2 DEF Injection, IsInjective
  <2>4. IsFiniteSet(1 .. n) /\ Cardinality(1 .. n) = n
    BY <1>2, FS_Interval
  <2> QED  BY <2>3, <2>4, FS_Injection
<1>7. \A i, j \in S : Before(i, j) => rank[i] < rank[j]
  BY <1>2, <1>4, <1>5
<1>8. rank \in [S -> 1 .. n] /\ \A p \in 1 .. n : \E i \in S : rank[i] = p
  BY <1>6 DEF Surjection
<1> HIDE DEF rank
<1> DEFINE g == [p \in 1 .. n |-> CHOOSE i \in S : rank[i] = p]
<1>9. \A p \in 1 .. n : g[p] \in S /\ rank[g[p]] = p
  BY <1>8
<1>10. g \in [1 .. n -> S]
  BY <1>9
<1> HIDE DEF g
<1>11. \A j, k \in DOMAIN g : j < k => Before(g[j], g[k])
  <2> SUFFICES ASSUME NEW j \in 1 .. n, NEW k \in 1 .. n, j < k PROVE Before(g[j], g[k])
    BY <1>10
  <2>1. g[j] \in S /\ g[k] \in S /\ rank[g[j]] = j /\ rank[g[k]] = k
    BY <1>9
  <2>2. g[j] # g[k] /\ ~Before(g[k], g[j])
    BY <1>2, <1>7, <2>1
  <2> QED  BY <1>3, <2>1, <2>2
<1>12. History \in [1 .. n -> S] /\ \A j, k \in DOMAIN History : j < k => Before(History[j], History[k])
  BY <1>10, <1>11 DEF History, S
<1>13. History \in Injection(1 .. n, S)
  <2>1. \A j, k \in 1 .. n : j # k => History[j] # History[k]
    BY <1>2, <1>3, <1>12
  <2> QED  BY <1>12, <2>1 DEF Injection, IsInjective
<1>14. Cardinality(1 .. n) = n
  BY <1>2, FS_Interval
<1>15. History \in Surjection(1 .. n, S)
  BY <1>2, <1>13, <1>14, FS_Injection
<1>16. \A i \in S : \E k \in DOMAIN History : History[k] = i
  BY <1>12, <1>15 DEF Surjection
<1> QED  BY <1>2, <1>12, <1>16 DEF S

\* What a read of the history holds.
Todo == [k \in DOMAIN History |-> [event |-> History[k], key |-> MessageKey(History[k])]]

LEMMA HistoryItems ==
    ASSUME WatchTypes
    PROVE  /\ Todo \in Seq(ItemType)
           /\ \A k \in DOMAIN Todo : ItemOK(Todo[k])
           /\ \A i \in Inbound : \E k \in DOMAIN Todo : Todo[k].event = i
<1> DEFINE item(i) == [event |-> i, key |-> MessageKey(i)]
<1>0. Todo = [k \in DOMAIN History |-> item(History[k])]
  BY DEF Todo
<1>1. \A i \in Inbound : item(i) \in ItemType /\ ItemOK(item(i)) /\ item(i).event = i
  <2> SUFFICES ASSUME NEW i \in Inbound
               PROVE  item(i) \in ItemType /\ ItemOK(item(i)) /\ item(i).event = i
    OBVIOUS
  <2>1. i \in DOMAIN thread /\ i \in Nat /\ thread[i] \in EventType /\ clock \in Nat
    BY DEF Inbound, WatchTypes
  <2>2. thread[i].at \in Nat \cup {Never} /\ thread[i].text \in Texts \cup {Other}
    BY <2>1 DEF EventType
  <2>3. ReceivedAt(i) \in Nat /\ (thread[i].at # Never => MessageKey(i) = KeyOf(i))
    BY <2>1, <2>2 DEF ReceivedAt, MessageKey, KeyOf
  <2>4. MessageKey(i) \in [at : Nat, text : Texts \cup {Other}]
    BY <2>2, <2>3 DEF MessageKey
  <2> QED  BY <2>1, <2>3, <2>4 DEF ItemType, ItemOK
<1> HIDE DEF item
<1>2. /\ History \in [1 .. Cardinality(Inbound) -> Inbound] /\ Cardinality(Inbound) \in Nat
      /\ \A i \in Inbound : \E k \in DOMAIN History : History[k] = i
  BY HistorySorts
<1>3. Todo \in [1 .. Cardinality(Inbound) -> ItemType]
        /\ \A k \in 1 .. Cardinality(Inbound) : Todo[k] = item(History[k])
  BY <1>0, <1>1, <1>2
<1>4. Todo \in Seq(ItemType)
  BY <1>2, <1>3, SeqDef
<1>5. \A k \in DOMAIN Todo : ItemOK(Todo[k])
  BY <1>1, <1>2, <1>3
<1>6. \A i \in Inbound : \E k \in DOMAIN Todo : Todo[k].event = i
  BY <1>1, <1>2, <1>3
<1> QED  BY <1>4, <1>5, <1>6, Zenon

\* A step that adds nothing to the thread keeps what is known of its items.
LEMMA ItemsKept ==
    ASSUME UNCHANGED thread
    PROVE  /\ Inbound' = Inbound
           /\ \A i : KeyOf(i)' = KeyOf(i)
           /\ \A m : ItemOK(m) => ItemOK(m)'
BY DEF Inbound, KeyOf, ItemOK

LEMMA ReaderTypes ==
    ASSUME WatchTypes, NEW r \in Readers
    PROVE  /\ Resting \in ReaderType /\ Resting.todo = <<>> /\ Resting.row = Never /\ Resting.pc = "idle"
           /\ reader[r].todo \in Seq(ItemType) /\ reader[r].row \in Nat \cup {Never}
           /\ reader[r] \in ReaderType
           /\ \A pc \in {"idle", "paced", "handling", "inbox", "snippets"} :
                 [Resting EXCEPT !.pc = pc] \in ReaderType
<1>1. <<>> \in Seq(ItemType)
  BY DEF Resting
<1>2. Resting \in ReaderType /\ Resting.todo = <<>> /\ Resting.row = Never /\ Resting.pc = "idle"
  BY <1>1 DEF Resting, ReaderType
<1>3. reader[r] \in ReaderType
  BY DEF WatchTypes
<1>4. reader[r].todo \in Seq(ItemType) /\ reader[r].row \in Nat \cup {Never}
  BY <1>3 DEF ReaderType
<1>5. \A pc \in {"idle", "paced", "handling", "inbox", "snippets"} :
         [Resting EXCEPT !.pc = pc] \in ReaderType
  BY <1>2 DEF ReaderType
<1> QED  BY <1>2, <1>3, <1>4, <1>5

\* Replacing what one reader does.
LEMMA ReaderMoves ==
    ASSUME WatchTypes, NEW r \in Readers, NEW v \in ReaderType, reader' = [reader EXCEPT ![r] = v]
    PROVE  /\ reader' \in [Readers -> ReaderType] /\ reader'[r] = v
           /\ \A q \in Readers : q # r => reader'[q] = reader[q]
BY DEF WatchTypes

\* A step of one reader, and of the caches, keeps the invariant when what the
\* reader now holds is of the thread, and a tick that begins to handle holds
\* every inbound message below its row.
LEMMA ReaderKeeps ==
    ASSUME WatchInv, NEW r \in Readers, NEW v \in ReaderType,
           reader' = [reader EXCEPT ![r] = v],
           \A k \in DOMAIN v.todo : ItemOK(v.todo[k]),
           v.row <= clock,
           (r = "tick" /\ v.pc = "handling") =>
               \A i \in Inbound : \E k \in DOMAIN v.todo : v.todo[k].event = i,
           UNCHANGED <<thread, clock, mark, seenKeys, transcript, routings>>,
           listCache' \in [at : Nat \cup {Never}, row : Nat \cup {Never}], listCache'.row <= clock,
           inboxCache' \in [at : Nat \cup {Never}, shown : Seq(ItemType)],
           \A k \in DOMAIN inboxCache'.shown : ItemOK(inboxCache'.shown[k])
    PROVE  WatchInv'
<1>1. /\ reader' \in [Readers -> ReaderType] /\ reader'[r] = v
      /\ \A q \in Readers : q # r => reader'[q] = reader[q]
  BY ReaderMoves DEF WatchInv
<1>2. Inbound' = Inbound /\ (\A i : KeyOf(i)' = KeyOf(i)) /\ (\A m : ItemOK(m) => ItemOK(m)')
  BY ItemsKept
<1>3. WatchTypes'
  BY <1>1 DEF WatchInv, WatchTypes
<1>4. ItemsInv'
  BY <1>1, <1>2 DEF WatchInv, ItemsInv
<1>5. RoutedInv' /\ TranscriptInv'
  BY <1>2 DEF WatchInv, RoutedInv, TranscriptInv
<1>6. MarkInv'
  BY <1>1, <1>2 DEF WatchInv, MarkInv
<1> QED  BY <1>3, <1>4, <1>5, <1>6 DEF WatchInv

\* The stamp of the newest event is no later than now, and no earlier than any.
LEMMA NewestActivity ==
    ASSUME WatchTypes, MarkInv
    PROVE  /\ LatestActivityOf(thread) \in Nat \cup {Never} /\ LatestActivityOf(thread) <= clock
           /\ \A i \in DOMAIN thread : thread[i].at <= LatestActivityOf(thread)
<1> DEFINE stamps == {thread[i].at : i \in DOMAIN thread} \ {Never}
<1>1. \A i \in DOMAIN thread : thread[i].at \in Nat \cup {Never} /\ thread[i].at <= clock
  <2>1. \A i \in DOMAIN thread : thread[i] \in EventType
    BY DEF WatchTypes
  <2> QED  BY <2>1 DEF EventType, MarkInv
<1>2. stamps \subseteq Nat /\ \A s \in stamps : s <= clock
  BY <1>1
<1>3. clock \in Nat
  BY DEF WatchTypes
<1>4. CASE stamps = {}
  <2>1. LatestActivityOf(thread) = Never
    BY <1>4 DEF LatestActivityOf
  <2>2. \A i \in DOMAIN thread : thread[i].at = Never
    BY <1>4
  <2> QED  BY <1>3, <2>1, <2>2 DEF Never
<1>5. CASE stamps # {}
  <2>1. LatestActivityOf(thread) = Max(stamps)
    BY <1>5 DEF LatestActivityOf
  <2> HIDE DEF stamps
  <2>2. Max(stamps) \in stamps /\ \A s \in stamps : Max(stamps) >= s
    <3> DEFINE T == {n \in Nat : \E s \in stamps : n = clock - s}
    <3>1. T \subseteq Nat /\ T # {}
      <4>1. PICK s \in stamps : TRUE
        BY <1>5
      <4>2. clock - s \in T
        BY <1>2, <1>3, <4>1
      <4> QED  BY <4>2
    <3>2. PICK x \in T : \A y \in T : ~(<<y, x>> \in OpToRel(<, Nat))
      BY <3>1, NatLessThanWellFounded, WFMin
    <3>3. \A y \in T : ~(y < x)
      BY <3>1, <3>2 DEF OpToRel
    <3>4. PICK m \in stamps : x = clock - m
      BY <3>1
    <3>5. ASSUME NEW s \in stamps PROVE m >= s
      <4>1. clock - s \in T
        BY <1>2, <1>3, <3>5
      <4>2. ~(clock - s < clock - m)
        BY <3>3, <3>4, <4>1
      <4> QED  BY <1>2, <1>3, <4>2
    <3> QED  BY <3>5 DEF Max
  <2>3. \A i \in DOMAIN thread : thread[i].at = Never \/ thread[i].at \in stamps
    BY DEF stamps
  <2> DEFINE newest == LatestActivityOf(thread)
  <2>4. newest \in Nat /\ newest <= clock /\ \A s \in stamps : newest >= s
    BY <1>2, <2>1, <2>2
  <2> HIDE DEF newest
  <2>5. ASSUME NEW i \in DOMAIN thread PROVE thread[i].at <= newest
    <3>1. CASE thread[i].at = Never
      BY <2>4, <3>1 DEF Never
    <3>2. CASE thread[i].at \in stamps
      BY <1>2, <2>4, <3>2
    <3> QED  BY <2>3, <3>1, <3>2
  <2> QED  BY <2>4, <2>5 DEF newest
<1> QED  BY <1>4, <1>5

LEMMA ReadListKeeps ==
    ASSUME WatchInv, NEW r \in Readers, ReadList(r) PROVE WatchInv'
<1> DEFINE list == IF Fresh(listCache) THEN listCache
                   ELSE [at |-> clock, row |-> LatestActivityOf(thread)]
           v == IF r = "tick" /\ IsUnchanged(list.row) THEN [Resting EXCEPT !.pc = "inbox"]
                ELSE [Resting EXCEPT !.pc = "paced", !.row = list.row]
<1>1. /\ listCache' = list /\ reader' = [reader EXCEPT ![r] = v]
      /\ UNCHANGED <<thread, clock, inboxCache, mark, seenKeys, transcript, routings>>
  BY DEF ReadList
<1>2. list \in [at : Nat \cup {Never}, row : Nat \cup {Never}] /\ list.row <= clock
  <2>1. listCache \in [at : Nat \cup {Never}, row : Nat \cup {Never}] /\ listCache.row <= clock
          /\ clock \in Nat
    BY DEF WatchInv, WatchTypes, MarkInv
  <2>2. LatestActivityOf(thread) \in Nat \cup {Never} /\ LatestActivityOf(thread) <= clock
    BY NewestActivity DEF WatchInv
  <2> QED  BY <2>1, <2>2
<1>3. clock \in Nat /\ Resting \in ReaderType /\ Resting.todo = <<>> /\ Resting.row = Never
  BY ReaderTypes DEF WatchInv, WatchTypes
<1> HIDE DEF list
<1>4. v \in ReaderType /\ v.todo = <<>> /\ v.row <= clock /\ v.pc # "handling"
  <2> DEFINE seen == [Resting EXCEPT !.pc = "inbox"]
             due == [Resting EXCEPT !.pc = "paced", !.row = list.row]
  <2>1. seen \in ReaderType /\ seen.todo = <<>> /\ seen.row <= clock /\ seen.pc # "handling"
    BY <1>3 DEF ReaderType, Never
  <2>2. list.row \in Nat \cup {Never} /\ list.row <= clock
    BY <1>2
  <2>3. due \in ReaderType /\ due.todo = <<>> /\ due.row <= clock /\ due.pc # "handling"
    BY <1>3, <2>2 DEF ReaderType
  <2>4. v = seen \/ v = due
    OBVIOUS
  <2> QED  BY <2>1, <2>3, <2>4
<1> HIDE DEF v
<1>5. \A k \in DOMAIN v.todo : ItemOK(v.todo[k])
  BY <1>4
<1>6. /\ inboxCache' \in [at : Nat \cup {Never}, shown : Seq(ItemType)]
      /\ \A k \in DOMAIN inboxCache'.shown : ItemOK(inboxCache'.shown[k])
  BY <1>1 DEF WatchInv, WatchTypes, ItemsInv
<1> QED  BY <1>1, <1>2, <1>4, <1>5, <1>6, ReaderKeeps

LEMMA ReadHistoryKeeps ==
    ASSUME WatchInv, NEW r \in Readers, ReadHistory(r) PROVE WatchInv'
<1> DEFINE v == [reader[r] EXCEPT !.pc = "handling", !.todo = Todo]
<1>1. /\ reader' = [reader EXCEPT ![r] = v]
      /\ UNCHANGED <<thread, clock, listCache, inboxCache, mark, seenKeys, transcript, routings>>
  BY DEF ReadHistory, Todo
<1>2. /\ Todo \in Seq(ItemType)
      /\ \A k \in DOMAIN Todo : ItemOK(Todo[k])
      /\ \A i \in Inbound : \E k \in DOMAIN Todo : Todo[k].event = i
  BY HistoryItems DEF WatchInv
<1>3. reader[r] \in ReaderType /\ reader[r].row <= clock
  BY ReaderTypes DEF WatchInv, MarkInv
<1>4. v \in ReaderType /\ v.todo = Todo /\ v.row <= clock
  BY <1>2, <1>3 DEF ReaderType
<1> HIDE DEF v
<1>5. /\ listCache' \in [at : Nat \cup {Never}, row : Nat \cup {Never}] /\ listCache'.row <= clock
      /\ inboxCache' \in [at : Nat \cup {Never}, shown : Seq(ItemType)]
      /\ \A k \in DOMAIN inboxCache'.shown : ItemOK(inboxCache'.shown[k])
  BY <1>1 DEF WatchInv, WatchTypes, ItemsInv, MarkInv
<1>6. /\ \A k \in DOMAIN v.todo : ItemOK(v.todo[k])
      /\ \A i \in Inbound : \E k \in DOMAIN v.todo : v.todo[k].event = i
  BY <1>2, <1>4
<1> QED  BY <1>1, <1>4, <1>5, <1>6, ReaderKeeps

LEMMA RestKeeps ==
    ASSUME WatchInv, NEW r \in Readers, reader' = [reader EXCEPT ![r] = Resting],
           UNCHANGED <<thread, clock, listCache, inboxCache, mark, seenKeys, transcript, routings>>
    PROVE  WatchInv'
<1>1. clock \in Nat /\ Resting \in ReaderType /\ Resting.todo = <<>> /\ Resting.row = Never
        /\ Resting.pc = "idle"
  BY ReaderTypes DEF WatchInv, WatchTypes
<1>2. \A k \in DOMAIN Resting.todo : ItemOK(Resting.todo[k])
  BY <1>1
<1>3. /\ listCache' \in [at : Nat \cup {Never}, row : Nat \cup {Never}] /\ listCache'.row <= clock
      /\ inboxCache' \in [at : Nat \cup {Never}, shown : Seq(ItemType)]
      /\ \A k \in DOMAIN inboxCache'.shown : ItemOK(inboxCache'.shown[k])
  BY DEF WatchInv, WatchTypes, ItemsInv, MarkInv
<1>4. Resting.row <= clock
  BY <1>1 DEF Never
<1> QED  BY <1>1, <1>2, <1>3, <1>4, ReaderKeeps

LEMMA FinishKeeps ==
    ASSUME WatchInv, NEW r \in Readers, Finish(r) PROVE WatchInv'
<1> DEFINE v == IF r = "tick" THEN [Resting EXCEPT !.pc = "inbox"] ELSE Resting
<1>1. /\ reader' = [reader EXCEPT ![r] = v] /\ reader[r].pc = "handling" /\ reader[r].todo = <<>>
      /\ UNCHANGED <<thread, clock, listCache, inboxCache, seenKeys, transcript, routings>>
  BY DEF Finish
<1>2. clock \in Nat /\ Resting \in ReaderType /\ Resting.todo = <<>> /\ Resting.row = Never
        /\ Resting.pc = "idle"
  BY ReaderTypes DEF WatchInv, WatchTypes
<1>3. v \in ReaderType /\ v.todo = <<>> /\ v.row = Never /\ v.pc # "handling"
  BY <1>2 DEF ReaderType
<1> HIDE DEF v
<1>4. /\ reader' \in [Readers -> ReaderType] /\ reader'[r] = v
      /\ \A q \in Readers : q # r => reader'[q] = reader[q]
  BY <1>1, <1>3, ReaderMoves DEF WatchInv
<1>5. Inbound' = Inbound /\ (\A i : KeyOf(i)' = KeyOf(i)) /\ (\A m : ItemOK(m) => ItemOK(m)')
  BY <1>1, ItemsKept
<1>6. mark' = mark \/ (r = "tick" /\ mark' = reader["tick"].row)
  BY DEF Finish, MarkThreadSeen
<1>7. reader[r].row \in Nat \cup {Never} /\ reader[r].row <= clock
  BY ReaderTypes DEF WatchInv, MarkInv
<1>8. WatchTypes'
  BY <1>1, <1>4, <1>6, <1>7 DEF WatchInv, WatchTypes
<1>9. ItemsInv'
  BY <1>1, <1>3, <1>4, <1>5 DEF WatchInv, ItemsInv
<1>10. RoutedInv' /\ TranscriptInv'
  BY <1>1, <1>5 DEF WatchInv, RoutedInv, TranscriptInv
<1>11. MarkInv'
  <2>1. /\ mark' <= clock
        /\ \A i \in Inbound : thread[i].at # Never /\ thread[i].at < mark' => KeyOf(i) \in seenKeys
    <3>1. CASE mark' = mark
      BY <3>1 DEF WatchInv, MarkInv
    <3>2. CASE r = "tick" /\ mark' = reader["tick"].row
      BY <1>1, <1>7, <3>2 DEF WatchInv, MarkInv
    <3> QED  BY <1>6, <3>1, <3>2
  <2>2. \A q \in Readers : reader'[q].row <= clock
    BY <1>2, <1>3, <1>4 DEF WatchInv, MarkInv, Never
  <2>3. reader'["tick"].pc = "handling" => r # "tick" /\ reader'["tick"] = reader["tick"]
    BY <1>3, <1>4 DEF Readers
  <2> QED  BY <1>1, <1>5, <2>1, <2>2, <2>3 DEF WatchInv, MarkInv
<1> QED  BY <1>8, <1>9, <1>10, <1>11 DEF WatchInv

LEMMA HandleKeeps ==
    ASSUME WatchInv, NEW r \in Readers, NEW fails \in BOOLEAN, Handle(r, fails) PROVE WatchInv'
<1> DEFINE todo == reader[r].todo
           m == todo[1]
           v == IF fails THEN Resting ELSE [reader[r] EXCEPT !.todo = Tail(todo)]
<1>1. /\ todo \in Seq(ItemType) /\ todo # <<>> /\ Head(todo) = m /\ m \in ItemType /\ ItemOK(m)
      /\ Tail(todo) \in Seq(ItemType)
      /\ \A k \in DOMAIN Tail(todo) : k + 1 \in DOMAIN todo /\ Tail(todo)[k] = todo[k + 1]
      /\ \A k \in DOMAIN todo : k = 1 \/ (k - 1 \in DOMAIN Tail(todo) /\ Tail(todo)[k - 1] = todo[k])
  <2>1. todo \in Seq(ItemType) /\ todo # <<>>
    BY ReaderTypes DEF Handle, WatchInv
  <2>2. 1 \in DOMAIN todo
    BY <2>1
  <2>3. \A k \in DOMAIN todo : ItemOK(todo[k])
    BY DEF WatchInv, ItemsInv
  <2>4. ItemOK(m)
    BY <2>2, <2>3
  <2> HIDE DEF todo
  <2> QED  BY <2>1, <2>2, <2>4
<1>2. /\ seenKeys' = seenKeys \cup {m.key}
      /\ IF m.key \in seenKeys THEN UNCHANGED <<transcript, routings>>
         ELSE /\ Record(thread[m.event].text) \/ UNCHANGED transcript
              /\ routings' = routings \/ routings' = [routings EXCEPT ![m.event] = @ + 1]
      /\ reader' = [reader EXCEPT ![r] = v]
      /\ UNCHANGED <<thread, clock, listCache, inboxCache, mark>>
  <2>1. Head(reader[r].todo) = m
    BY <1>1
  <2>2. /\ seenKeys' = seenKeys \cup {m.key}
        /\ UNCHANGED <<thread, clock, listCache, inboxCache, mark>>
    BY <2>1 DEF Handle
  <2>3. m.key \in seenKeys => UNCHANGED <<transcript, routings>>
    BY <2>1 DEF Handle
  <2>4. m.key \notin seenKeys => Record(thread[m.event].text) \/ UNCHANGED transcript
    BY <2>1, Zenon DEF Handle
  <2>5. m.key \notin seenKeys => routings' = routings \/ routings' = [routings EXCEPT ![m.event] = @ + 1]
    BY <2>1 DEF Handle
  <2>6. reader' = [reader EXCEPT ![r] = v]
    <3>1. reader' = [reader EXCEPT ![r] = IF fails THEN Resting ELSE [reader[r] EXCEPT !.todo = Tail(@)]]
      BY Zenon DEF Handle
    <3>2. CASE fails
      BY <3>1, <3>2
    <3>3. CASE ~fails
      BY <3>1, <3>3
    <3> QED  BY <3>2, <3>3
  <2> QED  BY <2>2, <2>3, <2>4, <2>5, <2>6, Zenon
<1>3. /\ reader[r] \in ReaderType /\ reader[r].row <= clock /\ clock \in Nat
      /\ Resting \in ReaderType /\ Resting.todo = <<>> /\ Resting.row = Never /\ Resting.pc = "idle"
  BY ReaderTypes DEF WatchInv, MarkInv, WatchTypes
<1>4. /\ v \in ReaderType /\ v.row <= clock
      /\ \/ v.todo = <<>> /\ v.pc = "idle"
         \/ v.todo = Tail(todo) /\ v.pc = reader[r].pc /\ v.row = reader[r].row
  <2>1. CASE fails
    BY <1>3, <2>1 DEF Never
  <2>2. CASE ~fails
    BY <1>1, <1>3, <2>2 DEF ReaderType
  <2> QED  BY SMTT(60), <2>1, <2>2
<1> HIDE DEF v
<1>5. /\ reader' \in [Readers -> ReaderType] /\ reader'[r] = v
      /\ \A q \in Readers : q # r => reader'[q] = reader[q]
  BY <1>2, <1>4, ReaderMoves DEF WatchInv
<1>6. Inbound' = Inbound /\ (\A i : KeyOf(i)' = KeyOf(i)) /\ (\A it : ItemOK(it) => ItemOK(it)')
  BY <1>2, ItemsKept
<1>7. /\ m.event \in Inbound /\ m.event \in DOMAIN thread /\ m.event \in 1 .. MaxEvents
      /\ thread[m.event].text \in Texts \cup {Other}
      /\ thread[m.event].at # Never => m.key = KeyOf(m.event)
  <2>1. m.event \in Inbound /\ (thread[m.event].at # Never => m.key = KeyOf(m.event))
    BY <1>1 DEF ItemOK
  <2>2. m.event \in DOMAIN thread /\ thread[m.event] \in EventType
    BY <2>1 DEF Inbound, WatchInv, WatchTypes
  <2>3. m.event \in 1 .. Len(thread) /\ Len(thread) \in Nat /\ Len(thread) <= MaxEvents
    BY <2>2 DEF WatchInv, WatchTypes
  <2> QED  BY <2>1, <2>2, <2>3, WatchAssumption DEF EventType
<1>8. routings \in [1 .. MaxEvents -> Nat] /\ transcript \in Seq(Texts \cup {Other})
  BY SMTT(60) DEF WatchInv, WatchTypes
<1>9. routings' \in [1 .. MaxEvents -> Nat]
  BY SMTT(60), <1>2, <1>7, <1>8
<1>10. transcript' \in Seq(Texts \cup {Other}) /\ TranscriptInv'
  <2> DEFINE text == thread[m.event].text
  <2>1. CASE UNCHANGED transcript
    BY <1>8, <2>1 DEF WatchInv, TranscriptInv
  <2>2. CASE transcript' = Append(transcript, text) /\ \A k \in DOMAIN transcript : transcript[k] # text
    <3> HIDE DEF text
    <3>1. text \in Texts \cup {Other}
      BY <1>7 DEF text
    <3>2. /\ transcript' \in Seq(Texts \cup {Other}) /\ Len(transcript) \in Nat
          /\ DOMAIN transcript = 1 .. Len(transcript) /\ DOMAIN transcript' = 1 .. (Len(transcript) + 1)
          /\ transcript'[Len(transcript) + 1] = text
          /\ \A k \in 1 .. Len(transcript) : transcript'[k] = transcript[k]
      BY <1>8, <2>2, <3>1
    <3>3. \A j, k \in DOMAIN transcript : transcript[j] = transcript[k] => j = k
      BY DEF WatchInv, TranscriptInv
    <3>4. \A j \in DOMAIN transcript' : j \in 1 .. Len(transcript) \/ j = Len(transcript) + 1
      BY SMTT(60), <3>2
    <3>5. \A j, k \in DOMAIN transcript' : transcript'[j] = transcript'[k] => j = k
      BY <2>2, <3>2, <3>3, <3>4
    <3> QED  BY <3>2, <3>5 DEF TranscriptInv
  <2>3. UNCHANGED transcript
          \/ (transcript' = Append(transcript, text) /\ \A k \in DOMAIN transcript : transcript[k] # text)
    BY <1>2 DEF Record
  <2> QED  BY <2>1, <2>2, <2>3
<1>11. WatchTypes'
  BY <1>2, <1>5, <1>9, <1>10 DEF WatchInv, WatchTypes
<1>12. ItemsInv'
  <2>1. \A k \in DOMAIN v.todo : ItemOK(v.todo[k])
    <3>1. \A k \in DOMAIN todo : ItemOK(todo[k])
      BY DEF WatchInv, ItemsInv
    <3> HIDE DEF todo
    <3>2. \A k \in DOMAIN Tail(todo) : ItemOK(Tail(todo)[k])
      BY <1>1, <3>1
    <3>3. CASE v.todo = <<>>
      BY <3>3
    <3>4. CASE v.todo = Tail(todo)
      BY <3>2, <3>4
    <3> QED  BY <1>4, <3>3, <3>4
  <2> QED  BY <1>2, <1>5, <1>6, <2>1 DEF WatchInv, ItemsInv
<1>13. RoutedInv'
  <2>1. /\ \A i \in DOMAIN thread : thread[i].at # Never =>
              routings[i] = 0 \/ (routings[i] = 1 /\ KeyOf(i) \in seenKeys)
        /\ \A i \in 1 .. MaxEvents : i \notin DOMAIN thread => routings[i] = 0
    BY DEF WatchInv, RoutedInv
  <2>2. CASE routings' = routings
    BY <1>2, <1>6, <2>1, <2>2 DEF RoutedInv
  <2>3. CASE m.key \notin seenKeys /\ routings' = [routings EXCEPT ![m.event] = @ + 1]
    <3>1. routings'[m.event] = routings[m.event] + 1
            /\ \A i \in 1 .. MaxEvents : i # m.event => routings'[i] = routings[i]
      BY <1>7, <1>8, <2>3
    <3>2. DOMAIN thread \subseteq 1 .. MaxEvents
      BY SMTT(60), WatchAssumption DEF WatchInv, WatchTypes
    <3>3. thread[m.event].at # Never => routings[m.event] = 0 /\ KeyOf(m.event) \in seenKeys'
      BY <1>2, <1>7, <2>1, <2>3
    <3>4. \A i \in DOMAIN thread : thread[i].at # Never =>
              routings'[i] = 0 \/ (routings'[i] = 1 /\ KeyOf(i) \in seenKeys')
      BY SMTT(60), <1>2, <2>1, <3>1, <3>2, <3>3
    <3>5. \A i \in 1 .. MaxEvents : i \notin DOMAIN thread => routings'[i] = 0
      BY <1>7, <2>1, <3>1
    <3> QED  BY <1>2, <1>6, <3>4, <3>5 DEF RoutedInv
  <2> QED  BY <1>2, <2>2, <2>3
<1>14. MarkInv'
  <2>1. /\ mark <= clock /\ listCache.row <= clock /\ \A q \in Readers : reader[q].row <= clock
        /\ \A i \in DOMAIN thread : thread[i].at <= clock
        /\ \A i \in Inbound : thread[i].at # Never /\ thread[i].at < mark => KeyOf(i) \in seenKeys
        /\ reader["tick"].pc = "handling" =>
              \A i \in Inbound : thread[i].at # Never /\ thread[i].at < reader["tick"].row =>
                  \/ KeyOf(i) \in seenKeys
                  \/ \E k \in DOMAIN reader["tick"].todo : reader["tick"].todo[k].event = i
    BY DEF WatchInv, MarkInv
  <2>2. \A q \in Readers : reader'[q].row <= clock
    BY <1>4, <1>5, <2>1
  <2>3. ASSUME reader'["tick"].pc = "handling", NEW i \in Inbound,
               thread[i].at # Never, thread[i].at < reader'["tick"].row
        PROVE  \/ KeyOf(i) \in seenKeys'
               \/ \E k \in DOMAIN reader'["tick"].todo : reader'["tick"].todo[k].event = i
    <3>1. CASE r # "tick"
      BY <1>2, <1>5, <2>1, <2>3, <3>1 DEF Readers
    <3>2. CASE r = "tick"
      <4>1. v.todo = Tail(todo) /\ reader["tick"].pc = "handling" /\ v.row = reader["tick"].row
              /\ reader'["tick"] = v
        BY <1>4, <1>5, <2>3, <3>2
      <4>2. KeyOf(i) \in seenKeys \/ \E k \in DOMAIN todo : todo[k].event = i
        BY <2>1, <2>3, <3>2, <4>1
      <4>3. ASSUME NEW k \in DOMAIN todo, todo[k].event = i
            PROVE  \/ KeyOf(i) \in seenKeys'
                   \/ \E j \in DOMAIN v.todo : v.todo[j].event = i
        <5>1. CASE k = 1
          BY <1>2, <1>7, <2>3, <4>3, <5>1
        <5>2. CASE k # 1
          <6>1. k - 1 \in DOMAIN Tail(todo) /\ Tail(todo)[k - 1] = todo[k]
            BY <1>1, <5>2
          <6> QED  BY <4>1, <4>3, <6>1
        <5> QED  BY <5>1, <5>2
      <4> QED  BY <1>2, <4>1, <4>2, <4>3
    <3> QED  BY <3>1, <3>2
  <2> QED  BY <1>2, <1>6, <2>1, <2>2, <2>3 DEF MarkInv
<1> QED  BY <1>10, <1>11, <1>12, <1>13, <1>14 DEF WatchInv

LEMMA ReadInboxKeeps ==
    ASSUME WatchInv, ReadInbox PROVE WatchInv'
<1> DEFINE last == Len(thread)
           it == [event |-> last, key |-> MessageKey(last)]
           read == [at |-> clock, shown |-> IF last \in Inbound THEN <<it>> ELSE <<>>]
           inbox == IF Fresh(inboxCache) THEN inboxCache ELSE read
           v == [Resting EXCEPT !.pc = "snippets", !.todo = inbox.shown]
<1>1. /\ inboxCache' = inbox /\ reader' = [reader EXCEPT !["tick"] = v]
      /\ UNCHANGED <<thread, clock, listCache, mark, seenKeys, transcript, routings>>
  BY DEF ReadInbox
<1>2. last \in Inbound => it \in ItemType /\ ItemOK(it)
  <2> SUFFICES ASSUME last \in Inbound PROVE it \in ItemType /\ ItemOK(it)
    OBVIOUS
  <2>1. last \in DOMAIN thread /\ last \in Nat /\ thread[last] \in EventType /\ clock \in Nat
    BY DEF Inbound, WatchInv, WatchTypes
  <2>2. thread[last].at \in Nat \cup {Never} /\ thread[last].text \in Texts \cup {Other}
    BY <2>1 DEF EventType
  <2> HIDE DEF last
  <2>3. ReceivedAt(last) \in Nat /\ (thread[last].at # Never => MessageKey(last) = KeyOf(last))
    BY <2>1, <2>2 DEF ReceivedAt, MessageKey, KeyOf
  <2>4. MessageKey(last) \in [at : Nat, text : Texts \cup {Other}]
    BY <2>2, <2>3 DEF MessageKey
  <2> QED  BY <2>1, <2>3, <2>4 DEF ItemType, ItemOK
<1> HIDE DEF it, last
<1>3. read.at \in Nat /\ read.shown \in Seq(ItemType) /\ \A k \in DOMAIN read.shown : ItemOK(read.shown[k])
  <2>1. clock \in Nat
    BY DEF WatchInv, WatchTypes
  <2>2. CASE last \in Inbound
    BY <1>2, <2>1, <2>2
  <2>3. CASE last \notin Inbound
    BY <2>1, <2>3
  <2> QED  BY <2>2, <2>3
<1>4. inboxCache \in [at : Nat \cup {Never}, shown : Seq(ItemType)]
        /\ \A k \in DOMAIN inboxCache.shown : ItemOK(inboxCache.shown[k])
  BY DEF WatchInv, WatchTypes, ItemsInv
<1>5. read \in [at : Nat \cup {Never}, shown : Seq(ItemType)]
  BY <1>3
<1> HIDE DEF read
<1>6. inbox \in [at : Nat \cup {Never}, shown : Seq(ItemType)]
        /\ \A k \in DOMAIN inbox.shown : ItemOK(inbox.shown[k])
  BY <1>3, <1>4, <1>5
<1> HIDE DEF inbox
<1>7. clock \in Nat /\ Resting \in ReaderType /\ Resting.row = Never /\ "tick" \in Readers
  BY ReaderTypes DEF WatchInv, WatchTypes, Readers
<1>8. v \in ReaderType /\ v.todo = inbox.shown /\ v.row <= clock /\ v.pc = "snippets"
  <2>1. inbox.shown \in Seq(ItemType)
    BY <1>6
  <2>2. v \in ReaderType /\ v.todo = inbox.shown /\ v.row = Never /\ v.pc = "snippets"
    BY <1>7, <2>1 DEF ReaderType
  <2> QED  BY <1>7, <2>2 DEF Never
<1> HIDE DEF v
<1>9. \A k \in DOMAIN v.todo : ItemOK(v.todo[k])
  BY <1>6, <1>8
<1>10. listCache' \in [at : Nat \cup {Never}, row : Nat \cup {Never}] /\ listCache'.row <= clock
  BY <1>1 DEF WatchInv, WatchTypes, MarkInv
<1>11. /\ inboxCache' \in [at : Nat \cup {Never}, shown : Seq(ItemType)]
       /\ \A k \in DOMAIN inboxCache'.shown : ItemOK(inboxCache'.shown[k])
  BY <1>1, <1>6
<1> QED  BY <1>1, <1>7, <1>8, <1>9, <1>10, <1>11, ReaderKeeps

LEMMA ThreadEventKeeps ==
    ASSUME WatchInv, ThreadEvent PROVE WatchInv'
<1> DEFINE n == Len(thread)
<1>1. PICK text \in Texts \cup {Other}, at \in {clock, Never} :
          thread' = Append(thread, [text |-> text, at |-> at])
  BY DEF ThreadEvent
<1> DEFINE e == [text |-> text, at |-> at]
<1>2. /\ n < MaxEvents /\ clock \in Nat /\ thread \in Seq(EventType) /\ mark \in Nat \cup {Never}
      /\ routings \in [1 .. MaxEvents -> Nat] /\ MaxEvents \in Nat
      /\ UNCHANGED <<clock, listCache, inboxCache, mark, seenKeys, transcript, reader, routings>>
  BY WatchAssumption DEF ThreadEvent, WatchInv, WatchTypes
<1>3. e \in EventType /\ e.at \in {clock, Never} /\ thread' = Append(thread, e)
  BY <1>1, <1>2 DEF EventType
<1> HIDE DEF e
<1>4. /\ n \in Nat /\ DOMAIN thread = 1 .. n /\ DOMAIN thread' = 1 .. (n + 1)
      /\ thread' \in Seq(EventType) /\ Len(thread') = n + 1
      /\ thread'[n + 1] = e /\ \A i \in 1 .. n : thread'[i] = thread[i]
  BY <1>2, <1>3
<1> HIDE DEF n
<1>5. /\ \A i \in DOMAIN thread : KeyOf(i)' = KeyOf(i)
      /\ \A i \in Inbound : i \in DOMAIN thread /\ i \in Inbound'
      /\ \A i \in Inbound' : i \in Inbound \/ i = n + 1
  BY <1>4 DEF Inbound, KeyOf
<1>6. \A m : ItemOK(m) => ItemOK(m)'
  BY <1>4, <1>5 DEF ItemOK
<1>7. WatchTypes'
  BY <1>2, <1>4 DEF WatchInv, WatchTypes
<1>8. ItemsInv'
  BY <1>2, <1>6 DEF WatchInv, ItemsInv
<1>9. RoutedInv'
  <2>1. /\ \A i \in DOMAIN thread : thread[i].at # Never =>
              routings[i] = 0 \/ (routings[i] = 1 /\ KeyOf(i) \in seenKeys)
        /\ \A i \in 1 .. MaxEvents : i \notin DOMAIN thread => routings[i] = 0
    BY DEF WatchInv, RoutedInv
  <2>2. routings[n + 1] = 0
    BY <1>2, <1>4, <2>1 DEF n
  <2>3. \A i \in DOMAIN thread' : i \in DOMAIN thread \/ i = n + 1
    BY <1>4
  <2>4. \A i \in DOMAIN thread' : thread'[i].at # Never =>
            routings[i] = 0 \/ (routings[i] = 1 /\ KeyOf(i)' \in seenKeys)
    BY <1>4, <1>5, <2>1, <2>2, <2>3
  <2>5. \A i \in 1 .. MaxEvents : i \notin DOMAIN thread' => routings[i] = 0
    BY <1>4, <2>1
  <2> QED  BY <1>2, <2>4, <2>5 DEF RoutedInv
<1>10. TranscriptInv'
  BY <1>2 DEF WatchInv, TranscriptInv
<1>11. MarkInv'
  <2>1. /\ mark <= clock /\ listCache.row <= clock /\ \A q \in Readers : reader[q].row <= clock
        /\ \A i \in DOMAIN thread : thread[i].at <= clock
        /\ \A i \in Inbound : thread[i].at # Never /\ thread[i].at < mark => KeyOf(i) \in seenKeys
        /\ reader["tick"].pc = "handling" =>
              \A i \in Inbound : thread[i].at # Never /\ thread[i].at < reader["tick"].row =>
                  \/ KeyOf(i) \in seenKeys
                  \/ \E k \in DOMAIN reader["tick"].todo : reader["tick"].todo[k].event = i
    BY DEF WatchInv, MarkInv
  <2>2. e.at <= clock /\ (e.at # Never => e.at = clock)
    BY <1>2, <1>3 DEF Never
  <2>3. \A i \in DOMAIN thread' : thread'[i].at <= clock
    BY <1>4, <2>1, <2>2
  <2>4. reader["tick"].row \in Nat \cup {Never} /\ reader["tick"].row <= clock
    BY <2>1, ReaderTypes DEF WatchInv, Readers
  <2>5. e.at # Never => ~(e.at < mark) /\ ~(e.at < reader["tick"].row)
    BY <1>2, <2>1, <2>2, <2>4 DEF Never
  <2>6. \A i \in Inbound' : i # n + 1 =>
            i \in Inbound /\ thread'[i] = thread[i] /\ KeyOf(i)' = KeyOf(i)
    BY <1>4, <1>5
  <2>7. \A i \in Inbound' : thread'[i].at # Never /\ thread'[i].at < mark => KeyOf(i)' \in seenKeys
    BY <1>4, <2>1, <2>5, <2>6
  <2>8. reader["tick"].pc = "handling" =>
            \A i \in Inbound' : thread'[i].at # Never /\ thread'[i].at < reader["tick"].row =>
                \/ KeyOf(i)' \in seenKeys
                \/ \E k \in DOMAIN reader["tick"].todo : reader["tick"].todo[k].event = i
    BY <1>4, <2>1, <2>5, <2>6
  <2> QED  BY <1>2, <2>1, <2>3, <2>7, <2>8 DEF MarkInv
<1> QED  BY <1>7, <1>8, <1>9, <1>10, <1>11 DEF WatchInv

\* The start, and every restart after it, has read nothing.
NothingRead ==
    /\ thread \in Seq(EventType) /\ Len(thread) <= MaxEvents /\ clock \in Nat
    /\ transcript \in Seq(Texts \cup {Other}) /\ TranscriptInv
    /\ \A i \in DOMAIN thread : thread[i].at <= clock
    /\ listCache = NoList /\ inboxCache = NoInbox /\ mark = Never /\ seenKeys = {}
    /\ reader = [r \in Readers |-> Resting]
    /\ routings = [i \in 1 .. MaxEvents |-> 0]

LEMMA NothingReadIsSound == NothingRead => WatchInv
<1> SUFFICES ASSUME NothingRead PROVE WatchInv
  OBVIOUS
<1> USE DEF NothingRead
<1>1. <<>> \in Seq(ItemType)
  OBVIOUS
<1>2. Resting \in ReaderType /\ Resting.todo = <<>> /\ Resting.row = Never /\ Resting.pc = "idle"
  BY <1>1 DEF Resting, ReaderType
<1>3. /\ NoList \in [at : Nat \cup {Never}, row : Nat \cup {Never}] /\ NoList.row = Never
      /\ NoInbox \in [at : Nat \cup {Never}, shown : Seq(ItemType)] /\ NoInbox.shown = <<>>
  BY <1>1 DEF NoList, NoInbox
<1>4. \A r \in Readers : reader[r] = Resting
  OBVIOUS
<1>5. \A i \in DOMAIN thread : thread[i].at \in Nat \cup {Never} /\ i \in 1 .. MaxEvents
  <2>1. \A i \in DOMAIN thread : thread[i] \in EventType /\ i \in 1 .. Len(thread)
    OBVIOUS
  <2> QED  BY <2>1, WatchAssumption DEF EventType
<1>6. WatchTypes
  BY <1>2, <1>3 DEF WatchTypes
<1>7. ItemsInv
  BY <1>2, <1>3, <1>4 DEF ItemsInv
<1>8. RoutedInv
  BY <1>5 DEF RoutedInv
<1>9. MarkInv
  <2>1. "tick" \in Readers /\ reader["tick"].pc = "idle"
    BY <1>2, <1>4 DEF Readers
  <2>2. \A r \in Readers : reader[r].row = Never
    BY <1>2, <1>4
  <2>3. \A i \in Inbound : ~(thread[i].at # Never /\ thread[i].at < mark)
    BY <1>5 DEF Inbound, Never
  <2> QED  BY <1>3, <2>1, <2>2, <2>3 DEF MarkInv, Never
<1> QED  BY <1>6, <1>7, <1>8, <1>9 DEF WatchInv

LEMMA WatchRestartKeeps ==
    ASSUME WatchInv, WatchRestart PROVE WatchInv'
<1>1. /\ thread \in Seq(EventType) /\ Len(thread) <= MaxEvents /\ clock \in Nat
      /\ transcript \in Seq(Texts \cup {Other}) /\ TranscriptInv
      /\ \A i \in DOMAIN thread : thread[i].at <= clock
  BY DEF WatchInv, WatchTypes, MarkInv
<1>2. NothingRead'
  BY <1>1 DEF WatchRestart, NothingRead, TranscriptInv
<1>3. NothingRead' => WatchInv'
  BY NothingReadIsSound, PTL
<1> QED  BY <1>2, <1>3

LEMMA WatchTimeKeeps ==
    ASSUME WatchInv, WatchTime PROVE WatchInv'
<1>1. /\ clock' = clock + 1 /\ clock \in Nat
      /\ UNCHANGED <<thread, listCache, inboxCache, mark, seenKeys, transcript, reader, routings>>
  BY DEF WatchTime, WatchInv, WatchTypes
<1>2. Inbound' = Inbound /\ (\A i : KeyOf(i)' = KeyOf(i)) /\ (\A m : ItemOK(m) => ItemOK(m)')
  BY <1>1, ItemsKept
<1>3. WatchTypes'
  BY <1>1 DEF WatchInv, WatchTypes
<1>4. ItemsInv'
  BY <1>1, <1>2 DEF WatchInv, ItemsInv
<1>5. RoutedInv' /\ TranscriptInv'
  BY <1>1, <1>2 DEF WatchInv, RoutedInv, TranscriptInv
<1>6. MarkInv'
  <2>1. /\ mark \in Nat \cup {Never} /\ mark <= clock
        /\ listCache.row \in Nat \cup {Never} /\ listCache.row <= clock
        /\ \A r \in Readers : reader[r].row \in Nat \cup {Never} /\ reader[r].row <= clock
        /\ \A i \in DOMAIN thread : thread[i] \in EventType /\ thread[i].at <= clock
    BY ReaderTypes DEF WatchInv, WatchTypes, MarkInv
  <2>2. \A i \in DOMAIN thread : thread[i].at \in Nat \cup {Never} /\ thread[i].at <= clock
    BY <2>1 DEF EventType
  <2>3. /\ mark <= clock + 1 /\ listCache.row <= clock + 1
        /\ \A r \in Readers : reader[r].row <= clock + 1
        /\ \A i \in DOMAIN thread : thread[i].at <= clock + 1
    BY <1>1, <2>1, <2>2 DEF Never
  <2> QED  BY <1>1, <1>2, <2>3 DEF WatchInv, MarkInv
<1> QED  BY <1>3, <1>4, <1>5, <1>6 DEF WatchInv

LEMMA WatchInvInit == WatchInit => WatchInv
<1> SUFFICES ASSUME WatchInit PROVE WatchInv
  OBVIOUS
<1>1. thread = <<>> /\ clock = 0 /\ transcript = <<>>
  BY DEF WatchInit
<1>2. thread \in Seq(EventType) /\ Len(thread) <= MaxEvents /\ clock \in Nat
        /\ transcript \in Seq(Texts \cup {Other}) /\ TranscriptInv
        /\ \A i \in DOMAIN thread : thread[i].at <= clock
  BY <1>1, WatchAssumption DEF TranscriptInv
<1> QED  BY <1>2, NothingReadIsSound DEF WatchInit, NothingRead

LEMMA WatchInvStep == WatchInv /\ [WatchNext]_watchVars => WatchInv'
<1> SUFFICES ASSUME WatchInv, [WatchNext]_watchVars PROVE WatchInv'
  OBVIOUS
<1>1. ASSUME NEW r \in Readers, ReadFails(r) PROVE WatchInv'
  BY <1>1, RestKeeps DEF ReadFails
<1>2. CASE EndOfPass
  BY <1>2, RestKeeps DEF EndOfPass, Readers
<1>3. CASE UNCHANGED watchVars
  <2>1. UNCHANGED <<thread, clock, listCache, inboxCache, mark, seenKeys, transcript, reader, routings>>
    BY <1>3 DEF watchVars
  <2>2. Inbound' = Inbound /\ \A i : KeyOf(i)' = KeyOf(i)
    BY <2>1 DEF Inbound, KeyOf
  <2>3. WatchTypes' /\ TranscriptInv'
    BY <2>1 DEF WatchInv, WatchTypes, TranscriptInv
  <2>4. ItemsInv'
    BY <2>1, <2>2 DEF WatchInv, ItemsInv, ItemOK
  <2>5. RoutedInv'
    BY <2>1, <2>2 DEF WatchInv, RoutedInv
  <2>6. MarkInv'
    BY <2>1, <2>2 DEF WatchInv, MarkInv
  <2> QED  BY <2>3, <2>4, <2>5, <2>6 DEF WatchInv
<1> QED  BY <1>1, <1>2, <1>3, ReadListKeeps, ReadHistoryKeeps, FinishKeeps, HandleKeeps,
            ReadInboxKeeps, ThreadEventKeeps, WatchRestartKeeps, WatchTimeKeeps, Zenon
         DEF WatchNext

LEMMA WatchInvHolds == WatchSpec => []WatchInv
BY WatchInvInit, WatchInvStep, PTL DEF WatchSpec

\* A process routes a stamped reply at most once, and the transcript holds each
\* text once (RoutedOnce), whichever of tick and probe meets it.
THEOREM RepliesRoutedOnce == WatchSpec => []RoutedOnce
<1>1. WatchInv => RoutedOnce
  <2> SUFFICES ASSUME WatchInv PROVE RoutedOnce
    OBVIOUS
  <2>1. \A i \in DOMAIN thread : thread[i].at # Never => routings[i] <= 1
    BY DEF WatchInv, RoutedInv
  <2> QED  BY <2>1 DEF RoutedOnce, WatchInv, TranscriptInv
<1> QED  BY <1>1, WatchInvHolds, PTL

\* The watermark hides no reply (WatermarkHidesNothing): what an unchanged row
\* lets the tick pass over was marked seen, or came with the mark's own stamp.
THEOREM WatermarkIsSafe == WatchSpec => []WatermarkHidesNothing
<1>1. WatchInv => WatermarkHidesNothing
  <2> SUFFICES ASSUME WatchInv, IsUnchanged(LatestActivityOf(thread)),
                      NEW i \in Inbound, thread[i].at \notin {Never, mark}
               PROVE  Accounted(i)
    BY DEF WatermarkHidesNothing
  <2>1. i \in DOMAIN thread /\ thread[i] \in EventType /\ mark \in Nat \cup {Never}
    BY DEF Inbound, WatchInv, WatchTypes
  <2>2. thread[i].at \in Nat /\ thread[i].at # mark
    BY <2>1 DEF EventType
  <2>3. thread[i].at <= LatestActivityOf(thread) /\ LatestActivityOf(thread) \in Nat \cup {Never}
    BY <2>1, NewestActivity DEF WatchInv
  <2>4. LatestActivityOf(thread) <= mark /\ mark # Never
    BY DEF IsUnchanged
  <2>5. thread[i].at < mark
    BY <2>1, <2>2, <2>3, <2>4 DEF Never
  <2>6. KeyOf(i) \in seenKeys
    BY <2>2, <2>5 DEF WatchInv, MarkInv
  <2> QED  BY <2>6 DEF Accounted, KeyOf
<1> QED  BY <1>1, WatchInvHolds, PTL
=============================================================================
