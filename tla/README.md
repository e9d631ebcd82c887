# A TLA+ model of the LinkedIn outreach agent

The repository runs outreach campaigns for LinkedIn accounts: leads are enrolled
into a campaign's sequence of steps (a touch, a connection request, messages,
delays), timers move every lead along, an operator approves drafts, and a safety
gate limits what an account may do. This directory holds TLA+ modules of it, the
TLC configurations that check them, and TLAPS proofs. `PROJECT.json` maps every
definition to the lines it models.

## 1. Inventory

One runtime process per deployment, one web server beside it, a browser per
account. The runtime is one event loop: three timer loops, the MCP tools an
operator or an agent calls, and the browser actions they trigger. They share
PostgreSQL and a few in-memory objects, and interleave at every `await`. There
are no row locks and hardly any transactions; updates are by id.

| Component | State | Operations | Hard behaviour | What makes it correct |
|---|---|---|---|---|
| Dispatch tick (`runtime/dispatch/tick.ts`, `advance.ts`) | cursors, target stages, messages | send approved messages, run due steps, draft upcoming messages | snapshots used minutes later; effect and record apart; give-up and halt | each step reaches its person once; messages only after acceptance; the tick ends |
| Approvals (`orchestrator/approvals.ts`, `mcp/gate.ts`), the web's composer | message status and body | enqueue, approve, edit, reject | check and up to three writes apart; two tabs; lost answers | one open draft per step; one decision, and the text that was decided |
| Acceptance tick | parked cursors, outstanding pile | find connections, release | releases from stale rows; bounded read of a moving list | accepted leads go on; a reply stays final |
| Reply tick and router | seen-set, watermarks, caches (memory); stages, suppressions | scan, classify, pull, suppress; probe for the dispatch tick | seen before routed; classifier throws; shared threads; a thread skipped on its timestamp | replies are noticed and routed once; nothing more than the message in flight follows one |
| Invite withdrawal | LinkedIn invite, cursor, pile | gated withdrawal, stale sweep | effect and record apart; throttling; the list moves | nobody waits for an invite that is gone; the counts balance |
| Sourcing, enrollment, removal | lead lists, targets, cursors | source, score, enroll, launch, attach, remove | batches that await per person; removal against all of them | locks bind every later call; no duplicate sourcing |
| Safety gate, executor, limiters (`safety/`, `adapters/safety*.ts`, `executor/`) | action rows; windows, pacer, pauses in memory | canAct, mint, drive, record, pause, rehydrate | concurrent callers, midnight, crash before a record | caps bound what really went out; spacing; a pause holds |
| Account state machine | account state, soft-signal streak | onSignal, recover, replay | streak and state drift apart | escalation exactly when earned |
| Schedule arithmetic, pacing scheduler | queued follow-ups | defer, due date, working window, stagger, batch | edges of windows and budgets | earliest legal moment, no more than the cap |
| Session provider and vault | page cache, profile directory, cookies | open, probe, recycle, login, link | callers share one opening; a stalled browser is retired under them | no dead session handed out, no session rolled back |
| Page actions and page reader | the page | connect, message, withdraw, touch; read threads, searches, connections, invitations | LinkedIn answers late or not | no false success; only the target is written to; no gap in what is read |
| Agent loop, LLM providers | a pass over one target | observe, draft, classify | a stale account row, a provider that throws | a pass answers what it saw, and never sends |
| Sequence editing | step rows | define_sequence, the flow editor's save | rewritten row by row while a tick reads | a campaign runs a sequence somebody wrote |
| Web server and client | the tables above; what a page has loaded | limits, linked accounts, funnel figures, forecast, health, feeds, inbox | second copies of runtime rules; whole-row saves from stale pages; answers out of order | what the operator reads is what the runtime does |
| Signal detector; schema, migrations, scripts | none, or declarations | | | not modelled, section 8 |

How they meet: the dispatch tick asks `gateAct`, which queues a draft or calls
the executor; the executor asks the gate again when it mints a token, drives the
page of the session provider and records. The dispatch tick asks the reply tick
for a live probe before a message. Acceptance, replies, withdrawals, operators
and the web server write the same cursors and stages the dispatch tick is working
on. The web server reads the runtime's tables and calls its MCP tools for review
and pauses; it shares no memory with it.

## 2. Modules

| Module | Models | State and actions |
|---|---|---|
| `Vocabulary` | `shared/enums.ts` | enums; the stage a reply leads to; which level executes directly. The touch-like step types are one, `touch` |
| `Funnel` | the ticks, approvals, replies and withdrawals of every lead | `stage`, `cursor`, `msg`, `suppressed` are the store; `link`, `inbound` LinkedIn; `dpc`, `phase`, `sendQ`, `stepQ`, `cur` the dispatch tick in flight; `accQ`, `replyQ`, `route`, `op`, `wd` the other handlers; `seen`, `outstanding` process memory; `landed`, `late`, `faults` history. An action is the code between two awaits that matter |
| `Outreach` | nothing of the code: what the funnel promises a person | the abstract specification `Funnel` implements |
| `Dashboard` | funnel figures of `queries.ts`, `campaignMetrics.ts`, `getMetrics` | operators over `Funnel`'s state, and the audit rows beside it |
| `ActionGate` | `runOne`, the limiters, pause, rehydration | `rows` the action table, `call` the callers, `counted`, `last`, `paused` the limiters, `pauseLog` the events |
| `AccountSafety` | transition table, `onSignal`, `recover`, `replaySignals` | state, streak, log |
| `Schedule`, `Forecast`, `Pacing` | dates and the stagger; the web's Scheduled table; `PacingScheduler` | operators against reference definitions, and the lists they grow |
| `StepEditor` | `define_sequence`, the flow editor, `replaceSteps`, a lead reading the steps | step rows, calls in flight, the form |
| `Sourcing` | lists, sourcing, scoring, enrolling, launching, removing, for one person | rows and what each open request holds between its awaits |
| `SendForecast` | `SafetyGate.canAct` for a message, `deriveMessageTiming` | account row, limits, clock, pause events |
| `AgentLoop` | `control-loop.ts`, the providers' answers | phase of a pass; extends `SendForecast`, whose gate it asks |
| `Browser` | session provider, launch, vault, recycle | cache, openings, callers, locks, cookie jar |
| `ReplyWatch` | the reads of one thread | LinkedIn's events, caches, watermark, seen-set, transcript |
| `Sweep` | the stale-invitation sweep | LinkedIn's list, the sweep's place and tallies |
| `PageActions` | `actions.ts` | page, conversation, the click not yet answered |
| `LiveReads` | people search, connections | rankings that move, results, budget |
| `ReviewDesk` | composer, approve and reject routes, `decide` | tabs, calls in flight, the message row |
| `Settings` | account cards, `updateAccountLimits` | forms, patches in flight, the row |
| `Health` | boot and scan events, the health derivations | newest event of each kind, the process |
| `Feed` | activity and error feeds | rows, requests between their queries |
| `Views` | the client's panels, tables, inbox selection | requests in flight, table state, selection |
| `Listing` | the filter and the sort of a list, as `Sweep`, `LiveReads` and `Views` use them | none |
| `FunnelProofs`, `FunnelOnceProofs`, `ActionGateProofs`, `RunnerProofs`, `DeskProofs`, `AgentProofs`, `ScheduleProofs`, `Recursion` | | the theorems, and the invariants they rest on; `Recursion` holds what the proofs about recursive functions share |

Composition. `MCFunnel` and `MCDashboard` instantiate the funnel; the other `MC`
modules place components that share no state side by side: a variable `part`
picks one at the start and the others stand still, so one run asks for several
components without multiplying their states. Where components do share state the
modules extend each other: `Dashboard` over `Funnel`, `Forecast` and `Pacing`
over `Schedule`, `AgentLoop` over `SendForecast`.

Definitions marked `Fault` are altered copies of one definition, each a plausible
bug; they are no part of any specification and exist to show that a property
notices.

### Modelling decisions worth knowing

Funnel. `probeTarget` answers "replied" for any inbound message in the thread, so
a probe compares with zero, not with a date; what lies between the mailbox and
the probe is `ReplyWatch`. Whether a lane is failing as a whole is a free choice,
so both the give-up and the halt are explored. A person can write only once
connected (no InMail), and a withdrawn invite locks the person for about three
weeks: `link` goes to `"withdrawn"` and stays. A withdrawal does not fall between a
connect's landing and its park: pacing excludes the gated one, the age of a stale
invite the other. `stopFunnel`'s two updates and the two writes after a connect
are one step each. Enrollment is the initial state of a target; how it gets there
is `Sourcing`. A campaign's autonomy level does not change in mid-flight.

ActionGate. Minting and the reservation of the pacer slot are one step: only
resolved promises are awaited between them. The gap is longer than a drive
(`MaxDrive < MinGap`): the code speaks of "10-60s the browser takes" and the least
gap is 180 s. The other conditions of `canAct` can only refuse: a caller may fail
to be allowed at any moment anyway. Rehydration comes before stale rows are
reclaimed, so one crash does not lose the pacer; a second one may, when the only
row was reclaimed, and `Spaced` is stated for at most one.

AccountSafety. Nothing in the repository calls `onSignal` or `recover` at run time
except the replay at boot; the host is modelled from what the replay reads.

Schedule. Times are half hours of short days, without clock changes.

Sourcing follows one person: the rows of two people have nothing in common, all a
person sees of the rest of a batch is a longer wait between read and write.

Browser, PageActions, LiveReads, Sweep: LinkedIn and Chromium are external and do
what the code guards against at any moment: rotate a session, stall, answer late,
render late, move a list, accept, refuse, throttle, lose an answer. A cookie jar
is the age of the session in it; an invite its number and age class.

ReviewDesk, Settings, Views: any answer may be delayed, reordered or lost. A
fetch whose answer is lost is an error for the page, as `writeAction.ts` treats it.

Views: a filter stands for any of the account filters, tables are the generic
`DataTable`; the inbox's `replies` and `sent` filters work like `approval`.

## 3. Runs

| Run | Instance | Properties |
|---|---|---|
| `funnel_semi` | 1 lead, connect and two messages, semi_auto, 4 message rows, 1 reply, 1 fault, seen through the dashboard | `TypeOK`, `SendOnce`, `OneOpenDraft`, `ParkedInviteExists`, `AtMostOneMessageAfterReply`, `FiguresAgree`, `KeepsPromise` |
| `funnel_shared` | a supervised and an autonomous campaign, the same person, 4 message rows | `MessageOnlyAfterAcceptance`, `OutstandingCoversParked` |
| `funnel_live` | 1 lead, every step type, 1 fault, `FairSpec` | `AcceptedIsReleased`, `TickEnds`, `ReplyIsNoticed` |
| `gate` | 2 callers, 2 types, 2 rows, 6 clock ticks over a day and a week edge, 2 commands, 1 crash | `OneDriveAtATime`, `CapsHold`, `Spaced`, `PauseIsDurable`, `OneActionAfterPause` |
| `schedule` | a 3-day week of 3-hour days with every schedule and a ledger of 2; batches of 3; forecasts of 3 rows; 2 rewriters; 3 feed rows; a search of 2 pages; 3 requests of a panel, 4 table rows, 3 threads | `PacingHolds`, `StaggerDoublesOnlyFromDayOff`, `ForecastFillsDays`, `SequenceIsWhole`, `FeedIsComplete`, `ReadsLeaveNoGap`, `ViewsShowWhatWasAsked` |
| `agent` | 3 lists, 2 campaigns, 2 open requests, 4 calls, 2 edits; limits with and without a cap table, 2 clock ticks; 1 pass | `LaterCallsAreBound`, `SourcedOncePerCaller`, `ContextLostOnlyToRemoval`, `TimingHonest`, `RunAnswersWhatItSaw` |
| `runner` | 2 callers, 3 sessions, 2 LinkedIn sessions; 2 events of 2 texts; 4 invites over 2-invite pages; 2 page drives | `NoDeadSession`, `SessionNeverRollsBack`, `WatermarkHidesNothing`, `RoutedOnce`, `SweepBalances`, `AnswerIsTrue`, `OnlyTheTargetIsWritten` |
| `desk` | 2 tabs, 2 clicks; 2 cards, 2 patches; clock of 5 over 2 scan intervals; 6 signals, threshold 3 | `DecidedOnce`, `SwitchOffSticks`, `HealthIsHonest`, `EscalationIsExact` |
| `funnel_replied`, `funnel_hold`, `sourcing_removed`, `agent_intent` | the smallest that shows it | section 7 |

What the less obvious ones say:

- `KeepsPromise`: every step of `Funnel` is a step of `Outreach` or none, with
  `link` itself, `inbound` as "has written", the message steps in `landed` as
  what a person got, and `late` as who got one after writing. So: one invite at a
  time and none after a withdrawal, messages only over an accepted invite, at most
  the one in flight after a reply. How often a step may land is left open there;
  `SendOnce` says it.
- `TimingHonest`, `ForecastFillsDays`, `FiguresAgree`, `HealthIsHonest`: the web's
  second copy of a runtime rule agrees with the rule, and where it does not the
  exception is part of the property.
- `StaggerDoublesOnlyFromDayOff`, `EscalationIsExact`: the exact extent of two
  surprises. A batch enrolled on a day off (or after hours) books day 0 and the
  first working morning, which come up together, so that one morning, and only
  that one, may be twice the cap (`stagger.ts:58` beside `stagger.ts:10`). A ban
  banner ends the account, except in Cooldown, whose row of the table has no
  step for it (`state-machine.ts:51` beside `safety-gate.ts:338`).
- `PanelIsCurrent` in `ViewsShowWhatWasAsked` is about the answer asked for last;
  an older one that comes later is shown all the same.

Bounds. One lead meets every handler that can race over it; a second one matters
only through the shared person and the cross-campaign lock, hence
`funnel_shared`. Message rows exceed the steps that draft, so a duplicate draft
has a row to appear in. `MaxFaults` bounds crashes and lost acknowledgements
together; properties that a fault may dent count it (`1 + faults`). In `gate` two
rows are one more than cap and ceiling. Two requests, tabs, cards or callers are
enough for a read of one to fall between the other's read and write; pages are
shorter than the lists they cut, and lists longer than limits, so that both sides
of each limit are met. `CHECK_DEADLOCK FALSE` is set where a bounded clock, batch
or number of calls ends the run. Symmetry is used in safety runs only, over rows,
callers, tabs, cards, texts, lists and campaigns that no property names.

In `funnel_shared`, `ParkedInviteExists` is not claimed: a gated withdrawal aimed
at one enrollment strands the other campaign's parked lead.

Fairness (`FairSpec` of `Funnel`): the three timers keep firing and every await
settles, with a result or a throw, so each handler's next step is weakly fair,
and so are operator calls and withdrawals once begun. People, operators, the
clock and crashes owe nothing. The other modules state safety only: their calls
are bounded, and nothing in the code promises that an operator or LinkedIn acts.

## 4. Proofs

All constants are arbitrary, within the named `ASSUME`s: any number of leads,
callers, tabs, requests or definers, any caps, gaps, schedules and bounds, where a
run has two or three of each. Every theorem follows one pattern: an invariant that
is inductive and implies the property, one lemma per action that could disturb it,
a last step that puts them together. The strengthenings were checked by TLC
before they were proved.

The funnel (`FunnelProofs`, `FunnelOnceProofs`):

- `TypeCorrect` and `RowsAlwaysExist`: `TypeOK` is not inductive alone (a handler
  that writes `msg[cur.msg]` must hold a real row), so both rest on
  `Inv == TypeOK /\ RowsExist`, proved action by action.
- `OneMessageAfterReply`: `LateInv` says that the one late message was already
  armed (past its probe) when the person wrote, and that nothing is armed for that
  person afterwards, because a probe passes only with an empty thread.
- `MessagesFollowAcceptance`: `AcceptInv` follows the claim to its source. A
  message step is dispatched or drafted only for a target at stage `connected`;
  that stage is written only by `Release`, for a person the scan found connected;
  a drafted row keeps its target; and a connection is never undone. So the stage,
  the acceptance tick's matches, every message row and the cursor in hand all
  carry the evidence of an accepted invite.
- `EachStepOnce`, `OneDraftAtATime`: what has landed for a step, the live messages
  for it and what the cursor may still give (a draft, or a direct send) come to at
  most `1 + faults` (`OnceInv`). A draft uses up the cursor's gift, a send uses up
  the draft, and a fault may give back one of them. The sum is preserved because a
  message is being decided, queued or held, never two of these (`HandsInv`), and
  because snapshots name the cursor's own step (`FlightInv`). The hypothesis
  `OneDecision` says that drafts are decided one at a time; without it TLC finds
  two decisions of one draft that each send it (section 7).
- `PileCoversParked`: the pile counts every lead that `Waiting` names: a parked
  cursor, a match not yet released, an invite that has just landed (`PileInv`). An
  acceptance takes off at most its own matches, and `LinkInv` keeps a match, a
  withdrawal and a parked cursor from speaking of different invites.
- `ParkedHaveInvites`: of the leads parked for an invite that is gone all but the
  one whose withdrawal is in flight are due to a crash (`StrandInv`). Its
  hypothesis, `OneEnrollment`, says that each person is in one campaign; a
  withdrawal aimed at one enrollment strands the others, which is why the run with
  a shared person does not claim the property.
- `FiguresFitTogether`, of the dashboard over the funnel, also under `OneDecision`.
  That a card counts what the table lists is arithmetic on the leads' rows, once
  `TypeOK` says that a lead has one cursor. The rates and the agent's figures need
  the history: `AuditInv` keeps the messaged among the accepted and the accepted
  among the invited, and takes every stage, draft and message in hand back to an
  acceptance, every wait back to an invite. The rest is what a fault may leave
  behind. A lead is `Clean` while each of its steps stands for one thing, its open
  messages are of its cursor's step and its connects behind the cursor were
  accepted (`Orderly`), and no invite of its own makes it look invited before. A
  lead the tick can spoil is the one in hand at a crash, and an invite the stage
  does not show was cut off by a crash too, so there are at most `faults` of each
  (`FaultInv`). A clean lead stays clean because an invite found pending was not
  this lead's own (`ParkInv`, the one place where another campaign may speak for
  the same person).
- `FunnelKeepsPromise`: `Funnel` implements `Outreach`. Under `Inv`, `LateInv`,
  `AcceptInv` and `RealSteps` (rows and cursor speak of steps the sequence has) a
  landed connect is `Invite`, because it lands only on an untouched person; a
  landed message is `Deliver`, because its person is connected and no late message
  has reached them; withdrawal, acceptance and writing are the steps of the same
  names; every other step stutters.

The gate (`ActionGateProofs`):

- `TypeCorrect`: with `CallsOK` (a caller past its insert holds a row) and a clock
  that has started.
- `OneDrive`: `DriveInv` says that a busy caller's token time is no later than
  `last`, and within a drive of now, so a second mint would need a gap shorter
  than a drive.
- `PauseDurable`, `OneAfterPause`: the log determines the registry unless a command
  is half done; after a pause no mint succeeds, and by `DriveInv` at most one
  caller was past it.
- `CapsRespected`: what a cap is charged with is the recorded successes of the day
  (or week) and the one drive that is running; that never exceeds the cap
  (`ChargeInv`), because a live process has counted every success but the one
  being counted (`CountInv`), and midnight only lowers it. What landed beyond the
  charge is a row nobody will report any more, and there is one `lost` for each
  (`LostInv`).
- `ActionsSpaced`: up to the second crash the pacer's stamp, in memory or in the
  rows it is rebuilt from, is at most a drive older than any landed action
  (`PaceInv`).

Session, thread, sweep and page (`RunnerProofs`):

- `NoSessionOutlivesItsFailure`: a retired session is never the cached one and was
  opened (`RetiredInv`). `JarMovesForward`: of two browsers that run each knows it
  is not alone, and a profile found empty stays so until someone else fills it
  (`JarInv`).
- `RepliesRoutedOnce`, `WatermarkIsSafe`: a stamped event that was routed is marked
  seen (`RoutedInv`); below the mark everything inbound was marked seen, and below
  the row the tick works on it was, or is still in its hands (`MarkInv`), which
  needs the history to be read newest first (`HistorySorts`).
- `SweepKeepsItsBooks`: all of `SweepBalances`. `CounterCountsCursors` and
  `SweepsBackOff` are its two parts about the counter and the throttles. What is
  reported as remaining needs the books of every step (`BooksInv`): while pages are
  read, the result is what stands above the next start, each invite once; what is
  chosen is still on the list and not refused; and the old invites that are left
  are the aged ones less the withdrawn and the failed, plus the refused. A
  withdrawal whose cursor is not yet released is off the list but not yet off the
  count, hence the clause of its own. The invariant failed at first: a list cut at
  the ceiling of the read, or a page missed, makes the report too small although
  nothing moved, so both count as a partial read.
- `ActionsAnswerTruly`, `NobodyElseIsWritten`: from the click to the answer
  LinkedIn has yet to speak, has made the invite, or shows what stops it
  (`ConnectInv`); a verified conversation is the target's, and the first box in
  scope holds the text until the page changes under the press (`MessageInv`).

The desk (`DeskProofs`):

- `FirstDecisionStands`: unless decisions overlapped, one is under way at a time
  (`SoloInv`), every page shows the draft's body until it is replaced (`BodyInv`),
  and a decided message keeps the text its first decision left (`FirstInv`).
- `SwitchesStayOff`: a patch that read the row and was not raced still holds the
  row (`PatchInv`). `DashboardHealthIsHonest`: the newest events are those of the
  boots and scans that left them (`ToldInv`).
- `SignalsStopAccounts`: the streak never exceeds the soft signals since the last
  recovery, an active account has none fresh, and a throttled one no more fresh
  than its streak holds (`SafetyInv`); a replay at boot counts no more than the
  soft signals of the log (`ReplayCountsSofts`). The hypothesis keeps `Cold` out
  of the start states: nothing in the code produces it any more, and the table has
  no ban from it.

The agent, sourcing and the inbox's timing (`AgentProofs`):

- `LocksBindLaterCalls`, `ContextSurvives`: an open call that got past the locks is
  not bound by any of those it began after (`CallOK`). `SourcingIsBounded`: lists
  holding the person and calls about to insert come to no more than there were
  requests open together.
- `InboxReadsTheGate`: no stamp is of the future, so the newer command decides
  (`StampInv`). `PassesAnswer`: a pass goes towards an answer exactly if it heard
  something, and classifies before it drafts (`PassInv`).

What is computed from lists that change (`ScheduleProofs`):

- `WorkIsPacedExactly`: all of `PacingHolds`. The gate's part (`WorkingTimeIsExact`)
  rests on a small theory of days and hours: division is unique, a time lies in its
  day, every weekday comes up within a week, the window of a day is one stretch.
  The search of `nextWorkingInstant` ends in a window because each turn outside it
  goes at least an hour on or lands in one, and the next window opens within the
  turns it is given (`SearchFindsWork`). The batch needs two facts about the loop of
  `dueActions`: the order in which it takes the queue names every entry once, and
  what it has picked after each turn is within the cap, free of duplicates, and
  leaves out nothing that could still be picked.
- `ForecastTellsDispatch`: the rungs of the forecast's ladder ascend and fall on
  different days, and among as many rungs as there are taken days plus one some
  rung is free (`RungFree`), so the table never runs out of days. From row to row
  the days before the last one handed out are full (`Laddered`), which is the
  property once the whole backlog has been handed out.
- `BatchesFitTheirDays`: no day holds more of the batch than the cap (`BatchFits`).
  The heart is that `next()` always finds a day (`RoomIsFound`): slots a week apart
  fall on different days, there is one more of them than there are entries, a full
  day holds at least one entry, and so two slots would share an entry.
- `CampaignRunsWhatWasWritten`: a definer nobody disturbed is alone and has deleted
  or inserted exactly the rows there are so far; a disturbed one left the sequence
  marked as tangled (`DefinerInv`).
- `FeedsHaveNoHole`: all of `FeedIsComplete`. Each row of the request's beginning
  is among the rows read so far, or `FeedLimit` newer ones are (`ReadSoFar`), and
  the merge keeps that. The errors that were there are still in what was read
  (`ErrorsInv`), and the roll-up of any set of rows counts each row of a kind and
  spans its times, whatever the order it takes them in (`RollupTells`).
- `ReadsNeverSkip`: as long as nobody leaves, the ranking of the beginning is found
  inside the ranking of now, in the same order, and whoever of it stands above the
  next start is a result (`Follows`). An insertion or a promoted card pushes
  places down, never up, so a page by offset may see somebody twice but steps over
  nobody; a page that is cut by the wanted number ends the search inside its
  order. For the connections, everybody past those that arrived since the last
  pass has been found (`OlderAreSeen`).
- `PagesShowWhatWasAsked`: an answer is of the filter its request named, and one
  with the last number was asked for after every answered write (`PanelInv`). The
  table's page is clamped to the pages there are, and the stretches of a list cut
  into pages add up to the list (`PagesAddUp`, `TableShowsAll`). In the inbox the
  effect that runs after a render settles at its second run (`EffectSettles`), so a
  render leaves either the conversation that was selected or one that is listed
  (`InboxInv`).

An existence that needs an order on numbers (the least open hour, the first step
of a list, a sorted history) is had from the well-foundedness of `<`, applied to
the set in question. So is a function defined step by step over an interval
(`RecursionExists`): the sets of its beginnings are handed on from 0 to the end,
which is how `NextWorkingInstant`, `DueActions`, the replayed log and the filter of
a list (`Chosen`) can be reasoned about although the library's induction theorems
cannot be used. A sort is the order of the ranks (`Arranged`): an element's place is
the number of elements before it, so the sorted list names each element once
(`ArrangedIsWhole`).

The provers work against a clock, so a proof that is checked once is not yet one
that is checked everywhere. A leaf follows from a few facts that its step derives
first: what an action leaves of a record (`MovesOn`, `AnswerType`, `OpeningType`,
`ChatEdits`, `FieldTypes`) is had from a lemma, without expanding the record's type
beside the action's body, and the few leaves that stay slow name their prover and a
limit (`SMTT(60)`, `ZenonT(60)`). Every leaf is also proved with an eighth of these
limits (`tlapm --stretch 0.12`).

## 5. Only model-checked

- Liveness: `AcceptedIsReleased`, `TickEnds`, `ReplyIsNoticed` (fairness and
  `ENABLED` are outside the prover).

## 6. Mutants

For every property of a passing run `PROJECT.json` names a mapped definition and
its faulty form: a row left approved, a probe that trusts the seen-set, a scan
that takes every parked lead for accepted, a reservation left out, an off-by-one
cap, a pacer not restored, a window left by jitter, a merge cut in the order of
arrival, a cache entry dropped after the close, cookies seeded over newer ones, a
mark set to the time of the scan, a click taken for an invite, a composer found
anywhere on the page, a status not looked at, a patch that replaces a map, and so
on. TLC reports the property violated for each.

## 7. Where the code and its comments disagree

Shown by a run:

- `funnel_replied`: `'replied'` is called terminal, but an acceptance release from a
  row read before the reply puts the lead back in progress. The next message is
  still stopped by its probe and by the stage.
- `funnel_hold`: a lead held for another campaign's invite is said to be resolved
  by acceptance or withdrawal; an `already_invited` target keeps the stage
  `invited` for ever, and so the hold.
- `sourcing_removed`: a removed target is said never to re-enter the funnel; a
  launch or an enroll that looked before the removal inserts the cursor after it.
- `agent_intent`: a free-text answer that is the bare enum `NotInterested` is read
  as `Interested`, which the scan meets first.

Met while modelling, and built into a property as its exception or left outside it:

- `deriveMessageTiming` is said to mirror `canAct`'s order; it does not know the
  halved caps of a throttled account, a cap of zero, or a missing cap entry. The
  control loop asks the gate about the account row its pass began with.
- The reply rate of the dashboard has no bound of 100%: every persisted inbound
  counts, not only those after a message. A failed send is counted twice in the
  errors total. `getScheduled` forecasts from the rows its limit left, and counts
  no draft without a time.
- Health: a failing detector that is then booted idle stays `failing`, though idle
  is said to outrank every older event.
- Two overlapping `decide` calls both pass the draft check, and an edit that fails
  after the body was written leaves a draft with a text a stale page approves
  unseen. A late inbox load remounts an unlocked composer.
- `updateAccountLimits` loses one of two overlapping updates, and caps left out of
  a patch go back to their defaults. A reload of the accounts discards unsaved
  edits of a card.
- A stale caller's recycle closes the session that replaced the one it saw stall;
  two browsers may share a profile for as long as the old one takes to close;
  cookies linked anew have no effect on a profile that holds a session.
- Replies with no stamp, or with the stamp of the mark, may be passed over; a
  second message of the same text is never recorded; a throw while recording or
  classifying leaves the message seen (the dispatch probe still stops the lead).
- The sweep counts server errors as permanent failures; a withdrawal whose answer
  is lost leaves its cursor parked.
- A toast later than 1.5 s after the click leaves an invite reported as sent; a
  page that changes between typing and pressing, or a "1st" inside a headline,
  leads to a send that is not proved to be the target's. `OnlyTheTargetIsWritten`
  states which of these the anchor and the URL check exclude.
- `define_sequence` rewrites row by row: a tick in the middle may complete a lead
  early, two overlapping rewrites leave a mixture while both are told it worked.
  The web accepts a blank message body the MCP tool refuses.
- The search budget counts UTC days, caps count local ones, and a restart forgets
  it. People who leave the ranking let others slip past the next page. An
  acceptance buried deeper than the connections read is never seen.
- `launchCampaign` has neither the cross-campaign lock nor the stagger of
  enrolling over MCP; scoring and `removeTargets` write back blobs they read
  before.
- An agent pass whose provider throws has already taken the inbound messages; the
  next pass may draft an opener.
- Client: an older answer of a panel that arrives late is shown; after a list has
  shrunk, the table's Prev needs several clicks, because the stored page is not
  clamped; opening an approval clears the inbox's filter but not its search.

## 8. Not modelled

- Text: drafts, personalisation, prompts, the payload shapes of LinkedIn's
  answers, selectors, wording and layout. A conversion a property depends on
  (keys, clamps, sort orders, intents in free text) is modelled by what it does.
- The signal detector: patterns that name a signal; nothing feeds them to the gate
  at run time.
- Profile enrichment and the heuristics of scoring: fit is a free choice.
- The vault's encryption, capability tokens, argument schemas, routing, static
  files, chart series.
- Clock changes, and changes of a campaign's autonomy level while leads flow.
- Schema, migrations, one-off scripts and manual probes.
