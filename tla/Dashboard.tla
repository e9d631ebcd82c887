----------------------------- MODULE Dashboard -----------------------------
(***************************************************************************)
(* What the web dashboard tells the operator about the funnel.  The server *)
(* (web/server/src/queries.ts) reads the store the runtime writes and the  *)
(* client (web/client/src/campaignMetrics.ts) derives bars and rates from  *)
(* the answer; neither changes anything.                                   *)
(*                                                                         *)
(* The rows that only these views read (successful action rows, the        *)
(* invite_accepted events, persisted inbound messages) are kept beside the *)
(* funnel, in step with it, in `audit'.                                    *)
(***************************************************************************)
EXTENDS Funnel

VARIABLE audit  \* targets with: a successful connect, an acceptance event,
                \* a successful message, a persisted inbound message

\* The executor's success row goes in with the landing; a lost acknowledgement
\* leaves a failed row, which no view counts.
Succeeded(type) ==
    IF landed' # landed /\ dpc' \in {"sendMark", "stepPark"} /\ TypeAt(cur.step) = type
    THEN {cur.tgt} ELSE {}

\* onOutcome of the acceptance tick logs every release.
Released == {w[1] : w \in IF faults' = faults THEN accQ \ accQ' ELSE {}}

\* record(): the inbound row precedes the classifier.
Heard == {route'[c].tgt : c \in {d \in Callers : route[d].pc # "classify" /\ route'[d].pc = "classify"}}

DashboardInit == Init /\ audit = [invited |-> {}, accepted |-> {}, messaged |-> {}, replied |-> {}]

DashboardNext ==
    /\ Next
    /\ audit' = [invited  |-> audit.invited \cup Succeeded("connect"),
                 accepted |-> audit.accepted \cup Released,
                 messaged |-> audit.messaged \cup Succeeded("message"),
                 replied  |-> audit.replied \cup Heard]

DashboardSpec == DashboardInit /\ [][DashboardNext]_<<vars, audit>>

-----------------------------------------------------------------------------
(* queries.ts: one lead *)

LeadsOf(c) == {t \in Targets : CampaignOf[t] = c}
Rows(t, status) == {m \in MsgIds : msg[m].tgt = t /\ msg[m].status = status}

\* pendingDraftFilter; every draft of the funnel carries its request.
PendingDrafts(t) == Rows(t, "draft")

\* max(pending_req->>'type') over the approved rows: 'message' before 'connect'.
MaxType(ms) ==
    IF \E m \in ms : TypeAt(msg[m].step) = "message" THEN "message"
    ELSE IF \E m \in ms : TypeAt(msg[m].step) = "connect" THEN "connect" ELSE "touch"

\* deriveApprovedQueued over the three per-lead lookups.
DeriveApprovedQueued(t) ==
    /\ cursor[t].state = "awaiting_approval"
    /\ PendingDrafts(t) = {} /\ Rows(t, "approved") # {}

\* getCampaignLeads: every target of the campaign with its cursor, its pending
\* draft and its queued action.
GetCampaignLeads(c) ==
    {[target |-> t, stage |-> stage[t], progressState |-> cursor[t].state,
      pending |-> PendingDrafts(t) # {}, approvedQueued |-> DeriveApprovedQueued(t),
      queuedActionType |-> IF DeriveApprovedQueued(t) THEN MaxType(Rows(t, "approved")) ELSE "none"]
        : t \in LeadsOf(c)}

\* leadFunnelBucket, and leadFilterKey of the client's table.
LeadFunnelBucket(l) ==
    IF l.progressState = "awaiting_approval" /\ l.approvedQueued
    THEN IF l.queuedActionType = "connect" THEN "invite_queued" ELSE "message_queued"
    ELSE l.progressState

-----------------------------------------------------------------------------
(* queries.ts: one campaign *)

Buckets == ProgressStates \cup {"invite_queued", "message_queued"}

ByProgressState(c) ==
    [b \in Buckets |-> Cardinality({t \in LeadsOf(c) : cursor[t].state = b})]

\* buildApprovedQueuedCountsQuery: cursors joined to approved rows, none of
\* them with a draft left.
ApprovedQueuedRows(c) ==
    {t \in LeadsOf(c) : /\ cursor[t].state = "awaiting_approval"
                        /\ \E m \in MsgIds : msg[m].tgt = t /\ msg[m].status = "approved"
                        /\ ~ \E d \in MsgIds : msg[d].tgt = t /\ msg[d].status = "draft"}

\* queuedTypeCountsByCampaign.
QueuedByType(c) ==
    [type \in {"connect", "message", "touch"} |->
        Cardinality({t \in ApprovedQueuedRows(c) : MaxType(Rows(t, "approved")) = type})]

\* splitApprovedQueued: the queued slice leaves the raw awaiting_approval count.
SplitApprovedQueued(raw, queued) ==
    LET moved == queued["connect"] + queued["message"] + queued["touch"]
        left == raw["awaiting_approval"] - moved IN
    [raw EXCEPT !["invite_queued"] = @ + queued["connect"],
                !["message_queued"] = @ + queued["message"] + queued["touch"],
                !["awaiting_approval"] = IF left > 0 THEN left ELSE 0]

\* getCampaign and listCampaigns: the histogram they answer with.
Histogram(c) == SplitApprovedQueued(ByProgressState(c), QueuedByType(c))

\* Fault: a removed lead counts as one that was never invited.
RemovedNowhere(c) == [atInvited |-> 0, atAccepted |-> 0, atMessaged |-> 0, atReplied |-> 0]

\* buildRemovedByStageQuery: skipped cursors by the furthest stage reached.
RemovedByStage(c) ==
    LET skipped == {t \in LeadsOf(c) : cursor[t].state = "skipped"}
        later == audit.messaged \cup audit.replied IN
    [atInvited  |-> Cardinality((skipped \cap audit.invited) \ (audit.accepted \cup later)),
     atAccepted |-> Cardinality((skipped \cap audit.accepted) \ later),
     atMessaged |-> Cardinality((skipped \cap audit.messaged) \ audit.replied),
     atReplied  |-> Cardinality(skipped \cap audit.replied)]

\* getPending: the drafts the approval list offers for a campaign.
GetPending(c) == {m \in MsgIds : msg[m].status = "draft" /\ msg[m].tgt \in LeadsOf(c)}

-----------------------------------------------------------------------------
(* mcp-ports.ts: the figures the agent is given *)

\* getMetrics counts by stage, where the dashboard counts action rows.
GetMetrics(c) ==
    LET at(stages) == Cardinality({t \in LeadsOf(c) : stage[t] \in stages}) IN
    [invited   |-> at({"invited", "connected", "in_conversation", "replied", "won", "lost"}),
     connected |-> at({"connected", "in_conversation", "replied", "won"}),
     replied   |-> at({"replied", "won"}),
     won       |-> at({"won"})]

-----------------------------------------------------------------------------
(* campaignMetrics.ts *)

\* summarizeWork: the pool every rate divides by.
Eligible(c) ==
    LET h == Histogram(c)
        n == Cardinality(LeadsOf(c)) - h["skipped"] - h["already_invited"] IN
    IF n > 0 THEN n ELSE 0

Atleast0(n, d) == IF n > d THEN n - d ELSE 0

\* buildFunnel: each stage's people and the population its rate is a share of.
BuildFunnel(c) ==
    LET rm == RemovedByStage(c)
        n(s) == Cardinality(s \cap LeadsOf(c)) IN
    [invited  |-> [count |-> n(audit.invited),
                   of |-> Eligible(c) + rm.atInvited + rm.atAccepted + rm.atMessaged + rm.atReplied],
     accepted |-> [count |-> n(audit.accepted), of |-> Atleast0(n(audit.invited), rm.atInvited)],
     messaged |-> [count |-> n(audit.messaged), of |-> Atleast0(n(audit.accepted), rm.atAccepted)],
     replied  |-> [count |-> n(audit.replied), of |-> Atleast0(n(audit.messaged), rm.atMessaged)]]

-----------------------------------------------------------------------------
(* Properties *)

\* The histogram a campaign card shows and the lead table agree: clicking a
\* segment of n leads lists n leads, although one is counted by SQL over the
\* whole campaign and the other derived lead by lead.
HistogramMatchesLeads ==
    \A c \in Campaigns : \A b \in Buckets :
        Histogram(c)[b] = Cardinality({l \in GetCampaignLeads(c) : LeadFunnelBucket(l) = b})

\* No rate of the funnel passes 100%: a stage's people are among those of the
\* stage before, removed leads included, save one invite per crash.
RatesAreShares ==
    \A c \in Campaigns :
        LET f == BuildFunnel(c) IN
        /\ f.invited.count <= f.invited.of + faults
        /\ f.accepted.count <= f.accepted.of
        /\ f.messaged.count <= f.messaged.of

\* The agent's figures, counted by stage, cover the dashboard's, counted by
\* action rows: every lead with a successful connect is invited for both, save
\* the one being parked and one per fault.  The approval list is the set of
\* leads the table marks as pending.
ViewsAgree ==
    \A c \in Campaigns :
        /\ BuildFunnel(c).invited.count <=
               GetMetrics(c).invited + faults + (IF dpc \in {"sendMark", "sendPark", "stepPark"} THEN 1 ELSE 0)
        /\ {msg[m].tgt : m \in GetPending(c)} = {l.target : l \in {k \in GetCampaignLeads(c) : k.pending}}

\* The figures of the dashboard fit together: what a card counts is what the
\* table lists, no invited, accepted or messaged rate passes 100%, and the
\* agent's own figures cover the dashboard's.
FiguresAgree == HistogramMatchesLeads /\ RatesAreShares /\ ViewsAgree
=============================================================================
