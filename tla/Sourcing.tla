------------------------------ MODULE Sourcing ------------------------------
(***************************************************************************)
(* How a person gets into a campaign and out of it again: lead lists,      *)
(* sourcing, scoring, enrolling, launching and removing, as the MCP tools  *)
(* and the web server run them, against each other and against the first   *)
(* invite.                                                                 *)
(*                                                                         *)
(* The module follows one person.  Every one of these calls works through  *)
(* a batch, one person after the other, and the rows of two people have    *)
(* nothing in common: all a person sees of the rest of the batch is a      *)
(* longer wait between the call's read and its write.  A call lives in a   *)
(* request handler, so two of them interleave at every await.              *)
(***************************************************************************)
EXTENDS Naturals, FiniteSets, Vocabulary

CONSTANTS
    Lists, Campaigns,
    Callers,   \* requests that may be open at the same time
    MaxCalls,  \* bound: calls of several steps made
    MaxEdits,  \* bound: list edits and attached contexts
    None

ASSUME SourcingAssumption ==
    /\ IsFiniteSet(Callers) /\ MaxCalls \in Nat /\ MaxEdits \in Nat
    /\ None \notin Lists \cup Campaigns

VARIABLES
    member,   \* lead_list_members: the person's row in each list that exists
    gone,     \* lists that were deleted
    target,   \* targets: the person's row in each campaign
    cursor,   \* target_progress.state, "none" without a row
    invite,   \* the connect step's message row
    call,     \* what each open request holds between its awaits
    acked,    \* history: campaigns whose removal of the person was answered
    broken,   \* history: locks an enrollment went past although it began after them
    calls, edits

vars == <<member, gone, target, cursor, invite, call, acked, broken, calls, edits>>
rows == <<member, gone, target, cursor, invite>>

NotMember == [in |-> FALSE, fit |-> FALSE, by |-> "none"]
NoTarget == [row |-> FALSE, stage |-> "sourced", removed |-> FALSE, verified |-> FALSE]
NoCall == [at |-> "idle", list |-> None, camp |-> None, saw |-> "none", had |-> FALSE,
           barred |-> {}, locked |-> {}]

Contacted == {k \in Campaigns : target[k].stage \in ContactedTargetStages}

-----------------------------------------------------------------------------
(* Calls *)

\* A request arrives and gets to its first await.
Open(c, at, l, k, saw, had) ==
    /\ call[c].at = "idle" /\ calls < MaxCalls /\ calls' = calls + 1
    /\ call' = [call EXCEPT ![c] = [at |-> at, list |-> l, camp |-> k, saw |-> saw, had |-> had,
                                    barred |-> acked, locked |-> Contacted]]
    /\ UNCHANGED <<rows, acked, broken, edits>>

At(c, at) == call[c].at = at
Move(c, at) == call' = [call EXCEPT ![c].at = at] /\ UNCHANGED <<calls, edits>>
Answer(c) == call' = [call EXCEPT ![c] = NoCall] /\ UNCHANGED <<calls, edits>>
Edit == edits < MaxEdits /\ edits' = edits + 1 /\ UNCHANGED <<call, calls, acked, broken>>

-----------------------------------------------------------------------------
(* Lead lists *)

\* source_to_list: the live search found the person.
SourceToList(c, l) == Open(c, "search", l, None, "none", FALSE)

\* Fault: only targets are known.
KnownUrnsTargets == \E k \in Campaigns : target[k].row

\* knownUrns: a target of any campaign, at any stage, or a member of any list.
KnownUrns == (\E k \in Campaigns : target[k].row) \/ (\E l \in Lists : member[l].in)

FilterKnown(c) ==
    /\ At(c, "search")
    /\ IF KnownUrns THEN Answer(c) ELSE Move(c, "insert")
    /\ UNCHANGED <<rows, acked, broken>>

\* insertMembers: a second row for the person in one list is a conflict, and
\* dropped; without the list the foreign key refuses and the call throws.
InsertMembers(c) ==
    LET l == call[c].list IN
    /\ At(c, "insert") /\ Answer(c)
    /\ member' = [member EXCEPT ![l] = IF @.in \/ l \in gone THEN @ ELSE [NotMember EXCEPT !.in = TRUE]]
    /\ UNCHANGED <<gone, target, cursor, invite, acked, broken>>

\* remove_from_list and its web twin.
RemoveMembers(l) ==
    /\ member[l].in /\ Edit
    /\ member' = [member EXCEPT ![l] = NotMember]
    /\ UNCHANGED <<gone, target, cursor, invite>>

\* delete_list: the members go with the list; targets made from them stay.
DeleteList(l) ==
    /\ l \notin gone /\ Edit
    /\ gone' = gone \cup {l}
    /\ member' = [member EXCEPT ![l] = NotMember]
    /\ UNCHANGED <<target, cursor, invite>>

\* score_list: the members are read once; the profile is fetched live ...
ScoreList(c, l) == member[l].in /\ Open(c, "score", l, None, member[l].by, FALSE)

\* ... and the heuristic's verdict lands unless the row read held another scorer's.
ScoreMember(c, fit) ==
    LET l == call[c].list IN
    /\ At(c, "score") /\ Answer(c)
    /\ member' = [member EXCEPT ![l] =
         IF @.in /\ call[c].saw # "harness" THEN [@ EXCEPT !.fit = fit, !.by = "heuristic"] ELSE @]
    /\ UNCHANGED <<gone, target, cursor, invite, acked, broken>>

\* score_leads: the agent's own verdict, merged into the row.
ScoreLeads(l, fit) ==
    /\ member[l].in /\ Edit
    /\ member' = [member EXCEPT ![l].fit = fit, ![l].by = "harness"]
    /\ UNCHANGED <<gone, target, cursor, invite>>

-----------------------------------------------------------------------------
(* Enrolling *)

\* enroll_from_list: members at or above the score, as the list was read.
EnrollFromList(c, l, k) == member[l].in /\ member[l].fit /\ Open(c, "add", l, k, "none", FALSE)

\* addTargets: any row of the person in the campaign, a removed one too, wins
\* over the new one; only rows really inserted come back.
AddTargets(c) ==
    LET k == call[c].camp IN
    /\ At(c, "add")
    /\ IF target[k].row
       THEN Answer(c) /\ UNCHANGED target
       ELSE Move(c, "check") /\ target' = [target EXCEPT ![k] = [NoTarget EXCEPT !.row = TRUE]]
    /\ UNCHANGED <<member, gone, cursor, invite, acked, broken>>

EnrollTargets(c, k) == target[k].row /\ Open(c, "check", None, k, "none", FALSE)

\* Fault: the lock looks at this campaign's own rows.
CheckTargetOwn(c) ==
    LET k == call[c].camp IN
    /\ At(c, "check")
    /\ IF target[k].removed \/ Contacted \cap {k} # {} THEN Answer(c) ELSE Move(c, "enroll")
    /\ UNCHANGED <<rows, acked, broken>>

\* enrollTargets: skip the removed and those another campaign is in contact with ...
CheckTarget(c) ==
    LET k == call[c].camp IN
    /\ At(c, "check")
    /\ IF target[k].removed \/ Contacted \ {k} # {} THEN Answer(c) ELSE Move(c, "enroll")
    /\ UNCHANGED <<rows, acked, broken>>

\* What the new cursor was created in spite of.
Broken(c, k) ==
    broken \cup (IF k \in call[c].barred THEN {"removal"} ELSE {})
           \cup (IF At(c, "enroll") /\ (call[c].locked \cap Contacted) \ {k} # {} THEN {"contact"} ELSE {})

\* Insert the cursor; an existing one stays as it is.
NewCursor(c, k) ==
    /\ cursor' = [cursor EXCEPT ![k] = IF @ = "none" THEN "in_progress" ELSE @]
    /\ broken' = IF cursor[k] = "none" THEN Broken(c, k) ELSE broken

\* ... then, the company verified off the profile or not, enroll.
EnrollTarget(c) ==
    LET k == call[c].camp IN
    /\ At(c, "enroll") /\ Answer(c)
    /\ NewCursor(c, k)
    /\ \E got \in BOOLEAN : target' = [target EXCEPT ![k].verified = @ \/ got]
    /\ UNCHANGED <<member, gone, invite, acked>>

\* launchCampaign reads the targets that are not removed, then inserts cursors.
Launch(c, k) ==
    /\ target[k].row /\ ~target[k].removed
    /\ Open(c, "launch", None, k, "none", FALSE)

LaunchInsert(c) ==
    /\ At(c, "launch") /\ Answer(c)
    /\ NewCursor(c, call[c].camp)
    /\ UNCHANGED <<member, gone, target, invite, acked>>

\* attach_external_context: a merge inside the database.
AttachExternalContext(k) ==
    /\ target[k].row /\ Edit
    /\ target' = [target EXCEPT ![k].verified = TRUE]
    /\ UNCHANGED <<member, gone, cursor, invite>>

-----------------------------------------------------------------------------
(* Removing *)

\* removeTargets reads the row: its stage decides what the removal looks like.
RemoveTargets(c, k) ==
    target[k].row /\ Open(c, "exclude", None, k, target[k].stage, target[k].verified)

\* stopFunnel's two updates: the cursor ...
StopCursor(c) ==
    LET k == call[c].camp IN
    /\ At(c, "exclude") /\ Move(c, "cancel")
    /\ cursor' = [cursor EXCEPT ![k] = IF @ \in ActiveProgressStates THEN "skipped" ELSE @]
    /\ UNCHANGED <<member, gone, target, invite, acked, broken>>

Cancelled(m) == IF m \in CancelableMessageStatuses THEN "cancelled" ELSE m
Lost(t, saw) == IF saw \in ContactedTargetStages THEN [t EXCEPT !.stage = "lost"] ELSE t

\* ... and the undelivered messages.
CancelSends(c) ==
    LET k == call[c].camp IN
    /\ At(c, "cancel") /\ Move(c, "lost")
    /\ invite' = [invite EXCEPT ![k] = Cancelled(@)]
    /\ UNCHANGED <<member, gone, target, cursor, acked, broken>>

MarkLost(c) ==
    LET k == call[c].camp IN
    /\ At(c, "lost") /\ Move(c, "stamp")
    /\ target' = [target EXCEPT ![k] = Lost(@, call[c].saw)]
    /\ UNCHANGED <<member, gone, cursor, invite, acked, broken>>

\* Fault: the blob that was read is written back as it was.
StampRemovedForgets(c) ==
    LET k == call[c].camp IN
    /\ At(c, "stamp") /\ Answer(c)
    /\ target' = [target EXCEPT ![k].verified = call[c].had]
    /\ acked' = acked \cup {k}
    /\ UNCHANGED <<member, gone, cursor, invite, broken>>

\* The marker goes into the context as it was read, and replaces the stored one.
StampRemoved(c) ==
    LET k == call[c].camp IN
    /\ At(c, "stamp") /\ Answer(c)
    /\ target' = [target EXCEPT ![k].removed = TRUE, ![k].verified = call[c].had]
    /\ acked' = acked \cup {k}
    /\ UNCHANGED <<member, gone, cursor, invite, broken>>

\* removeCampaignTargets of the web server: the stage is read, the rest commits at once.
WebRemove(c, k) ==
    target[k].row /\ Open(c, "commit", None, k, target[k].stage, FALSE)

WebCommit(c) ==
    LET k == call[c].camp IN
    /\ At(c, "commit") /\ Answer(c)
    /\ cursor' = [cursor EXCEPT ![k] = IF @ \in ActiveProgressStates THEN "skipped" ELSE @]
    /\ invite' = [invite EXCEPT ![k] = Cancelled(@)]
    /\ target' = [target EXCEPT ![k] = [Lost(@, call[c].saw) EXCEPT !.removed = TRUE]]
    /\ acked' = acked \cup {k}
    /\ UNCHANGED <<member, gone, broken>>

-----------------------------------------------------------------------------
(* The first invite, as the dispatch tick and the operator make it: see Funnel *)

DraftInvite(k) ==
    /\ cursor[k] = "in_progress" /\ invite[k] = "none" /\ Contacted \ {k} = {}
    /\ invite' = [invite EXCEPT ![k] = "draft"]
    /\ cursor' = [cursor EXCEPT ![k] = "awaiting_approval"]
    /\ UNCHANGED <<member, gone, target, call, acked, broken, calls, edits>>

Approve(k) ==
    /\ invite[k] = "draft"
    /\ invite' = [invite EXCEPT ![k] = "approved"]
    /\ UNCHANGED <<member, gone, target, cursor, call, acked, broken, calls, edits>>

\* An approved connect goes out whatever its cursor says.
SendInvite(k) ==
    /\ invite[k] = "approved"
    /\ invite' = [invite EXCEPT ![k] = "sent"]
    /\ target' = [target EXCEPT ![k].stage = "invited"]
    /\ cursor' = [cursor EXCEPT ![k] = IF @ = "awaiting_approval" THEN "awaiting_connection" ELSE @]
    /\ UNCHANGED <<member, gone, call, acked, broken, calls, edits>>

\* The process restarts: open requests are gone, what they wrote stays.
Crash ==
    /\ \E c \in Callers : call[c] # NoCall
    /\ call' = [c \in Callers |-> NoCall]
    /\ UNCHANGED <<rows, acked, broken, calls, edits>>

-----------------------------------------------------------------------------
Init ==
    /\ member = [l \in Lists |-> NotMember] /\ gone = {}
    /\ target \in [Campaigns -> {NoTarget, [NoTarget EXCEPT !.row = TRUE]}]
    /\ cursor = [k \in Campaigns |-> "none"] /\ invite = [k \in Campaigns |-> "none"]
    /\ call = [c \in Callers |-> NoCall]
    /\ acked = {} /\ broken = {} /\ calls = 0 /\ edits = 0

ListStep(c) ==
    \/ \E l \in Lists : SourceToList(c, l) \/ ScoreList(c, l)
    \/ FilterKnown(c) \/ InsertMembers(c)
    \/ \E fit \in BOOLEAN : ScoreMember(c, fit)

EnrollStep(c) ==
    \/ \E k \in Campaigns, l \in Lists : EnrollFromList(c, l, k)
    \/ \E k \in Campaigns : EnrollTargets(c, k) \/ Launch(c, k)
    \/ AddTargets(c) \/ CheckTarget(c) \/ EnrollTarget(c) \/ LaunchInsert(c)

RemoveStep(c) ==
    \/ \E k \in Campaigns : RemoveTargets(c, k) \/ WebRemove(c, k)
    \/ StopCursor(c) \/ CancelSends(c) \/ MarkLost(c) \/ StampRemoved(c) \/ WebCommit(c)

Next ==
    \/ \E c \in Callers : ListStep(c) \/ EnrollStep(c) \/ RemoveStep(c)
    \/ \E l \in Lists : RemoveMembers(l) \/ DeleteList(l) \/ (\E fit \in BOOLEAN : ScoreLeads(l, fit))
    \/ \E k \in Campaigns : AttachExternalContext(k) \/ DraftInvite(k) \/ Approve(k) \/ SendInvite(k)
    \/ Crash

Spec == Init /\ [][Next]_vars

-----------------------------------------------------------------------------
(* Properties *)

MemberType == [in : BOOLEAN, fit : BOOLEAN, by : {"none", "heuristic", "harness"}]
TargetType == [row : BOOLEAN, stage : TargetStages, removed : BOOLEAN, verified : BOOLEAN]
CallPlaces == {"idle", "search", "insert", "score", "add", "check", "enroll", "launch",
               "exclude", "cancel", "lost", "stamp", "commit"}
CallType ==
    [at : CallPlaces, list : Lists \cup {None}, camp : Campaigns \cup {None},
     saw : TargetStages \cup {"none", "heuristic", "harness"}, had : BOOLEAN,
     barred : SUBSET Campaigns, locked : SUBSET Campaigns]

\* Rows hold values of the schema, calls stand at one of their awaits.
TypeOK ==
    /\ member \in [Lists -> MemberType] /\ gone \subseteq Lists
    /\ target \in [Campaigns -> TargetType]
    /\ cursor \in [Campaigns -> ProgressStates \cup {"none"}]
    /\ invite \in [Campaigns -> MessageStatuses \cup {"none"}]
    /\ call \in [Callers -> CallType]
    /\ acked \subseteq Campaigns /\ broken \subseteq {"removal", "contact"}
    /\ calls \in Nat /\ edits \in Nat

(* The locks hold against everything that begins after them: once a removal has
   been answered, no enroll or launch that begins afterwards puts the person
   back, for the marker survives every later write of the row; and an enroll
   that begins while another campaign is in contact with the person, and stays
   so, does not enroll them. *)
LaterCallsAreBound == broken = {}

Pending == {c \in Callers : At(c, "insert")}

\* Sourcing surfaces new people only: the person is in no more lists than there
\* were requests open at the same time, those about to insert included.
SourcedOncePerCaller ==
    Cardinality({l \in Lists : member[l].in}) + Cardinality(Pending) <= Cardinality(Callers)

\* A context attached to a target is lost only to the removal of that target.
ContextLostOnlyToRemoval ==
    [][\A k \in Campaigns : target[k].verified /\ ~target'[k].verified => target'[k].removed]_vars

\* "An operator-removed target must never re-enter the funnel."
RemovedNeverReenters == \A k \in acked : cursor[k] \notin ActiveProgressStates
=============================================================================
