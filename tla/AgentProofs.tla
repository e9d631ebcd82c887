---------------------------- MODULE AgentProofs ----------------------------
(***************************************************************************)
(* What holds of the sourcing, enrolling and removing of a person and of   *)
(* the control loop's passes, for any number of lists, campaigns, callers  *)
(* and passes: the locks of a removal and of another campaign's contact    *)
(* bind every call that begins after them, sourcing surfaces a person once *)
(* per open request, an attached context is lost only to a removal, the    *)
(* inbox reads the gate's mind, and a pass answers what it heard.          *)
(***************************************************************************)
EXTENDS Sourcing, AgentLoop, TLAPS, FiniteSetTheorems

-----------------------------------------------------------------------------
(* Sourcing: the invariant *)

\* Where an open call goes by a campaign, and where it goes by its row there.
CampaignPlaces ==
    {"add", "check", "enroll", "launch", "exclude", "cancel", "lost", "stamp", "commit"}
RowPlaces == CampaignPlaces \ {"add"}

\* A person without a row has no context, a removal that was answered left its
\* marker, and a contact began with an invite that was sent.
RowInv ==
    \A k \in Campaigns :
        /\ ~target[k].row => ~target[k].verified
        /\ k \in acked => target[k].row /\ target[k].removed
        /\ k \in Contacted => invite[k] = "sent"

\* A call that got past the locks is not bound by any of those it began after:
\* no marker can have been there, and a contact that ended does not come back,
\* for its invite was sent and is sent once.
CallOK(c) ==
    /\ call[c].at \in CampaignPlaces => call[c].camp \in Campaigns
    /\ call[c].at \in RowPlaces => target[call[c].camp].row
    /\ call[c].barred \subseteq acked
    /\ call[c].at \in {"enroll", "launch"} => call[c].camp \notin call[c].barred
    /\ \A x \in call[c].locked : invite[x] = "sent"
    /\ call[c].at = "enroll" => call[c].locked \cap Contacted \subseteq {call[c].camp}

LockInv == RowInv /\ (\A c \in Callers : CallOK(c)) /\ LaterCallsAreBound

-----------------------------------------------------------------------------
(* Sourcing: types *)

LEMMA CallTypes ==
    ASSUME TypeOK, NEW c \in Callers
    PROVE  /\ NoCall \in CallType
           /\ Answer(c) => call' \in [Callers -> CallType] /\ calls' \in Nat /\ edits' \in Nat
           /\ \A p \in CallPlaces : Move(c, p) =>
                call' \in [Callers -> CallType] /\ calls' \in Nat /\ edits' \in Nat
<1>1. NoCall \in CallType
  BY DEF NoCall, CallType, CallPlaces
<1>2. \A p \in CallPlaces : [call[c] EXCEPT !.at = p] \in CallType
  BY DEF TypeOK, CallType
<1>3. ASSUME NEW p \in CallPlaces, Move(c, p)
      PROVE  call' \in [Callers -> CallType] /\ calls' \in Nat /\ edits' \in Nat
  <2>1. call' = [call EXCEPT ![c] = [call[c] EXCEPT !.at = p]] /\ UNCHANGED <<calls, edits>>
    BY <1>3 DEF Move
  <2> QED  BY <1>2, <2>1 DEF TypeOK
<1>4. Answer(c) => call' \in [Callers -> CallType] /\ calls' \in Nat /\ edits' \in Nat
  BY <1>1 DEF Answer, TypeOK
<1> QED  BY <1>1, <1>3, <1>4

LEMMA OpenType ==
    ASSUME TypeOK, NEW c \in Callers, NEW at \in CallPlaces,
           NEW l \in Lists \cup {None}, NEW k \in Campaigns \cup {None},
           NEW saw \in TargetStages \cup {"none", "heuristic", "harness"}, NEW had \in BOOLEAN,
           Open(c, at, l, k, saw, had)
    PROVE  TypeOK'
<1> DEFINE r == [at |-> at, list |-> l, camp |-> k, saw |-> saw, had |-> had,
                 barred |-> acked, locked |-> Contacted]
<1>1. r \in CallType
  BY DEF CallType, TypeOK, Contacted
<1>2. call' = [call EXCEPT ![c] = r] /\ calls' = calls + 1
        /\ UNCHANGED <<member, gone, target, cursor, invite, acked, broken, edits>>
  BY DEF Open, rows
<1> HIDE DEF r
<1> QED  BY <1>1, <1>2 DEF TypeOK

LEMMA MemberTypes ==
    ASSUME NEW m \in MemberType, NEW f \in BOOLEAN, NEW b \in {"none", "heuristic", "harness"}
    PROVE  /\ NotMember \in MemberType /\ ~NotMember.in
           /\ [NotMember EXCEPT !.in = TRUE] \in MemberType
           /\ [m EXCEPT !.fit = f, !.by = b] \in MemberType
           /\ [m EXCEPT !.fit = f, !.by = b].in = m.in
BY DEF MemberType, NotMember

LEMMA TargetTypes ==
    ASSUME NEW t \in TargetType, NEW saw, NEW b \in BOOLEAN
    PROVE  /\ [NoTarget EXCEPT !.row = TRUE] \in TargetType
           /\ Lost(t, saw) \in TargetType /\ Lost(t, saw).row = t.row
           /\ Lost(t, saw).removed = t.removed /\ Lost(t, saw).verified = t.verified
           /\ Lost(t, saw).stage \in {t.stage, "lost"}
           /\ [Lost(t, saw) EXCEPT !.removed = TRUE] \in TargetType
           /\ [t EXCEPT !.removed = TRUE, !.verified = b] \in TargetType
           /\ [t EXCEPT !.verified = b] \in TargetType
           /\ [t EXCEPT !.stage = "invited"] \in TargetType
BY DEF TargetType, NoTarget, Lost, TargetStages

\* Every step keeps the rows and the calls within the schema.
LEMMA TypeStep ==
    ASSUME TypeOK, \A c \in Callers : CallOK(c), [Next]_vars PROVE TypeOK'
<1>a. /\ \A l \in Lists : member[l] \in MemberType
      /\ \A k \in Campaigns : target[k] \in TargetType
      /\ \A c \in Callers : call[c] \in CallType
  BY DEF TypeOK
<1>0. CASE UNCHANGED vars
  BY <1>0 DEF vars, TypeOK
<1>1. ASSUME NEW c \in Callers, ListStep(c) PROVE TypeOK'
  <2>1. ASSUME NEW l \in Lists, SourceToList(c, l) \/ ScoreList(c, l) PROVE TypeOK'
    <3>1. member[l].by \in {"none", "heuristic", "harness"}
      BY <1>a DEF MemberType
    <3>2. \E at \in {"search", "score"}, saw \in {"none", member[l].by} : Open(c, at, l, None, saw, FALSE)
      BY <2>1 DEF SourceToList, ScoreList
    <3> QED  BY <3>1, <3>2, OpenType DEF CallPlaces
  <2>2. CASE FilterKnown(c)
    <3>1. Answer(c) \/ Move(c, "insert")
      BY <2>2 DEF FilterKnown
    <3>2. UNCHANGED <<member, gone, target, cursor, invite, acked, broken>>
      BY <2>2 DEF FilterKnown, rows
    <3> QED  BY <3>1, <3>2, CallTypes DEF TypeOK, CallPlaces
  <2>3. CASE InsertMembers(c)
    <3>1. /\ Answer(c) /\ UNCHANGED <<gone, target, cursor, invite, acked, broken>>
          /\ \/ member' = member
             \/ member' = [member EXCEPT ![call[c].list] = [NotMember EXCEPT !.in = TRUE]]
      BY <2>3 DEF InsertMembers, TypeOK
    <3>2. [NotMember EXCEPT !.in = TRUE] \in MemberType
      BY DEF MemberType, NotMember
    <3> QED  BY <3>1, <3>2, CallTypes DEF TypeOK
  <2>4. ASSUME NEW fit \in BOOLEAN, ScoreMember(c, fit) PROVE TypeOK'
    <3> DEFINE m == [member[call[c].list] EXCEPT !.fit = fit, !.by = "heuristic"]
    <3>1. /\ Answer(c) /\ UNCHANGED <<gone, target, cursor, invite, acked, broken>>
          /\ member' = member \/ member' = [member EXCEPT ![call[c].list] = m]
      BY <2>4 DEF ScoreMember, TypeOK
    <3>2. call[c].list \in Lists => m \in MemberType
      BY <1>a, MemberTypes
    <3> HIDE DEF m
    <3>3. member' \in [Lists -> MemberType]
      BY <3>1, <3>2 DEF TypeOK
    <3> QED  BY <3>1, <3>3, CallTypes DEF TypeOK
  <2> QED  BY <1>1, <2>1, <2>2, <2>3, <2>4 DEF ListStep
<1>2. ASSUME NEW c \in Callers, EnrollStep(c) PROVE TypeOK'
  <2>1. ASSUME NEW k \in Campaigns, NEW l \in Lists, EnrollFromList(c, l, k) PROVE TypeOK'
    BY <2>1, OpenType DEF EnrollFromList, CallPlaces
  <2>2. ASSUME NEW k \in Campaigns, EnrollTargets(c, k) \/ Launch(c, k) PROVE TypeOK'
    BY <2>2, OpenType DEF EnrollTargets, Launch, CallPlaces
  <2>3. CASE AddTargets(c)
    <3>1. /\ UNCHANGED <<member, gone, cursor, invite, acked, broken>>
          /\ \/ Answer(c) /\ target' = target
             \/ Move(c, "check") /\ target' = [target EXCEPT ![call[c].camp] = [NoTarget EXCEPT !.row = TRUE]]
      BY <2>3 DEF AddTargets
    <3>2. [NoTarget EXCEPT !.row = TRUE] \in TargetType
      BY DEF TargetType, NoTarget, TargetStages
    <3> QED  BY <3>1, <3>2, CallTypes DEF TypeOK, CallPlaces
  <2>4. CASE CheckTarget(c)
    <3>1. Answer(c) \/ Move(c, "enroll")
      BY <2>4 DEF CheckTarget
    <3>2. UNCHANGED <<member, gone, target, cursor, invite, acked, broken>>
      BY <2>4 DEF CheckTarget, rows
    <3> QED  BY <3>1, <3>2, CallTypes DEF TypeOK, CallPlaces
  <2>5. ASSUME NEW k \in Campaigns, NewCursor(c, k)
        PROVE  cursor' \in [Campaigns -> ProgressStates \cup {"none"}] /\ broken' \subseteq {"removal", "contact"}
    BY <2>5 DEF NewCursor, Broken, TypeOK, ProgressStates
  <2>6. CASE EnrollTarget(c)
    <3>1. call[c].camp \in Campaigns /\ NewCursor(c, call[c].camp) /\ Answer(c)
            /\ UNCHANGED <<member, gone, invite, acked>>
      BY <2>6 DEF EnrollTarget, CallOK, CampaignPlaces, At
    <3>2. PICK got \in BOOLEAN : target' = [target EXCEPT ![call[c].camp].verified = @ \/ got]
      BY <2>6 DEF EnrollTarget
    <3>3. target' \in [Campaigns -> TargetType]
      <4> DEFINE v == [target[call[c].camp] EXCEPT !.verified = @ \/ got]
      <4>1. v \in TargetType
        BY <1>a, <3>1 DEF TargetType
      <4>2. target' = [target EXCEPT ![call[c].camp] = v]
        BY <3>1, <3>2 DEF TypeOK
      <4> HIDE DEF v
      <4> QED  BY <3>1, <4>1, <4>2 DEF TypeOK
    <3> QED  BY <2>5, <3>1, <3>3, CallTypes DEF TypeOK
  <2>7. CASE LaunchInsert(c)
    <3>1. call[c].camp \in Campaigns /\ NewCursor(c, call[c].camp) /\ Answer(c)
            /\ UNCHANGED <<member, gone, target, invite, acked>>
      BY <2>7 DEF LaunchInsert, CallOK, CampaignPlaces, At
    <3> QED  BY <2>5, <3>1, CallTypes DEF TypeOK
  <2> QED  BY <1>2, <2>1, <2>2, <2>3, <2>4, <2>6, <2>7 DEF EnrollStep
<1>3. ASSUME NEW c \in Callers, RemoveStep(c) PROVE TypeOK'
  <2>1. ASSUME NEW k \in Campaigns, RemoveTargets(c, k) \/ WebRemove(c, k) PROVE TypeOK'
    <3>1. target[k].stage \in TargetStages /\ target[k].verified \in BOOLEAN
      BY <1>a DEF TargetType
    <3>2. \E at \in {"exclude", "commit"}, had \in BOOLEAN : Open(c, at, None, k, target[k].stage, had)
      BY <2>1, <3>1 DEF RemoveTargets, WebRemove
    <3> QED  BY <3>1, <3>2, OpenType DEF CallPlaces
  <2>2. ASSUME StopCursor(c) \/ CancelSends(c) PROVE TypeOK'
    <3>1. /\ Move(c, "cancel") \/ Move(c, "lost")
          /\ UNCHANGED <<member, gone, target, acked, broken>>
          /\ cursor' \in [Campaigns -> ProgressStates \cup {"none"}]
          /\ invite' \in [Campaigns -> MessageStatuses \cup {"none"}]
      BY <2>2 DEF StopCursor, CancelSends, Cancelled, TypeOK, ProgressStates, MessageStatuses
    <3> QED  BY <3>1, CallTypes DEF TypeOK, CallPlaces
  <2>3. CASE MarkLost(c)
    <3>1. /\ Move(c, "stamp") /\ UNCHANGED <<member, gone, cursor, invite, acked, broken>>
          /\ target' = [target EXCEPT ![call[c].camp] = Lost(@, call[c].saw)]
      BY <2>3 DEF MarkLost
    <3>2. \A k \in Campaigns : Lost(target[k], call[c].saw) \in TargetType
      BY <1>a, TargetTypes
    <3> QED  BY <3>1, <3>2, CallTypes DEF TypeOK, CallPlaces
  <2>4. CASE StampRemoved(c)
    <3>1. /\ Answer(c) /\ UNCHANGED <<member, gone, cursor, invite, broken>>
          /\ call[c].camp \in Campaigns /\ acked' = acked \cup {call[c].camp}
          /\ target' = [target EXCEPT ![call[c].camp].removed = TRUE, ![call[c].camp].verified = call[c].had]
      BY <2>4 DEF StampRemoved, CallOK, CampaignPlaces, At
    <3>2. call[c].had \in BOOLEAN
      BY <1>a DEF CallType
    <3>3. target' \in [Campaigns -> TargetType]
      <4> DEFINE v == [target[call[c].camp] EXCEPT !.removed = TRUE, !.verified = call[c].had]
      <4>1. v \in TargetType
        BY <1>a, <3>1, <3>2 DEF TargetType
      <4>2. target' = [target EXCEPT ![call[c].camp] = v]
        BY <3>1 DEF TypeOK
      <4> HIDE DEF v
      <4> QED  BY <3>1, <4>1, <4>2 DEF TypeOK
    <3> QED  BY <3>1, <3>3, CallTypes DEF TypeOK
  <2>5. CASE WebCommit(c)
    <3>1. /\ Answer(c) /\ UNCHANGED <<member, gone, broken>>
          /\ call[c].camp \in Campaigns /\ acked' = acked \cup {call[c].camp}
          /\ cursor' \in [Campaigns -> ProgressStates \cup {"none"}]
          /\ invite' \in [Campaigns -> MessageStatuses \cup {"none"}]
      BY <2>5 DEF WebCommit, CallOK, CampaignPlaces, At, Cancelled, TypeOK, ProgressStates, MessageStatuses
    <3>2. target' = [target EXCEPT ![call[c].camp] =
                       [Lost(target[call[c].camp], call[c].saw) EXCEPT !.removed = TRUE]]
      BY <2>5 DEF WebCommit
    <3>3. [Lost(target[call[c].camp], call[c].saw) EXCEPT !.removed = TRUE] \in TargetType
      BY <1>a, <3>1, TargetTypes
    <3> QED  BY <3>1, <3>2, <3>3, CallTypes DEF TypeOK
  <2> QED  BY <1>3, <2>1, <2>2, <2>3, <2>4, <2>5 DEF RemoveStep
<1>4. ASSUME NEW l \in Lists, RemoveMembers(l) \/ DeleteList(l) PROVE TypeOK'
  <2>1. /\ member' = [member EXCEPT ![l] = NotMember] /\ gone' \subseteq Lists
        /\ edits' = edits + 1 /\ UNCHANGED <<target, cursor, invite, call, calls, acked, broken>>
    BY <1>4 DEF RemoveMembers, DeleteList, Edit, TypeOK
  <2>2. NotMember \in MemberType
    BY DEF NotMember, MemberType
  <2> QED  BY <2>1, <2>2 DEF TypeOK
<1>5. ASSUME NEW l \in Lists, NEW fit \in BOOLEAN, ScoreLeads(l, fit) PROVE TypeOK'
  <2>1. /\ member' = [member EXCEPT ![l].fit = fit, ![l].by = "harness"]
        /\ edits' = edits + 1 /\ UNCHANGED <<gone, target, cursor, invite, call, calls, acked, broken>>
    BY <1>5 DEF ScoreLeads, Edit
  <2>2. member' \in [Lists -> MemberType]
    <3> DEFINE v == [member[l] EXCEPT !.fit = fit, !.by = "harness"]
    <3>1. v \in MemberType
      BY <1>a DEF MemberType
    <3>2. member' = [member EXCEPT ![l] = v]
      BY <2>1 DEF TypeOK
    <3> HIDE DEF v
    <3> QED  BY <3>1, <3>2 DEF TypeOK
  <2> QED  BY <2>1, <2>2 DEF TypeOK
<1>6. ASSUME NEW k \in Campaigns, AttachExternalContext(k) PROVE TypeOK'
  <2>1. /\ target' = [target EXCEPT ![k].verified = TRUE]
        /\ edits' = edits + 1 /\ UNCHANGED <<member, gone, cursor, invite, call, calls, acked, broken>>
    BY <1>6 DEF AttachExternalContext, Edit
  <2>2. target' \in [Campaigns -> TargetType]
    <3> DEFINE v == [target[k] EXCEPT !.verified = TRUE]
    <3>1. v \in TargetType
      BY <1>a DEF TargetType
    <3>2. target' = [target EXCEPT ![k] = v]
      BY <2>1 DEF TypeOK
    <3> HIDE DEF v
    <3> QED  BY <3>1, <3>2 DEF TypeOK
  <2> QED  BY <2>1, <2>2 DEF TypeOK
<1>7. ASSUME NEW k \in Campaigns, DraftInvite(k) \/ Approve(k) PROVE TypeOK'
  BY <1>7 DEF DraftInvite, Approve, TypeOK, ProgressStates, MessageStatuses
<1>8. ASSUME NEW k \in Campaigns, SendInvite(k) PROVE TypeOK'
  <2>1. target' = [target EXCEPT ![k].stage = "invited"]
          /\ UNCHANGED <<member, gone, call, acked, broken, calls, edits>>
    BY <1>8 DEF SendInvite
  <2>2. target' \in [Campaigns -> TargetType]
    BY <1>a, <2>1 DEF TypeOK, TargetType, TargetStages
  <2>3. cursor' \in [Campaigns -> ProgressStates \cup {"none"}]
          /\ invite' \in [Campaigns -> MessageStatuses \cup {"none"}]
    BY <1>8 DEF SendInvite, TypeOK, ProgressStates, MessageStatuses
  <2> QED  BY <2>1, <2>2, <2>3 DEF TypeOK
<1>9. CASE Crash
  <2>1. NoCall \in CallType
    BY DEF NoCall, CallType, CallPlaces
  <2> QED  BY <1>9, <2>1 DEF Crash, rows, TypeOK
<1> QED  BY <1>0, <1>1, <1>2, <1>3, <1>4, <1>5, <1>6, <1>7, <1>8, <1>9 DEF Next

-----------------------------------------------------------------------------
(* Sourcing: the locks *)

ContextKept == \A k \in Campaigns : target[k].verified /\ ~target'[k].verified => target'[k].removed

\* What no step takes back: an answered removal, a row, a sent invite; and what
\* a step brings into contact had not been invited.
RowsGrow ==
    /\ acked \subseteq acked'
    /\ \A k \in Campaigns : target[k].row => target'[k].row
    /\ \A k \in Campaigns : invite[k] = "sent" => invite'[k] = "sent"
    /\ \A k \in Campaigns : k \in Contacted' => k \in Contacted \/ invite[k] # "sent"

Rests == RowsGrow /\ RowInv' /\ ContextKept

\* A call that takes no step stays free of the locks it began after.
LEMMA CallKept ==
    ASSUME TypeOK, RowsGrow, NEW d \in Callers, CallOK(d), call'[d] = call[d] PROVE CallOK(d)'
<1>1. call[d].locked \subseteq Campaigns
  BY DEF TypeOK, CallType
<1> QED  BY <1>1 DEF CallOK, RowsGrow, CampaignPlaces, RowPlaces

LEMMA NoCallOK ==
    ASSUME NEW d \in Callers, call'[d] = NoCall PROVE CallOK(d)'
BY DEF CallOK, NoCall, CampaignPlaces, RowPlaces

LEMMA CallsKept ==
    ASSUME TypeOK, \A d \in Callers : CallOK(d), RowsGrow,
           \A d \in Callers : call'[d] = call[d] \/ call'[d] = NoCall \/ CallOK(d)'
    PROVE  \A d \in Callers : CallOK(d)'
BY CallKept, NoCallOK

\* A call that ended, and one that went on to a place it may be at.
LEMMA Answered ==
    ASSUME TypeOK, LockInv, NEW c \in Callers, Answer(c), RowsGrow
    PROVE  \A d \in Callers : CallOK(d)'
<1>1. \A d \in Callers : call'[d] = call[d] \/ call'[d] = NoCall
  BY DEF Answer, TypeOK
<1> QED  BY <1>1, CallsKept DEF LockInv

LEMMA Moved ==
    ASSUME TypeOK, LockInv, NEW c \in Callers, NEW p \in CallPlaces, Move(c, p), RowsGrow,
           p # "launch", p # "add",
           p \in RowPlaces => call[c].camp \in Campaigns /\ target'[call[c].camp].row,
           p = "enroll" => /\ call[c].camp \notin call[c].barred
                           /\ call[c].locked \cap Contacted' \subseteq {call[c].camp}
    PROVE  \A d \in Callers : CallOK(d)'
<1> DEFINE r == [call[c] EXCEPT !.at = p]
<1>1. call[c] \in CallType /\ CallOK(c)
  BY DEF TypeOK, LockInv
<1>2. /\ r.at = p /\ r.camp = call[c].camp /\ r.barred = call[c].barred
      /\ r.locked = call[c].locked /\ r.locked \subseteq Campaigns
  BY <1>1 DEF CallType
<1>3. call' = [call EXCEPT ![c] = r]
  BY DEF Move
<1> HIDE DEF r
<1>4. call'[c] = r /\ \A d \in Callers : d # c => call'[d] = call[d]
  BY <1>3 DEF TypeOK
<1>5. CallOK(c)'
  BY <1>1, <1>2, <1>4 DEF CallOK, RowsGrow, CampaignPlaces, RowPlaces
<1> QED  BY <1>4, <1>5, CallsKept DEF LockInv

\* A step that leaves the rows of targets and invites alone.
LEMMA RowsRest ==
    ASSUME TypeOK, LockInv, UNCHANGED <<target, invite, acked>> PROVE Rests
BY DEF Rests, RowsGrow, RowInv, LockInv, Contacted, ContextKept

\* A call that begins is bound by nothing yet; a launch begins with a person
\* who was not removed.
LEMMA Opened ==
    ASSUME TypeOK, LockInv, NEW c \in Callers, NEW at \in CallPlaces \ {"enroll"},
           NEW l, NEW k \in Campaigns \cup {None}, NEW saw, NEW had,
           Open(c, at, l, k, saw, had),
           at \in CampaignPlaces => (k \in Campaigns /\ target[k].row) \/ (at = "add" /\ k \in Campaigns),
           at = "launch" => ~target[k].removed
    PROVE  LockInv' /\ Rests
<1> DEFINE r == [at |-> at, list |-> l, camp |-> k, saw |-> saw, had |-> had,
                 barred |-> acked, locked |-> Contacted]
<1>1. /\ r.at = at /\ r.camp = k /\ r.barred = acked /\ r.locked = Contacted
  OBVIOUS
<1>2. call' = [call EXCEPT ![c] = r] /\ UNCHANGED <<target, invite, acked, broken>>
  BY DEF Open, rows
<1> HIDE DEF r
<1>3. call'[c] = r /\ \A d \in Callers : d # c => call'[d] = call[d]
  BY <1>2 DEF TypeOK
<1>4. Rests
  BY <1>2, RowsRest
<1>5. \A x \in Contacted : invite[x] = "sent"
  BY DEF LockInv, RowInv, Contacted
<1>6. CallOK(c)'
  BY <1>1, <1>2, <1>3, <1>5 DEF CallOK, CampaignPlaces, RowPlaces, LockInv, RowInv
<1>7. \A d \in Callers : CallOK(d)'
  BY <1>3, <1>4, <1>6, CallsKept DEF LockInv, Rests
<1> QED  BY <1>2, <1>4, <1>7 DEF LockInv, Rests, LaterCallsAreBound

\* A cursor that a bound call would not create.
LEMMA CursorUnbound ==
    ASSUME TypeOK, LockInv, NEW c \in Callers, call[c].at \in {"enroll", "launch"},
           NewCursor(c, call[c].camp)
    PROVE  broken' = {}
<1>1. CallOK(c) /\ broken = {}
  BY DEF LockInv, LaterCallsAreBound
<1>2. call[c].camp \notin call[c].barred
  BY <1>1 DEF CallOK
<1>3. At(c, "enroll") => (call[c].locked \cap Contacted) \ {call[c].camp} = {}
  BY <1>1 DEF CallOK, At
<1>4. Broken(c, call[c].camp) = {}
  BY <1>1, <1>2, <1>3 DEF Broken
<1> QED  BY <1>1, <1>4 DEF NewCursor

\* The steps of lead lists, which no campaign's row feels.
LEMMA ListKeeps ==
    ASSUME TypeOK, LockInv, NEW c \in Callers, ListStep(c) PROVE LockInv' /\ Rests
<1>1. ASSUME NEW l \in Lists, SourceToList(c, l) \/ ScoreList(c, l) PROVE LockInv' /\ Rests
  <2>1. \E at \in {"search", "score"}, saw \in {"none", member[l].by} : Open(c, at, l, None, saw, FALSE)
    BY <1>1 DEF SourceToList, ScoreList
  <2> QED  BY <2>1, Opened DEF CallPlaces, CampaignPlaces
<1>2. ASSUME NEW fit \in BOOLEAN, FilterKnown(c) \/ InsertMembers(c) \/ ScoreMember(c, fit)
      PROVE  LockInv' /\ Rests
  <2>1. Answer(c) \/ Move(c, "insert")
    BY <1>2 DEF FilterKnown, InsertMembers, ScoreMember
  <2>2. UNCHANGED <<target, invite, acked, broken>>
    BY <1>2 DEF FilterKnown, InsertMembers, ScoreMember, rows
  <2>3. Rests
    BY <2>2, RowsRest
  <2>4. \A d \in Callers : CallOK(d)'
    BY <2>1, <2>3, Answered, Moved DEF Rests, CallPlaces, RowPlaces, CampaignPlaces
  <2> QED  BY <2>2, <2>3, <2>4 DEF LockInv, Rests, LaterCallsAreBound
<1> QED  BY <1>1, <1>2 DEF ListStep

\* A row a call holds, and that it had passed the locks.
LEMMA EnrollKeeps ==
    ASSUME TypeOK, LockInv, NEW c \in Callers, EnrollStep(c) PROVE LockInv' /\ Rests
<1> DEFINE k == call[c].camp
<1>a. CallOK(c) /\ call[c] \in CallType
  BY DEF LockInv, TypeOK
<1>b. \A j \in Campaigns : target[j] \in TargetType
  BY DEF TypeOK
<1>1. ASSUME NEW j \in Campaigns, NEW l \in Lists, EnrollFromList(c, l, j) PROVE LockInv' /\ Rests
  BY <1>1, Opened DEF EnrollFromList, CallPlaces
<1>2. ASSUME NEW j \in Campaigns, EnrollTargets(c, j) \/ Launch(c, j) PROVE LockInv' /\ Rests
  BY <1>2, Opened DEF EnrollTargets, Launch, CallPlaces
<1>3. CASE AddTargets(c)
  <2>1. k \in Campaigns /\ UNCHANGED <<invite, acked, broken>>
    BY <1>a, <1>3 DEF AddTargets, At, CallOK, CampaignPlaces
  <2>2. CASE target[k].row
    <3>1. Answer(c) /\ UNCHANGED target
      BY <1>3, <2>2 DEF AddTargets
    <3>2. Rests
      BY <2>1, <3>1, RowsRest
    <3> QED  BY <2>1, <3>1, <3>2, Answered DEF LockInv, Rests, LaterCallsAreBound
  <2>3. CASE ~target[k].row
    <3>1. Move(c, "check") /\ target' = [target EXCEPT ![k] = [NoTarget EXCEPT !.row = TRUE]]
      BY <1>3, <2>3 DEF AddTargets
    <3>2. /\ target'[k].row /\ ~target'[k].verified /\ target'[k].stage = "sourced"
          /\ \A j \in Campaigns : j # k => target'[j] = target[j]
      BY <2>1, <3>1 DEF TypeOK, NoTarget
    <3>3. k \notin acked /\ ~target[k].verified
      BY <2>1, <2>3 DEF LockInv, RowInv
    <3>4. Rests
      BY <2>1, <3>2, <3>3
         DEF Rests, RowsGrow, RowInv, ContextKept, LockInv, Contacted, ContactedTargetStages
    <3>5. \A d \in Callers : CallOK(d)'
      BY <2>1, <3>1, <3>2, <3>4, Moved DEF Rests, CallPlaces
    <3> QED  BY <2>1, <3>4, <3>5 DEF LockInv, Rests, LaterCallsAreBound
  <2> QED  BY <2>2, <2>3
<1>4. CASE CheckTarget(c)
  <2>1. /\ call[c].at = "check" /\ k \in Campaigns /\ target[k].row
        /\ UNCHANGED <<target, invite, acked, broken>>
        /\ Answer(c) \/ (Move(c, "enroll") /\ ~target[k].removed /\ Contacted \ {k} = {})
    BY <1>4, <1>a DEF CheckTarget, At, CallOK, CampaignPlaces, RowPlaces, rows
  <2>2. Rests
    BY <2>1, RowsRest
  <2>3. ~target[k].removed => k \notin call[c].barred
    BY <1>a, <2>1 DEF LockInv, RowInv, CallOK
  <2>4. Contacted' = Contacted
    BY <2>1 DEF Contacted
  <2>5. \A d \in Callers : CallOK(d)'
    <3>1. CASE Answer(c)
      BY <2>2, <3>1, Answered DEF Rests
    <3>2. ASSUME Move(c, "enroll"), ~target[k].removed, Contacted \ {k} = {}
          PROVE  \A d \in Callers : CallOK(d)'
      BY <2>1, <2>2, <2>3, <2>4, <3>2, Moved DEF Rests, CallPlaces
    <3> QED  BY <2>1, <3>1, <3>2
  <2> QED  BY <2>1, <2>2, <2>5 DEF LockInv, Rests, LaterCallsAreBound
<1>5. CASE EnrollTarget(c)
  <2>1. /\ call[c].at = "enroll" /\ k \in Campaigns /\ target[k].row
        /\ NewCursor(c, k) /\ Answer(c) /\ UNCHANGED <<invite, acked>>
    BY <1>5, <1>a DEF EnrollTarget, At, CallOK, CampaignPlaces, RowPlaces
  <2>2. PICK got \in BOOLEAN : target' = [target EXCEPT ![k].verified = @ \/ got]
    BY <1>5 DEF EnrollTarget
  <2>3. /\ \A j \in Campaigns : /\ target'[j].row = target[j].row
                                /\ target'[j].stage = target[j].stage
                                /\ target'[j].removed = target[j].removed
                                /\ j # k => target'[j] = target[j]
                                /\ target[j].verified => target'[j].verified
    BY <1>b, <2>1, <2>2 DEF TypeOK, TargetType
  <2>4. Rests
    BY <2>1, <2>3 DEF Rests, RowsGrow, RowInv, ContextKept, LockInv, Contacted
  <2>5. broken' = {}
    BY <2>1, CursorUnbound
  <2> QED  BY <2>1, <2>4, <2>5, Answered DEF LockInv, Rests, LaterCallsAreBound
<1>6. CASE LaunchInsert(c)
  <2>1. call[c].at = "launch" /\ NewCursor(c, k) /\ Answer(c) /\ UNCHANGED <<target, invite, acked>>
    BY <1>6 DEF LaunchInsert, At
  <2>2. Rests
    BY <2>1, RowsRest
  <2>3. broken' = {}
    BY <2>1, CursorUnbound
  <2> QED  BY <2>1, <2>2, <2>3, Answered DEF LockInv, Rests, LaterCallsAreBound
<1> QED  BY <1>1, <1>2, <1>3, <1>4, <1>5, <1>6 DEF EnrollStep

\* The steps of a removal leave the row and mark it before they answer.
LEMMA RemoveKeeps ==
    ASSUME TypeOK, LockInv, NEW c \in Callers, RemoveStep(c) PROVE LockInv' /\ Rests
<1> DEFINE k == call[c].camp
<1>a. CallOK(c) /\ call[c] \in CallType
  BY DEF LockInv, TypeOK
<1>b. \A j \in Campaigns : target[j] \in TargetType
  BY DEF TypeOK
<1>1. ASSUME NEW j \in Campaigns, RemoveTargets(c, j) \/ WebRemove(c, j) PROVE LockInv' /\ Rests
  <2>1. target[j].row /\ \E at \in {"exclude", "commit"}, had \in {FALSE, target[j].verified} :
          Open(c, at, None, j, target[j].stage, had)
    BY <1>1 DEF RemoveTargets, WebRemove
  <2> QED  BY <2>1, Opened DEF CallPlaces
<1>2. CASE StopCursor(c)
  <2>1. /\ Move(c, "cancel") /\ UNCHANGED <<target, invite, acked, broken>>
        /\ k \in Campaigns /\ target[k].row
    BY <1>2, <1>a DEF StopCursor, At, CallOK, CampaignPlaces, RowPlaces
  <2>2. Rests
    BY <2>1, RowsRest
  <2>3. \A d \in Callers : CallOK(d)'
    BY <2>1, <2>2, Moved DEF Rests, CallPlaces
  <2> QED  BY <2>1, <2>2, <2>3 DEF LockInv, Rests, LaterCallsAreBound
<1>3. CASE CancelSends(c)
  <2>1. /\ Move(c, "lost") /\ UNCHANGED <<target, acked, broken>>
        /\ invite' = [invite EXCEPT ![k] = Cancelled(@)] /\ k \in Campaigns /\ target[k].row
    BY <1>3, <1>a DEF CancelSends, At, CallOK, CampaignPlaces, RowPlaces
  <2>2. \A j \in Campaigns : invite[j] = "sent" => invite'[j] = "sent"
    BY <2>1 DEF TypeOK, Cancelled, CancelableMessageStatuses
  <2>3. Rests
    BY <2>1, <2>2 DEF Rests, RowsGrow, RowInv, LockInv, Contacted, ContextKept
  <2>4. \A d \in Callers : CallOK(d)'
    BY <2>1, <2>3, Moved DEF Rests, CallPlaces
  <2> QED  BY <2>1, <2>3, <2>4 DEF LockInv, Rests, LaterCallsAreBound
<1>4. CASE MarkLost(c)
  <2>1. /\ Move(c, "stamp") /\ UNCHANGED <<invite, acked, broken>>
        /\ target' = [target EXCEPT ![k] = Lost(target[k], call[c].saw)]
        /\ k \in Campaigns /\ target[k].row
    BY <1>4, <1>a DEF MarkLost, At, CallOK, CampaignPlaces, RowPlaces
  <2>2. \A j \in Campaigns : /\ target'[j].row = target[j].row
                             /\ target'[j].stage \in {target[j].stage, "lost"}
                             /\ target'[j].removed = target[j].removed
                             /\ target'[j].verified = target[j].verified
    <3> DEFINE l == Lost(target[k], call[c].saw)
    <3>1. /\ l.row = target[k].row /\ l.stage \in {target[k].stage, "lost"}
          /\ l.removed = target[k].removed /\ l.verified = target[k].verified
      BY <1>b, <2>1, TargetTypes
    <3> HIDE DEF l
    <3>2. target' = [target EXCEPT ![k] = l]
      BY <2>1 DEF l
    <3> QED  BY <2>1, <3>1, <3>2 DEF TypeOK
  <2>3. Rests
    BY <2>1, <2>2 DEF Rests, RowsGrow, RowInv, LockInv, Contacted, ContextKept, ContactedTargetStages
  <2>4. \A d \in Callers : CallOK(d)'
    BY <2>1, <2>2, <2>3, Moved DEF Rests, CallPlaces
  <2> QED  BY <2>1, <2>3, <2>4 DEF LockInv, Rests, LaterCallsAreBound
<1>5. CASE StampRemoved(c)
  <2>1. /\ Answer(c) /\ UNCHANGED <<invite, broken>> /\ acked' = acked \cup {k}
        /\ target' = [target EXCEPT ![k].removed = TRUE, ![k].verified = call[c].had]
        /\ k \in Campaigns /\ target[k].row
    BY SMTT(60), <1>5, <1>a DEF StampRemoved, At, CallOK, CampaignPlaces, RowPlaces
  <2>2. /\ \A j \in Campaigns : /\ target'[j].row = target[j].row
                                /\ target'[j].stage = target[j].stage
                                /\ j # k => target'[j] = target[j]
        /\ target'[k].removed
    BY <1>b, <2>1 DEF TypeOK, TargetType
  <2>3. Rests
    BY ZenonT(60), <2>1, <2>2 DEF Rests, RowsGrow, RowInv, LockInv, Contacted, ContextKept
  <2> QED  BY <2>1, <2>3, Answered DEF LockInv, Rests, LaterCallsAreBound
<1>6. CASE WebCommit(c)
  <2>1. /\ Answer(c) /\ UNCHANGED broken /\ acked' = acked \cup {k}
        /\ invite' = [invite EXCEPT ![k] = Cancelled(@)]
        /\ target' = [target EXCEPT ![k] = [Lost(target[k], call[c].saw) EXCEPT !.removed = TRUE]]
        /\ k \in Campaigns /\ target[k].row
    BY <1>6, <1>a DEF WebCommit, At, CallOK, CampaignPlaces, RowPlaces
  <2>2. \A j \in Campaigns : invite[j] = "sent" => invite'[j] = "sent"
    BY <2>1 DEF TypeOK, Cancelled, CancelableMessageStatuses
  <2> DEFINE l == Lost(target[k], call[c].saw)
  <2>3. l \in TargetType /\ l.row = target[k].row /\ l.verified = target[k].verified
          /\ l.stage \in {target[k].stage, "lost"}
    BY <1>b, <2>1, TargetTypes
  <2> HIDE DEF l
  <2>4. target' = [target EXCEPT ![k] = [l EXCEPT !.removed = TRUE]]
    BY <2>1 DEF l
  <2>5. /\ \A j \in Campaigns : /\ target'[j].row = target[j].row
                                /\ target'[j].stage \in {target[j].stage, "lost"}
                                /\ target'[j].verified = target[j].verified
                                /\ j # k => target'[j] = target[j]
        /\ target'[k].removed
    <3> DEFINE m == [l EXCEPT !.removed = TRUE]
    <3>1. m.row = l.row /\ m.stage = l.stage /\ m.verified = l.verified /\ m.removed
      BY <2>3 DEF TargetType
    <3>2. target' = [target EXCEPT ![k] = m]
      BY <2>4
    <3> HIDE DEF m
    <3> QED  BY <2>1, <2>3, <3>1, <3>2 DEF TypeOK
  <2>6. Rests
    <3>1. ContextKept
      BY <2>5 DEF ContextKept
    <3>2. Contacted' \subseteq Contacted
      BY <2>5 DEF Contacted, ContactedTargetStages
    <3>3. RowsGrow
      BY <2>1, <2>2, <2>5, <3>2 DEF RowsGrow
    <3>4. RowInv'
      <4>1. \A j \in Campaigns : target'[j].verified = target[j].verified /\ target'[j].row = target[j].row
        BY <2>5
      <4>2. \A j \in acked' : target'[j].row /\ target'[j].removed
        BY <2>1, <2>5 DEF LockInv, RowInv, TypeOK
      <4> QED  BY <2>2, <3>2, <4>1, <4>2 DEF LockInv, RowInv
    <3> QED  BY <3>1, <3>3, <3>4 DEF Rests
  <2> QED  BY <2>1, <2>6, Answered DEF LockInv, Rests, LaterCallsAreBound
<1> QED  BY <1>1, <1>2, <1>3, <1>4, <1>5, <1>6 DEF RemoveStep

\* Every step keeps the locks, and takes a context only with a removal.
LEMMA LockStep ==
    ASSUME TypeOK, LockInv, [Next]_vars PROVE LockInv' /\ ContextKept
<1>b. ASSUME Rests, UNCHANGED <<call, broken>> PROVE LockInv' /\ ContextKept
  BY <1>b, CallsKept DEF Rests, LockInv, LaterCallsAreBound
<1>0. CASE UNCHANGED vars
  BY <1>0, <1>b, RowsRest DEF vars
<1>1. ASSUME NEW c \in Callers, ListStep(c) \/ EnrollStep(c) \/ RemoveStep(c)
      PROVE  LockInv' /\ ContextKept
  BY <1>1, ListKeeps, EnrollKeeps, RemoveKeeps DEF Rests
<1>2. ASSUME NEW l \in Lists, NEW fit \in BOOLEAN, RemoveMembers(l) \/ DeleteList(l) \/ ScoreLeads(l, fit)
      PROVE  LockInv' /\ ContextKept
  BY <1>2, <1>b, RowsRest DEF RemoveMembers, DeleteList, ScoreLeads, Edit
<1>3. ASSUME NEW k \in Campaigns, AttachExternalContext(k) PROVE LockInv' /\ ContextKept
  <2>1. /\ target[k].row /\ target' = [target EXCEPT ![k].verified = TRUE]
        /\ UNCHANGED <<invite, call, acked, broken>>
    BY <1>3 DEF AttachExternalContext, Edit
  <2>2. \A j \in Campaigns : /\ target'[j].row = target[j].row
                             /\ target'[j].stage = target[j].stage
                             /\ target'[j].removed = target[j].removed
                             /\ j # k => target'[j] = target[j]
                             /\ target[j].verified => target'[j].verified
    BY <2>1 DEF TypeOK, TargetType
  <2>3. Rests
    BY <2>1, <2>2 DEF Rests, RowsGrow, RowInv, LockInv, Contacted, ContextKept
  <2> QED  BY <1>b, <2>1, <2>3
<1>4. ASSUME NEW k \in Campaigns, DraftInvite(k) \/ Approve(k) PROVE LockInv' /\ ContextKept
  <2>1. UNCHANGED <<target, call, acked, broken>>
          /\ \A j \in Campaigns : invite[j] = "sent" => invite'[j] = "sent"
    BY <1>4 DEF DraftInvite, Approve, TypeOK
  <2>2. Rests
    BY <2>1 DEF Rests, RowsGrow, RowInv, LockInv, Contacted, ContextKept
  <2> QED  BY <1>b, <2>1, <2>2
<1>5. ASSUME NEW k \in Campaigns, SendInvite(k) PROVE LockInv' /\ ContextKept
  <2>1. /\ UNCHANGED <<call, acked, broken>> /\ invite[k] = "approved"
        /\ target' = [target EXCEPT ![k].stage = "invited"] /\ invite' = [invite EXCEPT ![k] = "sent"]
    BY <1>5 DEF SendInvite
  <2>2. \A j \in Campaigns : /\ target'[j].row = target[j].row
                             /\ target'[j].removed = target[j].removed
                             /\ target'[j].verified = target[j].verified
                             /\ j # k => target'[j] = target[j] /\ invite'[j] = invite[j]
    BY <2>1 DEF TypeOK, TargetType
  <2>3. invite'[k] = "sent"
    BY <2>1 DEF TypeOK
  <2>4. Rests
    BY <2>1, <2>2, <2>3 DEF Rests, RowsGrow, RowInv, LockInv, Contacted, ContextKept
  <2> QED  BY <1>b, <2>1, <2>4
<1>6. CASE Crash
  <2>1. UNCHANGED <<target, invite, acked, broken>> /\ \A d \in Callers : call'[d] = NoCall
    BY <1>6 DEF Crash, rows
  <2> QED  BY <2>1, RowsRest, NoCallOK DEF Rests, LockInv, LaterCallsAreBound
<1> QED  BY <1>0, <1>1, <1>2, <1>3, <1>4, <1>5, <1>6 DEF Next

LEMMA LockInit == Init => TypeOK /\ LockInv
<1> SUFFICES ASSUME Init PROVE TypeOK /\ LockInv
  OBVIOUS
<1>1. /\ \A k \in Campaigns : /\ target[k] \in TargetType
                              /\ ~target[k].verified /\ target[k].stage = "sourced"
      /\ target \in [Campaigns -> TargetType]
  <2> DEFINE T == {NoTarget, [NoTarget EXCEPT !.row = TRUE]}
  <2>1. \A t \in T : t \in TargetType /\ ~t.verified /\ t.stage = "sourced"
    <3>1. NoTarget \in TargetType /\ ~NoTarget.verified /\ NoTarget.stage = "sourced"
      BY DEF NoTarget, TargetType, TargetStages
    <3> DEFINE r == [NoTarget EXCEPT !.row = TRUE]
    <3>2. r \in TargetType /\ ~r.verified /\ r.stage = "sourced"
      BY <3>1 DEF TargetType
    <3> HIDE DEF r
    <3> QED  BY <3>1, <3>2 DEF r
  <2>2. target \in [Campaigns -> T]
    BY DEF Init
  <2> HIDE DEF T
  <2> QED  BY <2>1, <2>2
<1>2. NotMember \in MemberType /\ NoCall \in CallType
  BY DEF NotMember, MemberType, NoCall, CallType, CallPlaces
<1>3. /\ member = [l \in Lists |-> NotMember] /\ gone = {} /\ call = [c \in Callers |-> NoCall]
      /\ cursor = [k \in Campaigns |-> "none"] /\ invite = [k \in Campaigns |-> "none"]
      /\ acked = {} /\ broken = {} /\ calls = 0 /\ edits = 0
  BY DEF Init
<1>4. TypeOK
  BY <1>1, <1>2, <1>3 DEF TypeOK
<1>5. RowInv
  BY <1>1, <1>3 DEF RowInv, Contacted, ContactedTargetStages
<1>6. \A c \in Callers : CallOK(c)
  BY <1>3 DEF CallOK, NoCall, CampaignPlaces, RowPlaces
<1> QED  BY <1>3, <1>4, <1>5, <1>6 DEF LockInv, LaterCallsAreBound

LEMMA SourcingStep == TypeOK /\ LockInv /\ [Next]_vars => TypeOK' /\ LockInv' /\ ContextKept
BY TypeStep, LockStep DEF LockInv

(* The locks bind what begins after them: after an answered removal no enroll
   or launch that begins puts the person back, and none enrolls a person whom
   another campaign was in contact with when it began and still is. *)
THEOREM LocksBindLaterCalls == Spec => []LaterCallsAreBound
<1>1. LockInv => LaterCallsAreBound
  BY DEF LockInv
<1> QED  BY <1>1, LockInit, SourcingStep, PTL DEF Spec

(* A context attached to a target, or a company verified off the profile, is
   lost to nothing but the removal of the target. *)
THEOREM ContextSurvives == Spec => ContextLostOnlyToRemoval
<1>1. TypeOK /\ LockInv /\ [Next]_vars => [ContextKept]_vars
  BY SourcingStep
<1> QED  BY <1>1, LockInit, SourcingStep, PTL DEF Spec, ContextLostOnlyToRemoval, ContextKept

-----------------------------------------------------------------------------
(* Sourcing: one list per open request *)

InLists == {l \in Lists : member[l].in}

SourcedInv == IsFiniteSet(InLists) /\ SourcedOncePerCaller

\* Fewer lists and fewer calls about to insert.
LEMMA FewerLists ==
    ASSUME SourcedInv, InLists' \subseteq InLists, Pending' \subseteq Pending PROVE SourcedInv'
<1>1. IsFiniteSet(Pending) /\ IsFiniteSet(Callers)
  BY SourcingAssumption, FS_Subset DEF Pending
<1>2. IsFiniteSet(InLists') /\ Cardinality(InLists') <= Cardinality(InLists)
  BY FS_Subset DEF SourcedInv
<1>3. IsFiniteSet(Pending') /\ Cardinality(Pending') <= Cardinality(Pending)
  BY <1>1, FS_Subset
<1>4. /\ Cardinality(InLists) \in Nat /\ Cardinality(InLists') \in Nat
      /\ Cardinality(Pending) \in Nat /\ Cardinality(Pending') \in Nat
      /\ Cardinality(Callers) \in Nat
  BY <1>1, <1>2, <1>3, FS_CardinalityType DEF SourcedInv
<1>5. Cardinality(InLists) + Cardinality(Pending) <= Cardinality(Callers)
  BY DEF SourcedInv, SourcedOncePerCaller, InLists
<1>6. Cardinality(InLists') + Cardinality(Pending') <= Cardinality(Callers)
  BY <1>2, <1>3, <1>4, <1>5
<1> QED  BY <1>2, <1>6 DEF SourcedInv, SourcedOncePerCaller, InLists

\* The search found somebody new: in no list, and at most every caller is about
\* to insert them.
LEMMA FilterSources ==
    ASSUME TypeOK, SourcedInv, NEW c \in Callers, FilterKnown(c) PROVE SourcedInv'
<1>1. UNCHANGED member /\ (Answer(c) \/ (~KnownUrns /\ Move(c, "insert")))
  BY DEF FilterKnown, rows
<1>2. InLists' = InLists
  BY <1>1 DEF InLists
<1>3. CASE Answer(c)
  <2>1. Pending' \subseteq Pending
    BY <1>3 DEF Answer, Pending, At, TypeOK, NoCall
  <2> QED  BY <1>2, <2>1, FewerLists
<1>4. CASE ~KnownUrns
  <2>1. InLists = {}
    BY <1>4 DEF KnownUrns, InLists
  <2>2. Pending' \subseteq Callers
    BY DEF Pending
  <2>3. IsFiniteSet(Pending') /\ Cardinality(Pending') <= Cardinality(Callers)
    BY <2>2, SourcingAssumption, FS_Subset
  <2>4. Cardinality(InLists') = 0 /\ IsFiniteSet(InLists')
    BY <1>2, <2>1, FS_EmptySet
  <2>5. Cardinality(Pending') \in Nat /\ Cardinality(Callers) \in Nat
    BY <2>3, SourcingAssumption, FS_CardinalityType
  <2> QED  BY <2>3, <2>4, <2>5 DEF SourcedInv, SourcedOncePerCaller, InLists
<1> QED  BY <1>1, <1>3, <1>4

\* The insert of one caller takes its place among those about to insert.
LEMMA InsertSources ==
    ASSUME TypeOK, SourcedInv, NEW c \in Callers, InsertMembers(c) PROVE SourcedInv'
<1> DEFINE l == call[c].list
<1>1. /\ call[c].at = "insert" /\ call' = [call EXCEPT ![c] = NoCall]
      /\ member' = member \/ member' = [member EXCEPT ![l] = [NotMember EXCEPT !.in = TRUE]]
  BY DEF InsertMembers, At, Answer, TypeOK
<1>2. c \in Pending /\ Pending' = Pending \ {c}
  BY <1>1 DEF Pending, At, TypeOK, NoCall
<1>3. InLists' \subseteq InLists \cup {l}
  BY <1>1 DEF InLists, TypeOK
<1>4. IsFiniteSet(Pending) /\ IsFiniteSet(Callers)
  BY SourcingAssumption, FS_Subset DEF Pending
<1>5. IsFiniteSet(Pending') /\ Cardinality(Pending') = Cardinality(Pending) - 1
  BY <1>2, <1>4, FS_RemoveElement
<1>6. IsFiniteSet(InLists \cup {l}) /\ Cardinality(InLists \cup {l}) <= Cardinality(InLists) + 1
  <2>1. IsFiniteSet(InLists)
    BY DEF SourcedInv
  <2>2. Cardinality(InLists) \in Nat
    BY <2>1, FS_CardinalityType
  <2> QED  BY <2>1, <2>2, FS_AddElement
<1>7. IsFiniteSet(InLists') /\ Cardinality(InLists') <= Cardinality(InLists \cup {l})
  BY <1>3, <1>6, FS_Subset
<1>8. /\ Cardinality(InLists) \in Nat /\ Cardinality(InLists') \in Nat
      /\ Cardinality(InLists \cup {l}) \in Nat
      /\ Cardinality(Pending) \in Nat /\ Cardinality(Callers) \in Nat
  BY <1>4, <1>6, <1>7, FS_CardinalityType DEF SourcedInv
<1>9. Cardinality(InLists) + Cardinality(Pending) <= Cardinality(Callers)
  BY DEF SourcedInv, SourcedOncePerCaller, InLists
<1>10. Cardinality(InLists') + Cardinality(Pending') <= Cardinality(Callers)
  BY <1>5, <1>6, <1>7, <1>8, <1>9
<1> QED  BY <1>7, <1>10 DEF SourcedInv, SourcedOncePerCaller, InLists

\* No other step puts the person into a list or a call before an insert.
LEMMA OthersSource ==
    ASSUME TypeOK, SourcedInv, NEW c \in Callers,
           InLists' \subseteq InLists,
           \/ Answer(c) \/ UNCHANGED call
           \/ \E p \in CallPlaces \ {"insert"} : Move(c, p)
           \/ \E at \in CallPlaces \ {"insert"} : \E l, k, saw, had : Open(c, at, l, k, saw, had)
    PROVE  SourcedInv'
<1>1. Pending' \subseteq Pending
  <2>1. CASE Answer(c)
    BY <2>1 DEF Answer, Pending, At, TypeOK, NoCall
  <2>2. CASE UNCHANGED call
    BY <2>2 DEF Pending, At
  <2>3. ASSUME NEW p \in CallPlaces \ {"insert"}, Move(c, p) PROVE Pending' \subseteq Pending
    BY <2>3 DEF Move, Pending, At, TypeOK, CallType
  <2>4. ASSUME NEW at \in CallPlaces \ {"insert"}, NEW l, NEW k, NEW saw, NEW had,
               Open(c, at, l, k, saw, had)
        PROVE  Pending' \subseteq Pending
    <3>1. call' = [call EXCEPT ![c] = [at |-> at, list |-> l, camp |-> k, saw |-> saw, had |-> had,
                                       barred |-> acked, locked |-> Contacted]]
      BY <2>4 DEF Open
    <3>2. call'[c].at = at /\ \A d \in Callers : d # c => call'[d] = call[d]
      BY <3>1 DEF TypeOK
    <3> QED  BY <3>2 DEF Pending, At
  <2> QED  BY <2>1, <2>2, <2>3, <2>4
<1> QED  BY <1>1, FewerLists

LEMMA SourcedStep ==
    ASSUME TypeOK, SourcedInv, [Next]_vars PROVE SourcedInv'
<1>a. UNCHANGED member => InLists' = InLists
  BY DEF InLists
<1>0. CASE UNCHANGED vars
  BY <1>0, <1>a, FewerLists DEF vars, Pending, At
<1>1. ASSUME NEW c \in Callers, ListStep(c) PROVE SourcedInv'
  <2>1. ASSUME NEW l \in Lists, SourceToList(c, l) \/ ScoreList(c, l) PROVE SourcedInv'
    <3>1. UNCHANGED member
      BY <2>1 DEF SourceToList, ScoreList, Open, rows
    <3>2. \E at \in {"search", "score"} : \E saw : Open(c, at, l, None, saw, FALSE)
      BY <2>1 DEF SourceToList, ScoreList
    <3> QED  BY <1>a, <3>1, <3>2, OthersSource DEF CallPlaces
  <2>2. ASSUME NEW fit \in BOOLEAN, ScoreMember(c, fit) PROVE SourcedInv'
    <3> DEFINE l == call[c].list
               m == [member[l] EXCEPT !.fit = fit, !.by = "heuristic"]
    <3>1. Answer(c) /\ (member' = member \/ member' = [member EXCEPT ![l] = m])
      BY <2>2 DEF ScoreMember, TypeOK
    <3>2. l \in Lists => m.in = member[l].in
      BY ZenonT(60), MemberTypes DEF TypeOK
    <3> HIDE DEF m
    <3>3. InLists' \subseteq InLists
      BY <3>1, <3>2 DEF InLists, TypeOK
    <3> QED  BY <3>1, <3>3, OthersSource
  <2> QED  BY <1>1, <2>1, <2>2, FilterSources, InsertSources DEF ListStep
<1>2. ASSUME NEW c \in Callers, EnrollStep(c) \/ RemoveStep(c) PROVE SourcedInv'
  <2>1. UNCHANGED member
    BY <1>2 DEF EnrollStep, RemoveStep, EnrollFromList, EnrollTargets, Launch, AddTargets, CheckTarget,
                EnrollTarget, LaunchInsert, RemoveTargets, WebRemove, StopCursor, CancelSends,
                MarkLost, StampRemoved, WebCommit, Open, rows
  <2>2. \/ Answer(c)
        \/ \E p \in CallPlaces \ {"insert"} : Move(c, p)
        \/ \E at \in CallPlaces \ {"insert"} : \E l, k, saw, had : Open(c, at, l, k, saw, had)
    <3>1. ASSUME NEW k \in Campaigns, NEW l \in Lists, EnrollFromList(c, l, k)
          PROVE  \E at \in CallPlaces \ {"insert"} : \E m, j, saw, had : Open(c, at, m, j, saw, had)
      <4>1. "add" \in CallPlaces \ {"insert"}
        BY DEF CallPlaces
      <4> QED  BY <3>1, <4>1, Zenon DEF EnrollFromList
    <3>2. ASSUME NEW k \in Campaigns,
                 EnrollTargets(c, k) \/ Launch(c, k) \/ RemoveTargets(c, k) \/ WebRemove(c, k)
          PROVE  \E at \in CallPlaces \ {"insert"} : \E m, j, saw, had : Open(c, at, m, j, saw, had)
      <4>1. "check" \in CallPlaces \ {"insert"} /\ "launch" \in CallPlaces \ {"insert"}
              /\ "exclude" \in CallPlaces \ {"insert"} /\ "commit" \in CallPlaces \ {"insert"}
        BY DEF CallPlaces
      <4> QED  BY <3>2, <4>1, Zenon DEF EnrollTargets, Launch, RemoveTargets, WebRemove
    <3>3. ASSUME \/ AddTargets(c) \/ CheckTarget(c) \/ EnrollTarget(c) \/ LaunchInsert(c)
                 \/ StopCursor(c) \/ CancelSends(c) \/ MarkLost(c) \/ StampRemoved(c) \/ WebCommit(c)
          PROVE  Answer(c) \/ \E p \in CallPlaces \ {"insert"} : Move(c, p)
      BY <3>3 DEF AddTargets, CheckTarget, EnrollTarget, LaunchInsert, StopCursor, CancelSends,
                  MarkLost, StampRemoved, WebCommit, CallPlaces
    <3> QED  BY <1>2, <3>1, <3>2, <3>3 DEF EnrollStep, RemoveStep
  <2> QED  BY <1>a, <2>1, <2>2, OthersSource
<1>3. ASSUME NEW l \in Lists, NEW fit \in BOOLEAN, RemoveMembers(l) \/ DeleteList(l) \/ ScoreLeads(l, fit)
      PROVE  SourcedInv'
  <2>1. /\ UNCHANGED call
        /\ \/ member' = [member EXCEPT ![l] = NotMember]
           \/ member' = [member EXCEPT ![l].fit = fit, ![l].by = "harness"]
    BY <1>3 DEF RemoveMembers, DeleteList, ScoreLeads, Edit
  <2>2. InLists' \subseteq InLists
    BY <2>1 DEF InLists, TypeOK, MemberType, NotMember
  <2>3. Pending' = Pending
    BY <2>1 DEF Pending, At
  <2> QED  BY <2>2, <2>3, FewerLists
<1>4. ASSUME NEW k \in Campaigns, AttachExternalContext(k) \/ DraftInvite(k) \/ Approve(k) \/ SendInvite(k)
      PROVE  SourcedInv'
  <2>1. UNCHANGED <<member, call>>
    BY <1>4 DEF AttachExternalContext, DraftInvite, Approve, SendInvite, Edit
  <2> QED  BY <1>a, <2>1, FewerLists DEF Pending, At
<1>5. CASE Crash
  <2>1. UNCHANGED member /\ \A d \in Callers : call'[d] = NoCall
    BY <1>5 DEF Crash, rows
  <2>2. Pending' = {}
    BY <2>1 DEF Pending, At, NoCall
  <2> QED  BY <1>a, <2>1, <2>2, FewerLists
<1> QED  BY <1>0, <1>1, <1>2, <1>3, <1>4, <1>5 DEF Next

LEMMA SourcedInit == Init => SourcedInv
<1> SUFFICES ASSUME Init PROVE SourcedInv
  OBVIOUS
<1>1. InLists = {} /\ Pending = {}
  BY DEF Init, InLists, Pending, At, NotMember, NoCall
<1>2. Cardinality(Callers) \in Nat
  BY SourcingAssumption, FS_CardinalityType
<1> QED  BY <1>1, <1>2, FS_EmptySet DEF SourcedInv, SourcedOncePerCaller, InLists

(* Sourcing surfaces new people only: the person gets into no more lists than
   there were requests open at the same time. *)
THEOREM SourcingIsBounded == Spec => []SourcedOncePerCaller
<1>1. SourcedInv => SourcedOncePerCaller
  BY DEF SourcedInv
<1>2. TypeOK /\ LockInv /\ SourcedInv /\ [Next]_vars => TypeOK' /\ LockInv' /\ SourcedInv'
  BY SourcingStep, SourcedStep
<1> QED  BY <1>1, <1>2, LockInit, SourcedInit, PTL DEF Spec

-----------------------------------------------------------------------------
(* What the inbox tells of the gate *)

GateTypes ==
    /\ state \in AccountStates
    /\ limits \in [table : {"none", "older", "full"}, cap : Nat, enabled : BOOLEAN]
    /\ used \in Nat
    /\ open \in BOOLEAN /\ ready \in BOOLEAN /\ paused \in BOOLEAN
    /\ pausedAt \in Nat /\ resumedAt \in Nat /\ clock \in Nat

\* No stamp is of the future, so that the newer command decides; a tie is a
\* pause in the registry, a resume in the log.
StampInv ==
    /\ pausedAt <= clock /\ resumedAt <= clock
    /\ paused <=> pausedAt > resumedAt \/ (paused /\ pausedAt = resumedAt)

LEMMA GateInit == ForecastInit => GateTypes /\ StampInv
<1> SUFFICES ASSUME ForecastInit PROVE GateTypes /\ StampInv
  OBVIOUS
<1>1. GateTypes
  BY ForecastAssumption DEF ForecastInit, GateTypes
<1>2. StampInv
  BY DEF ForecastInit, StampInv
<1> QED  BY <1>1, <1>2

LEMMA GateStep ==
    ASSUME GateTypes, StampInv, AccountStep PROVE GateTypes' /\ StampInv'
<1>1. CASE SetState \/ Send \/ GapPasses \/ WindowMoves \/ Midnight
  <2>1. UNCHANGED <<limits, paused, pausedAt, resumedAt, clock>>
    BY <1>1 DEF SetState, Send, GapPasses, WindowMoves, Midnight
  <2>2. state' \in AccountStates
    BY <1>1, ForecastAssumption DEF SetState, Send, GapPasses, WindowMoves, Midnight, GateTypes
  <2>3. used' \in Nat
    BY <1>1 DEF SetState, Send, GapPasses, WindowMoves, Midnight, GateTypes
  <2>4. ready' = ready \/ ready' = TRUE \/ ready' = FALSE
    BY <1>1, Zenon DEF SetState, Send, GapPasses, WindowMoves, Midnight
  <2>5. open' = open \/ open' = ~open
    BY <1>1, Zenon DEF SetState, Send, GapPasses, WindowMoves, Midnight
  <2>6. ready' \in BOOLEAN /\ open' \in BOOLEAN
    BY <2>4, <2>5 DEF GateTypes
  <2> QED  BY <2>1, <2>2, <2>3, <2>6 DEF GateTypes, StampInv
<1>2. CASE PauseAccount \/ ResumeAccount \/ Elapse \/ Reboot
  <2>1. UNCHANGED <<state, limits, used, open, ready>>
    BY <1>2 DEF PauseAccount, ResumeAccount, Elapse, Reboot
  <2>2. pausedAt' \in Nat /\ resumedAt' \in Nat /\ clock' \in Nat
    BY <1>2 DEF PauseAccount, ResumeAccount, Elapse, Reboot, GateTypes
  <2>3. paused' \in BOOLEAN
    <3>1. paused' = TRUE \/ paused' = FALSE \/ paused' = paused \/ paused' = PausedByEvents
      BY <1>2, Zenon DEF PauseAccount, ResumeAccount, Elapse, Reboot
    <3>2. PausedByEvents \in BOOLEAN
      BY DEF PausedByEvents
    <3> HIDE DEF PausedByEvents
    <3> QED  BY <3>1, <3>2 DEF GateTypes
  <2>4. StampInv'
    <3>1. CASE PauseAccount
      BY <3>1 DEF PauseAccount, GateTypes, StampInv
    <3>2. CASE ResumeAccount
      BY <3>2 DEF ResumeAccount, GateTypes, StampInv
    <3>3. CASE Elapse
      BY <3>3 DEF Elapse, GateTypes, StampInv
    <3>4. CASE Reboot
      <4>1. paused' <=> pausedAt > resumedAt
        BY <3>4 DEF Reboot, PausedByEvents
      <4> QED  BY <3>4, <4>1 DEF Reboot, GateTypes, StampInv
    <3> QED  BY <1>2, <3>1, <3>2, <3>3, <3>4
  <2> QED  BY <2>1, <2>2, <2>3, <2>4 DEF GateTypes
<1> QED  BY <1>1, <1>2 DEF AccountStep

\* Where the two may be compared, they read the same cap.
LEMMA SameCap ==
    ASSUME GateTypes, Comparable
    PROVE  ViewCap = BaseCap /\ (state \notin {"Restricted", "Cooldown"} => CapForState(state) = BaseCap)
<1>1. ViewCap = BaseCap
  BY DEF GateTypes, Comparable, ViewCap, BaseCap
<1>2. state \in {"Cold", "Warming", "Active", "Cooldown", "Restricted"}
  BY DEF GateTypes, Comparable, AccountStates
<1> QED  BY <1>1, <1>2 DEF CapForState

LEMMA TimingFromStamps == GateTypes /\ StampInv => TimingHonest
<1> SUFFICES ASSUME GateTypes, StampInv PROVE TimingHonest
  OBVIOUS
<1> DEFINE stopped == paused \/ state \in {"Restricted", "Cooldown"} \/ ~limits.enabled
           full == used >= BaseCap
<1>1. ASSUME Comparable
      PROVE  CASE CanAct(state) = "deny"  -> DeriveMessageTiming = "queued_blocked"
               [] CanAct(state) = "defer" -> DeriveMessageTiming \in {"queued_capped", "queued_window"}
               [] OTHER                   -> DeriveMessageTiming = "queued_soon"
  <2>1. DeriveMessageTiming = IF stopped THEN "queued_blocked" ELSE IF full THEN "queued_capped"
                              ELSE IF ~open THEN "queued_window" ELSE "queued_soon"
    BY <1>1, SameCap DEF DeriveMessageTiming, Comparable
  <2>2. CanAct(state) = IF stopped THEN "deny" ELSE IF full \/ ~open THEN "defer"
                        ELSE IF ~ready THEN "pace" ELSE "allow"
    <3>1. BaseCap > 0
      BY <1>1 DEF Comparable
    <3>2. BaseCap \in Nat
      BY ForecastAssumption DEF BaseCap, GateTypes
    <3>3. CASE stopped
      BY <3>3 DEF CanAct
    <3>4. CASE ~stopped
      <4>1. CapForState(state) = BaseCap
        BY <1>1, <3>4, SameCap
      <4> QED  BY <3>1, <3>2, <3>4, <4>1 DEF CanAct
    <3> QED  BY <3>3, <3>4
  <2> HIDE DEF stopped, full
  <2> QED  BY <2>1, <2>2
<1>2. PauseForgottenOnlyOnTie
  <2>1. CASE pausedAt = resumedAt /\ paused
    BY <2>1 DEF PauseForgottenOnlyOnTie
  <2>2. CASE ~(pausedAt = resumedAt /\ paused)
    <3>1. paused <=> PausedByEvents
      BY <2>2 DEF StampInv, PausedByEvents
    <3>2. PausedByEvents \in BOOLEAN /\ paused \in BOOLEAN
      BY DEF PausedByEvents, GateTypes
    <3>3. paused = PausedByEvents
      BY <3>1, <3>2, Zenon
    <3> QED  BY <3>3 DEF PauseForgottenOnlyOnTie
  <2> QED  BY <2>1, <2>2
<1> QED  BY <1>1, <1>2 DEF TimingHonest

(* The inbox says of an approved message what the gate would decide, through
   pauses, resumes and restarts, and no resume is ever forgotten. *)
THEOREM InboxReadsTheGate == LoopSpec => []TimingHonest
<1>1. LoopInit => GateTypes /\ StampInv
  BY GateInit DEF LoopInit
<1>2. GateTypes /\ StampInv /\ [LoopNext]_loopVars => GateTypes' /\ StampInv'
  <2> SUFFICES ASSUME GateTypes, StampInv, [LoopNext]_loopVars PROVE GateTypes' /\ StampInv'
    OBVIOUS
  <2>1. CASE UNCHANGED acct
    BY <2>1 DEF acct, GateTypes, StampInv
  <2>2. CASE AccountStep
    BY <2>2, GateStep
  <2> QED  BY <2>1, <2>2 DEF LoopNext, loopVars
<1> QED  BY <1>1, <1>2, TimingFromStamps, PTL DEF LoopSpec

-----------------------------------------------------------------------------
(* The control loop: a pass answers what it heard *)

\* Before its draft a pass has drafted nothing; it goes towards an answer if it
\* heard something and towards an opener if not, and classified before it drafts.
PassInv ==
    /\ inbox \in Nat /\ waiting \in Nat
    /\ phase \in {"observe", "personalize", "pace", "act"} => inbox = 0 /\ drafts = {}
    /\ phase \in {"ingest", "classify", "draft"} => inbox > 0 /\ drafts = {}
    /\ phase = "draft" => intent \in ReplyIntents
    /\ phase \in {"off", "threw"} => drafts = {}
    /\ phase \in {"suppressed", "deferred", "done"} => inbox = 0
    /\ phase \in Terminal \cup {"observe", "personalize", "pace", "act", "ingest", "classify", "draft"}
    /\ RunAnswersWhatItSaw

\* The scan finds the first of the names a text contains.
LEMMA ScanFinds ==
    ASSUME NEW names, names \subseteq ReplyIntents, names # {}
    PROVE  \E i \in DOMAIN ReplyIntentOrder :
             /\ ReplyIntentOrder[i] \in names
             /\ \A j \in 1 .. i - 1 : ReplyIntentOrder[j] \notin names
<1> DEFINE o == ReplyIntentOrder
<1>1. /\ DOMAIN o = 1 .. 8
      /\ o[1] = "Interested" /\ o[2] = "Question" /\ o[3] = "Referral" /\ o[4] = "Objection"
      /\ o[5] = "NotNow" /\ o[6] = "OutOfOffice" /\ o[7] = "NotInterested" /\ o[8] = "Stop"
  BY DEF ReplyIntentOrder
<1>2. PICK x \in names : TRUE
  OBVIOUS
<1>3. \E i \in 1 .. 8 : o[i] = x
  BY <1>1, <1>2 DEF ReplyIntents
<1> HIDE DEF o
<1> DEFINE First(n) == n \in 1 .. 8 /\ o[n] \in names /\ \A j \in 1 .. n - 1 : o[j] \notin names
<1>4. \E i \in 1 .. 8 : First(i)
  <2>1. 1 \in 1 .. 8 /\ 2 \in 1 .. 8 /\ 3 \in 1 .. 8 /\ 4 \in 1 .. 8
          /\ 5 \in 1 .. 8 /\ 6 \in 1 .. 8 /\ 7 \in 1 .. 8 /\ 8 \in 1 .. 8
    OBVIOUS
  <2>2. \E i \in 1 .. 8 : o[i] \in names
    BY <1>2, <1>3
  <2> QED  BY <2>1, <2>2
<1> QED  BY <1>1, <1>4 DEF o

LEMMA ClassifiedIntents ==
    ASSUME NEW c \in Classified PROVE c[2] \in ReplyIntents
<1>1. ASSUME NEW r \in Responses PROVE ClassifyReplyClaude(r) \in ReplyIntents
  BY <1>1 DEF ClassifyReplyClaude, Responses, ReplyIntents
<1>2. ASSUME NEW r \in Responses PROVE ClassifyReply(r) \in ReplyIntents
  <2>1. r.tool \in ReplyIntents \cup {NoIntent} /\ r.json \in ReplyIntents \cup {NoIntent}
          /\ r.text \in ReplyIntents \cup {NoIntent} /\ r.refused \in BOOLEAN
    BY <1>2 DEF Responses
  <2>2. NamesIn(r.text) \subseteq ReplyIntents
    BY <2>1 DEF NamesIn, ReplyIntents, NoIntent
  <2>3. IntentFromText(r) # NoIntent => IntentFromText(r) \in ReplyIntents
    <3>1. CASE r.json # NoIntent \/ NamesIn(r.text) = {}
      BY <2>1, <3>1 DEF IntentFromText
    <3>2. CASE r.json = NoIntent /\ NamesIn(r.text) # {}
      <4> DEFINE first == CHOOSE i \in DOMAIN ReplyIntentOrder :
                            /\ ReplyIntentOrder[i] \in NamesIn(r.text)
                            /\ \A j \in 1 .. i - 1 : ReplyIntentOrder[j] \notin NamesIn(r.text)
      <4>1. ReplyIntentOrder[first] \in NamesIn(r.text)
        BY <2>2, <3>2, ScanFinds, Zenon
      <4>2. IntentFromText(r) = ReplyIntentOrder[first]
        BY <3>2 DEF IntentFromText
      <4> HIDE DEF first
      <4> QED  BY <2>2, <4>1, <4>2
    <3> QED  BY <3>1, <3>2
  <2>4. "NotInterested" \in ReplyIntents
    BY DEF ReplyIntents
  <2> HIDE DEF IntentFromText
  <2> QED  BY <2>1, <2>3, <2>4 DEF ClassifyReply
<1>3. \E r \in Responses : c[2] = ClassifyReply(r) \/ c[2] = ClassifyReplyClaude(r)
  <2>1. CASE c \in {<<NamedIn(r, TRUE), ClassifyReply(r)>> : r \in Responses}
    <3>1. PICK r \in Responses : c = <<NamedIn(r, TRUE), ClassifyReply(r)>>
      BY <2>1, Zenon
    <3>2. \A a, b : <<a, b>>[2] = b
      OBVIOUS
    <3>3. c[2] = ClassifyReply(r)
      BY <3>1, <3>2, Zenon
    <3> QED  BY <3>3
  <2>2. CASE c \in {<<NamedIn(r, FALSE), ClassifyReplyClaude(r)>> : r \in Responses}
    <3>1. PICK r \in Responses : c = <<NamedIn(r, FALSE), ClassifyReplyClaude(r)>>
      BY <2>2, Zenon
    <3>2. \A a, b : <<a, b>>[2] = b
      OBVIOUS
    <3>3. c[2] = ClassifyReplyClaude(r)
      BY <3>1, <3>2, Zenon
    <3> QED  BY <3>3
  <2> QED  BY <2>1, <2>2 DEF Classified
<1> QED  BY <1>1, <1>2, <1>3

LEMMA PassStep ==
    ASSUME PassInv, [LoopNext]_loopVars PROVE PassInv'
<1>a. /\ "send" \notin ReplyIntents /\ NoIntent \notin ReplyIntents
  BY DEF ReplyIntents, NoIntent
<1>0. CASE UNCHANGED loop
  BY <1>0 DEF loop, PassInv, RunAnswersWhatItSaw
<1>1. CASE RunLoopOnce
  BY <1>1 DEF RunLoopOnce, PassInv, RunAnswersWhatItSaw, Terminal
<1>2. CASE Observe
  BY <1>2 DEF Observe, PassInv, RunAnswersWhatItSaw, Terminal
<1>3. CASE Personalize \/ Ingest
  BY <1>3 DEF Personalize, Ingest, To, PassInv, RunAnswersWhatItSaw, Terminal
<1>4. CASE Pace
  <2>1. phase = "pace" /\ \E p \in {"done", "act", "deferred"} : To(p)
    BY <1>4 DEF Pace
  <2> QED  BY <2>1 DEF To, PassInv, RunAnswersWhatItSaw, Terminal
<1>5. CASE Act
  BY <1>5, <1>a DEF Act, Enqueue, PassInv, RunAnswersWhatItSaw, Terminal
<1>6. CASE Classify
  <2>1. CASE phase = "classify" /\ To("threw")
    BY <2>1 DEF To, PassInv, RunAnswersWhatItSaw, Terminal
  <2>2. ASSUME NEW c \in Classified, phase = "classify", intent' = c[2], phase' = "draft",
               UNCHANGED <<snap, inbox, waiting, drafts, suppressed, runs>>
        PROVE  PassInv'
    BY <2>2, ClassifiedIntents DEF PassInv, RunAnswersWhatItSaw, Terminal
  <2> QED  BY <1>6, <2>1, <2>2 DEF Classify
<1>7. CASE DraftStep
  <2>1. CASE phase = "draft" /\ Enqueue(intent)
    BY <1>a, <2>1 DEF Enqueue, PassInv, RunAnswersWhatItSaw, Terminal
  <2>2. CASE phase = "draft" /\ To("threw")
    BY <2>2 DEF To, PassInv, RunAnswersWhatItSaw, Terminal
  <2> QED  BY <1>7, <2>1, <2>2 DEF DraftStep
<1>8. CASE Inbound \/ Suppress
  BY <1>8 DEF Inbound, Suppress, PassInv, RunAnswersWhatItSaw, Terminal
<1> QED  BY <1>0, <1>1, <1>2, <1>3, <1>4, <1>5, <1>6, <1>7, <1>8 DEF LoopNext, RunStep, loopVars

(* What the target wrote is answered by the pass that took it: a pass that
   heard something and did not throw ends with one draft, of that answer, and
   one that heard nothing drafts an opener at most. *)
THEOREM PassesAnswer == LoopSpec => []RunAnswersWhatItSaw
<1>1. LoopInit => PassInv
  BY DEF LoopInit, PassInv, RunAnswersWhatItSaw, Terminal
<1>2. PassInv => RunAnswersWhatItSaw
  BY DEF PassInv
<1> QED  BY <1>1, <1>2, PassStep, PTL DEF LoopSpec
=============================================================================
