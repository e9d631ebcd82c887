----------------------------- MODULE ReviewDesk -----------------------------
(***************************************************************************)
(* Review of one drafted message from several browser tabs: the inbox's    *)
(* ApprovalComposer and its reloads, the web server's approve and reject   *)
(* routes, the MCP tools behind them and ApprovalService.decide, a read, a *)
(* check and up to three writes with no transaction around them, while the *)
(* dispatch tick sends what is approved.                                   *)
(*                                                                         *)
(* Requests may be lost on the way there or back (callMcpTool and fetch    *)
(* throw alike), a database write of decide may fail, and the answers of   *)
(* two inbox reads of a tab may arrive in either order.                    *)
(***************************************************************************)
EXTENDS Naturals, Sequences, FiniteSets

CONSTANTS
    Tabs,      \* open inbox pages
    Texts,     \* bodies an operator may leave in the composer
    MaxCalls   \* bound: approve and reject clicks

ASSUME DeskAssumption == Texts # {} /\ MaxCalls \in Nat

VARIABLES
    msg,       \* the message row: status and body
    cursor,    \* the lead's enrollment cursor: "awaiting_approval", "skipped" or "moved"
    tab,       \* per tab: the composer, its inbox reads on the way, its number
    calls,     \* approve and reject calls, in the order they were clicked
    sending,   \* the approved rows the tick read and has not sent: at most one body
    delivered, \* history: bodies the lead received
    decisions, \* history: calls that decided the message, in order
    overlap,   \* history: a decision began while another was under way
    torn       \* history: a decision failed after it had replaced the body

deskVars == <<msg, cursor, tab, calls, sending, delivered, decisions, overlap, torn>>

Gone == "gone"  \* a snapshot of the inbox without this draft
Snapshots == Texts \union {Gone}

\* A composer: base is message.body, text the textarea, mount tells one
\* mounting of the component from the next.
Composer(body, mount) == [shown |-> TRUE, base |-> body, text |-> body, phase |-> "idle",
                          reads |-> {}, mount |-> mount]

Phases == {"idle", "working", "done", "stale", "error"}

\* decide: after the check the approval row, the body, the status, in order.
Stages == {"asked", "checked", "recorded", "edited", "decided", "refused"}

DeskTypeOK ==
    /\ msg \in [status : {"draft", "approved", "rejected", "sent"}, body : Texts]
    /\ cursor \in {"awaiting_approval", "skipped", "moved"}
    /\ tab \in [Tabs -> [shown : BOOLEAN, base : Texts, text : Texts, phase : Phases,
                         reads : SUBSET ((0 .. MaxCalls) \X Snapshots), mount : Nat]]

-----------------------------------------------------------------------------
(* The page *)

ComposerLocked(phase) == phase \in {"working", "done", "stale"}

\* groupInboxRows: only a draft carries a pendingMessageId.
Inbox == IF msg.status = "draft" THEN msg.body ELSE Gone

\* setThreads: the composer is keyed by the message, so it keeps its text and
\* phase while the draft is listed, and starts afresh when it comes back.
SetThreads(t, read) ==
    LET was == [tab[t] EXCEPT !.reads = @ \ {read}] IN
    CASE read[2] = Gone -> [was EXCEPT !.shown = FALSE]
      [] read[2] # Gone /\ was.shown -> [was EXCEPT !.base = read[2]]
      [] OTHER -> [Composer(read[2], was.mount + 1) EXCEPT !.reads = was.reads]

\* load, every minute: the answer is what the server read when it was asked.
\* Before the first click it shows what is shown.
Poll(t) ==
    /\ \A r \in tab[t].reads : r[1] # 0
    /\ Len(calls) > 0
    /\ tab' = [tab EXCEPT ![t].reads = @ \union {<<0, Inbox>>}]
    /\ UNCHANGED <<msg, cursor, calls, sending, delivered, decisions, overlap, torn>>

\* A read lands; the one an accepted call waits for ends that call's phase.
Loaded(t) ==
    /\ \E r \in tab[t].reads :
         LET seen == SetThreads(t, r) IN
         tab' = [tab EXCEPT ![t] =
                   IF r[1] > 0 /\ seen.mount = calls[r[1]].mount
                   THEN [seen EXCEPT !.phase = "done"] ELSE seen]
    /\ UNCHANGED <<msg, cursor, calls, sending, delivered, decisions, overlap, torn>>

\* The re-read after an accepted call throws: 'stale', never 'error'.  A
\* failed poll is swallowed.
LoadFailed(t) ==
    /\ \E r \in tab[t].reads :
         tab' = [tab EXCEPT ![t].reads = @ \ {r},
                            ![t].phase = IF r[1] > 0 /\ tab[t].mount = calls[r[1]].mount
                                         THEN "stale" ELSE @]
    /\ UNCHANGED <<msg, cursor, calls, sending, delivered, decisions, overlap, torn>>

Editing(t) == tab[t].shown /\ ~ComposerLocked(tab[t].phase)

Type(t) ==
    /\ Editing(t)
    /\ \E text \in Texts \ {tab[t].text} : tab' = [tab EXCEPT ![t].text = text]
    /\ UNCHANGED <<msg, cursor, calls, sending, delivered, decisions, overlap, torn>>

Call(t, kind) == [tab |-> t, mount |-> tab[t].mount, kind |-> kind, text |-> tab[t].text,
                  stage |-> "asked", open |-> TRUE]

Ask(t, kind) ==
    /\ Editing(t) /\ Len(calls) < MaxCalls
    /\ calls' = Append(calls, Call(t, kind))
    /\ tab' = [tab EXCEPT ![t].phase = "working"]
    /\ UNCHANGED <<msg, cursor, sending, delivered, decisions, overlap, torn>>

\* approve(): the body goes along only when it differs from the one listed;
\* the route turns a body into edit_and_approve, none into approve.
ClickApprove(t) == Ask(t, IF tab[t].text # tab[t].base THEN "edited" ELSE "approved")

ClickReject(t) == Ask(t, "rejected")

-----------------------------------------------------------------------------
(* The server *)

Move(i, stage) == calls' = [calls EXCEPT ![i].stage = stage]

UnderWay(i) == calls[i].stage \in {"checked", "recorded", "edited"}

\* Fault: decide goes by the caller and does not look at the status.
CheckNothing(i) ==
    /\ calls[i].stage = "asked"
    /\ Move(i, "checked")
    /\ overlap' = (overlap \/ \E j \in DOMAIN calls : UnderWay(j))
    /\ UNCHANGED <<msg, cursor, tab, sending, delivered, decisions, torn>>

\* decide, up to its first write: a message that is no draft is refused.
Check(i) ==
    /\ calls[i].stage = "asked"
    /\ Move(i, IF msg.status = "draft" THEN "checked" ELSE "refused")
    /\ overlap' = (overlap \/ (msg.status = "draft" /\ \E j \in DOMAIN calls : UnderWay(j)))
    /\ UNCHANGED <<msg, cursor, tab, sending, delivered, decisions, torn>>

\* approvals.create
Record(i) ==
    /\ calls[i].stage = "checked"
    /\ Move(i, "recorded")
    /\ UNCHANGED <<msg, cursor, tab, sending, delivered, decisions, overlap, torn>>

\* messages.setBody
SetBody(i) ==
    /\ calls[i].stage = "recorded" /\ calls[i].kind = "edited"
    /\ Move(i, "edited")
    /\ msg' = [msg EXCEPT !.body = calls[i].text]
    /\ UNCHANGED <<cursor, tab, sending, delivered, decisions, overlap, torn>>

\* messages.setStatus, and for a reject the parked cursor of the lead.
SetStatus(i) ==
    /\ calls[i].stage = IF calls[i].kind = "edited" THEN "edited" ELSE "recorded"
    /\ Move(i, "decided")
    /\ msg' = [msg EXCEPT !.status = IF calls[i].kind = "rejected" THEN "rejected" ELSE "approved"]
    /\ cursor' = IF calls[i].kind = "rejected" /\ cursor = "awaiting_approval"
                 THEN "skipped" ELSE cursor
    /\ decisions' = Append(decisions, i)
    /\ UNCHANGED <<tab, sending, delivered, overlap, torn>>

\* A write of decide throws: what was written before it stays.
DecideFails(i) ==
    /\ UnderWay(i)
    /\ Move(i, "refused")
    /\ torn' = (torn \/ calls[i].stage = "edited")
    /\ UNCHANGED <<msg, cursor, tab, sending, delivered, decisions, overlap>>

\* The answer reaches the page: an accepted call goes on to reload, whether or
\* not its composer is still mounted.
AnswerOk(i) ==
    /\ calls[i].open /\ calls[i].stage = "decided"
    /\ calls' = [calls EXCEPT ![i].open = FALSE]
    /\ tab' = [tab EXCEPT ![calls[i].tab].reads = @ \union {<<i, Inbox>>}]
    /\ UNCHANGED <<msg, cursor, sending, delivered, decisions, overlap, torn>>

\* Phase 'error': decide refused, or the connection broke, on the way there or
\* back; what reached the server goes on.
AnswerError(i) ==
    /\ calls[i].open
    /\ calls' = [calls EXCEPT ![i].open = FALSE]
    /\ tab' = [tab EXCEPT ![calls[i].tab].phase =
                 IF tab[calls[i].tab].mount = calls[i].mount THEN "error" ELSE @]
    /\ UNCHANGED <<msg, cursor, sending, delivered, decisions, overlap, torn>>

-----------------------------------------------------------------------------
(* The dispatch tick's half: listApproved, then the send of each row's body *)

ListApproved ==
    /\ msg.status = "approved" /\ sending = <<>>
    /\ sending' = <<msg.body>>
    /\ UNCHANGED <<msg, cursor, tab, calls, delivered, decisions, overlap, torn>>

SendApproved ==
    /\ sending # <<>>
    /\ delivered' = Append(delivered, Head(sending))
    /\ sending' = <<>>
    /\ msg' = [msg EXCEPT !.status = "sent"]
    /\ cursor' = "moved"
    /\ UNCHANGED <<tab, calls, decisions, overlap, torn>>

-----------------------------------------------------------------------------
DeskInit ==
    /\ \E body \in Texts :
         /\ msg = [status |-> "draft", body |-> body]
         /\ tab = [t \in Tabs |-> Composer(body, 1)]
    /\ cursor = "awaiting_approval"
    /\ calls = <<>> /\ sending = <<>> /\ delivered = <<>> /\ decisions = <<>>
    /\ overlap = FALSE /\ torn = FALSE

PageStep(t) ==
    \/ Poll(t) \/ Loaded(t) \/ LoadFailed(t)
    \/ Type(t) \/ ClickApprove(t) \/ ClickReject(t)

ServerStep(i) ==
    \/ Check(i) \/ Record(i) \/ SetBody(i) \/ SetStatus(i) \/ DecideFails(i)
    \/ AnswerOk(i) \/ AnswerError(i)

DeskNext ==
    \/ \E t \in Tabs : PageStep(t)
    \/ \E i \in DOMAIN calls : ServerStep(i)
    \/ ListApproved
    \/ SendApproved

DeskSpec == DeskInit /\ [][DeskNext]_deskVars

-----------------------------------------------------------------------------
(* A draft is decided once, whatever the tabs show and however often the
   operator retries after an error: the decision that stands is the first to
   pass decide's status check, a rejected draft reaches nobody, and what is
   sent is the text the approving page showed, once.  Two cases are excepted,
   and both happen: decisions that overlapped (decide checks the status and
   writes it with awaits between), and a text replaced by an edit that failed
   before its approval (the next approve of a page that never saw it sends
   it). *)
DecidedOnce ==
    overlap \/
    ( /\ Len(decisions) <= 1 /\ Len(delivered) <= 1
      /\ \A k \in DOMAIN delivered :
           LET first == calls[decisions[1]] IN
           /\ decisions # <<>> /\ first.kind # "rejected"
           /\ torn \/ first.text = delivered[k] )
=============================================================================
