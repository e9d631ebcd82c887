----------------------------- MODULE PageActions -----------------------------
(***************************************************************************)
(* The browser actions of the account runner against a page that renders   *)
(* when it likes: connect, message, withdrawInvite and the low-touch       *)
(* clicks.  LinkedIn answers a click later, with a modal, a toast, an      *)
(* invite or nothing, and the actions decide from what is on the page at   *)
(* the moment they look.                                                   *)
(*                                                                         *)
(* The target shares a name with a namesake who is also a connection; a    *)
(* stranger has "1st" in the headline; a lookalike has the name inside a   *)
(* longer word.                                                            *)
(***************************************************************************)
EXTENDS Naturals

CONSTANT MaxDrives  \* bound: actions driven

ASSUME DrivesAssumption == MaxDrives \in Nat

VARIABLES
    profile,    \* the target's profile page and what LinkedIn will say to Connect
    pane,       \* what the last click put on the page
    inflight,   \* the click LinkedIn has not answered yet
    chat,       \* the messaging page: the open thread, an overlay, their boxes
    act,        \* the action under way and its answer
    delivered,  \* history: messages that left, with receiver and text
    drives      \* actions driven

pageVars == <<profile, pane, inflight, chat, act, delivered, drives>>

\* shows: where Connect or Pending is; gate: how LinkedIn meets the invite.
Profiles ==
    [shows : {"bar", "menu", "nowhere"}, rendered : BOOLEAN, invite : {"none", "earlier", "ours"},
     gate : {"open", "instant", "email", "lockout", "error"}]

NoChat == [who |-> "none", flow |-> "none", card |-> FALSE, quotes |-> FALSE, sidebar |-> FALSE,
           overlay |-> "none", main |-> "empty", bubble |-> "empty"]

Idle == [kind |-> "none", pc |-> "idle", res |-> "none", note |-> FALSE, member |-> FALSE,
         verified |-> FALSE, typed |-> "none", late |-> FALSE]

Answer(res) == [act EXCEPT !.pc = "idle", !.res = res]

-----------------------------------------------------------------------------
(* gate.ts checkToken, actions.ts guard *)

\* A token for another action or account, or an expired one, stops the action
\* before it touches the page.  The pacer keeps drives minutes apart: LinkedIn
\* has answered the last one.
Start(kind, token, options) ==
    /\ act.pc = "idle" /\ inflight = "none" /\ drives < MaxDrives
    /\ drives' = drives + 1
    /\ act' = IF token = "valid" THEN [options EXCEPT !.kind = kind, !.pc = kind]
              ELSE [Idle EXCEPT !.kind = kind, !.res = "threw"]
    /\ pane' = "nothing"
    /\ profile' = [profile EXCEPT !.rendered = FALSE, !.invite = IF @ = "ours" THEN "earlier" ELSE @]
    /\ chat' = NoChat
    /\ UNCHANGED <<inflight, delivered>>

Drive ==
    \E kind \in {"connect", "message", "withdraw", "touch"}, token \in {"valid", "rejected"},
       note \in BOOLEAN, member \in BOOLEAN :
        Start(kind, token, [Idle EXCEPT !.note = note /\ kind = "connect",
                                        !.member = member /\ kind = "message"])

\* visitProfile, follow and react: one click, and ok once it was made.
Touch ==
    /\ act.pc = "touch"
    /\ \E found \in BOOLEAN : act' = Answer(IF found THEN "ok" ELSE "threw")
    /\ UNCHANGED <<profile, pane, inflight, chat, delivered, drives>>

-----------------------------------------------------------------------------
(* What LinkedIn does *)

Render ==
    /\ ~profile.rendered /\ profile' = [profile EXCEPT !.rendered = TRUE]
    /\ UNCHANGED <<pane, inflight, chat, act, delivered, drives>>

AnswerClick ==
    /\ inflight = "connect"
    /\ inflight' = "none"
    /\ pane' = CASE profile.gate = "email"   -> "email"
                 [] profile.gate = "lockout" -> "lockout"
                 [] profile.gate = "instant" -> "nothing"
                 [] OTHER                    -> "modal"
    /\ profile' = [profile EXCEPT !.invite = IF profile.gate = "instant" THEN "ours" ELSE @]
    /\ UNCHANGED <<chat, act, delivered, drives>>

AnswerSend ==
    /\ inflight = "send"
    /\ inflight' = "none"
    /\ IF profile.gate = "error" THEN pane' = "toast" /\ UNCHANGED profile
       ELSE pane' = "nothing" /\ profile' = [profile EXCEPT !.invite = "ours"]
    /\ UNCHANGED <<chat, act, delivered, drives>>

\* An overlay opens or closes; the recipient card of the open thread renders.
PageMoves ==
    /\ act.pc \in {"anchor", "compose", "press"}
    /\ \E o \in {"none", "target", "namesake"}, c \in BOOLEAN :
        /\ c => chat.flow = "existing"
        /\ chat.card => c
        /\ o # chat.overlay => chat.overlay = "none" \/ o = "none"
        /\ chat' = [chat EXCEPT !.overlay = o, !.card = c,
                                !.bubble = IF o = chat.overlay THEN @ ELSE "empty"]
        /\ chat' # chat
    /\ act' = [act EXCEPT !.late = @ \/ act.pc = "press"]
    /\ UNCHANGED <<profile, pane, inflight, delivered, drives>>

-----------------------------------------------------------------------------
(* connect *)

PendingIndicator == profile.rendered /\ profile.shows = "bar" /\ profile.invite # "none"
ConnectButton == profile.rendered /\ profile.shows = "bar" /\ profile.invite = "none"
InMenu(wanted) == profile.rendered /\ profile.shows = "menu" /\ (profile.invite # "none") = wanted

\* Polls until Pending or Connect shows, Pending first; out of attempts with
\* neither on the page, it goes to the More menu.
WaitForConnectSignal ==
    /\ act.pc = "connect"
    /\ \/ /\ PendingIndicator /\ act' = Answer("noop") /\ UNCHANGED inflight
       \/ /\ ConnectButton
          /\ inflight' = "connect" /\ act' = [act EXCEPT !.pc = "clicked"]
       \/ /\ ~PendingIndicator /\ ~ConnectButton
          /\ act' = [act EXCEPT !.pc = "menu"] /\ UNCHANGED inflight
    /\ UNCHANGED <<profile, pane, chat, delivered, drives>>

OpenConnectMenu ==
    /\ act.pc = "menu"
    /\ \/ /\ InMenu(TRUE) /\ act' = Answer("noop") /\ UNCHANGED inflight
       \/ /\ InMenu(FALSE)
          /\ inflight' = "connect" /\ act' = [act EXCEPT !.pc = "clicked"]
       \/ /\ ~InMenu(TRUE) /\ ~InMenu(FALSE)
          /\ act' = Answer("refused") /\ UNCHANGED inflight
    /\ UNCHANGED <<profile, pane, chat, delivered, drives>>

\* The email gate and the recently-withdrawn lockout, seen before either way
\* to send.
AfterConnectClick ==
    /\ act.pc = "clicked"
    /\ act' = IF pane \in {"email", "lockout"} THEN Answer("refused")
              ELSE [act EXCEPT !.pc = "send"]
    /\ UNCHANGED <<profile, pane, inflight, chat, delivered, drives>>

\* With a note: a button that never shows is a timeout.
SendWithNote ==
    /\ act.pc = "send" /\ act.note
    /\ IF pane = "modal"
       THEN inflight' = "send" /\ pane' = "nothing" /\ act' = [act EXCEPT !.pc = "check"]
       ELSE act' = Answer("threw") /\ UNCHANGED <<inflight, pane>>
    /\ UNCHANGED <<profile, chat, delivered, drives>>

\* Without one: no modal may mean an invite already made, a lockout, or a throw.
SendWithoutNote ==
    /\ act.pc = "send" /\ ~act.note
    /\ \/ /\ pane = "modal"
          /\ inflight' = "send" /\ pane' = "nothing" /\ act' = [act EXCEPT !.pc = "check"]
       \/ /\ pane # "modal"
          /\ act' = CASE PendingIndicator -> [act EXCEPT !.pc = "check"]
                      [] ~PendingIndicator /\ pane = "lockout" -> Answer("refused")
                      [] OTHER -> Answer("threw")
          /\ UNCHANGED <<inflight, pane>>
    /\ UNCHANGED <<profile, chat, delivered, drives>>

\* Fault: a click that did not throw counts as an invite.
CheckToastNever ==
    /\ act.pc = "check"
    /\ act' = [Answer("ok") EXCEPT !.late = inflight = "send"]
    /\ UNCHANGED <<profile, pane, inflight, chat, delivered, drives>>

\* The refusal toast, looked for once, a second and a half after the click.
CheckToast ==
    /\ act.pc = "check"
    /\ act' = [Answer(IF pane = "toast" THEN "refused" ELSE "ok") EXCEPT !.late = inflight = "send"]
    /\ UNCHANGED <<profile, pane, inflight, chat, delivered, drives>>

-----------------------------------------------------------------------------
(* message *)

Cards == {"target", "namesake", "stranger", "lookalike"}

\* containsNameAtWordBoundary, and a "1st" anywhere in the card's text.
NameMatches(card) == card # "lookalike"
ReadsFirstDegree(card, lost) == card # "target" \/ ~lost

\* The inputs that cannot be addressed, a field or cards that never show, and
\* the first card with the name and a 1st degree.
PickCard ==
    /\ act.pc = "message"
    /\ \E input \in {"noId", "noName", "truncated", "usable"}, lost \in BOOLEAN,
          n \in 0 .. 2, cards \in [{1, 2} -> Cards] :
        LET fit == {i \in 1 .. n : NameMatches(cards[i]) /\ ReadsFirstDegree(cards[i], lost)} IN
        \/ /\ input # "usable" \/ fit = {}
           /\ act' = Answer("refused") /\ UNCHANGED chat
        \/ /\ input = "usable" /\ fit # {}
           /\ LET who == cards[CHOOSE i \in fit : \A j \in fit : i <= j] IN
              \E flow \in {"new", "existing"}, quotes \in BOOLEAN, sidebar \in BOOLEAN,
                 text \in {"empty", "suggested"} :
                /\ quotes => flow = "existing" /\ who # "target"
                /\ chat' = [chat EXCEPT !.who = who, !.flow = IF who = "stranger" THEN "inmail" ELSE flow,
                                        !.quotes = quotes, !.sidebar = sidebar, !.main = text]
           /\ act' = [act EXCEPT !.pc = "url"]
    /\ UNCHANGED <<profile, pane, inflight, delivered, drives>>

\* The URL of a new conversation names its recipient.
UrlVerified == chat.flow = "new" /\ act.member /\ chat.who = "target"

UrlMismatch == chat.flow = "new" /\ act.member /\ chat.who # "target"

UrlCheck ==
    /\ act.pc = "url"
    /\ act' = IF chat.flow = "inmail" \/ UrlMismatch THEN Answer("refused")
              ELSE [act EXCEPT !.verified = UrlVerified,
                               !.pc = IF UrlVerified THEN "compose" ELSE "anchor"]
    /\ UNCHANGED <<profile, pane, inflight, chat, delivered, drives>>

\* A thread container that holds a link to the target: the open thread, by its
\* card or by a message that quotes the profile; or the target's overlay.
Linked ==
    {c \in {"main", "overlay"} :
        IF c = "main" THEN (chat.card /\ chat.who = "target") \/ chat.quotes
        ELSE chat.overlay = "target"}

\* Any link to the target on the page will do here.
AnchorCheck ==
    /\ act.pc = "anchor"
    /\ \/ /\ Linked # {} \/ chat.sidebar
          /\ act' = [act EXCEPT !.pc = "compose"]
       \/ /\ Linked = {} /\ ~chat.sidebar
          /\ act' = Answer("refused")
    /\ UNCHANGED <<profile, pane, inflight, chat, delivered, drives>>

\* Fault: the box and the button are the first on the page.
ScopeAnywhere == {"main", "overlay"}

\* The containers the box and the button are looked for in.
Scope == IF act.verified THEN {"main"} ELSE Linked

\* The overlay list is the last element of the page.
FirstOf(containers) == IF "main" \in containers THEN "main" ELSE "overlay"

\* Clears the box, then types.
HumanType ==
    /\ act.pc = "compose"
    /\ IF Scope = {} THEN act' = Answer("threw") /\ UNCHANGED chat
       ELSE /\ act' = [act EXCEPT !.pc = "press", !.typed = FirstOf(Scope)]
            /\ chat' = IF FirstOf(Scope) = "main" THEN [chat EXCEPT !.main = "body"]
                       ELSE [chat EXCEPT !.bubble = "body"]
    /\ UNCHANGED <<profile, pane, inflight, delivered, drives>>

\* The button is looked up afresh; pressing one over an empty box does nothing.
PressButton ==
    LET c    == FirstOf(Scope)
        who  == IF c = "main" THEN chat.who ELSE chat.overlay
        text == IF c = "main" THEN chat.main ELSE chat.bubble IN
    /\ act.pc = "press"
    /\ IF Scope = {} THEN act' = Answer("threw") /\ UNCHANGED <<chat, delivered>>
       ELSE /\ act' = Answer("ok")
            /\ delivered' = IF text = "empty" THEN delivered ELSE
                            delivered \cup {[to |-> who, text |-> text, quotes |-> c = "main" /\ chat.quotes,
                                             drive |-> drives, late |-> act.late]}
            /\ chat' = IF c = "main" THEN [chat EXCEPT !.main = "empty"] ELSE [chat EXCEPT !.bubble = "empty"]
    /\ UNCHANGED <<profile, pane, inflight, drives>>

-----------------------------------------------------------------------------
(* withdrawInvite *)

\* The urn is looked up in the sent list; the POST may find the invite gone.
WithdrawFind ==
    /\ act.pc = "withdraw"
    /\ act' = IF profile.invite = "none" THEN Answer("refused") ELSE [act EXCEPT !.pc = "post"]
    /\ UNCHANGED <<profile, pane, inflight, chat, delivered, drives>>

InviteAnswered ==
    /\ act.pc \in {"post", "idle"} /\ profile.invite # "none" /\ inflight = "none"
    /\ act.kind # "connect"
    /\ profile' = [profile EXCEPT !.invite = "none"]
    /\ UNCHANGED <<pane, inflight, chat, act, delivered, drives>>

WithdrawPost ==
    /\ act.pc = "post"
    /\ \/ /\ profile.invite # "none"
          /\ profile' = [profile EXCEPT !.invite = "none", !.gate = "lockout"]
          /\ act' = Answer("ok")
       \/ act' = Answer("refused") /\ UNCHANGED profile
    /\ UNCHANGED <<pane, inflight, chat, delivered, drives>>

-----------------------------------------------------------------------------
PageInit ==
    /\ profile \in {p \in Profiles : ~p.rendered /\ p.invite # "ours"}
    /\ pane = "nothing" /\ inflight = "none" /\ chat = NoChat
    /\ act = Idle /\ delivered = {} /\ drives = 0

PageNext ==
    \/ Drive \/ Touch \/ Render \/ AnswerClick \/ AnswerSend \/ PageMoves
    \/ WaitForConnectSignal \/ OpenConnectMenu \/ AfterConnectClick
    \/ SendWithNote \/ SendWithoutNote \/ CheckToast
    \/ PickCard \/ UrlCheck \/ AnchorCheck \/ HumanType \/ PressButton
    \/ WithdrawFind \/ InviteAnswered \/ WithdrawPost

PageSpec == PageInit /\ [][PageNext]_pageVars

-----------------------------------------------------------------------------
(* What the executor relies on when it books the answer:

   - connect: ok means this call made an invite (unless LinkedIn had not yet
     answered when the toast was looked for), and a refusal or a no-op means
     it made none, so nothing is counted against the weekly ceiling;
   - message: ok means the text left in this call, unless the page changed
     between typing and pressing;
   - withdrawInvite: ok means the invite is gone. *)
AnswerIsTrue ==
    /\ act.kind = "connect" /\ act.res = "ok" => profile.invite = "ours" \/ act.late
    /\ act.kind = "connect" /\ act.res \in {"noop", "refused"} => profile.invite # "ours"
    /\ act.kind = "message" /\ act.res = "ok" =>
          act.late \/ \E d \in delivered : d.drive = drives
    /\ act.kind = "withdraw" /\ act.res = "ok" => profile.invite = "none"

(* A message goes to the target and nobody else: whatever card the typeahead
   offered first, whatever else is open on the page, and however late it
   rendered.  The exception the anchor check leaves is a namesake's thread in
   which the target's profile is quoted.  And it holds the approved text and
   nothing else, unless the page changed between typing and pressing, when
   the button may belong to another box of the target's. *)
OnlyTheTargetIsWritten ==
    \A d \in delivered : (d.to = "target" \/ d.quotes) /\ (d.text = "body" \/ d.late)
=============================================================================
