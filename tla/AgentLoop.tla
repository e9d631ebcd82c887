----------------------------- MODULE AgentLoop -----------------------------
(***************************************************************************)
(* The agent control loop: one pass over one target, phase by phase, with  *)
(* the LLM provider and the safety gate behind it.  The account row is     *)
(* read when a pass begins and that copy is what the gate is asked about.  *)
(* A pass never sends: it ends with a draft for a human, or without one.   *)
(***************************************************************************)
EXTENDS SendForecast

CONSTANTS MaxInbound, MaxRuns  \* bounds: messages from the target, passes of the loop

ASSUME LoopAssumption == MaxInbound \in Nat /\ MaxRuns \in Nat

VARIABLES
    phase,    \* LoopState.phase, "off" before the first pass
    snap,     \* ctx.account.state
    inbox,    \* inbound messages this pass observed
    waiting,  \* inbound messages the executor has not handed out
    intent,   \* LoopState.intent
    named,    \* history: the intent the model's answer named, where the provider looks for one
    drafts,   \* pending items this pass enqueued: "send" or an intent
    suppressed, runs

loop == <<phase, snap, inbox, waiting, intent, named, drafts, suppressed, runs>>
loopVars == <<acct, loop>>

Terminal == {"off", "awaiting_approval", "deferred", "suppressed", "done", "threw"}

-----------------------------------------------------------------------------
(* llm-provider.ts, openrouter-llm-provider.ts *)

NoIntent == "none"

\* REPLY_INTENTS in the order of the scan.
ReplyIntentOrder ==
    <<"Interested", "Question", "Referral", "Objection", "NotNow", "OutOfOffice", "NotInterested", "Stop">>

\* What includes() finds in a text made of one intent's name.
NamesIn(text) ==
    CASE text = NoIntent -> {} [] text = "NotInterested" -> {"NotInterested", "Interested"} [] OTHER -> {text}

\* A model's answer: refused, or a tool call and a text, either possibly
\* without an intent; the text may be a JSON object naming one.
Responses ==
    [refused : BOOLEAN, tool : ReplyIntents \cup {NoIntent},
     json : ReplyIntents \cup {NoIntent}, text : ReplyIntents \cup {NoIntent}]

IntentFromText(r) ==
    IF r.json # NoIntent THEN r.json
    ELSE IF NamesIn(r.text) = {} THEN NoIntent
    ELSE ReplyIntentOrder[CHOOSE i \in DOMAIN ReplyIntentOrder :
            /\ ReplyIntentOrder[i] \in NamesIn(r.text)
            /\ \A j \in 1 .. i - 1 : ReplyIntentOrder[j] \notin NamesIn(r.text)]

\* classifyReply of the Claude provider: a valid tool call or the safe bucket.
ClassifyReplyClaude(r) ==
    IF ~r.refused /\ r.tool # NoIntent THEN r.tool ELSE "NotInterested"

\* classifyReply of the OpenRouter provider: the text is read as a fallback.
ClassifyReply(r) ==
    CASE r.refused -> "NotInterested"
      [] ~r.refused /\ r.tool # NoIntent -> r.tool
      [] ~r.refused /\ r.tool = NoIntent /\ IntentFromText(r) # NoIntent -> IntentFromText(r)
      [] OTHER -> "NotInterested"

\* What a classification may come to: the intent the answer names and the one read.
NamedIn(r, text) ==
    CASE r.refused -> NoIntent
      [] ~r.refused /\ r.tool # NoIntent -> r.tool
      [] ~r.refused /\ r.tool = NoIntent /\ text /\ r.json # NoIntent -> r.json
      [] ~r.refused /\ r.tool = NoIntent /\ text /\ r.json = NoIntent -> r.text
      [] OTHER -> NoIntent
Classified ==
    {<<NamedIn(r, TRUE), ClassifyReply(r)>> : r \in Responses}
    \cup {<<NamedIn(r, FALSE), ClassifyReplyClaude(r)>> : r \in Responses}

-----------------------------------------------------------------------------
(* control-loop.ts *)

\* runLoopOnce: load the rows and begin.
RunLoopOnce ==
    /\ phase \in Terminal /\ runs < MaxRuns
    /\ phase' = "observe" /\ snap' = state /\ inbox' = 0 /\ drafts' = {}
    /\ intent' = NoIntent /\ named' = NoIntent
    /\ runs' = runs + 1
    /\ UNCHANGED <<waiting, suppressed>>

\* Fault: the opener is considered first.
ObserveOpens ==
    /\ phase = "observe"
    /\ IF suppressed
       THEN phase' = "suppressed" /\ UNCHANGED <<inbox, waiting>>
       ELSE phase' = "personalize" /\ inbox' = waiting /\ waiting' = 0
    /\ UNCHANGED <<snap, intent, named, drafts, suppressed, runs>>

\* observe: a suppressed target ends the pass; new inbound goes before an opener.
Observe ==
    /\ phase = "observe"
    /\ IF suppressed
       THEN phase' = "suppressed" /\ UNCHANGED <<inbox, waiting>>
       ELSE /\ phase' = IF waiting > 0 THEN "ingest" ELSE "personalize"
            /\ inbox' = waiting /\ waiting' = 0
    /\ UNCHANGED <<snap, intent, named, drafts, suppressed, runs>>

To(p) == phase' = p /\ UNCHANGED <<snap, inbox, waiting, intent, named, drafts, suppressed, runs>>

\* Every provider call may throw (a refused draft, a failed request): the
\* promise rejects and the pass is over.
Personalize == phase = "personalize" /\ (To("pace") \/ To("threw"))

\* pace: the gate decides on the account as it was loaded.
Pace ==
    /\ phase = "pace"
    /\ To(CASE CanAct(snap) = "deny" -> "done" [] CanAct(snap) = "allow" -> "act" [] OTHER -> "deferred")

Enqueue(d) ==
    /\ drafts' = drafts \cup {d} /\ phase' = "awaiting_approval"
    /\ UNCHANGED <<snap, inbox, waiting, intent, named, suppressed, runs>>

Act == phase = "act" /\ Enqueue("send")

Ingest == phase = "ingest" /\ To("classify")

\* classify: the newest inbound decides.
Classify ==
    /\ phase = "classify"
    /\ \/ To("threw")
       \/ /\ \E c \in Classified : named' = c[1] /\ intent' = c[2]
          /\ phase' = "draft"
          /\ UNCHANGED <<snap, inbox, waiting, drafts, suppressed, runs>>

DraftStep == phase = "draft" /\ (Enqueue(intent) \/ To("threw"))

\* runStep, under runToStop: one phase after the other; the bound of 32 steps
\* is longer than any walk.
RunStep == Observe \/ Personalize \/ Pace \/ Act \/ Ingest \/ Classify \/ DraftStep

\* The target writes, or is suppressed by a Stop routed elsewhere.
Inbound == waiting < MaxInbound /\ waiting' = waiting + 1
           /\ UNCHANGED <<phase, snap, inbox, intent, named, drafts, suppressed, runs>>
Suppress == ~suppressed /\ suppressed' = TRUE
           /\ UNCHANGED <<phase, snap, inbox, waiting, intent, named, drafts, runs>>

LoopInit ==
    /\ ForecastInit
    /\ phase = "off" /\ snap = state /\ inbox = 0 /\ waiting = 0 /\ intent = NoIntent /\ named = NoIntent
    /\ drafts = {} /\ suppressed = FALSE /\ runs = 0

LoopNext ==
    \/ (RunLoopOnce \/ RunStep \/ Inbound \/ Suppress) /\ UNCHANGED acct
    \/ AccountStep /\ UNCHANGED loop

LoopSpec == LoopInit /\ [][LoopNext]_loopVars

-----------------------------------------------------------------------------
(* Properties *)

\* Phases, states and decisions come from their tables; a pass's copies are whole.
LoopTypeOK ==
    /\ phase \in Terminal \cup {"observe", "personalize", "pace", "act", "ingest", "classify", "draft"}
    /\ state \in AccountStates /\ snap \in AccountStates
    /\ limits \in [table : {"none", "older", "full"}, cap : Nat, enabled : BOOLEAN]
    /\ used \in Nat /\ inbox \in Nat /\ waiting \in Nat /\ runs \in Nat
    /\ {pausedAt, resumedAt, clock} \subseteq Nat
    /\ {open, ready, paused, suppressed} \subseteq BOOLEAN
    /\ intent \in ReplyIntents \cup {NoIntent} /\ named \in ReplyIntents \cup {NoIntent}
    /\ drafts \subseteq ReplyIntents \cup {"send"}

(* What the target wrote is answered by the pass that took it out of the
   executor: a pass that heard something ends with the one draft of an answer,
   and drafts no opener beside it; a pass that heard nothing drafts an opener
   or nothing.  Only a provider that throws loses what was heard: observe has
   drained it by then, and the next pass begins with an opener. *)
RunAnswersWhatItSaw ==
    /\ inbox > 0 => drafts \subseteq {intent} \ {"send", NoIntent}
    /\ inbox = 0 => drafts \subseteq {"send"}
    /\ phase \in Terminal \ {"off", "threw"} /\ inbox > 0 => drafts # {}

\* "Best-effort extraction of an intent from free text (JSON or bare enum)":
\* an answer that names an intent is read as that intent.
NamedIntentIsRead == named # NoIntent /\ intent # NoIntent => intent = named
=============================================================================
