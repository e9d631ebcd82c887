----------------------------- MODULE StepEditor -----------------------------
(***************************************************************************)
(* A campaign's sequence while somebody rewrites it.  define_sequence over *)
(* MCP deletes the old step rows and inserts the new ones, each row in a   *)
(* statement of its own; the web's flow editor sends its whole form, which *)
(* the server swaps in with one transaction; dispatch reads whatever rows  *)
(* are there and indexes into the enabled ones with a lead's cursor.       *)
(*                                                                         *)
(* A step is its type, whether its text or its wait is filled in, and      *)
(* whether it is enabled.  Orders count from 0.                            *)
(***************************************************************************)
EXTENDS Naturals, FiniteSetsExt, SequencesExt, Vocabulary

CONSTANTS
    Definers,     \* define_sequence calls that may be under way
    Steps,        \* the steps people write
    MaxSteps,     \* bound: steps of a sequence
    MaxRewrites,  \* bound: define_sequence calls and saves
    MaxFormEdits  \* bound: changes in the flow editor

\* blankStep: what the editor adds.
BlankStep == [type |-> "touch", filled |-> TRUE, enabled |-> TRUE]

ASSUME StepsAssumption ==
    /\ Steps \subseteq [type : StepTypes, filled : BOOLEAN, enabled : BOOLEAN] /\ BlankStep \in Steps
    /\ MaxSteps \in Nat /\ MaxRewrites \in Nat /\ MaxFormEdits \in Nat

VARIABLES
    stepRows,  \* campaign_steps of the campaign: its rows by stepOrder, unique
    exists,    \* the campaign's row
    defining,  \* each define_sequence call: its place, the rows it has still to
               \* delete, its list, the order to insert next, and (history)
               \* whether nobody else wrote meanwhile
    flow,      \* FlowEditor: its steps, the list a save has sent and the answer
    lead,      \* a lead's cursor, how many steps a tick has read for it, and
               \* (history) whether those were a sequence somebody wrote
    asked,     \* history: the sequence the last undisturbed writer asked for
    tangled,   \* history: writers overlapped, or one stopped half way, since
    rewrites, formEdits

editorVars == <<stepRows, exists, defining, flow, lead, asked, tangled, rewrites, formEdits>>

Lists == UNION {[1 .. n -> Steps] : n \in 0 .. MaxSteps}
NotDefining == [pc |-> "idle", todo |-> {}, list |-> <<>>, order |-> 0, alone |-> TRUE]
Defining == {c \in Definers : defining[c].pc # "idle"}

-----------------------------------------------------------------------------
(* postgres-store.ts *)

\* listCampaignSteps: the rows by order, whatever orders there are.
ListCampaignSteps ==
    LET nth(i) == CHOOSE o \in DOMAIN stepRows : Cardinality({p \in DOMAIN stepRows : p < o}) = i - 1 IN
    [i \in 1 .. Cardinality(DOMAIN stepRows) |-> stepRows[nth(i)]]

RowsOf(list) == [o \in 0 .. Len(list) - 1 |-> list[o + 1]]

-----------------------------------------------------------------------------
(* mcp-ports.ts: defineCampaignSteps *)

\* Validated before anything is changed.
Definable(list) ==
    list # <<>> /\ \A i \in DOMAIN list : list[i].type \in {"delay", "message"} => list[i].filled

Begin(c, list, todo) ==
    /\ defining[c].pc = "idle" /\ rewrites < MaxRewrites /\ Definable(list)
    /\ defining' = [d \in Definers |->
         IF d = c THEN [pc |-> "delete", todo |-> todo, list |-> list, order |-> 0, alone |-> Defining = {}]
         ELSE [defining[d] EXCEPT !.alone = FALSE]]
    /\ tangled' = (tangled \/ Defining # {})
    /\ rewrites' = rewrites + 1
    /\ UNCHANGED <<stepRows, exists, flow, lead, asked, formEdits>>

\* Fault: only the rows in the way of the new ones are deleted.
DefineOver(c, list) == Begin(c, list, {o \in DOMAIN stepRows : o < Len(list)})

\* The call lists the rows to delete.
DefineCampaignSteps(c, list) == Begin(c, list, DOMAIN stepRows)

\* One row goes, by its id; a row that somebody else deleted is no longer in
\* anyone's todo.
DeleteCampaignStep(c) ==
    /\ defining[c].pc = "delete"
    /\ IF defining[c].todo = {}
       THEN defining' = [defining EXCEPT ![c].pc = "insert"] /\ UNCHANGED stepRows
       ELSE LET o == Min(defining[c].todo) IN
            /\ stepRows' = [p \in DOMAIN stepRows \ {o} |-> stepRows[p]]
            /\ defining' = [d \in Definers |-> [defining[d] EXCEPT !.todo = @ \ {o}]]
    /\ UNCHANGED <<exists, flow, lead, asked, tangled, rewrites, formEdits>>

\* One row comes, with the next order; the last one ends the call.  An order
\* that is taken, or a campaign that is gone, violates a constraint: the call
\* throws and leaves what it has done.
UpsertCampaignStep(c) ==
    LET d == defining[c]
        last == d.order + 1 = Len(d.list) IN
    /\ d.pc = "insert"
    /\ IF exists /\ d.order \notin DOMAIN stepRows
       THEN /\ stepRows' = [o \in DOMAIN stepRows \cup {d.order} |->
                              IF o = d.order THEN d.list[o + 1] ELSE stepRows[o]]
            /\ defining' = [defining EXCEPT ![c] = IF last THEN NotDefining ELSE [d EXCEPT !.order = @ + 1]]
            /\ asked' = IF last /\ d.alone THEN d.list ELSE asked
            /\ tangled' = (tangled /\ ~(last /\ d.alone))
       ELSE /\ defining' = [defining EXCEPT ![c] = NotDefining]
            /\ tangled' = TRUE
            /\ UNCHANGED <<stepRows, asked>>
    /\ UNCHANGED <<exists, flow, lead, rewrites, formEdits>>

\* The runtime stops with calls under way.
RuntimeStops ==
    /\ Defining # {}
    /\ defining' = [c \in Definers |-> NotDefining] /\ tangled' = TRUE
    /\ UNCHANGED <<stepRows, exists, flow, lead, asked, rewrites, formEdits>>

-----------------------------------------------------------------------------
(* FlowEditor.tsx *)

\* The page is loaded: the form shows the rows of that moment.
FlowOpen ==
    /\ flow.put = "none"
    /\ flow' = [flow EXCEPT !.steps = ListCampaignSteps]
    /\ UNCHANGED <<stepRows, exists, defining, lead, asked, tangled, rewrites, formEdits>>

\* update, move, remove and add, each through mutate; a save does not block them.
Mutate ==
    /\ formEdits < MaxFormEdits /\ formEdits' = formEdits + 1
    /\ LET s == flow.steps IN
       \E next \in Lists :
         /\ \/ \E i \in DOMAIN s, step \in Steps : next = [s EXCEPT ![i] = step]
            \/ \E i \in 1 .. Len(s) - 1 : next = [s EXCEPT ![i] = s[i + 1], ![i + 1] = s[i]]
            \/ \E i \in DOMAIN s : next = RemoveAt(s, i)
            \/ next = Append(s, BlankStep)
         /\ flow' = [flow EXCEPT !.steps = next]
    /\ UNCHANGED <<stepRows, exists, defining, lead, asked, tangled, rewrites>>

SaveFlow ==
    /\ flow.put = "none" /\ rewrites < MaxRewrites
    /\ flow' = [flow EXCEPT !.put = "sent", !.list = flow.steps]
    /\ rewrites' = rewrites + 1
    /\ UNCHANGED <<stepRows, exists, defining, lead, asked, tangled, formEdits>>

\* The answer: what was stored becomes the form, edits made meanwhile included
\* in what it replaces; an error leaves the form.
SaveAnswered ==
    /\ flow.put \in {"stored", "refused"}
    /\ flow' = [steps |-> IF flow.put = "stored" THEN flow.list ELSE flow.steps, put |-> "none", list |-> <<>>]
    /\ UNCHANGED <<stepRows, exists, defining, lead, asked, tangled, rewrites, formEdits>>

-----------------------------------------------------------------------------
(* queries.ts, steps.ts *)

\* normalizeSteps: a wait needs seconds; a message may be blank here.
Normalizable(list) == \A i \in DOMAIN list : list[i].type = "delay" => list[i].filled

\* replaceSteps: the rows are swapped in one transaction.
ReplaceSteps ==
    /\ flow.put = "sent" /\ exists /\ Normalizable(flow.list)
    /\ stepRows' = RowsOf(flow.list)
    /\ flow' = [flow EXCEPT !.put = "stored"]
    /\ defining' = [d \in Definers |-> [defining[d] EXCEPT !.todo = {}, !.alone = FALSE]]
    /\ asked' = IF Defining = {} THEN flow.list ELSE asked
    /\ tangled' = (Defining # {})
    /\ UNCHANGED <<exists, lead, rewrites, formEdits>>

\* 404, 400, or an insert of define_sequence that came in the middle of the
\* transaction and takes one of its orders: nothing is changed.
ReplaceRefused ==
    /\ flow.put = "sent"
    /\ ~exists \/ ~Normalizable(flow.list) \/ \E c \in Definers : defining[c].pc = "insert"
    /\ flow' = [flow EXCEPT !.put = "refused"]
    /\ UNCHANGED <<stepRows, exists, defining, lead, asked, tangled, rewrites, formEdits>>

\* deleteCampaign: progress, targets, steps and the campaign in one transaction.
DeleteCampaign ==
    /\ exists /\ exists' = FALSE
    /\ stepRows' = RowsOf(<<>>) /\ asked' = <<>> /\ lead' = [lead EXCEPT !.state = "gone"]
    /\ defining' = [d \in Definers |-> [defining[d] EXCEPT !.todo = {}, !.alone = FALSE]]
    /\ tangled' = (Defining # {})
    /\ UNCHANGED <<flow, rewrites, formEdits>>

-----------------------------------------------------------------------------
(* tick.ts, advance.ts: one lead *)

\* The enabled steps; a cursor counts them.
EnabledOf(list) == {i \in DOMAIN list : list[i].enabled}

\* A handler reads the enabled steps, for the cursor of a row it already has.
LeadReads ==
    /\ lead.state = "in_progress" /\ ~lead.reading
    /\ lead' = [lead EXCEPT !.reading = TRUE, !.read = Cardinality(EnabledOf(ListCampaignSteps)),
                            !.whole = Defining = {} /\ ~tangled, !.of = Cardinality(EnabledOf(asked))]
    /\ UNCHANGED <<stepRows, exists, defining, flow, asked, tangled, rewrites, formEdits>>

\* ... and after its awaits leaves the cursor (no steps), ends it, or moves it on.
LeadAdvances ==
    /\ lead.reading
    /\ LET n == lead.read IN
       lead' = [lead EXCEPT
         !.reading = FALSE, !.read = 0,
         !.at = IF @ < n THEN @ + 1 ELSE @,
         !.state = IF @ = "gone" \/ n = 0 \/ lead.at + 1 < n THEN @ ELSE "completed"]
    /\ UNCHANGED <<stepRows, exists, defining, flow, asked, tangled, rewrites, formEdits>>

-----------------------------------------------------------------------------
EditorInit ==
    /\ \E list \in Lists : Definable(list) /\ Len(list) = MaxSteps /\ stepRows = RowsOf(list) /\ asked = list
    /\ exists = TRUE /\ tangled = FALSE /\ rewrites = 0 /\ formEdits = 0
    /\ defining = [c \in Definers |-> NotDefining]
    /\ flow = [steps |-> <<>>, put |-> "none", list |-> <<>>]
    /\ lead = [state |-> "in_progress", at |-> 0, reading |-> FALSE, read |-> 0, whole |-> TRUE, of |-> 0]

EditorNext ==
    \/ \E c \in Definers : (\E list \in Lists : DefineCampaignSteps(c, list)) \/ DeleteCampaignStep(c) \/ UpsertCampaignStep(c)
    \/ RuntimeStops \/ FlowOpen \/ Mutate \/ SaveFlow \/ SaveAnswered \/ ReplaceSteps \/ ReplaceRefused \/ DeleteCampaign
    \/ LeadReads \/ LeadAdvances

EditorSpec == EditorInit /\ [][EditorNext]_editorVars

-----------------------------------------------------------------------------
(* Properties *)

(* A campaign runs a sequence somebody wrote.  Between rewrites the rows are
   exactly the last list asked for, unless writers overlapped or one stopped
   half way since; any later rewrite that nobody disturbs makes them whole
   again, whatever it found.  And a lead ends only past the last enabled step
   of such a sequence: one that ends earlier was read in the middle of a
   rewrite, which dispatch cannot tell from a short sequence. *)
SequenceIsWhole ==
    /\ Defining = {} /\ ~tangled => stepRows = RowsOf(asked)
    /\ lead.state = "completed" /\ lead.whole => lead.at >= lead.of
=============================================================================
