------------------------------- MODULE Views -------------------------------
(***************************************************************************)
(* What the pages of the web client show: a panel filled by requests that  *)
(* may be answered in any order, the paged table of leads and list         *)
(* members, and the conversation the inbox keeps selected while it polls.  *)
(***************************************************************************)
EXTENDS Naturals, FiniteSetsExt, SequencesExt, Listing

CONSTANTS
    Accounts,   \* the linked accounts
    All,        \* "All accounts"
    Unlinked,   \* a remembered filter whose account is gone
    MaxLoads,   \* bound: requests of a panel
    MaxChanges, \* bound: changes on the server
    Keys,       \* rows of a table, in the server's order
    Cell,       \* the value of each in the sorted column, 0 when it has none
    Hits,       \* rows the search text matches
    TablePage,  \* PAGE_SIZE
    Threads,    \* conversations
    Found,      \* those the inbox search matches
    MaxPolls,   \* bound: loads of the inbox
    Nobody

ASSUME ViewsAssumption ==
    /\ IsFiniteSet(Keys) /\ Keys \subseteq Nat \ {0} /\ Cell \in [Keys -> Nat] /\ TablePage \in Nat \ {0}
    /\ IsFiniteSet(Threads) /\ Nobody \notin Threads /\ Unlinked \notin Accounts \cup {All}
    /\ MaxLoads \in Nat /\ MaxChanges \in Nat /\ MaxPolls \in Nat

VARIABLES
    panel,    \* filter, accounts loaded, what is shown, own writes answered, a write under way
    loads,    \* the open requests
    sent,    \* requests made
    version,  \* how often the data changed on the server
    table,    \* DataTable: rows handed in, sort, search, page
    inbox     \* InboxView: threads, drafts, filter, search, selection, focus asked for

viewVars == <<panel, loads, sent, version, table, inbox>>
panelVars == <<panel, loads, sent, version>>

-----------------------------------------------------------------------------
(* MetricsView, CampaignsView, ListsView: requests and their answers *)

Unread == MaxChanges + 1

\* Every load is a fetch whose answer is shown whenever it comes.
Load(sel) ==
    /\ sent < MaxLoads
    /\ sent' = sent + 1
    /\ loads' = loads \cup {[sel |-> sel, ver |-> Unread, n |-> sent + 1]}

\* The effect on the account filter loads the volume of the new one.
SetAccountId(a) ==
    /\ a # panel.sel /\ Load(a)
    /\ panel' = [panel EXCEPT !.sel = a]
    /\ UNCHANGED version

\* The accounts arrive; a remembered filter that is none of them falls back.
SetAccounts ==
    /\ ~panel.known
    /\ IF panel.sel \in Accounts \cup {All}
       THEN panel' = [panel EXCEPT !.known = TRUE] /\ UNCHANGED <<loads, sent>>
       ELSE panel' = [panel EXCEPT !.known = TRUE, !.sel = All] /\ Load(All)
    /\ UNCHANGED version

\* The interval.
LoadOps == Load(panel.sel) /\ UNCHANGED <<panel, version>>

ServerReads(r) ==
    /\ r.ver = Unread
    /\ loads' = (loads \ {r}) \cup {[r EXCEPT !.ver = version]}
    /\ UNCHANGED <<panel, sent, version>>

SetRows(r) ==
    /\ r.ver # Unread
    /\ panel' = [panel EXCEPT !.shown = r] /\ loads' = loads \ {r}
    /\ UNCHANGED <<sent, version>>

\* The error is shown instead; the rows stay.
FetchFails(r) == loads' = loads \ {r} /\ UNCHANGED <<panel, sent, version>>

\* onRemove, remove, launch: the call is committed ...
WriteLands ==
    /\ panel.write = 0 /\ version < MaxChanges
    /\ version' = version + 1 /\ panel' = [panel EXCEPT !.write = version + 1]
    /\ UNCHANGED <<loads, sent>>

\* ... and its answer loads the view again; a lost answer is an error.
WriteAnswered ==
    /\ panel.write # 0 /\ Load(panel.sel)
    /\ panel' = [panel EXCEPT !.write = 0, !.mine = @ \cup {panel.write}]
    /\ UNCHANGED version

WriteThrows ==
    /\ panel.write # 0 /\ panel' = [panel EXCEPT !.write = 0]
    /\ UNCHANGED <<loads, sent, version>>

PanelStep ==
    /\ \/ \E a \in Accounts \cup {All} : SetAccountId(a)
       \/ SetAccounts \/ LoadOps \/ WriteLands \/ WriteAnswered \/ WriteThrows
       \/ \E r \in loads : ServerReads(r) \/ SetRows(r) \/ FetchFails(r)
    /\ UNCHANGED <<table, inbox>>

-----------------------------------------------------------------------------
(* DataTable *)

Filtered(t) == IF t.query THEN t.rows \cap Hits ELSE t.rows

\* Rows without a value come last in either direction; ties keep their order.
Precedes(dir, a, b) ==
    \/ Cell[a] # 0 /\ Cell[b] = 0
    \/ Cell[a] # 0 /\ Cell[b] # 0 /\ (IF dir = "asc" THEN Cell[a] < Cell[b] ELSE Cell[b] < Cell[a])
    \/ Cell[a] = Cell[b] /\ a < b

InOrder(dir) == {pair \in Keys \X Keys : IF dir = "none" THEN pair[1] < pair[2] ELSE Precedes(dir, pair[1], pair[2])}

Sorted(t) == Arranged(Filtered(t), InOrder(t.dir))

PageCount(t) == Max({1, (Cardinality(Filtered(t)) + TablePage - 1) \div TablePage})

\* The clamp at render time; the state keeps the page that was asked for.
SafePage(t) == Min({t.page, PageCount(t) - 1})

PageOf(s, p) == SubSeq(s, p * TablePage + 1, Min({(p + 1) * TablePage, Len(s)}))

Visible(t) == PageOf(Sorted(t), SafePage(t))

\* A load hands in other rows; sort, search and page stay.
Refetch == \E rows \in SUBSET Keys : rows # table.rows /\ table' = [table EXCEPT !.rows = rows]

ToggleSort ==
    table' = [table EXCEPT !.dir = CASE @ = "none" -> "asc" [] @ = "asc" -> "desc" [] @ = "desc" -> "none"]

SetQuery == table' = [table EXCEPT !.query = ~@, !.page = 0]

Prev == SafePage(table) > 0 /\ table' = [table EXCEPT !.page = @ - 1]

NextPage ==
    /\ SafePage(table) < PageCount(table) - 1
    /\ table' = [table EXCEPT !.page = Min({PageCount(table) - 1, @ + 1})]

TableStep == (Refetch \/ ToggleSort \/ SetQuery \/ Prev \/ NextPage) /\ UNCHANGED <<panelVars, inbox>>

-----------------------------------------------------------------------------
(* InboxView *)

Listed(i) ==
    Chosen(i.threads, {t \in Threads : (i.filter = "approval" => t \in i.needs) /\ (i.search => t \in Found)})

\* Fault: a load selects the newest conversation.
EffectNewest(i) ==
    IF Listed(i) # <<>> THEN [i EXCEPT !.sel = Listed(i)[1]] ELSE [i EXCEPT !.sel = Nobody]

\* The selection effect: a focus asked for wins once its thread is there; a
\* selection that is no longer listed moves to the first.
Effect(i) ==
    IF i.focus \in ToSet(i.threads) THEN [i EXCEPT !.filter = "all", !.sel = i.focus, !.focus = Nobody]
    ELSE IF Listed(i) = <<>> THEN [i EXCEPT !.sel = Nobody]
    ELSE IF i.sel \notin ToSet(Listed(i)) THEN [i EXCEPT !.sel = Listed(i)[1]]
    ELSE i

\* The render that follows a change: the effect runs until nothing changes.
\* chosen is the conversation the operator opened, held while it stays listed.
Render(i, picked) ==
    LET j == Effect(Effect(i))
        chosen == IF i.focus # j.focus THEN i.focus ELSE picked IN
    inbox' = [j EXCEPT !.chosen = IF chosen \in ToSet(Listed(j)) THEN chosen ELSE Nobody]

\* A poll, or the load after a decision.
SetThreads ==
    /\ inbox.polls < MaxPolls
    /\ \E ts \in {s \in SeqOf(Threads, Cardinality(Threads)) : IsInjective(s)}, needs \in SUBSET Threads :
         Render([inbox EXCEPT !.threads = ts, !.needs = needs, !.polls = @ + 1], inbox.chosen)

SelectThread == \E t \in ToSet(Listed(inbox)) : Render([inbox EXCEPT !.sel = t], t)

SetFilter ==
    /\ inbox.polls > 0
    /\ Render([inbox EXCEPT !.filter = IF @ = "all" THEN "approval" ELSE "all"], inbox.chosen)

SetSearch == inbox.polls > 0 /\ Render([inbox EXCEPT !.search = ~@], inbox.chosen)

InboxStep == (SetThreads \/ SelectThread \/ SetFilter \/ SetSearch) /\ UNCHANGED <<panelVars, table>>

-----------------------------------------------------------------------------
ViewsInit ==
    /\ \E a \in Accounts \cup {All, Unlinked} :
         /\ panel = [sel |-> a, known |-> FALSE, shown |-> [sel |-> a, ver |-> 0, n |-> 0],
                     mine |-> {}, write |-> 0]
         /\ loads = {[sel |-> a, ver |-> Unread, n |-> 1]}
    /\ sent = 1 /\ version = 0
    /\ table = [rows |-> {}, dir |-> "none", query |-> FALSE, page |-> 0]
    /\ \E t \in Threads \cup {Nobody} :
         inbox = [threads |-> <<>>, needs |-> {}, filter |-> "all", search |-> FALSE, sel |-> Nobody,
                  focus |-> t, chosen |-> Nobody, polls |-> 0]

ViewsNext == PanelStep \/ TableStep \/ InboxStep

ViewsSpec == ViewsInit /\ [][ViewsNext]_viewVars

-----------------------------------------------------------------------------
(* Properties *)

\* Whenever the answer shown is the one asked for last, it is of the filter
\* selected now and holds every write of this page that was answered.  An
\* older answer that arrives late is shown all the same.
PanelIsCurrent ==
    panel.shown.n = sent =>
        panel.shown.sel = panel.sel /\ \A w \in panel.mine : panel.shown.ver >= w

\* A shrunk list never strands the table on an empty page, its pages hold
\* every matching row once, and rows without a value come last.
TableIsWhole ==
    LET s == Sorted(table) IN
    /\ Filtered(table) # {} => Visible(table) # <<>>
    /\ FlattenSeq([p \in 1 .. PageCount(table) |-> PageOf(s, p - 1)]) = s
    /\ table.dir # "none" => \A x, y \in DOMAIN s : x < y => Cell[s[x]] # 0 \/ Cell[s[y]] = 0

\* The composer sits under the selected conversation: a poll, a filter or a
\* search moves the operator off the one they opened only if it is not listed.
SelectionStays ==
    /\ inbox.chosen # Nobody => inbox.sel = inbox.chosen
    /\ inbox.sel = Nobody <=> Listed(inbox) = <<>>

\* The pages show what was asked of them.
ViewsShowWhatWasAsked == PanelIsCurrent /\ TableIsWhole /\ SelectionStays
=============================================================================
