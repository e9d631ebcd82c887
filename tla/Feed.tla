-------------------------------- MODULE Feed --------------------------------
(***************************************************************************)
(* The two lists the web shows of what happened.  The activity feed asks   *)
(* three tables one after the other, each for its newest rows up to the    *)
(* limit, and merges the answers by time; the errors feed asks two tables  *)
(* for what failed in a window and rolls the answers up by kind.  Rows are *)
(* written, and pending actions executed, between the queries of one       *)
(* request.                                                                *)
(***************************************************************************)
EXTENDS Integers, FiniteSetsExt, SequencesExt

CONSTANTS
    FeedLimit,  \* the page's limit
    ErrorHours, \* the window of the errors feed
    MaxItems,   \* bound: rows
    MaxTime     \* bound: the time

ASSUME FeedAssumption ==
    FeedLimit \in Nat \ {0} /\ ErrorHours \in Nat /\ MaxItems \in Nat /\ MaxTime \in Nat

VARIABLES
    items,   \* the rows: id, kind, time (executed, else scheduled) and result
    instant,
    feed,    \* a request: its place, the rows read, and its page
    errors,  \* a request: its place, the rows read, and the rollup by kind
    before   \* history: the rows when the request began

feedVars == <<items, instant, feed, errors, before>>

NoFeed == [pc |-> "idle", read |-> {}, page |-> {}]
NoErrors == [pc |-> "idle", read |-> {}, rollup |-> <<>>]

Write == UNCHANGED <<feed, errors, before>>

-----------------------------------------------------------------------------
(* The rows *)

\* A reply, an acceptance or a failure is recorded as it is, an action pending.
Insert(kind) ==
    /\ Cardinality(items) < MaxItems
    /\ items' = items \cup {[id |-> Cardinality(items) + 1, kind |-> kind, at |-> instant,
                             result |-> IF kind = "action" THEN "pending" ELSE "done"]}
    /\ Write /\ UNCHANGED instant

\* setResult: the row's time becomes that of its execution; a failed one is
\* followed by a failure event, unless the runner dies first.
SetResult(i, result) ==
    /\ i.kind = "action" /\ i.result = "pending"
    /\ items' = (items \ {i}) \cup {[i EXCEPT !.at = instant, !.result = result]}
    /\ Write /\ UNCHANGED instant

TimePasses == instant < MaxTime /\ instant' = instant + 1 /\ Write /\ UNCHANGED items

-----------------------------------------------------------------------------
(* queries.ts: getActivity *)

\* ORDER BY time DESC LIMIT n: rows of one time come in any order.
Newest(rows, n) ==
    {t \in SUBSET rows : /\ Cardinality(t) = Min({n, Cardinality(rows)})
                         /\ \A i \in t, j \in rows \ t : i.at >= j.at}

GetActivity ==
    /\ feed.pc = "idle" /\ errors.pc = "idle"
    /\ feed' = [NoFeed EXCEPT !.pc = "action"] /\ before' = items
    /\ UNCHANGED <<items, instant, errors>>

\* The queries, one after the other.
After == [action |-> "reply", reply |-> "accept", accept |-> "merge"]

ReadFeed ==
    /\ feed.pc \in DOMAIN After
    /\ \E rows \in Newest({i \in items : i.kind = feed.pc}, FeedLimit) :
         feed' = [feed EXCEPT !.pc = After[@], !.read = @ \cup rows]
    /\ UNCHANGED <<items, instant, errors, before>>

\* Fault: the answers are cut to the limit in the order they came.
MergePageAsRead(rows) ==
    LET actions == {i \in rows : i.kind = "action"} IN
    {actions \cup t : t \in Newest(rows \ actions, FeedLimit - Cardinality(actions))}

\* items.sort, items.slice.
MergePage(rows) == Newest(rows, FeedLimit)

MergeFeed ==
    /\ feed.pc = "merge"
    /\ \E rows \in MergePage(feed.read) : feed' = [pc |-> "done", read |-> {}, page |-> rows]
    /\ UNCHANGED <<items, instant, errors, before>>

-----------------------------------------------------------------------------
(* queries.ts: getErrors *)

\* What went wrong in the last hours, by table.
Wrong(rows, kind) ==
    {i \in rows : i.kind = kind /\ i.at >= instant - ErrorHours /\ (kind = "action" => i.result = "failed")}

GetErrors ==
    /\ errors.pc = "idle" /\ feed.pc = "idle"
    /\ errors' = [NoErrors EXCEPT !.pc = "failure"] /\ before' = items
    /\ UNCHANGED <<items, instant, feed>>

\* buildErrorEventsQuery, then buildFailedActionsQuery.
ReadErrors ==
    /\ errors.pc \in {"failure", "action"}
    /\ errors' = [errors EXCEPT !.pc = IF @ = "failure" THEN "action" ELSE "rollup",
                                !.read = @ \cup Wrong(items, errors.pc)]
    /\ UNCHANGED <<items, instant, feed, before>>

\* One entry of the rollup takes one more item.
Counted(entry, at) ==
    IF entry.count = 0 THEN [count |-> 1, first |-> at, last |-> at]
    ELSE [count |-> entry.count + 1, first |-> Min({entry.first, at}), last |-> Max({entry.last, at})]

\* The items counted one by one under their kind, in any order: an entry keeps
\* the least and the greatest time.
Rollup(rows) ==
    LET item == SetToSeq(rows)
        sum[n \in 0 .. Cardinality(rows)] ==
            IF n = 0 THEN [kind \in {"failure", "action"} |-> [count |-> 0, first |-> 0, last |-> 0]]
            ELSE [sum[n - 1] EXCEPT ![item[n].kind] = Counted(@, item[n].at)] IN
    sum[Cardinality(rows)]

SumErrors ==
    /\ errors.pc = "rollup"
    /\ errors' = [errors EXCEPT !.pc = "done", !.rollup = Rollup(errors.read)]
    /\ UNCHANGED <<items, instant, feed, before>>

-----------------------------------------------------------------------------
FeedInit == items = {} /\ instant = 0 /\ feed = NoFeed /\ errors = NoErrors /\ before = {}

FeedNext ==
    \/ \E kind \in {"action", "reply", "accept", "failure"} : Insert(kind)
    \/ \E i \in items, result \in {"done", "failed"} : SetResult(i, result)
    \/ TimePasses \/ GetActivity \/ ReadFeed \/ MergeFeed \/ GetErrors \/ ReadErrors \/ SumErrors

FeedSpec == FeedInit /\ [][FeedNext]_feedVars

-----------------------------------------------------------------------------
(* Properties *)

Ats(rows) == {i.at : i \in rows}

\* A row that was there before the request is on the activity page, or the page
\* is full of rows that are no older.
PageIsWhole ==
    feed.pc = "done" =>
        \A b \in before :
            \/ b.kind = "failure" \/ b.id \in {i.id : i \in feed.page}
            \/ Cardinality(feed.page) = FeedLimit /\ \A i \in feed.page : i.at >= b.at

\* A failure that was there, and is still in the window, is counted under its
\* kind and inside its first and last sighting.
RollupIsWhole ==
    errors.pc = "done" =>
        \A kind \in {"failure", "action"} :
            LET entry == errors.rollup[kind]
                old   == Wrong(before, kind) IN
            /\ entry.count \in Cardinality(old) .. Cardinality(items)
            /\ \A at \in Ats(old) : entry.first <= at /\ at <= entry.last

(* What the operator reads has no hole, although the tables are asked one after
   the other while rows are written and pending actions move to the time of
   their execution. *)
FeedIsComplete == PageIsWhole /\ RollupIsWhole
=============================================================================
