----------------------------- MODULE ReplyWatch -----------------------------
(***************************************************************************)
(* How the reply tick and the send-time probe read one prospect's thread:  *)
(* the cached mailbox list, the watermark that spares the history of a     *)
(* thread that has not moved, the paced history read, the seen-set, and    *)
(* the local transcript.  Funnel takes a reply that is in the mailbox for  *)
(* readable; this module is about what lies between.                       *)
(*                                                                         *)
(* An event of the thread is a message of the prospect with its text, or   *)
(* anything else (a message of ours, a share, a reaction); LinkedIn stamps *)
(* it with the clock, or the payload carries no stamp.  The payload's      *)
(* shapes are left out: an event is taken to say who sent it.              *)
(***************************************************************************)
EXTENDS Integers, Sequences, FiniteSetsExt

CONSTANTS
    Texts,      \* message texts
    MaxEvents,  \* bound: events of the thread
    MaxTime,    \* bound: the clock
    Ttl         \* INBOX_CACHE_TTL_MS, in clock units

ASSUME WatchAssumption ==
    Texts # {} /\ MaxEvents \in Nat /\ MaxTime \in Nat /\ Ttl \in Nat \ {0}

Other == "other"
Never == -1
Readers == {"tick", "probe"}

VARIABLES
    thread,      \* LinkedIn's events, oldest first
    clock,
    listCache,   \* threadCache: when the list was read and the thread's row
    inboxCache,  \* inboxCache: when it was read and the thread's latest message in it
    mark,        \* threadWatermarks
    seenKeys,    \* seen
    transcript,  \* inbound rows of the messages table: texts, in order written
    reader,      \* what the tick and the probe are doing
    routings     \* history: how often each event was routed by this process

watchVars == <<thread, clock, listCache, inboxCache, mark, seenKeys, transcript, reader, routings>>

Resting == [pc |-> "idle", row |-> Never, todo |-> <<>>]

NoList == [at |-> Never, row |-> Never]
NoInbox == [at |-> Never, shown |-> <<>>]

-----------------------------------------------------------------------------
(* observe-live.ts *)

\* parseEvent, normalizeEvent: messages with a text that the account did not send.
Inbound == {i \in DOMAIN thread : thread[i].text # Other}

\* latestActivityOf: the newest stamp in either direction, or none.
LatestActivityOf(t) ==
    LET stamps == {t[i].at : i \in DOMAIN t} \ {Never} IN
    IF stamps = {} THEN Never ELSE Max(stamps)

\* An event without a stamp is taken to have arrived when it is read.
ReceivedAt(i) == IF thread[i].at = Never THEN clock ELSE thread[i].at

Before(i, j) == ReceivedAt(i) < ReceivedAt(j) \/ (ReceivedAt(i) = ReceivedAt(j) /\ i < j)

\* readThreadHistory, oldestFirst: every inbound message, the newest last.
History ==
    CHOOSE h \in [1 .. Cardinality(Inbound) -> Inbound] :
        \A j, k \in DOMAIN h : j < k => Before(h[j], h[k])

\* messageKey, without the thread.
MessageKey(i) == [at |-> ReceivedAt(i), text |-> thread[i].text]

-----------------------------------------------------------------------------
(* reply-tick.ts *)

\* isUnchanged: only a stamped row at or below a mark proves it.
IsUnchanged(row) == row # Never /\ mark # Never /\ row <= mark

Fresh(cache) == cache.at # Never /\ clock - cache.at < Ttl

\* readThreadsCached; runTick passes over the history of an unchanged thread,
\* the probe never does.
ReadList(r) ==
    LET list == IF Fresh(listCache) THEN listCache
                ELSE [at |-> clock, row |-> LatestActivityOf(thread)] IN
    /\ reader[r].pc = "idle" /\ thread # <<>>
    /\ listCache' = list
    /\ reader' = [reader EXCEPT ![r] =
         IF r = "tick" /\ IsUnchanged(list.row) THEN [Resting EXCEPT !.pc = "inbox"]
         ELSE [Resting EXCEPT !.pc = "paced", !.row = list.row]]
    /\ UNCHANGED <<thread, clock, inboxCache, mark, seenKeys, transcript, routings>>

\* readThreadHistoryPaced: time may pass before the history is read.
ReadHistory(r) ==
    /\ reader[r].pc = "paced"
    /\ reader' = [reader EXCEPT ![r].pc = "handling",
                                ![r].todo = [k \in DOMAIN History |->
                                  [event |-> History[k], key |-> MessageKey(History[k])]]]
    /\ UNCHANGED <<thread, clock, listCache, inboxCache, mark, seenKeys, transcript, routings>>

\* record: a text the transcript holds is not written again.
Record(text) ==
    transcript' = IF \E k \in DOMAIN transcript : transcript[k] = text
                  THEN transcript ELSE Append(transcript, text)

\* Fault: a message is marked seen once it has been routed.
HandleMarksLate(r, fails) ==
    LET m == Head(reader[r].todo) IN
    /\ reader[r].todo # <<>>
    /\ seenKeys' = IF fails THEN seenKeys ELSE seenKeys \union {m.key}
    /\ IF m.key \in seenKeys THEN ~fails /\ UNCHANGED <<transcript, routings>>
       ELSE /\ Record(thread[m.event].text) \/ (fails /\ UNCHANGED transcript)
            /\ routings' = IF Len(reader[r].todo) = 1
                           THEN [routings EXCEPT ![m.event] = @ + 1] ELSE routings
    /\ reader' = [reader EXCEPT ![r] = IF fails THEN Resting ELSE [reader[r] EXCEPT !.todo = Tail(@)]]
    /\ UNCHANGED <<thread, clock, listCache, inboxCache, mark>>

\* handle: one message, marked seen first, recorded, the newest one routed.
\* A throw ends the pass and leaves the thread unmarked.
Handle(r, fails) ==
    LET m == Head(reader[r].todo) IN
    /\ reader[r].todo # <<>>
    /\ seenKeys' = seenKeys \union {m.key}
    /\ IF m.key \in seenKeys THEN ~fails /\ UNCHANGED <<transcript, routings>>
       ELSE /\ Record(thread[m.event].text) \/ (fails /\ UNCHANGED transcript)
            /\ routings' = IF Len(reader[r].todo) = 1
                           THEN [routings EXCEPT ![m.event] = @ + 1] ELSE routings
    /\ reader' = [reader EXCEPT ![r] = IF fails THEN Resting ELSE [reader[r] EXCEPT !.todo = Tail(@)]]
    /\ UNCHANGED <<thread, clock, listCache, inboxCache, mark>>

\* The read failed: the pass ends, nothing is marked.
ReadFails(r) ==
    /\ reader[r].pc \in {"paced", "inbox"}
    /\ reader' = [reader EXCEPT ![r] = Resting]
    /\ UNCHANGED <<thread, clock, listCache, inboxCache, mark, seenKeys, transcript, routings>>

\* Fault: the mark is the time of the scan.
MarkThreadSeenNow(row) == mark' = clock

\* markThreadSeen: the list row's stamp, if it has one.
MarkThreadSeen(row) == mark' = IF row = Never THEN mark ELSE row

\* The last message is handled: the tick marks the thread and goes on to the
\* inbox list, the probe does neither.
Finish(r) ==
    /\ reader[r].pc = "handling" /\ reader[r].todo = <<>>
    /\ IF r = "tick" THEN MarkThreadSeen(reader[r].row) ELSE UNCHANGED mark
    /\ reader' = [reader EXCEPT ![r] = IF r = "tick" THEN [Resting EXCEPT !.pc = "inbox"] ELSE Resting]
    /\ UNCHANGED <<thread, clock, listCache, inboxCache, seenKeys, transcript, routings>>

\* readInboxCached: the list shows a thread's latest event only.
ReadInbox ==
    LET last == Len(thread)
        inbox == IF Fresh(inboxCache) THEN inboxCache
                 ELSE [at |-> clock, shown |-> IF last \in Inbound
                          THEN <<[event |-> last, key |-> MessageKey(last)]>> ELSE <<>>] IN
    /\ reader["tick"].pc = "inbox"
    /\ inboxCache' = inbox
    /\ reader' = [reader EXCEPT !["tick"] = [Resting EXCEPT !.pc = "snippets", !.todo = inbox.shown]]
    /\ UNCHANGED <<thread, clock, listCache, mark, seenKeys, transcript, routings>>

EndOfPass ==
    /\ reader["tick"].pc = "snippets" /\ reader["tick"].todo = <<>>
    /\ reader' = [reader EXCEPT !["tick"] = Resting]
    /\ UNCHANGED <<thread, clock, listCache, inboxCache, mark, seenKeys, transcript, routings>>

\* The caches, the marks and the seen-set live in memory.
WatchRestart ==
    /\ listCache' = NoList /\ inboxCache' = NoInbox /\ mark' = Never /\ seenKeys' = {}
    /\ reader' = [r \in Readers |-> Resting]
    /\ routings' = [i \in 1 .. MaxEvents |-> 0]
    /\ UNCHANGED <<thread, clock, transcript>>

\* Someone writes, shares or reacts; LinkedIn stamps it, or does not say when.
ThreadEvent ==
    /\ Len(thread) < MaxEvents
    /\ \E text \in Texts \union {Other}, at \in {clock, Never} :
         thread' = Append(thread, [text |-> text, at |-> at])
    /\ UNCHANGED <<clock, listCache, inboxCache, mark, seenKeys, transcript, reader, routings>>

WatchTime ==
    /\ clock < MaxTime /\ clock' = clock + 1
    /\ UNCHANGED <<thread, listCache, inboxCache, mark, seenKeys, transcript, reader, routings>>

WatchInit ==
    /\ thread = <<>> /\ clock = 0 /\ listCache = NoList /\ inboxCache = NoInbox
    /\ mark = Never /\ seenKeys = {} /\ transcript = <<>>
    /\ reader = [r \in Readers |-> Resting]
    /\ routings = [i \in 1 .. MaxEvents |-> 0]

WatchNext ==
    \/ \E r \in Readers :
         \/ ReadList(r) \/ ReadHistory(r) \/ ReadFails(r) \/ Finish(r)
         \/ \E fails \in BOOLEAN : Handle(r, fails)
    \/ ReadInbox \/ EndOfPass
    \/ WatchRestart
    \/ ThreadEvent
    \/ WatchTime

WatchSpec == WatchInit /\ [][WatchNext]_watchVars

-----------------------------------------------------------------------------
(* Properties *)

Accounted(i) == \E k \in seenKeys : k.text = thread[i].text /\ k.at = thread[i].at

\* The watermark hides no reply: a thread the tick would pass over holds no
\* inbound message it has not handled, unless that came with the very stamp of
\* the mark, or with none.
WatermarkHidesNothing ==
    IsUnchanged(LatestActivityOf(thread)) =>
        \A i \in Inbound : thread[i].at \in {Never, mark} \/ Accounted(i)

\* A process routes a stamped reply at most once, whichever of the tick and the
\* probe meets it and however often a pass fails, and the inbox shows each text
\* once, over failures, probes and restarts.
RoutedOnce ==
    /\ \A i \in DOMAIN thread : thread[i].at # Never => routings[i] <= 1
    /\ \A j, k \in DOMAIN transcript : transcript[j] = transcript[k] => j = k
=============================================================================
