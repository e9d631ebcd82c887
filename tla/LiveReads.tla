----------------------------- MODULE LiveReads -----------------------------
(***************************************************************************)
(* Two reads of LinkedIn's lists from an account's own page, while the     *)
(* lists move.  A people search pages through ranked cards and stops at    *)
(* its target, at the end, at a page it has seen or at an error; it costs  *)
(* one charge of a daily budget kept in memory.  The acceptance pass reads *)
(* the newest connections, up to a limit, and looks for its leads there.   *)
(***************************************************************************)
EXTENDS Integers, FiniteSetsExt, SequencesExt, Listing

CONSTANTS
    Cards,      \* people LinkedIn may rank
    PageSize,   \* PAGE_SIZE
    Wanted,     \* the results asked for
    SearchCap,  \* the daily budget
    Limit,      \* connections one acceptance pass reads
    MaxMoves    \* bound: changes of LinkedIn's lists

ASSUME ReadsAssumption ==
    /\ IsFiniteSet(Cards) /\ PageSize \in Nat \ {0} /\ Wanted \in Nat \ {0}
    /\ SearchCap \in Nat /\ Limit \in Nat /\ MaxMoves \in Nat

\* A card that is nobody: an advertisement, a company.
Promo == "promo"

VARIABLES
    hits,     \* the ranked cards of the query
    people,   \* a search: its place, the next start, the results so far
    spent,    \* InMemorySearchBudget: searches charged today
    network,  \* the account's connections, newest first
    found,    \* people whose acceptance a pass has seen
    shown,    \* history: the ranking when the search began
    left,     \* history: somebody left the ranking since
    arrived,  \* history: connections made since the last pass
    flooded,  \* history: more of them than the limit before some pass
    moves

searchVars == <<hits, people, spent, shown, left>>
acceptVars == <<network, found, arrived, flooded>>
readVars == <<searchVars, acceptVars, moves>>

\* slice: at most n elements of s from the position after start.
Slice(s, start, n) == [i \in 1 .. Min({n, Max({Len(s) - start, 0})}) |-> s[start + i]]

NoSearch == [pc |-> "idle", start |-> 0, results |-> <<>>]

-----------------------------------------------------------------------------
(* observe-live.ts: searchPeople *)

Charge == people.pc # "paging" /\ spent < SearchCap /\ spent' = spent + 1

\* charge, then the page and the origin ...
SearchPeople ==
    /\ Charge
    /\ people' = [NoSearch EXCEPT !.pc = "paging"]
    /\ shown' = hits /\ left' = FALSE
    /\ UNCHANGED <<hits, acceptVars, moves>>

\* ... which may stay out of reach after every retry: the charge is spent.
EnsureOnLinkedInFails ==
    /\ Charge
    /\ people' = [NoSearch EXCEPT !.pc = "threw"]
    /\ shown' = hits /\ left' = FALSE
    /\ UNCHANGED <<hits, acceptVars, moves>>

\* Fault: a card that is nobody ends the page.
NormalizeBreak(page) ==
    Slice(page, 0, Cardinality({i \in DOMAIN page : \A j \in 1 .. i : page[j] # Promo}))

\* normalizeSearchResponse: only people are results.
NormalizeSearchResponse(page) == Chosen(page, ToSet(page) \ {Promo})

\* The dedup across pages.
Unseen(items, seen) == Chosen(items, ToSet(items) \ seen)

\* One turn of the loop: read a page, keep the new people up to the target.
ReadSearchPage ==
    LET page    == Slice(hits, people.start, PageSize)
        items   == NormalizeSearchResponse(page)
        fresh   == Unseen(items, ToSet(people.results))
        all     == people.results \o fresh
        results == Slice(all, 0, Wanted)
        done    == \/ people.start + PageSize >= Wanted \/ items = <<>>
                   \/ Len(results) >= Wanted \/ fresh = <<>> IN
    /\ people.pc = "paging"
    /\ people' = [pc |-> IF done THEN "done" ELSE "paging", start |-> people.start + PageSize, results |-> results]
    /\ UNCHANGED <<hits, spent, shown, left, acceptVars, moves>>

\* Not 200: an error on the first page, the end of the search on a later one.
SearchPageFails ==
    /\ people.pc = "paging"
    /\ people' = [people EXCEPT !.pc = IF people.results = <<>> THEN "threw" ELSE "done"]
    /\ UNCHANGED <<hits, spent, shown, left, acceptVars, moves>>

\* The counter belongs to a UTC day and to the process.
BudgetResets ==
    /\ spent > 0 /\ spent' = 0
    /\ UNCHANGED <<hits, people, shown, left, acceptVars, moves>>

-----------------------------------------------------------------------------
(* observe-live.ts: readConnections; acceptance-tick.ts: one pass *)

\* One request, newest first, with a count: a row without a person takes its place in it and
\* is dropped by the normalizer.
ReadConnections ==
    /\ found' = found \cup (ToSet(Slice(network, 0, Limit)) \ {Promo})
    /\ flooded' = (flooded \/ arrived > Limit)
    /\ arrived' = 0
    /\ UNCHANGED <<searchVars, network, moves>>

-----------------------------------------------------------------------------
(* LinkedIn *)

\* A card enters the ranking, or leaves it.
Ranked ==
    /\ moves < MaxMoves /\ moves' = moves + 1
    /\ \E c \in (Cards \ ToSet(hits)) \cup {Promo}, i \in 1 .. Len(hits) + 1 : hits' = InsertAt(hits, i, c)
    /\ UNCHANGED <<people, spent, shown, left, acceptVars>>

Unranked ==
    /\ moves < MaxMoves /\ moves' = moves + 1
    /\ \E i \in DOMAIN hits : hits' = RemoveAt(hits, i)
    /\ left' = TRUE
    /\ UNCHANGED <<people, spent, shown, acceptVars>>

\* Somebody connects; the row may carry no person.
Connected ==
    /\ moves < MaxMoves /\ moves' = moves + 1
    /\ \E c \in (Cards \ ToSet(network)) \cup {Promo} : network' = <<c>> \o network
    /\ arrived' = arrived + 1
    /\ UNCHANGED <<searchVars, found, flooded>>

-----------------------------------------------------------------------------
ReadsInit ==
    /\ hits \in {SetToSeq(Cards), <<Promo>> \o SetToSeq(Cards)}
    /\ people = NoSearch /\ spent = 0 /\ network = <<>> /\ found = {}
    /\ shown = <<>> /\ left = FALSE /\ arrived = 0 /\ flooded = FALSE /\ moves = 0

ReadsNext ==
    \/ SearchPeople \/ EnsureOnLinkedInFails \/ ReadSearchPage \/ SearchPageFails \/ BudgetResets \/ ReadConnections
    \/ Ranked \/ Unranked \/ Connected

ReadsSpec == ReadsInit /\ [][ReadsNext]_readVars

-----------------------------------------------------------------------------
(* Properties *)

(* A read never steps over anybody.  While nobody leaves the ranking, a search
   returns people without a gap: whoever was ranked above a result when it
   began is a result too, however many cards came in between the pages and
   wherever it stopped.  (People who leave let others slip past the next start,
   which no paging by offset can see.)  And as long as no more connections come
   between two passes than one pass reads, every acceptance older than the last
   pass has been seen; one that was ever buried deeper may never be. *)
ReadsLeaveNoGap ==
    /\ ~left =>
         \A i, j \in DOMAIN shown :
            i < j /\ shown[i] # Promo /\ shown[j] \in ToSet(people.results) => shown[i] \in ToSet(people.results)
    /\ ~flooded => ToSet(Slice(network, arrived, Len(network))) \subseteq found \cup {Promo}
=============================================================================
