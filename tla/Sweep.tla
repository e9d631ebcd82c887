-------------------------------- MODULE Sweep --------------------------------
(***************************************************************************)
(* The stale-invitation sweep of one account: the paged read of the sent   *)
(* invitations, the choice of the oldest, and the withdrawals with their   *)
(* back-off, batch rests and cursor releases.  LinkedIn keeps its list     *)
(* newest first and moves under the reader: people accept, new invites go  *)
(* out, and an answer may be lost after the withdrawal took effect.        *)
(*                                                                         *)
(* An invite is a number, a later one larger; its age is "old" (at or      *)
(* before the cutoff), "fresh", "undated", or "broken" when the payload    *)
(* has no urn for it and the normalizer drops it.                          *)
(***************************************************************************)
EXTENDS Naturals, SequencesExt, Listing

CONSTANTS
    MaxInvites,    \* bound: invites ever sent
    PageSize,      \* SENT_INVITATIONS_PAGE_SIZE
    Ceiling,       \* SENT_INVITATIONS_CEILING, and the sweep's read limit
    SweepMax,      \* opts.max, at most MAX_PER_SWEEP
    MaxThrottles,  \* maxConsecutiveThrottles
    BatchSize,     \* batchSize
    MaxSweeps      \* bound: sweeps asked for

ASSUME SweepAssumption ==
    /\ MaxInvites \in Nat /\ PageSize \in Nat \ {0} /\ Ceiling \in Nat \ {0}
    /\ SweepMax \in Nat \ {0} /\ MaxThrottles \in Nat /\ BatchSize \in Nat \ {0}
    /\ MaxSweeps \in Nat

VARIABLES
    pile,     \* LinkedIn's list of pending invites, newest first
    age,      \* what the payload says of each invite
    parked,   \* invites whose campaign cursor is awaiting_connection
    counter,  \* the outstanding counter
    sweep,    \* the sweep under way: its place, its reads and its tallies
    tale,     \* history of this sweep: what happened around it
    sweeps    \* sweeps begun

sweepVars == <<pile, age, parked, counter, sweep, tale, sweeps>>

Invites == 1 .. MaxInvites

NoSweep ==
    [pc |-> "idle", out |-> <<>>, start |-> 0, stale |-> <<>>, aged |-> 0, tries |-> 0,
     unrested |-> 0, withdrawn |-> 0, failed |-> 0, stopped |-> "no"]

\* moved: the list changed; partial: a page was missed or cut; lost: an answer was;
\* refused: invites LinkedIn would not withdraw; throttles: in a row.
Calm == [moved |-> FALSE, partial |-> FALSE, lost |-> FALSE, refused |-> {}, throttles |-> 0]

Without(s, i) == Chosen(s, ToSet(s) \ {i})

-----------------------------------------------------------------------------
(* sent-invitations.ts: readSentInvitations *)

SweepBegin ==
    /\ sweep.pc \in {"idle", "done"} /\ sweeps < MaxSweeps
    /\ sweep' = [NoSweep EXCEPT !.pc = "reading"] /\ tale' = Calm /\ sweeps' = sweeps + 1
    /\ UNCHANGED <<pile, age, parked, counter>>

\* An entity without what an invitation needs is not one.
NormalizeSentInvitationsResponse(page) == Chosen(page, {i \in Invites : age[i] # "broken"})

\* A page: a short one is the last, whatever the normalizer dropped from it.
ReadPage ==
    LET page  == SubSeq(pile, sweep.start + 1,
                        IF sweep.start + PageSize < Len(pile) THEN sweep.start + PageSize ELSE Len(pile))
        items == NormalizeSentInvitationsResponse(page)
        all   == sweep.out \o items
        out   == SubSeq(all, 1, IF Len(all) < Ceiling THEN Len(all) ELSE Ceiling)
        more  == /\ Len(items) = PageSize /\ Len(out) < Ceiling
                 /\ sweep.start + PageSize < Ceiling IN
    /\ sweep.pc = "reading"
    /\ sweep' = [sweep EXCEPT !.out = out, !.start = @ + PageSize, !.pc = IF more THEN "reading" ELSE "read"]
    /\ tale' = [tale EXCEPT !.partial = @ \/ Len(out) < Len(all) \/ (~more /\ sweep.start + PageSize < Len(pile))]
    /\ UNCHANGED <<pile, age, parked, counter, sweeps>>

\* A page that is not a 200: the first ends the sweep with an error, a later
\* one ends the reading.
PageFails ==
    /\ sweep.pc = "reading"
    /\ sweep' = IF sweep.out = <<>> THEN NoSweep ELSE [sweep EXCEPT !.pc = "read"]
    /\ tale' = [tale EXCEPT !.partial = TRUE]
    /\ UNCHANGED <<pile, age, parked, counter, sweeps>>

-----------------------------------------------------------------------------
(* withdraw-invitations.ts: withdrawStale *)

\* The aged invites of a list, oldest first; one that was read twice comes twice.
Aged(out) ==
    LET places == {k \in DOMAIN out : age[out[k]] = "old"}
        order  == Arranged(places, {p \in places \X places :
                                       out[p[1]] < out[p[2]] \/ (out[p[1]] = out[p[2]] /\ p[1] < p[2])}) IN
    [n \in DOMAIN order |-> out[order[n]]]

\* The oldest, up to the cap.
SelectStale ==
    LET aged == Aged(sweep.out) IN
    /\ sweep.pc = "read"
    /\ sweep' = [sweep EXCEPT !.pc = IF aged = <<>> THEN "done" ELSE "attempt",
                              !.aged = Len(aged),
                              !.stale = SubSeq(aged, 1, IF Len(aged) < SweepMax THEN Len(aged) ELSE SweepMax)]
    /\ UNCHANGED <<pile, age, parked, counter, tale, sweeps>>

\* On to the next invite, after a rest when a batch is full.
Onward(s) ==
    [s EXCEPT !.stale = Tail(@), !.tries = 0, !.pc = IF Len(s.stale) = 1 THEN "done" ELSE "attempt",
              !.unrested = IF @ >= BatchSize THEN 0 ELSE @]

\* A throttle: back off and try the same invite again, or give the sweep up.
BackOff(s) ==
    IF s.tries < MaxThrottles THEN [s EXCEPT !.tries = @ + 1]
    ELSE [s EXCEPT !.pc = "done", !.stopped = "throttled"]

\* attempt: the answer is "ok", a "throttle" before or after the effect
\* ("lost"), or any other status, which is skipped.
Attempt(answer) ==
    LET inv == Head(sweep.stale)
        pending == \E k \in DOMAIN pile : pile[k] = inv IN
    /\ sweep.pc = "attempt"
    /\ answer \in {"ok", "lost"} => pending
    /\ pile' = IF answer \in {"ok", "lost"} THEN Without(pile, inv) ELSE pile
    /\ sweep' = CASE answer = "ok" -> [sweep EXCEPT !.pc = "release"]
                  [] answer \in {"throttle", "lost"} -> BackOff(sweep)
                  [] answer = "skip" -> Onward([sweep EXCEPT !.failed = @ + 1])
    /\ tale' = [tale EXCEPT !.lost = @ \/ answer = "lost",
                            !.refused = IF answer = "skip" /\ pending THEN @ \union {inv} ELSE @,
                            !.throttles = IF answer \in {"throttle", "lost"} THEN @ + 1 ELSE 0]
    /\ UNCHANGED <<age, parked, counter, sweeps>>

\* Fault: every withdrawal takes one off the counter.
ReleaseParkedCursorAlways(inv) ==
    parked' = parked \ {inv} /\ counter' = IF counter > 0 THEN counter - 1 ELSE 0

\* releaseParkedCursor: only a matched cursor is released and counted.
ReleaseParkedCursor(inv) ==
    /\ parked' = parked \ {inv}
    /\ counter' = IF inv \in parked /\ counter > 0 THEN counter - 1 ELSE counter

Withdrawn ==
    /\ sweep.pc = "release"
    /\ ReleaseParkedCursor(Head(sweep.stale))
    /\ sweep' = Onward([sweep EXCEPT !.withdrawn = @ + 1, !.unrested = @ + 1])
    /\ UNCHANGED <<pile, age, tale, sweeps>>

\* What the result reports as left over.
Remaining == sweep.aged - sweep.withdrawn - sweep.failed

-----------------------------------------------------------------------------
(* LinkedIn, the acceptance tick, the dispatcher and the process *)

\* Someone accepts; the acceptance tick releases the cursor when it sees it.
InviteAccepted(i) ==
    /\ \E k \in DOMAIN pile : pile[k] = i
    /\ pile' = Without(pile, i) /\ tale' = [tale EXCEPT !.moved = TRUE]
    /\ UNCHANGED <<age, parked, counter, sweep, sweeps>>

AcceptanceSeen(i) ==
    /\ i \in parked /\ ~\E k \in DOMAIN pile : pile[k] = i
    /\ parked' = parked \ {i} /\ counter' = IF counter > 0 THEN counter - 1 ELSE 0
    /\ UNCHANGED <<pile, age, sweep, tale, sweeps>>

InviteSent(i) ==
    /\ age[i] = "unsent" /\ \A j \in 1 .. i - 1 : age[j] # "unsent"
    /\ pile' = <<i>> \o pile /\ age' = [age EXCEPT ![i] = "fresh"]
    /\ parked' = parked \union {i} /\ counter' = counter + 1
    /\ tale' = [tale EXCEPT !.moved = TRUE]
    /\ UNCHANGED <<sweep, sweeps>>

\* The process dies mid-sweep; the counter is rebuilt from the cursors.
SweepCrash ==
    /\ sweep.pc # "idle"
    /\ sweep' = NoSweep /\ counter' = Cardinality(parked)
    /\ UNCHANGED <<pile, age, parked, tale, sweeps>>

SweepInit ==
    /\ \E n \in 0 .. MaxInvites - 1 :
         /\ age \in [Invites -> {"old", "fresh", "undated", "broken", "unsent"}]
         /\ \A i \in Invites : (i > n) = (age[i] = "unsent")
         /\ \A i, j \in Invites : i < j /\ age[j] = "old" => age[i] # "fresh"
         /\ pile = [k \in 1 .. n |-> n + 1 - k]
         /\ parked \in SUBSET (1 .. n) /\ counter = Cardinality(parked)
    /\ sweep = NoSweep /\ tale = Calm /\ sweeps = 0

SweepNext ==
    \/ SweepBegin \/ ReadPage \/ PageFails \/ SelectStale \/ Withdrawn \/ SweepCrash
    \/ \E answer \in {"ok", "throttle", "lost", "skip"} : Attempt(answer)
    \/ \E i \in Invites : InviteAccepted(i) \/ AcceptanceSeen(i) \/ InviteSent(i)

SweepSpec == SweepInit /\ [][SweepNext]_sweepVars

-----------------------------------------------------------------------------
(* Properties *)

NeverHammers == tale.throttles <= MaxThrottles + 1

\* The invites a re-run would find.
StillOld == {i \in ToSet(pile) : age[i] = "old"}

RemainingIsHonest ==
    sweep.pc = "done" /\ ~tale.moved /\ ~tale.partial /\ ~tale.lost =>
        Cardinality(StillOld) = Remaining + Cardinality(tale.refused)

CounterMatchesCursors == counter = Cardinality(parked)

(* The books of a sweep balance: what it reports as remaining is what a re-run
   would find, when it read the whole list, nobody else changed it and no
   answer was lost (only the invites LinkedIn refused to withdraw are missing
   from the count); and the outstanding counter is the number of cursors
   waiting for acceptance, whoever withdraws, accepts or crashes.  And it never
   hammers: LinkedIn refuses no more than MaxThrottles + 1 posts in a row before
   the sweep stops. *)
SweepBalances == RemainingIsHonest /\ CounterMatchesCursors /\ NeverHammers
=============================================================================
