------------------------------ MODULE Settings ------------------------------
(***************************************************************************)
(* The limits of one account, edited from several open Settings pages:     *)
(* AccountCard keeps a copy of what it loaded, its operator edits it, Save *)
(* sends all of it, and updateAccountLimits reads the row, merges the      *)
(* patch into what it read and writes the result, with nothing to keep a   *)
(* second patch out in between.  A patch may also come from another client *)
(* of the route, with fields left out or out of range.                     *)
(***************************************************************************)
EXTENDS Naturals, Sequences, FiniteSets

CONSTANTS
    Cards,       \* open pages
    Actions,     \* action types of the row and the card
    MaxCap,      \* bound: the largest cap entered
    MaxHour,     \* the last hour of the day (24 in the code)
    Weekdays,    \* days of the week
    MaxEdits,    \* bound: edits made on the cards
    MaxPatches   \* bound: patches sent

ASSUME SettingsAssumption ==
    /\ Actions # {} /\ Weekdays # {} /\ MaxHour \in Nat \ {0}
    /\ MaxCap \in Nat /\ MaxEdits \in Nat /\ MaxPatches \in Nat

VARIABLES
    row,      \* accounts.limits: caps, enabled, schedules
    card,     \* per page: saved (what it believes is stored), form, saving, loading
    patches,  \* patches in the order they were sent
    edits     \* bound: edits so far

settingsVars == <<row, card, patches, edits>>

Partial(S) == UNION {[D -> S] : D \in SUBSET Actions}

Windows == [start : 0 .. MaxHour - 1, end : 1 .. MaxHour, days : SUBSET Weekdays]

\* validateSchedule
ValidWindow(w) == w.end > w.start /\ w.days # {}

DefaultSchedule == [start |-> 0, end |-> MaxHour, days |-> Weekdays]
DefaultCaps == [a \in Actions |-> MaxCap]

\* actionEnabled and actionSchedule: an absent entry is on, and keeps the default hours.
ActionEnabled(enabled, a) == a \notin DOMAIN enabled \/ enabled[a]
ActionSchedule(limits, a) ==
    IF a \in DOMAIN limits.schedules THEN limits.schedules[a] ELSE DefaultSchedule

SettingsTypeOK ==
    /\ row.caps \in [Actions -> 0 .. MaxCap]
    /\ row.enabled \in Partial(BOOLEAN)
    /\ \A a \in DOMAIN row.schedules : row.schedules[a] \in Windows
    /\ edits \in 0 .. MaxEdits

-----------------------------------------------------------------------------
(* The card *)

\* The form a card shows for the limits it was given.
FormOf(limits) == [limits EXCEPT !.schedules = [a \in Actions |-> ActionSchedule(limits, a)]]

\* One map laid over another, as the spread of a patch over what was stored.
Over(patch, stored) ==
    [a \in DOMAIN patch \union DOMAIN stored |-> IF a \in DOMAIN patch THEN patch[a] ELSE stored[a]]

Shows(limits) == [saved |-> limits, form |-> FormOf(limits), saving |-> FALSE, loading |-> <<>>]

SetCap(form, a, n) == [form EXCEPT !.caps[a] = n]

ToggleEnabled(form, a) ==
    [form EXCEPT !.enabled = Over([b \in {a} |-> ~ActionEnabled(form.enabled, b)], form.enabled)]

\* The last working day cannot be removed.
ToggleScheduleDay(w, day) ==
    IF w.days = {day} THEN w
    ELSE [w EXCEPT !.days = IF day \in w.days THEN @ \ {day} ELSE @ \union {day}]

\* A later start drags the end along; the end is picked among later hours.
SetStart(w, n) == [w EXCEPT !.start = n, !.end = IF @ > n THEN @ ELSE n + 1]

Reschedule(form, a) ==
    { [form EXCEPT !.schedules[a] = w] :
        w \in {ToggleScheduleDay(form.schedules[a], day) : day \in Weekdays}
              \union {SetStart(form.schedules[a], n) : n \in 0 .. MaxHour - 1}
              \union {[form.schedules[a] EXCEPT !.end = n] :
                        n \in form.schedules[a].start + 1 .. MaxHour} }

Edit(c) ==
    /\ edits < MaxEdits
    /\ \E a \in Actions :
       \E form \in {SetCap(card[c].form, a, n) : n \in 0 .. MaxCap}
                   \union {ToggleEnabled(card[c].form, a)}
                   \union Reschedule(card[c].form, a) :
         form # card[c].form /\ card' = [card EXCEPT ![c].form = form]
    /\ edits' = edits + 1
    /\ UNCHANGED <<row, patches>>

Dirty(c) ==
    LET form == card[c].form  saved == card[c].saved IN
    \E a \in Actions :
      \/ form.caps[a] # saved.caps[a]
      \/ ActionEnabled(form.enabled, a) # ActionEnabled(saved.enabled, a)
      \/ form.schedules[a] # ActionSchedule(saved, a)

HoursValid(c) == \A a \in Actions : card[c].form.schedules[a].end > card[c].form.schedules[a].start

Patch(from, body) == [from |-> from, body |-> body, stage |-> "asked", prev |-> <<>>,
                      raced |-> FALSE]

\* save(): caps, enabled and schedules, all of them.
Save(c) ==
    /\ Dirty(c) /\ HoursValid(c) /\ ~card[c].saving /\ Len(patches) < MaxPatches
    /\ card' = [card EXCEPT ![c].saving = TRUE]
    /\ patches' = Append(patches, Patch(c, card[c].form))
    /\ UNCHANGED <<row, edits>>

\* A client of the route other than the card, one field at a time: the fields
\* are merged apart.
OtherClient == "other"
Sloppy == {b \in [caps : Partial({0, MaxCap + 1}), enabled : Partial(BOOLEAN),
                   schedules : Partial({DefaultSchedule, [DefaultSchedule EXCEPT !.days = {}]})] :
             Cardinality({f \in DOMAIN b : b[f] # <<>>}) <= 1}
PatchElsewhere ==
    /\ Len(patches) < MaxPatches
    /\ \A i \in DOMAIN patches : patches[i].from # OtherClient
    /\ \E body \in Sloppy : patches' = Append(patches, Patch(OtherClient, body))
    /\ UNCHANGED <<row, card, edits>>

\* connect() of the page links an account and loads the list again; the answer
\* is what listAccounts read when it was asked.  A card that shows the row and
\* holds no edit has nothing to lose by it.
LinkAccount(c) ==
    /\ card[c].loading = <<>>
    /\ card[c].saved # row \/ card[c].form # FormOf(card[c].saved)
    /\ card' = [card EXCEPT ![c].loading = <<row>>]
    /\ UNCHANGED <<row, patches, edits>>

\* The effect on a new account prop: saved limits and form start over, and
\* edits that were not saved are gone.
AccountsLoaded(c) ==
    /\ card[c].loading # <<>>
    /\ card' = [card EXCEPT ![c] = [Shows(Head(@.loading)) EXCEPT !.saving = card[c].saving]]
    /\ UNCHANGED <<row, patches, edits>>

-----------------------------------------------------------------------------
(* updateAccountLimits *)

\* validateCaps: a missing cap is the default, not what was stored.
ValidateCaps(body) == Over(body.caps, DefaultCaps)

\* Fault: the patch's map replaces the stored one.
ValidateEnabledAfresh(body, fallback) == body.enabled

\* validateEnabled
ValidateEnabled(body, fallback) == Over(body.enabled, fallback)

\* validateSchedules
ValidateSchedules(body, fallback) == Over(body.schedules, fallback)

Acceptable(body) ==
    /\ \A a \in DOMAIN body.caps : body.caps[a] \in 0 .. MaxCap
    /\ \A a \in DOMAIN body.schedules : ValidWindow(body.schedules[a])

ReadLimits(i) ==
    /\ patches[i].stage = "asked"
    /\ patches' = [patches EXCEPT ![i].prev = row,
                                  ![i].stage = IF Acceptable(patches[i].body) THEN "read"
                                               ELSE "refused"]
    /\ UNCHANGED <<row, card, edits>>

Merged(i) ==
    LET body == patches[i].body  prev == patches[i].prev IN
    [caps |-> ValidateCaps(body), enabled |-> ValidateEnabled(body, prev.enabled),
     schedules |-> ValidateSchedules(body, prev.schedules)]

\* The limits written are also the answer.
WriteLimits(i) ==
    /\ patches[i].stage = "read"
    /\ row' = Merged(i)
    /\ patches' = [j \in DOMAIN patches |->
                     IF j = i THEN [patches[i] EXCEPT !.stage = "written", !.prev = Merged(i)]
                     ELSE [patches[j] EXCEPT !.raced = @ \/ patches[j].stage = "read"]]
    /\ UNCHANGED <<card, edits>>

Answered(i) ==
    patches' = [patches EXCEPT ![i].stage = "answered", ![i].body = <<>>, ![i].prev = <<>>]

\* The card takes over the limits the server returned.
SaveDone(i) ==
    /\ patches[i].stage = "written" /\ patches[i].from \in Cards
    /\ Answered(i)
    /\ card' = [card EXCEPT ![patches[i].from] =
                  [Shows(patches[i].prev) EXCEPT !.loading = card[patches[i].from].loading]]
    /\ UNCHANGED <<row, edits>>

\* Refused, or the answer is lost: the form stays as it was.
SaveFailed(i) ==
    /\ patches[i].stage \in {"asked", "written", "refused"} /\ patches[i].from \in Cards
    /\ Answered(i)
    /\ card' = [card EXCEPT ![patches[i].from].saving = FALSE]
    /\ UNCHANGED <<row, edits>>

-----------------------------------------------------------------------------
SettingsInit ==
    /\ row = [caps |-> DefaultCaps, enabled |-> <<>>, schedules |-> <<>>]
    /\ card = [c \in Cards |-> Shows(row)]
    /\ patches = <<>> /\ edits = 0

SettingsNext ==
    \/ \E c \in Cards : Edit(c) \/ Save(c) \/ LinkAccount(c) \/ AccountsLoaded(c)
    \/ PatchElsewhere
    \/ \E i \in DOMAIN patches : ReadLimits(i) \/ WriteLimits(i) \/ SaveDone(i) \/ SaveFailed(i)

SettingsSpec == SettingsInit /\ [][SettingsNext]_settingsVars

-----------------------------------------------------------------------------
(* An action type that is switched off is switched on again only by a patch
   that says so: a save about caps or hours, from however old a card, leaves
   the switch alone, because updateAccountLimits lays the patch over what it
   read.  The exception is a patch that read the row before the save that
   switched it off: it writes back what it read.  A schedule that would never
   open, or a cap out of range, is never stored. *)
SwitchOffSticks ==
    [][ /\ \A a \in Actions :
             ~ActionEnabled(row.enabled, a) /\ ActionEnabled(row'.enabled, a) =>
               \E i \in DOMAIN patches :
                 /\ patches[i].stage = "read" /\ patches'[i].stage = "written"
                 /\ patches[i].raced \/ (a \in DOMAIN patches[i].body.enabled
                                          /\ patches[i].body.enabled[a])
        /\ \A a \in DOMAIN row'.schedules : ValidWindow(row'.schedules[a])
      ]_settingsVars
=============================================================================
