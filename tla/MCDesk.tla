------------------------------- MODULE MCDesk -------------------------------
(* One instance of what an operator sees and does: each behaviour is one of
   the review of a draft, the limits of an account, the health of the ticks or
   the signals of an account. *)
EXTENDS ReviewDesk, Settings, Health, AccountSafety, TLC

VARIABLE part

mcVars == <<deskVars, settingsVars, healthVars, vars, part>>

MCInit ==
    /\ part \in {"review", "settings", "health", "safety"}
    /\ DeskInit /\ SettingsInit /\ HealthInit /\ Init

MCNext ==
    /\ UNCHANGED part
    /\ \/ part = "review" /\ DeskNext /\ UNCHANGED <<settingsVars, healthVars, vars>>
       \/ part = "settings" /\ SettingsNext /\ UNCHANGED <<deskVars, healthVars, vars>>
       \/ part = "health" /\ HealthNext /\ UNCHANGED <<deskVars, settingsVars, vars>>
       \/ part = "safety" /\ Next /\ UNCHANGED <<deskVars, settingsVars, healthVars>>

MCSpec == MCInit /\ [][MCNext]_mcVars

\* Tabs, cards and texts are interchangeable.
Symmetry == Permutations(Tabs) \union Permutations(Cards) \union Permutations(Texts)
=============================================================================
