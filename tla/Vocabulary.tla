----------------------------- MODULE Vocabulary -----------------------------
(***************************************************************************)
(* The words every package speaks: the literal unions of                   *)
(* shared/src/enums.ts and the classifications derived from them.          *)
(***************************************************************************)

AccountStates ==
    {"Cold", "Warming", "Active", "Throttled", "Cooldown", "Restricted"}

AutonomyLevels == {"supervised", "semi_auto", "autonomous"}

\* 'touch' stands for view_profile, follow and react: the three low-touch
\* step types take the same branches everywhere.
StepTypes == {"connect", "message", "touch", "delay"}

ProgressStates ==
    {"pending", "in_progress", "completed", "failed", "skipped", "replied",
     "awaiting_approval", "awaiting_connection", "withdrawn", "already_invited"}

ActiveProgressStates ==
    {"pending", "in_progress", "awaiting_approval", "awaiting_connection"}

MessageStatuses == {"draft", "approved", "rejected", "cancelled", "sent"}

CancelableMessageStatuses == {"draft", "approved"}

TargetStages ==
    {"sourced", "queued", "invited", "connected", "in_conversation",
     "replied", "won", "lost"}

ContactedTargetStages ==
    {"invited", "connected", "in_conversation", "replied", "won"}

SequenceStopStages == {"in_conversation", "replied", "won", "lost"}

CrossCampaignHoldStages == {"invited"}

ReplyIntents ==
    {"Interested", "Question", "Referral", "Objection",
     "NotNow", "OutOfOffice", "NotInterested", "Stop"}

SignalKinds ==
    {"velocity", "low_acceptance", "challenge", "ban_banner", "geo_drift"}

\* The stage ReplyRouter.route sets for an intent.
StageOfIntent(i) ==
    CASE i \in {"Interested", "Question"}                           -> "in_conversation"
      [] i \in {"Referral", "Objection", "NotNow", "OutOfOffice"}   -> "replied"
      [] i \in {"NotInterested", "Stop"}                            -> "lost"

\* The autonomy matrix: may a level dispatch this type without a human?
MayExecuteDirectly(level, type) ==
    \/ level = "autonomous"
    \/ level = "semi_auto" /\ type # "message"
=============================================================================
