SPECIFICATION DashboardSpec
CONSTANTS
    None = None
    MsgIds = {m1, m2, m3, m4}
    Targets = {1}
    Campaigns = {1}
    Persons = {1}
    PersonOf <- OwnPerson
    CampaignOf <- OwnCampaign
    AutonomyOf <- SemiAuto
    Steps <- TwoMessages
    Operators = {1}
    Intents = {"Interested", "Stop"}
    MaxSendAttempts = 2
    MaxInbound = 1
    MaxFaults = 1
SYMMETRY MsgSymmetry
INVARIANTS
    TypeOK
    SendOnce
    OneOpenDraft
    ParkedInviteExists
    AtMostOneMessageAfterReply
    FiguresAgree
PROPERTIES
    KeepsPromise
