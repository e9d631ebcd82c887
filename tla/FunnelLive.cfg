SPECIFICATION FairSpec
CONSTANTS
    None = None
    MsgIds = {m1, m2}
    Targets = {1}
    Campaigns = {1}
    Persons = {1}
    PersonOf <- OwnPerson
    CampaignOf <- OwnCampaign
    AutonomyOf <- SemiAuto
    Steps <- EveryType
    Operators = {1}
    Intents = {"Interested", "Stop"}
    MaxSendAttempts = 1
    MaxInbound = 1
    MaxFaults = 1
PROPERTIES
    AcceptedIsReleased
    TickEnds
    ReplyIsNoticed
