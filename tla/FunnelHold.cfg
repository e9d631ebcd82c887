SPECIFICATION FairSpec
CONSTANTS
    None = None
    MsgIds = {m1, m2, m3}
    Targets = {1, 2}
    Campaigns = {1, 2}
    Persons = {1}
    PersonOf <- SharedPerson
    CampaignOf <- OwnCampaign
    AutonomyOf <- Supervised
    Steps <- ConnectMessage
    Operators = {1}
    Intents = {}
    MaxSendAttempts = 1
    MaxInbound = 0
    MaxFaults = 0
PROPERTIES
    HoldResolves
