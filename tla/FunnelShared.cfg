SPECIFICATION Spec
CONSTANTS
    None = None
    MsgIds = {m1, m2, m3, m4}
    Targets = {1, 2}
    Campaigns = {1, 2}
    Persons = {1}
    PersonOf <- SharedPerson
    CampaignOf <- OwnCampaign
    AutonomyOf <- Mixed
    Steps <- ConnectMessage
    Operators = {1}
    Intents = {"Stop"}
    MaxSendAttempts = 1
    MaxInbound = 1
    MaxFaults = 0
SYMMETRY MsgSymmetry
INVARIANTS
    MessageOnlyAfterAcceptance
    OutstandingCoversParked
