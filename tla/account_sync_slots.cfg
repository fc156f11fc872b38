SPECIFICATION Spec
CONSTANTS
    a1 = a1
    a2 = a2
    c1 = c1
    c2 = c2
    Accounts = {a1, a2}
    ChannelOf <- MCOneChannel
    Rates = {1, 2}
    Remotes = {1, 2, 3, 4, 5, 6}
    Scanner = scan
    Appliers = {scan, manual}
    Scenarios <- MCSlotScenarios
    FirstRates <- MCFirstRates
    Edits <- MCEdits
    Tested = {}
    SyncsModels = FALSE
    DeleteGoneFails = FALSE
PROPERTY SlotsKept
