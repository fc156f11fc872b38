SPECIFICATION Spec
CONSTANTS
    a1 = a1
    a2 = a2
    c1 = c1
    c2 = c2
    Accounts = {a1, a2}
    ChannelOf <- MCChannelOf
    Rates = {1, 2}
    Remotes = {1, 2, 3, 4, 5, 6}
    Scanner = scan
    Appliers = {scan, manual}
    Scenarios <- MCScenarios
    FirstRates <- MCFirstRates
    Edits <- MCEdits
    Tested = {a2}
    SyncsModels = TRUE
    DeleteGoneFails = FALSE
 
PROPERTY ApplyIsExact
PROPERTY TargetConverges
