SPECIFICATION StreamsSpec
CONSTANTS
    Routes <- MCRoutes
    Answers <- MCAnswers
    MaxAttempts = 2
    WholeOutput = FALSE
    NamesCalls = TRUE
    ZeroDeltas = FALSE
    CutsResponses = FALSE
    PrefixBytes = 2
    MaxPrefix = 3
    Ring = 2
    FirstScan = 2
    GateScenarios <- MCGateScenarios
INVARIANTS
    
    
    UsageSettled
    
    FirstRuleDecides
    OneResponse
    EndIsRecorded
