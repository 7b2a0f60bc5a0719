SPECIFICATION AnswersOnly
CONSTANTS
    Missing = Missing
    Threshold = 2
    Columns = {"sex", "age"}
    Tables <- MCTables
    Samples <- MCSamples
    FilterSets <- MCFilterSets
    FilterLists <- MCFilterLists
    DomainOf <- MCDomainOf
    Persons <- MCPersons
    Profiles <- MCProfiles
    Logs <- MCLogs
    ProfileFilters <- MCProfileFilters
    Marginals <- MCMarginals
    Thresholds = {4, 6}
    Bases = {2, 4}
    Domains <- MCDomains
    Par <- MCPar
    Frames <- MCFrames
    Counts = {3, 4, 5, 6}
    OtherVerdicts <- MCOtherVerdicts
    Surveys <- MCSurveys
    Given <- MCGiven
    Slowest = 120
    Builds <- MCBuilds
    Proposed <- MCProposed
    SharedQuantities <- MCSharedQuantities
    Probes <- MCProbes
    AgeRules <- MCAgeRules
    AskedAges <- MCAskedAges
    Hosts = {"127.0.0.1", "other.example", "llm.example", ""}
    Retries <- MCRetries
    AllowLists = {{"127.0.0.1"}, {"127.0.0.1", "llm.example"}}
CHECK_DEADLOCK FALSE
INVARIANT
    ZeroTotalWithheld
