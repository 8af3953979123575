SPECIFICATION Spec
CONSTANTS
    Usable <- MCUsable
    Deployments <- MCDeployments
    Handlers <- MCHandlers
    Sessions <- MCSessions
    PresetWords <- MCPresetWords
    Cores = 0
    NodeCap = 4
    SearchLimit = 3
    TopQueries = 2
    HotQueries = 2
    ExpandLimit = 2
    ExpandPrefix = 1
    CooccurLimit = 2
    MaxTurns = 3
INVARIANTS
    GraphsRunOrRefused
    RoutesConfigured
    SuggestsTheFrequent
    HintsLeadElsewhere
