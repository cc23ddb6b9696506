SPECIFICATION Spec
CONSTANTS
    None = None
    Types <- MCTypes
    Members <- MCMembers
    Graphs <- MCGraphs
    Questions <- MCQuestions
    Signature <- MCSignature
    Primitives = {4}
    Containers = {3}
    LiveItems <- MCLiveItems
    CandidateLimit = 3
    IncomingLimit = 2
    ExpansionLimit = 5
    RootLimit = 3
    CacheEntries = 2
    MaxQuestions = 2
    MaxEvidence = 1
INVARIANTS
    PathsAreReal
    NearestAreFound
    PlansArePrograms
CHECK_DEADLOCK FALSE
