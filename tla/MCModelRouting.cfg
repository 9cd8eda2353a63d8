SPECIFICATION FairSpec
CONSTANTS
    anthropic = anthropic
    openai = openai
    groq = groq
    k1 = k1
    k2 = k2
    NoProvider = NoProvider
    Providers = {anthropic, openai, groq}
    Configured = {anthropic, groq}
    Routes <- MCTwoRoutes
    Calls = {k1, k2}
    FailureThreshold = 2
    RecoveryTimeout = 2
INVARIANTS
    CircuitConsistent
PROPERTIES
    RoutesByPriority
    TrafficReturns
