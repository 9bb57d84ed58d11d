SPECIFICATION Spec
CONSTANTS
    Handlers = {h1, h2}
    Lifetimes = {4}
    ExternalBuffer = 3
    STSBuffer = 4
    Latency = 1
    Configs <- MCConfigs
    RestCallsUnder <- MCRestCalls
    StaticExpires = 3
    MaxTime = 6
SYMMETRY HandlerSymmetry
INVARIANTS
    TypeOK
    UsedIsUnexpired
    ExchangedIsUnexpired
    TokensStay
    
    EndpointIsKnown
