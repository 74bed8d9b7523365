SPECIFICATION FairSpec
CONSTANTS
    None = None
    Replicas = {r1, r2}
    MaxFaults = 3
INVARIANTS
    OneLiveTerm
PROPERTIES
    LostEndpointEndsTerm
    ControllersRun
