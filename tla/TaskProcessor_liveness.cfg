SPECIFICATION FairSpec
CONSTANTS
    c1 = c1
    c2 = c2
    d1 = d1
    b1 = b1
    b2 = b2
    NoTask = NoTask
    RSU_SINK = RSU_SINK
    Clients = {c1}
    Devices = {d1}
    Routes <- OneRoute
    Builds = {b1}
    MaxRequests <- Three
    NeverQuit = FALSE
    DeclareMayFail = FALSE
    ProxyMayDie = FALSE
PROPERTIES
    RequestsAnswered
    ShutsDown
    ConstructionEnds
