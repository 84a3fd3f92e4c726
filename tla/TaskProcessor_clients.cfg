SPECIFICATION Spec
CONSTANTS
    c1 = c1
    c2 = c2
    d1 = d1
    b1 = b1
    b2 = b2
    NoTask = NoTask
    RSU_SINK = RSU_SINK
    Clients = {c1, c2}
    Devices = {d1}
    Routes <- TwoClients
    Builds = {b1}
    MaxRequests <- FirstTwice
    NeverQuit = FALSE
    DeclareMayFail = TRUE
    ProxyMayDie = TRUE
INVARIANTS
    TypeOK
    RunningCount
    IdleFindsTask
    NoLostWakeup
    DoomedQueueIsRemoved
    AnsweredOnce
    NoWorkForTheGone
    CallbackFindsQueue
    ExposedOnlyIfBuilt
    QuitNotForgotten
PROPERTIES
    ImplementsBroker
