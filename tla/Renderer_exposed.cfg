SPECIFICATION FairSpec
CONSTANTS
    Ips = {lo, a, b}
    Loopback = {lo}
    Services <- AllServices
    NoIp = NoIp
    PromptIdles = TRUE
    LossesHappen = FALSE
    DeclareMayFail = FALSE
    ProxyMayDie = FALSE
    MaxSubscriptions = 3
INVARIANTS
    KnownIsPresent
    SubscribedOrPending
PROPERTIES
    PresentIsExposed
