SPECIFICATION Spec
CONSTANTS
    Ips = {lo, a}
    Loopback = {lo}
    Services <- AllServices
    NoIp = NoIp
    PromptIdles = FALSE
    LossesHappen = TRUE
    DeclareMayFail = TRUE
    ProxyMayDie = TRUE
    MaxSubscriptions = 2
INVARIANTS
    TypeOK
    SubscribedIsPreferred
    SubscribedIsHeard
    ContextsArePresent
    TimerFindsContext
