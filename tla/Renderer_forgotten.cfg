SPECIFICATION FairSpec
CONSTANTS
    Ips = {a, b}
    Loopback = {}
    Services <- AllServices
    NoIp = NoIp
    PromptIdles = FALSE
    LossesHappen = FALSE
    DeclareMayFail = FALSE
    ProxyMayDie = FALSE
    MaxSubscriptions = 2
PROPERTIES
    PresentIsExposed
