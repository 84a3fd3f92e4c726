SPECIFICATION Spec
CONSTANTS
    Clients = {c1}
    SpeedLists <- Lists
    MaxVolume = 1
    Actions = {"Play"}
    Events <- Reports
    Positions = {0}
    AskedRates <- Rates
    MaxEvents = 2
INVARIANTS
    TypeOK
    FollowersKnow
    RateAgrees
    RatesAreExtremes
    ActionsAsReported
    VolumeAsReported
