SPECIFICATION Spec
CONSTANTS
    NotADouble = NotADouble
    NotImplemented = NotImplemented
    Clients = {c1, c2}
    Sessions <- SessionSet
    MaxVolume = 5
    Word = 4096
    Second = 10
    One = 32
    Precision = 32
INVARIANTS
    VolumeAsAsked
    PositionAsSought
PROPERTIES
    PlayPauseToggles
SYMMETRY Same
