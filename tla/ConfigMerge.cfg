CONSTANTS
    Manual = Manual
    NoType = NoType
    EuisdkTypes = {"euisdk", "euisdk:plugin"}
    NoBase = NoBase
    NoUrl = NoUrl
    Relative = Relative
    NoGroups = NoGroups
    ServiceNames = {s1, s2, s3}
    MaxServices = 3
    AppNames = {a}
    PlainTypes = {"external", "internal"}
    AppLists <- SingleAppLists
    ActionIds = {}
SYMMETRY Symmetry
SPECIFICATION Spec
INVARIANTS
    WinnerIsSelected
    OwnBasePreferred
    ReplicasAgreeOnSoleWinner
CHECK_DEADLOCK FALSE
