CONSTANTS
    Manual = Manual
    NoType = NoType
    EuisdkTypes = {"euisdk", "euisdk:plugin"}
    NoBase = NoBase
    NoUrl = NoUrl
    Relative = Relative
    NoGroups = NoGroups
    ServiceNames = {s1, s2}
    MaxServices = 2
    AppNames = {a}
    PlainTypes = {"external", "internal"}
    AppLists <- SingleAppLists
    ActionIds = {id1}
SYMMETRY Symmetry
SPECIFICATION Spec
INVARIANTS
    ActionIdsUnique
CHECK_DEADLOCK FALSE
