CONSTANTS
    AllApps = "all"
    Others = "others"
    Undefined = "undefined"
    Initial <- MCInitial
    Collation <- MCCollation
    NoStates = NoStates
    p = p
    q = q
    c = c
    opensChild = opensChild
    opensParent = opensParent
    favours = favours
    AppNames <- MCAppNames
    Changes <- MCChanges
    ChangeOf <- MCChangeOf
    AppLists <- MCAppLists
    Groups <- MCGroups
    GroupNames <- MCGroupNames
    Segments <- MCSegments
SPECIFICATION Spec
INVARIANTS
    TypeOK
    EveryAppShown
    RecentsInOrder
    ViewsListEveryCard
    IsolatedChangesPersist
    ViewCatchesUp
PROPERTIES
    RoutesSettle
