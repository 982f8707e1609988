CONSTANTS
    InitialStores <- MCInitialStores
    NoTheme = NoTheme
    RouteMap <- MCRouteMap
    Groups <- MCGroups
    Launcher = "launcher"
    All = "all"
    None = "none"
    SessionExpiration = "session-expiration"
    Wrapped <- MCWrapped
    UserAccount = "app"
    Bookmarks <- MCBookmarks
    Budgets <- MCBudgets
SPECIFICATION MCSpec
INVARIANT OpenAppIsInMenu
