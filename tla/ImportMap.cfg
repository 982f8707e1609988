CONSTANTS
    BadVersion = BadVersion
    Publishers = {s1, s2, s3}
    MaxPublishers = 3
    ModuleNames = {m, n}
    Paths = {m, n}
    Versions = {1, 2}
    ModuleLists <- SingleModuleLists
SYMMETRY PackageSymmetry
SPECIFICATION ImportSpec
INVARIANTS
    TopLevelIsHighest
    ScopesSatisfyRanges
    ReachableModulesResolve
