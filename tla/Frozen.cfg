CONSTANTS
    Manual = Manual
    NoType = NoType
    EuisdkTypes = {"euisdk", "euisdk:app"}
    NoBase = NoBase
    NoUrl = NoUrl
    Relative = Relative
    NoGroups = NoGroups
    BadVersion = BadVersion
    NotAnnounced = NotAnnounced
    gas = gas
    s2 = s2
    x = x
    own = own
    m = m
    g1 = g1
    g2 = g2
    OwnService = gas
    Names <- MCNames
    Uids <- MCUids
    Revisions <- MCRevisions
    Serves <- MCServes
    HasProtocol <- MCHasProtocol
    BaseOf <- MCBaseOf
    MetaOf <- MCOptionalGroupsMetaOf
    ModulesOf <- MCModulesOf
    ManualMetas <- MCNoManual
    Overrides <- OneMapping
    PackageTryLimit = 2
    EntityNames <- MCEntityNames
    EntityTypes <- MCEntityTypes
    Urls <- MCUrls
    GroupNames <- MCGroupNames
    ActionIds = {}
SPECIFICATION Spec
INVARIANTS
    DeletedServicesGone
