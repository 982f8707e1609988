CONSTANTS
    NotAnnounced = NotAnnounced
    gas = gas
    s2 = s2
    Names <- MCNames
    Revisions <- MCRevisions
    Uids <- MCUids
    HasProtocol <- MCHasProtocol
    PackageTryLimit = 3
SPECIFICATION FairSpec
INVARIANTS
    TypeOK
    NoServiceForgotten
PROPERTIES
    Converges
