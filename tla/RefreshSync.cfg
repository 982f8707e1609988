CONSTANTS
    Replicas = {r1, r2}
    Requests = {q1, q2}
    MaxVersion = 2
    Restartable = {r1}
    NoReplica = NoReplica
SPECIFICATION FairSpec
INVARIANTS
    TypeOK
    ForwardedOnce
    AcceptedIsReadAgain
PROPERTIES
    RequestsEnd
    AcceptedShows
