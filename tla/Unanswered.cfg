CONSTANTS
    c1 = c1
    c2 = c2
    absent = absent
    refusal = refusal
    grant = grant
    alice = alice
    bob = bob
    tokenTime = tokenTime
    Connections = {c1, c2}
    Configs <- MCConfigs
    Inputs <- MCInputs
    IamReplies <- MCIamReplies
    Fields <- MCFields
    Absent = absent
    Refusal = refusal
    Uids = {"uid1"}
    WatchedFiles = {"container", "logControl"}
    MaxUnread = 1
SPECIFICATION Spec
INVARIANT ForwardingErrorsAnswered
