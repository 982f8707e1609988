------------------------------- MODULE MCReplica -------------------------------
(***************************************************************************)
(* Replica with two clients, user info, permission and proxied requests,   *)
(* two configurations that differ in enabled, address, realm and mappings, *)
(* and three of the watched files, one of them with the configuration.     *)
(***************************************************************************)
EXTENDS Replica

CONSTANTS c1, c2, absent, refusal, grant, alice, bob, tokenTime

MCFields == {Username, UserId, LastLoginTime, "upn"}

MCConfigs ==
    {[enabled |-> TRUE, nonTLSMode |-> TRUE, useHttps |-> FALSE, iamHostName |-> "iam.host",
      iamServiceName |-> "iam-http", realmName |-> "oam", audience |-> "gas",
      fieldMappings |-> [username |-> <<"upn">>, lastLoginTime |-> <<LastLoginTime>>]],
     [enabled |-> FALSE, nonTLSMode |-> TRUE, useHttps |-> TRUE, iamHostName |-> "iam.host",
      iamServiceName |-> "iam-http", realmName |-> "other", audience |-> "gas",
      fieldMappings |-> [userId |-> <<UserId>>]]}

UserInfoRequest ==
    [kind |-> "userinfo", method |-> "GET", token |-> "readable", loginTime |-> tokenTime,
     realm |-> absent, cookieRealm |-> absent]

PermissionRequest ==
    [kind |-> "permission", method |-> "POST", token |-> "readable", loginTime |-> absent,
     realm |-> absent, cookieRealm |-> "cookie", audience |-> absent,
     valid |-> TRUE, decision |-> TRUE]

MCInputs ==
    {UserInfoRequest,
     [UserInfoRequest EXCEPT !.token = "none"],
     PermissionRequest,
     [PermissionRequest EXCEPT !.decision = FALSE, !.token = "unreadable"],
     [kind |-> "proxy", method |-> "GET", path |-> "file", uid |-> "uid1"],
     [kind |-> "page", method |-> "GET", path |-> "context"],
     [kind |-> "log", method |-> "POST", valid |-> FALSE],
     [kind |-> "read", method |-> "GET"]}

RawUserInfo ==
    [username |-> alice, userId |-> absent, lastLoginTime |-> absent, upn |-> bob]

Refused(status) == [outcome |-> "refused", status |-> status, body |-> absent]

MCIamReplies ==
    [userinfo   |-> {[outcome |-> "ok", status |-> 200, body |-> RawUserInfo],
                     Refused(404),
                     [outcome |-> "malformed", status |-> 200, body |-> absent]},
     permission |-> {[outcome |-> "ok", status |-> 200, body |-> grant],
                     Refused(403), Refused(404),
                     [outcome |-> "failed", status |-> 0, body |-> absent]}]
================================================================================
