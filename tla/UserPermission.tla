---------------------------- MODULE UserPermission ----------------------------
(***************************************************************************)
(* The user info and permission endpoints of the backend, which forward a  *)
(* request to the IAM server and translate its answer.                     *)
(*                                                                         *)
(*   backend/routes/userPermissionRoutes.js    Arrive, the last step of    *)
(*                                             IamAnswers                  *)
(*   backend/services/userInfoService.js       everything else             *)
(*   backend/loaders/defaultLoader.js          NotAllowed                  *)
(*                                                                         *)
(* A handler runs up to its await on fetchResponsesForProtocol in one      *)
(* turn, and from the settled promise to the response in another one.  The *)
(* configuration is read through a getter each time, so the two turns may  *)
(* see two configurations.  The IAM server and the transport are external: *)
(* any answer, an answer that is not JSON, and a connection that fails     *)
(* with an error that carries no HTTP status.                              *)
(***************************************************************************)
EXTENDS Integers

CONSTANTS
    Connections,   \* the connections of clients, each with one request at a time
    Configs,       \* what dependencies.gasIam and useHttps may be
    Inputs,        \* the requests clients send
    IamReplies,    \* what IAM may answer to a kind of request: [kind -> replies]
    Fields,        \* the fields of a user info
    Absent,        \* no value
    Refusal        \* the content of a refused decision: {result: false}

Kinds == {"userinfo", "permission"}
Username == "username"
UserId == "userId"
LastLoginTime == "lastLoginTime"

ASSUME UserPermissionAssumption ==
    /\ {Username, UserId, LastLoginTime} \subseteq Fields
    /\ \A kind \in Kinds : \A reply \in IamReplies[kind] :
        /\ reply.outcome \in {"ok", "refused", "malformed", "failed"}
        /\ reply.outcome = "refused" => reply.status \in Nat \ {200}

VARIABLES
    config,   \* configManager.getUserPermissionConfig(), and useHttps
    calls     \* connection -> the request in progress or the last one

NoAnswer == [status |-> 0, content |-> Absent]
NoReply == [outcome |-> "none", status |-> 0, body |-> Absent]
Idle == [phase |-> "idle", request |-> Absent, sent |-> Absent,
         reply |-> NoReply, answer |-> NoAnswer]

\* A handler is waiting for the service it forwarded the request to.
InProgress(c) == calls[c].phase = "forwarded"

Answered(request, sent, reply, status, content) ==
    [phase |-> "answered", request |-> request, sent |-> sent, reply |-> reply,
     answer |-> [status |-> status, content |-> content]]

--------------------------------------------------------------------------------
\* The IAM server is reached by its host name, with its own certificate.
NonTLSMode(cfg) == cfg.nonTLSMode /\ ~cfg.useHttps

IamHost(cfg) == IF NonTLSMode(cfg) THEN cfg.iamHostName ELSE cfg.iamServiceName

\* Where the certificates come from: read anew for each request, or watched.
IamCertificates(cfg) == IF NonTLSMode(cfg) THEN "serverCertPath" ELSE "certificateManager"

\* The realm of the request, of its cookie, or of the configuration.
DeterminedRealm(request, cfg) ==
    IF request.realm # Absent THEN request.realm
    ELSE IF request.cookieRealm # Absent THEN request.cookieRealm
    ELSE cfg.realmName

ForwardedUserInfo(request, cfg) ==
    [host |-> IamHost(cfg), certificates |-> IamCertificates(cfg),
     realm |-> DeterminedRealm(request, cfg), audience |-> Absent]

\* A permission is asked for an audience.
ForwardedPermission(request, cfg) ==
    [ForwardedUserInfo(request, cfg) EXCEPT
        !.audience = IF request.audience # Absent THEN request.audience ELSE cfg.audience]

Forwarded(request, cfg) ==
    IF request.kind = "userinfo" THEN ForwardedUserInfo(request, cfg)
    ELSE ForwardedPermission(request, cfg)

\* A field under the first of its alternative keys that has a value.
MappedField(field, raw, cfg) ==
    LET keys  == cfg.fieldMappings[field]
        given == {i \in DOMAIN keys : raw[keys[i]] # Absent}
    IN  IF field \notin DOMAIN cfg.fieldMappings \/ given = {} THEN Absent
        ELSE raw[keys[CHOOSE i \in given : \A j \in given : i <= j]]

(* mapUserInfo: a mapped value replaces the field IAM sent; the last login *)
(* time of the token replaces it too when none is mapped.                  *)
MapUserInfo(raw, tokenLoginTime, cfg) ==
    [field \in Fields |->
        LET mapped == MappedField(field, raw, cfg)
        IN  IF field \in {Username, UserId, LastLoginTime} /\ mapped # Absent THEN mapped
            ELSE IF field = LastLoginTime /\ tokenLoginTime # Absent THEN tokenLoginTime
            ELSE raw[field]]

--------------------------------------------------------------------------------
\* The methods of the API routes are checked before any of them.
NotAllowed(request) == request.method = "other"

(* What a handler finds wrong before it calls IAM, in its order: the       *)
(* status it answers with, 0 when nothing is wrong.  A token that cannot   *)
(* be decoded throws an error without a status.                            *)
NoStatus == -1

EarlyStatus(request, cfg) ==
    IF NotAllowed(request) THEN 405
    ELSE IF ~cfg.enabled THEN 500
    ELSE IF request.token = "none" THEN 401
    ELSE IF request.token = "unreadable" THEN NoStatus
    ELSE IF request.kind = "permission" /\ ~request.valid THEN 400
    ELSE 0

\* Mutant: no default status for the user info either.
EndWithoutDefault(request, sent, reply, status) ==
    IF status # NoStatus THEN Answered(request, sent, reply, status, Absent)
    ELSE [phase |-> "rejected", request |-> request, sent |-> sent,
          reply |-> reply, answer |-> NoAnswer]

(* The end of a request that met an error: getUserInfo replaces a missing  *)
(* status by 500; getPermission does not, and res.status(undefined) throws *)
(* out of the async handler, so that nothing is ever answered.             *)
EndWithError(request, sent, reply, status) ==
    IF status # NoStatus THEN Answered(request, sent, reply, status, Absent)
    ELSE IF request.kind = "userinfo" THEN Answered(request, sent, reply, 500, Absent)
    ELSE [phase |-> "rejected", request |-> request, sent |-> sent,
          reply |-> reply, answer |-> NoAnswer]

Arrive(c, request) ==
    LET early == EarlyStatus(request, config)
    IN  /\ ~InProgress(c) /\ calls[c].phase # "rejected"
        /\ calls' = [calls EXCEPT ![c] =
              IF early # 0 THEN EndWithError(request, Absent, NoReply, early)
              ELSE [phase |-> "forwarded", request |-> request,
                    sent |-> Forwarded(request, config),
                    reply |-> NoReply, answer |-> NoAnswer]]
        /\ UNCHANGED config

\* Mutant: every refusal of IAM is a decision.
ReplyStatusAlwaysDecision(request, reply) ==
    IF reply.outcome = "ok" \/ (reply.outcome = "refused" /\ request.kind = "permission") THEN 200
    ELSE IF reply.outcome = "refused" THEN reply.status
    ELSE NoStatus

\* A decision is asked for and IAM refuses it: that is an answer, not an error.
IsRefusedDecision(request, reply) ==
    /\ request.kind = "permission"
    /\ request.decision
    /\ reply.outcome = "refused"
    /\ reply.status \in {400, 403}

ReplyStatus(request, reply) ==
    IF reply.outcome = "ok" \/ IsRefusedDecision(request, reply) THEN 200
    ELSE IF reply.outcome = "refused" THEN reply.status
    ELSE NoStatus

(* The fetch settles: with a response, or with an error when the           *)
(* connection fails or the body is not JSON.  The field mappings are those *)
(* of the configuration of this moment.                                    *)
IamAnswers(c, reply) ==
    LET call    == calls[c]
        request == call.request
        status  == ReplyStatus(request, reply)
        content == IF reply.outcome # "ok" THEN Refusal
                   ELSE IF request.kind = "permission" THEN reply.body
                   ELSE MapUserInfo(reply.body, request.loginTime, config)
    IN  /\ InProgress(c) /\ request.kind \in Kinds
        /\ reply \in IamReplies[request.kind]
        /\ calls' = [calls EXCEPT ![c] =
              IF status = 200 THEN Answered(request, call.sent, reply, 200, content)
              ELSE EndWithError(request, call.sent, reply, status)]
        /\ UNCHANGED config

\* The client closes a connection; what it was waiting for no longer matters.
GiveUp(c) ==
    /\ InProgress(c) \/ calls[c].phase = "rejected"
    /\ calls' = [calls EXCEPT ![c] = Idle]
    /\ UNCHANGED config

--------------------------------------------------------------------------------
(* What a client is told is what IAM said to this very request: a success  *)
(* only when IAM gave one, and out of a refusal at most the decision that  *)
(* was asked for, never a grant; a refusal keeps its status, and an error  *)
(* is an error.  The user name is never lost: it is the one IAM sent or    *)
(* that of an alternative key.                                             *)
AnswerFollowsIam(call) ==
    LET said == call.answer
    IN  call.phase = "answered" /\ call.request.kind \in Kinds =>
            /\ said.status = 200 /\ call.reply.outcome # "ok" =>
                  /\ said.content = Refusal
                  /\ call.request.kind = "permission" /\ call.request.decision
                  /\ call.reply.outcome = "refused" /\ call.reply.status \in {400, 403}
            /\ call.reply.outcome = "refused" =>
                  said.status = call.reply.status \/ said.content = Refusal
            /\ call.reply.outcome \in {"malformed", "failed"} => said.status = 500
            /\ (/\ call.request.kind = "userinfo" /\ call.reply.outcome = "ok"
                /\ call.reply.body[Username] # Absent) => said.content[Username] # Absent

AnswersFollowIam == \A c \in Connections : AnswerFollowsIam(calls[c])

(* "HTTP 500 Internal Server Error, if the forwarding of the request to    *)
(* the IAM server encountered an error." (application developers guide)    *)
ForwardingErrorsAnswered ==
    \A c \in Connections : calls[c].reply.outcome = "failed" => calls[c].answer.status = 500
================================================================================
