----------------------------- MODULE Replica_proofs -----------------------------
(***************************************************************************)
(* The types of Replica, that a replica serves with its current settings,  *)
(* and that the answers of UserPermission follow IAM, for any number of    *)
(* connections, requests, configurations, services and files.              *)
(***************************************************************************)
EXTENDS Replica, FiniteSetTheorems, TLAPS

Phases == {"idle", "forwarded", "answered", "rejected"}

\* What TypeOK and AnswersFollowIam say of one connection.
CallOK(call) ==
    /\ call.phase \in Phases
    /\ call.phase # "idle" => call.request \in Inputs
    /\ AnswerFollowsIam(call)

CallsOK == DOMAIN calls = Connections /\ \A c \in Connections : CallOK(calls[c])

LEMMA IdleOK == CallOK(Idle)
  BY DEF CallOK, Idle, Phases, AnswerFollowsIam

(* A change of one connection to a call that is as it should be.           *)
LEMMA OneCall ==
    ASSUME CallsOK, NEW c \in Connections, NEW call, CallOK(call),
           calls' = [calls EXCEPT ![c] = call]
    PROVE  CallsOK'
  <1>1. DOMAIN calls' = Connections
    BY DEF CallsOK
  <1>2. ASSUME NEW d \in Connections PROVE CallOK(calls'[d])
    BY DEF CallsOK
  <1>3. \A d \in Connections : CallOK(calls[d])' <=> CallOK(calls'[d])
    BY DEF CallOK, AnswerFollowsIam, Phases
  <1>4. QED
    BY <1>1, <1>2, <1>3 DEF CallsOK

(* A request that ends before it is forwarded is no success.               *)
LEMMA EarlyEndOK ==
    ASSUME NEW request \in Inputs, NEW status \in {405, 500, 401, 400, NoStatus}
    PROVE  CallOK(EndWithError(request, Absent, NoReply, status))
  <1>1. CASE status # NoStatus
    BY <1>1 DEF EndWithError, Answered, CallOK, Phases, AnswerFollowsIam, NoReply, NoStatus
  <1>2. CASE status = NoStatus
    BY <1>2 DEF EndWithError, Answered, CallOK, Phases, AnswerFollowsIam, NoReply, NoAnswer, NoStatus
  <1>3. QED
    BY <1>1, <1>2

(* The handlers of the user info and the permission endpoint.              *)
LEMMA ArriveOK ==
    ASSUME CallsOK, NEW c \in Connections, NEW request \in Inputs, Arrive(c, request)
    PROVE  CallsOK'
  <1> DEFINE early == EarlyStatus(request, config)
             sent == [phase |-> "forwarded", request |-> request,
                      sent |-> Forwarded(request, config),
                      reply |-> NoReply, answer |-> NoAnswer]
             call == IF early # 0 THEN EndWithError(request, Absent, NoReply, early) ELSE sent
  <1>1. CallOK(sent)
    BY DEF CallOK, Phases, AnswerFollowsIam
  <1>2. early \in {0, 405, 500, 401, 400, NoStatus}
    BY DEF EarlyStatus
  <1>3. CallOK(call)
    <2>1. CASE early = 0
      BY <2>1, <1>1
    <2>2. CASE early # 0
      <3>1. early \in {405, 500, 401, 400, NoStatus}
        BY <1>2, <2>2
      <3>2. CallOK(EndWithError(request, Absent, NoReply, early))
        BY <3>1, EarlyEndOK
      <3>3. QED
        BY <3>2, <2>2
    <2>3. QED
      BY <2>1, <2>2
  <1>4. calls' = [calls EXCEPT ![c] = call]
    BY DEF Arrive
  <1>5. QED
    BY <1>3, <1>4, OneCall

(* The mapping of a user info keeps a name.                                *)
LEMMA NameKept ==
    ASSUME NEW raw, NEW time, NEW cfg, raw[Username] # Absent
    PROVE  MapUserInfo(raw, time, cfg)[Username] # Absent
  <1>1. Username \in Fields /\ Username # LastLoginTime
    BY UserPermissionAssumption DEF Username, LastLoginTime
  <1>2. QED
    BY <1>1 DEF MapUserInfo

(* The answer of IAM, with its status and its content.                     *)
LEMMA IamAnswersOK ==
    ASSUME CallsOK, NEW c \in Connections,
           NEW reply \in UNION {IamReplies[kind] : kind \in Kinds}, IamAnswers(c, reply)
    PROVE  CallsOK'
  <1> DEFINE request == calls[c].request
             sent == calls[c].sent
             status == ReplyStatus(request, reply)
             content == IF reply.outcome # "ok" THEN Refusal
                        ELSE IF request.kind = "permission" THEN reply.body
                        ELSE MapUserInfo(reply.body, request.loginTime, config)
             call == IF status = 200 THEN Answered(request, sent, reply, 200, content)
                     ELSE EndWithError(request, sent, reply, status)
  <1>1. request \in Inputs /\ request.kind \in Kinds
    BY DEF CallsOK, CallOK, IamAnswers, InProgress
  <1>2. /\ reply.outcome \in {"ok", "refused", "malformed", "failed"}
        /\ reply.outcome = "refused" => reply.status \in Nat \ {200}
    BY UserPermissionAssumption DEF IamAnswers
  <1>3. calls' = [calls EXCEPT ![c] = call]
    BY DEF IamAnswers
  <1>4. ASSUME reply.outcome = "ok" PROVE CallOK(call)
    <2>1. call = Answered(request, sent, reply, 200, content)
      BY <1>4 DEF ReplyStatus
    <2>2. request.kind = "userinfo" /\ reply.body[Username] # Absent =>
              content[Username] # Absent
      <3>1. request.kind = "userinfo" => content = MapUserInfo(reply.body, request.loginTime, config)
        BY <1>4
      <3>2. QED
        BY <3>1, NameKept
    <2>3. CallOK(Answered(request, sent, reply, 200, content))
      <3> HIDE DEF content
      <3>1. QED
        BY <1>1, <1>4, <2>2 DEF CallOK, Answered, AnswerFollowsIam, Phases
    <2>4. QED
      <3> HIDE DEF call, content
      <3>1. QED
        BY <2>1, <2>3
  <1>5. ASSUME reply.outcome = "refused" PROVE CallOK(call)
    <2>1. CASE IsRefusedDecision(request, reply)
      <3>1. call = Answered(request, sent, reply, 200, Refusal)
        BY <2>1, <1>5 DEF ReplyStatus
      <3>2. CallOK(Answered(request, sent, reply, 200, Refusal))
        BY <1>1, <1>5, <2>1 DEF CallOK, Answered, AnswerFollowsIam, Phases, IsRefusedDecision
      <3> HIDE DEF call
      <3>3. QED
        BY <3>1, <3>2
    <2>2. CASE ~IsRefusedDecision(request, reply)
      <3>1. status = reply.status /\ status # 200 /\ status # NoStatus
        BY <2>2, <1>2, <1>5 DEF ReplyStatus, NoStatus
      <3>2. CallOK(Answered(request, sent, reply, reply.status, Absent))
        BY <1>1, <1>5, <3>1 DEF CallOK, Answered, AnswerFollowsIam, Phases
      <3>3. call = Answered(request, sent, reply, reply.status, Absent)
        BY <3>1 DEF EndWithError
      <3> HIDE DEF call
      <3>4. QED
        BY <3>2, <3>3
    <2>3. QED
      BY <2>1, <2>2
  <1>6. ASSUME reply.outcome \in {"malformed", "failed"} PROVE CallOK(call)
    <2>1. status = NoStatus /\ status # 200
      BY <1>6 DEF ReplyStatus, NoStatus, IsRefusedDecision
    <2>2. CASE request.kind = "userinfo"
      <3>1. call = Answered(request, sent, reply, 500, Absent)
        BY <2>1, <2>2 DEF EndWithError
      <3>2. CallOK(Answered(request, sent, reply, 500, Absent))
        BY <1>1, <1>6 DEF CallOK, Answered, AnswerFollowsIam, Phases
      <3> HIDE DEF call
      <3>3. QED
        BY <3>1, <3>2
    <2>3. CASE request.kind # "userinfo"
      <3>1. call = [phase |-> "rejected", request |-> request, sent |-> sent,
                    reply |-> reply, answer |-> NoAnswer]
        BY <2>1, <2>3 DEF EndWithError
      <3> HIDE DEF call
      <3>2. QED
        BY <1>1, <3>1 DEF CallOK, AnswerFollowsIam, Phases
    <2>4. QED
      BY <2>2, <2>3
  <1>7. CallOK(call)
    BY <1>2, <1>4, <1>5, <1>6
  <1> HIDE DEF call
  <1>8. QED
    BY <1>3, <1>7, OneCall

(* The other requests and their ends are none of IAM's.                    *)
LEMMA OtherAnswerOK ==
    ASSUME NEW request \in Inputs, request.kind \notin Kinds, NEW sent, NEW reply, NEW status
    PROVE  CallOK(Answered(request, sent, reply, status, Absent))
  BY DEF CallOK, Answered, AnswerFollowsIam, Phases

(* A request that arrives leaves the connections as they should be.        *)
LEMMA ReceiveOK ==
    ASSUME CallsOK, NEW c \in Connections, NEW request \in Inputs, Receive(c, request)
    PROVE  CallsOK'
  <1>1. CASE request.kind = "proxy"
    <2> DEFINE early == ProxyStatus(request)
               sent == [phase |-> "forwarded", request |-> request, sent |-> request.uid,
                        reply |-> NoReply, answer |-> NoAnswer]
               call == IF early # 0 THEN Answered(request, Absent, NoReply, early, Absent)
                       ELSE sent
    <2>1. calls' = [calls EXCEPT ![c] = call]
      BY <1>1 DEF Receive, ProxyArrive
    <2>2. CallOK(sent)
      BY DEF CallOK, Phases, AnswerFollowsIam
    <2>3. CallOK(Answered(request, Absent, NoReply, early, Absent))
      BY <1>1, OtherAnswerOK DEF Kinds
    <2>4. CallOK(call)
      BY <2>2, <2>3
    <2>5. QED
      BY <2>1, <2>4, OneCall
  <1>2. CASE request.kind \in LocalKinds
    <2>1. calls' = [calls EXCEPT ![c] =
                      Answered(request, Absent, NoReply, LocalStatus(request), Absent)]
      BY <1>2 DEF Receive, AnswerLocally, LocalKinds
    <2>2. CallOK(Answered(request, Absent, NoReply, LocalStatus(request), Absent))
      BY <1>2, OtherAnswerOK DEF Kinds, LocalKinds
    <2>3. QED
      BY <2>1, <2>2, OneCall
  <1>3. CASE request.kind \notin {"proxy"} \cup LocalKinds
    BY <1>3, ArriveOK DEF Receive
  <1>4. QED
    BY <1>1, <1>2, <1>3

(* So does an answer, and a client that gives up.                          *)
LEMMA SettleOK ==
    ASSUME CallsOK, NEW c \in Connections, Settle(c) \/ ClientGivesUp(c)
    PROVE  CallsOK'
  <1>1. ASSUME NEW reply \in UNION {IamReplies[kind] : kind \in Kinds}, IamAnswers(c, reply)
        PROVE  CallsOK'
    BY <1>1, IamAnswersOK
  <1>2. ASSUME NEW status \in {200, 500}, ProxyEnds(c, status)
        PROVE  CallsOK'
    <2>1. calls[c].request \in Inputs /\ calls[c].request.kind \notin Kinds
      BY <1>2 DEF ProxyEnds, InProgress, CallsOK, CallOK, Kinds
    <2>2. CallOK(Answered(calls[c].request, calls[c].sent, NoReply, status, Absent))
      BY <2>1, OtherAnswerOK
    <2>3. QED
      BY <1>2, <2>2, OneCall DEF ProxyEnds
  <1>3. ASSUME GiveUp(c)
        PROVE  CallsOK'
    BY <1>3, IdleOK, OneCall DEF GiveUp
  <1>4. QED
    BY <1>1, <1>2, <1>3 DEF Settle, ClientGivesUp


--------------------------------------------------------------------------------
(* The rest of the types, and what the closing of a server leaves: watches *)
(* until the API server has closed, and no request after that.             *)
LifeOK ==
    /\ process \in {"up", "ended", "crashed"}
    /\ startup \in {"pending", "announced", "failed"}
    /\ main \in {"open", "closing", "closed"} /\ metric \in {"open", "closing", "closed"}
    /\ process = "ended" => main = "closed" /\ metric = "closed"
    /\ watching \in BOOLEAN
    /\ main # "closed" => watching
    /\ main = "closed" => \A c \in Connections : ~InProgress(c)

\* Only the container configuration may be held old, and only by these.
MayBeOld == (FixedAtStart \cup {"importMap"}) \X ({"container"} \cap WatchedFiles)

FilesOK ==
    /\ unread \subseteq WatchedFiles /\ IsFiniteSet(unread) /\ Cardinality(unread) <= MaxUnread
    /\ stale \subseteq MayBeOld

IInv == config \in Configs /\ routes \subseteq Uids /\ CallsOK /\ LifeOK /\ FilesOK

(* Whoever reads a file hears of it, but for the container configuration,  *)
(* which those fixed at the start and the import map do not hear of.       *)
LEMMA ReadersHear ==
    ASSUME NEW c \in Consumers, NEW f \in Reads[c], f \notin Hears(c)
    PROVE  c \in FixedAtStart \cup {"importMap"} /\ f = "container"
  <1>1. /\ "container" \in LoggerHears /\ "logControl" \in LoggerHears
        /\ "logtransformer" \in LoggerHears
        /\ "container" \in FaultHandlerHears /\ "faultHandler" \in FaultHandlerHears
        /\ "dstConfig" \in TelemetryRatioHears /\ "dstCollector" \in TelemetryAgentHears
        /\ "internal" \in ProxyHears /\ "server" \in ServersHear
        /\ "manualServices" \in ManualServicesHear
        /\ "manualConfig" \in PublishedConfigHears
        /\ "manualOverrides" \in PublishedConfigHears
    BY DEF LoggerHears, FaultHandlerHears, TelemetryRatioHears, TelemetryAgentHears,
           ProxyHears, ServersHear, ManualServicesHear, PublishedConfigHears, Certificates
  <1>2. CASE c \in FixedAtStart \cup {"importMap"}
    BY <1>2 DEF FixedAtStart, Reads
  <1>3. CASE c \notin FixedAtStart \cup {"importMap"}
    <2>1. c \in DOMAIN Listeners
      BY <1>3 DEF Consumers, Reads, FixedAtStart, Listeners
    <2>2. f \in Listeners[c]
      BY <1>1, <2>1 DEF Listeners, Reads
    <2>3. QED
      BY <2>1, <2>2 DEF Hears
  <1>4. QED
    BY <1>2, <1>3

LEMMA Consistent == FixedAtStart \cup {"importMap"} \subseteq Consumers
  BY DEF FixedAtStart, Consumers, Reads

(* A loaded file leaves nobody behind who could have read it again.        *)
LEMMA FileLoadedOK ==
    ASSUME FilesOK, NEW f \in WatchedFiles, FileLoaded(f)
    PROVE  FilesOK'
  <1>1. /\ unread' \subseteq WatchedFiles /\ IsFiniteSet(unread')
        /\ Cardinality(unread') <= MaxUnread
    <2>1. unread' = unread \ {f} /\ f \in unread
      BY DEF FileLoaded
    <2>2. IsFiniteSet(unread') /\ Cardinality(unread') = Cardinality(unread) - 1
          /\ Cardinality(unread) \in Nat
      BY <2>1, FS_RemoveElement, FS_CardinalityType DEF FilesOK
    <2>3. QED
      BY <2>1, <2>2, ReplicaAssumption DEF FilesOK
  <1>2. ASSUME NEW pair \in stale' PROVE pair \in MayBeOld
    <2>1. pair \in stale \cup {c \in Consumers : f \in Reads[c]} \X {f} /\ f \notin Hears(pair[1])
      BY <1>2 DEF FileLoaded
    <2>2. CASE pair \in stale
      BY <2>2 DEF FilesOK
    <2>3. CASE pair \in {c \in Consumers : f \in Reads[c]} \X {f}
      <3>1. pair[1] \in Consumers /\ f \in Reads[pair[1]] /\ pair[2] = f
            /\ pair = <<pair[1], pair[2]>>
        BY <2>3
      <3>2. pair[1] \in FixedAtStart \cup {"importMap"} /\ f = "container"
        BY <2>1, <3>1, ReadersHear
      <3>3. QED
        BY <3>1, <3>2 DEF MayBeOld
    <2>4. QED
      BY <2>1, <2>2, <2>3
  <1>3. QED
    BY <1>1, <1>2 DEF FilesOK

(* Other steps with unread files.                                          *)
LEMMA UnreadOK ==
    ASSUME FilesOK, NEW f \in WatchedFiles, FileChanges(f) \/ CertificateUnreadable(f)
    PROVE  FilesOK'
  <1>1. ASSUME FileChanges(f) PROVE FilesOK'
    <2>1. IsFiniteSet(unread \cup {f}) /\ Cardinality(unread \cup {f}) = Cardinality(unread) + 1
          /\ Cardinality(unread) \in Nat
      BY <1>1, FS_AddElement, FS_CardinalityType DEF FilesOK, FileChanges
    <2>2. QED
      BY <1>1, <2>1, ReplicaAssumption DEF FilesOK, FileChanges
  <1>2. ASSUME CertificateUnreadable(f) PROVE FilesOK'
    <2>1. IsFiniteSet(unread \ {f}) /\ Cardinality(unread \ {f}) = Cardinality(unread) - 1
          /\ Cardinality(unread) \in Nat
      BY <1>2, FS_RemoveElement, FS_CardinalityType DEF FilesOK, CertificateUnreadable
    <2>2. QED
      BY <1>2, <2>1, ReplicaAssumption DEF FilesOK, CertificateUnreadable
  <1>3. QED
    BY <1>1, <1>2

(* Steps that leave the connections alone keep them as they should be.     *)
LEMMA SameCalls ==
    ASSUME CallsOK, UNCHANGED calls
    PROVE  CallsOK' /\ \A c \in Connections : InProgress(c)' <=> InProgress(c)
  BY DEF CallsOK, CallOK, AnswerFollowsIam, Phases, InProgress

LEMMA InitOK == Init => IInv
  <1> SUFFICES ASSUME Init PROVE IInv
    OBVIOUS
  <1>1. CallsOK
    BY IdleOK DEF Init, CallsOK
  <1>2. FilesOK
    BY FS_EmptySet, ReplicaAssumption DEF Init, FilesOK
  <1>3. LifeOK
    BY DEF Init, LifeOK
  <1>4. QED
    BY <1>1, <1>2, <1>3 DEF Init, IInv

(* Every step keeps the invariant.                                         *)
LEMMA StepOK == IInv /\ [Next]_vars => IInv'
  <1> SUFFICES ASSUME IInv, [Next]_vars PROVE IInv'
    OBVIOUS
  <1> USE DEF IInv
  <1>1. CASE WatchStarts \/ WatchStartFails
    BY <1>1, SameCalls DEF WatchStarts, WatchStartFails, LifeOK, FilesOK, fileVars, callVars
  <1>2. ASSUME (\E uid \in Uids : RoutesChange(uid)) \/ ImportMapComputed PROVE IInv'
    BY <1>2, SameCalls DEF RoutesChange, ImportMapComputed, LifeOK, FilesOK, lifeVars, fileVars,
                           callVars
  <1>3. ASSUME NEW f \in WatchedFiles, FileChanges(f) \/ CertificateUnreadable(f) PROVE IInv'
    <2>1. FilesOK'
      BY <1>3, UnreadOK
    <2>2. QED
      BY <1>3, <2>1, SameCalls DEF FileChanges, CertificateUnreadable, LifeOK, lifeVars, callVars
  <1>4. ASSUME NEW f \in WatchedFiles, FileLoaded(f) PROVE IInv'
    <2>1. FilesOK'
      BY <1>4, FileLoadedOK
    <2>2. QED
      BY <1>4, <2>1, SameCalls DEF FileLoaded, LifeOK, lifeVars
  <1>5. ASSUME NEW c \in Connections, NEW request \in Inputs, Receive(c, request) PROVE IInv'
    <2>1. CallsOK'
      BY <1>5, ReceiveOK
    <2>2. main' = "open" /\ UNCHANGED config
      BY <1>5 DEF Receive, ProxyArrive, AnswerLocally, Arrive, lifeVars
    <2>3. QED
      BY <1>5, <2>1, <2>2 DEF Receive, LifeOK, FilesOK, lifeVars, fileVars
  <1>6. ASSUME NEW c \in Connections, Settle(c) \/ ClientGivesUp(c) PROVE IInv'
    <2>1. CallsOK'
      BY <1>6, SettleOK
    <2>2. /\ UNCHANGED <<lifeVars, fileVars, routes, config>>
      BY <1>6 DEF Settle, ClientGivesUp, IamAnswers, ProxyEnds, GiveUp
    <2>3. main = "closed" => \A d \in Connections : ~InProgress(d)'
      <3> SUFFICES ASSUME main = "closed", NEW d \in Connections PROVE ~InProgress(d)'
        OBVIOUS
      <3>1. ~InProgress(c) /\ ~InProgress(d)
        BY DEF LifeOK
      <3>2. calls' = [calls EXCEPT ![c] = Idle]
        BY <1>6, <3>1 DEF Settle, ClientGivesUp, IamAnswers, ProxyEnds, GiveUp
      <3>3. QED
        BY <3>1, <3>2 DEF InProgress, Idle, CallsOK
    <2>4. QED
      BY <2>1, <2>2, <2>3 DEF LifeOK, FilesOK, lifeVars, fileVars
  <1>7. CASE Terminate
    BY <1>7, SameCalls DEF Terminate, LifeOK, FilesOK, fileVars, callVars
  <1>8. CASE MainCloses
    <2>1. \A c \in Connections : ~InProgress(c)
      BY <1>8 DEF MainCloses, Quiet
    <2>2. QED
      BY <1>8, <2>1, SameCalls DEF MainCloses, LifeOK, FilesOK, callVars
  <1>9. CASE MetricCloses
    BY <1>9, SameCalls DEF MetricCloses, LifeOK, FilesOK, fileVars, callVars
  <1>10. CASE ServerFails \/ Crash
    BY <1>10, SameCalls DEF ServerFails, Crash, LifeOK, FilesOK, fileVars, callVars
  <1>11. CASE Restart
    <2>1. CallsOK'
      BY <1>11, IdleOK DEF Restart, CallsOK, CallOK, AnswerFollowsIam, Phases
    <2>2. FilesOK'
      BY <1>11, FS_EmptySet, ReplicaAssumption DEF Restart, FilesOK
    <2>3. QED
      BY <1>11, <2>1, <2>2 DEF Restart, LifeOK
  <1>12. CASE UNCHANGED vars
    BY <1>12, SameCalls DEF vars, LifeOK, FilesOK, lifeVars, fileVars, callVars
  <1>13. QED
    BY <1>1, <1>2, <1>3, <1>4, <1>5, <1>6, <1>7, <1>8, <1>9, <1>10, <1>11, <1>12
    DEF Next, Done

(* The invariant of a process: its requests are as their handlers left     *)
(* them, files are watched until the API server has closed, and only       *)
(* listed consumers hold an older container configuration.                 *)
THEOREM Invariant == Spec => []IInv
  BY InitOK, StepOK, PTL DEF Spec

(* The life, the files and the requests of a process keep their types.     *)
THEOREM TypeCorrect == Spec => []TypeOK
  <1>1. IInv => TypeOK
    <2> SUFFICES ASSUME IInv PROVE TypeOK
      OBVIOUS
    <2>1. stale \subseteq Consumers \X WatchedFiles
      BY Consistent DEF IInv, FilesOK, MayBeOld
    <2>2. QED
      BY <2>1 DEF IInv, TypeOK, CallsOK, CallOK, Phases, LifeOK, FilesOK
  <1>2. QED
    BY <1>1, Invariant, PTL

(* While requests are served, the files are watched and every consumer     *)
(* holds the current settings of all files it reads, except for the        *)
(* container configuration as the process started, or the import map was   *)
(* computed, with it.                                                      *)
THEOREM SettingsCurrent == Spec => []ServedWithCurrentSettings
  <1>1. IInv => ServedWithCurrentSettings
    BY DEF IInv, ServedWithCurrentSettings, LifeOK, FilesOK, MayBeOld
  <1>2. QED
    BY <1>1, Invariant, PTL

(* No answer of the user info and permission endpoints grants what IAM did *)
(* not grant, whatever IAM answers and whatever configuration is loaded    *)
(* between the request and the answer.                                     *)
THEOREM AnswersCorrect == Spec => []AnswersFollowIam
  <1>1. IInv => AnswersFollowIam
    BY DEF IInv, CallsOK, CallOK, AnswersFollowIam
  <1>2. QED
    BY <1>1, Invariant, PTL
================================================================================
