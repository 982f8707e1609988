-------------------------------- MODULE Replica --------------------------------
(***************************************************************************)
(* One process of the backend from its start to its end, with the requests *)
(* it forwards, the files it watches and the consumers of these files.     *)
(*                                                                         *)
(*   backend/app.js, metricApp.js, bin/www.js  startup, main, metric,      *)
(*                                             watching, process           *)
(*   backend/services/proxyService.js          routes, Proxy*              *)
(*   backend/config/configManager.js           Reads: what the getters of  *)
(*                                             a consumer depend on        *)
(*   the modules of backend/ that read settings: Reads, Hears, FixedAtStart*)
(*   backend/routes, loaders/defaultLoader.js  Receive, LocalStatus        *)
(*   backend/services/userInfoService.js       UserPermission              *)
(*                                                                         *)
(* External: the ConfigManager and the CertificateManager of @adp/base,    *)
(* which watch files and emit an event once a changed one is loaded; the   *)
(* Kubernetes watch, whose start resolves or rejects; Node, which may end  *)
(* the process after an unhandled rejection and closes a server when its   *)
(* last request has ended; and the pod, which is started again.            *)
(***************************************************************************)
EXTENDS UserPermission, FiniteSets

CONSTANTS
    Uids,         \* the uids services are proxied under
    WatchedFiles, \* the files that change
    MaxUnread     \* bound: the changed files that are not loaded yet

ConfigFiles ==
    {"container", "logControl", "dstConfig", "manualServices", "manualConfig", "manualOverrides"}
Certificates == {"internal", "logtransformer", "faultHandler", "dstCollector"}

(* Each consumer that holds settings and the files these come from; who    *)
(* asks for a setting whenever it needs it holds none.                     *)
Reads ==
    [logger             |-> {"container", "logControl", "logtransformer"},
     faultHandler       |-> {"container", "faultHandler"},
     telemetryRatio     |-> {"dstConfig"},
     telemetryAgent     |-> {"dstCollector"},
     telemetryName      |-> {"container"},
     proxy              |-> {"internal"},
     servers            |-> {"server"},
     serverProtocol     |-> {"container"},
     manualServices     |-> {"manualServices"},
     publishedConfig    |-> {"manualConfig", "manualOverrides"},
     importMap          |-> {"container"},
     certificateManager |-> {"container"},
     pmService          |-> {"container"},
     k8sQueryService    |-> {"container"},
     synchronization    |-> {"container"},
     startK8sService    |-> {"container"},
     frontendRoute      |-> {"container"}]

Consumers == DOMAIN Reads

\* The files whose events make a consumer read all its settings anew.
LoggerHears == {"container", "logControl"} \cup {"logtransformer"}
FaultHandlerHears == {"container"} \cup {"faultHandler"}
TelemetryRatioHears == {"dstConfig"}
TelemetryAgentHears == Certificates
ProxyHears == Certificates
ServersHear == {"server"}
ManualServicesHear == {"manualServices"}
PublishedConfigHears == {"manualConfig", "manualOverrides"}

Listeners ==
    [logger          |-> LoggerHears,
     faultHandler    |-> FaultHandlerHears,
     telemetryRatio  |-> TelemetryRatioHears,
     telemetryAgent  |-> TelemetryAgentHears,
     proxy           |-> ProxyHears,
     servers         |-> ServersHear,
     manualServices  |-> ManualServicesHear,
     publishedConfig |-> PublishedConfigHears]

Hears(consumer) == IF consumer \in DOMAIN Listeners THEN Listeners[consumer] ELSE {}

(* These take what they need from the configuration when the process       *)
(* starts, and never again.                                                *)
FixedAtStart ==
    {"telemetryName", "serverProtocol", "certificateManager", "pmService",
     "k8sQueryService", "synchronization", "startK8sService", "frontendRoute"}

ASSUME ReplicaAssumption ==
    /\ WatchedFiles \subseteq ConfigFiles \cup Certificates \cup {"server"}
    /\ MaxUnread \in Nat

VARIABLES
    process,   \* "up", "ended" or "crashed"
    startup,   \* startK8sService: "pending", "announced" or "failed"
    main,      \* the API server: "open", "closing" or "closed"
    metric,    \* the metrics server
    watching,  \* the configuration and certificate files are watched
    unread,    \* changed files that are not loaded yet
    stale,     \* <<consumer, file>>: it holds settings of an older content
    routes     \* proxyService.serviceMap: the uids that are proxied

lifeVars == <<process, startup, main, metric>>
fileVars == <<watching, unread, stale>>
callVars == <<config, calls>>
vars == <<lifeVars, fileVars, routes, callVars>>

Init ==
    /\ config \in Configs
    /\ calls = [c \in Connections |-> Idle]
    /\ process = "up" /\ startup = "pending" /\ main = "open" /\ metric = "open"
    /\ watching = TRUE /\ unread = {} /\ stale = {}
    /\ routes = {}

Up == process = "up"

--------------------------------------------------------------------------------
(* startK8sService: the manual services are announced when the watch has   *)
(* started; a rejection is handled by nobody.                              *)
WatchStarts ==
    /\ Up /\ startup = "pending"
    /\ startup' = "announced"
    /\ UNCHANGED <<process, main, metric, fileVars, routes, callVars>>

WatchStartFails ==
    /\ Up /\ startup = "pending"
    /\ startup' = "failed"
    /\ UNCHANGED <<process, main, metric, fileVars, routes, callVars>>

\* A service of the collection comes or goes (Discovery has the details).
RoutesChange(uid) ==
    /\ Up /\ startup # "pending"
    /\ routes' = IF uid \in routes THEN routes \ {uid} ELSE routes \cup {uid}
    /\ UNCHANGED <<lifeVars, fileVars, callVars>>

\* The files of a service were fetched or deleted: updateImportMap, with the
\* ingress path of the configuration as it is then.
ImportMapComputed ==
    /\ Up /\ startup # "pending"
    /\ stale' = {pair \in stale : pair[1] # "importMap"}
    /\ UNCHANGED <<lifeVars, watching, unread, routes, callVars>>

\* A mounted file is replaced.
FileChanges(f) ==
    /\ Up /\ f \notin unread /\ Cardinality(unread) < MaxUnread
    /\ unread' = unread \cup {f}
    /\ UNCHANGED <<lifeVars, watching, stale, routes, callVars>>

(* A changed file is loaded and its event runs every listener in the same  *)
(* turn: whoever hears it reads all its settings again.                    *)
FileLoaded(f) ==
    /\ Up /\ watching /\ f \in unread
    /\ unread' = unread \ {f}
    /\ stale' = {pair \in stale \cup {c \in Consumers : f \in Reads[c]} \X {f} :
                    f \notin Hears(pair[1])}
    /\ IF f = "container" THEN config' \in Configs ELSE UNCHANGED config
    /\ UNCHANGED <<lifeVars, watching, routes, calls>>

(* A changed certificate cannot be read: a fault is raised and everybody   *)
(* keeps what was loaded before.                                           *)
CertificateUnreadable(f) ==
    /\ Up /\ watching /\ f \in unread \ ConfigFiles
    /\ unread' = unread \ {f}
    /\ UNCHANGED <<lifeVars, watching, stale, routes, callVars>>

--------------------------------------------------------------------------------
(* The requests that are answered in the turn they arrive in: the files of *)
(* the frontend, before any other route, where the context without a slash *)
(* is redirected and what is no file falls through to the invalid routes;  *)
(* the log events of the frontend; and the reads of what is discovered.    *)
PageStatus(request) ==
    IF request.path = "context" THEN 302 ELSE IF request.path = "file" THEN 200 ELSE 400

LogStatus(request) ==
    IF NotAllowed(request) THEN 405 ELSE IF ~request.valid THEN 400 ELSE 200

ReadStatus(request) == IF NotAllowed(request) THEN 405 ELSE 200

LocalKinds == {"page", "log", "read"}

LocalStatus(request) ==
    IF request.kind = "page" THEN PageStatus(request)
    ELSE IF request.kind = "log" THEN LogStatus(request)
    ELSE ReadStatus(request)

AnswerLocally(c, request) ==
    /\ ~InProgress(c) /\ calls[c].phase # "rejected"
    /\ calls' = [calls EXCEPT ![c] =
          Answered(request, Absent, NoReply, LocalStatus(request), Absent)]
    /\ UNCHANGED config

(* checkURL: the path must have a uid and a file and the uid must be known *)
(* (in this order of the checks); then the service is kept in the request. *)
ProxyStatus(request) ==
    IF NotAllowed(request) THEN 405
    ELSE IF request.path = "noUid" THEN 400
    ELSE IF request.uid \notin routes THEN 404
    ELSE IF request.path = "noFile" THEN 400
    ELSE 0

ProxyArrive(c, request) ==
    LET early == ProxyStatus(request)
    IN  /\ ~InProgress(c) /\ calls[c].phase # "rejected"
        /\ calls' = [calls EXCEPT ![c] =
              IF early # 0 THEN Answered(request, Absent, NoReply, early, Absent)
              ELSE [phase |-> "forwarded", request |-> request, sent |-> request.uid,
                    reply |-> NoReply, answer |-> NoAnswer]]
        /\ UNCHANGED config

\* The service answers, or the connection to it fails: proxyError.
ProxyEnds(c, status) ==
    LET call == calls[c]
    IN  /\ InProgress(c) /\ call.request.kind = "proxy"
        /\ calls' = [calls EXCEPT ![c] =
              Answered(call.request, call.sent, NoReply, status, Absent)]
        /\ UNCHANGED config

\* A request is accepted while the server is open.
Receive(c, request) ==
    /\ Up /\ main = "open"
    /\ IF request.kind = "proxy" THEN ProxyArrive(c, request)
       ELSE IF request.kind \in LocalKinds THEN AnswerLocally(c, request)
       ELSE Arrive(c, request)
    /\ UNCHANGED <<lifeVars, fileVars, routes>>

Settle(c) ==
    /\ Up
    /\ \/ \E reply \in UNION {IamReplies[kind] : kind \in Kinds} : IamAnswers(c, reply)
       \/ \E status \in {200, 500} : ProxyEnds(c, status)
    /\ UNCHANGED <<lifeVars, fileVars, routes>>

ClientGivesUp(c) ==
    /\ Up
    /\ GiveUp(c)
    /\ UNCHANGED <<lifeVars, fileVars, routes>>

--------------------------------------------------------------------------------
\* Mutant: the watches are stopped with the signal.
TerminateAndStop ==
    /\ Up /\ main = "open"
    /\ main' = "closing" /\ metric' = "closing" /\ watching' = FALSE
    /\ UNCHANGED <<process, startup, unread, stale, routes, callVars>>

\* Mutant: the metrics server is forgotten.
TerminateMainOnly ==
    /\ Up /\ main = "open"
    /\ main' = "closing"
    /\ UNCHANGED <<process, startup, metric, fileVars, routes, callVars>>

\* SIGTERM: both servers stop accepting connections.
Terminate ==
    /\ Up /\ main = "open"
    /\ main' = "closing" /\ metric' = "closing"
    /\ UNCHANGED <<process, startup, fileVars, routes, callVars>>

Quiet == \A c \in Connections : ~InProgress(c) /\ calls[c].phase # "rejected"

\* Mutant: the process ends with the API server.
MainClosesAll ==
    /\ Up /\ main = "closing" /\ Quiet
    /\ main' = "closed" /\ watching' = FALSE /\ process' = "ended"
    /\ UNCHANGED <<startup, metric, unread, stale, routes, callVars>>

(* The API server has closed: app.close stops the metrics, the Kubernetes  *)
(* watch and the watches of files.  The process ends with the last handle. *)
MainCloses ==
    /\ Up /\ main = "closing" /\ Quiet
    /\ main' = "closed"
    /\ watching' = FALSE
    /\ process' = IF metric = "closed" THEN "ended" ELSE process
    /\ UNCHANGED <<startup, metric, unread, stale, routes, callVars>>

\* The metrics server has closed: metricApp.close stops the metrics once more.
MetricCloses ==
    /\ Up /\ metric = "closing"
    /\ metric' = "closed"
    /\ process' = IF main = "closed" THEN "ended" ELSE process
    /\ UNCHANGED <<startup, main, fileVars, routes, callVars>>

(* onError: a server cannot listen, which exits the process, or has failed *)
(* later, which is thrown.                                                 *)
ServerFails ==
    /\ Up /\ main = "open"
    /\ process' = "crashed"
    /\ UNCHANGED <<startup, main, metric, fileVars, routes, callVars>>

Unhandled == startup = "failed" \/ \E c \in Connections : calls[c].phase = "rejected"

\* Node ends the process after a rejection nobody handled.
Crash ==
    /\ Up /\ Unhandled
    /\ process' = "crashed"
    /\ UNCHANGED <<startup, main, metric, fileVars, routes, callVars>>

\* A new process reads the files as they are.
Restart ==
    /\ process = "crashed" /\ main = "open"
    /\ process' = "up" /\ startup' = "pending" /\ metric' = "open"
    /\ unread' = {} /\ stale' = {} /\ routes' = {}
    /\ calls' = [c \in Connections |-> Idle]
    /\ IF "container" \in unread THEN config' \in Configs ELSE UNCHANGED config
    /\ UNCHANGED <<main, watching>>

Done ==
    /\ ~Up /\ main # "open"
    /\ UNCHANGED vars

Next ==
    \/ WatchStarts \/ WatchStartFails
    \/ (\E uid \in Uids : RoutesChange(uid)) \/ ImportMapComputed
    \/ \E f \in WatchedFiles : FileChanges(f) \/ FileLoaded(f) \/ CertificateUnreadable(f)
    \/ \E c \in Connections :
        (\E request \in Inputs : Receive(c, request)) \/ Settle(c) \/ ClientGivesUp(c)
    \/ Terminate \/ MainCloses \/ MetricCloses
    \/ ServerFails \/ Crash \/ Restart \/ Done

(* Everything outside ends in some way: connections, loads of changed      *)
(* files, the start of the watch, the closing of a server without requests *)
(* and the start of a new process.  Clients need not give up, nothing has  *)
(* to change, and Node need not end the process after a rejection.         *)
Fairness ==
    /\ WF_vars(WatchStarts \/ WatchStartFails)
    /\ \A f \in WatchedFiles : WF_vars(FileLoaded(f))
    /\ \A c \in Connections : WF_vars(Settle(c))
    /\ WF_vars(MainCloses) /\ WF_vars(MetricCloses) /\ WF_vars(Restart)

Spec == Init /\ [][Next]_vars /\ Fairness

--------------------------------------------------------------------------------
\* The types of the life, the files and the requests of a process.
TypeOK ==
    /\ config \in Configs
    /\ DOMAIN calls = Connections
    /\ \A c \in Connections :
        /\ calls[c].phase \in {"idle", "forwarded", "answered", "rejected"}
        /\ calls[c].phase # "idle" => calls[c].request \in Inputs
    /\ process \in {"up", "ended", "crashed"}
    /\ startup \in {"pending", "announced", "failed"}
    /\ main \in {"open", "closing", "closed"} /\ metric \in {"open", "closing", "closed"}
    /\ process = "ended" => main = "closed" /\ metric = "closed"
    /\ watching \in BOOLEAN
    /\ unread \subseteq WatchedFiles /\ Cardinality(unread) <= MaxUnread
    /\ stale \subseteq Consumers \X WatchedFiles
    /\ routes \subseteq Uids

(* As long as a request is being served, also while the servers close, the *)
(* files are watched, and every consumer holds the settings of the last    *)
(* loaded content of all the files it reads, whichever of them changed, in *)
(* whatever order and before or after which crash.  This leaves out the    *)
(* container configuration for those that take it at the start, and for    *)
(* the import map, which has the ingress path of the configuration it was  *)
(* computed with.                                                          *)
ServedWithCurrentSettings ==
    /\ Up /\ (main # "closed" \/ \E c \in Connections : InProgress(c)) => watching
    /\ \A pair \in stale :
        pair[2] = "container" /\ pair[1] \in FixedAtStart \cup {"importMap"}

(* The claim of the development documentation that the changes of config   *)
(* files at runtime are handled without a restart: nobody holds settings   *)
(* of an older content than the last loaded one.                           *)
ChangesHandledWithoutRestart == stale = {}

(* Every forwarded request ends for its client, whatever files change,     *)
(* services go and servers close meanwhile: with an answer, unless it is a *)
(* permission request that met an error without a status, or the process   *)
(* crashed.                                                                *)
RequestsEnd ==
    \A c \in Connections :
        InProgress(c) ~>
            \/ calls[c].phase \in {"answered", "idle"}
            \/ (calls[c].phase = "rejected" /\ calls[c].request.kind = "permission")
            \/ process = "crashed"

(* The manual services are announced unless the process is terminated or   *)
(* crashes; and after SIGTERM the watches stop and the process ends, so    *)
(* that nothing is cut off and nothing lingers, unless some client keeps   *)
(* waiting for the answer to a rejected request.                           *)
LifecycleCompletes ==
    /\ (Up /\ startup = "pending" /\ main = "open") ~>
            (startup = "announced" \/ process = "crashed" \/ Unhandled \/ main # "open")
    /\ (Up /\ main = "closing") ~>
            ((process = "ended" /\ ~watching) \/ process = "crashed"
             \/ \E c \in Connections : calls[c].phase = "rejected")
================================================================================
