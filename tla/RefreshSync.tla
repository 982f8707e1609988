------------------------------ MODULE RefreshSync ------------------------------
(***************************************************************************)
(* The refresh endpoint of the replicas for one service: the PUT handler   *)
(* of backend/routes/metaRoutes.js, which restarts the fetch loop of the   *)
(* service and forwards a request that carries no Via header to the other  *)
(* replicas the headless service lists, through synchronizationService.js. *)
(*                                                                         *)
(* Every replica watches the cluster and reads the file of the service for *)
(* itself.  A read returns what the file was at some moment since its loop *)
(* was started.  External: the watch (with a delay per replica), the       *)
(* address lookup and the transport of @adp/kubernetes, where a lookup or  *)
(* a call may fail, and a failed call fails the request at once while the  *)
(* other calls go on; and the readiness that puts a replica on the list.   *)
(***************************************************************************)
EXTENDS Naturals

CONSTANTS
    Replicas,
    Requests,     \* the requests a client sends
    MaxVersion,   \* bound: the versions of the file
    Restartable,  \* bound: the replicas that may restart
    NoReplica

ASSUME RefreshSyncAssumption ==
    /\ NoReplica \notin Replicas
    /\ Restartable \subseteq Replicas
    /\ MaxVersion \in Nat \ {0}

None == 0   \* no version

VARIABLES
    present,   \* the service is in the cluster
    version,   \* the version of its file
    listed,    \* the replicas the headless service lists
    knows,     \* replica -> the service is in its collection
    since,     \* replica -> the version its fetch loop started at, or None
    held,      \* replica -> the version in its config map, or None
    requests,  \* request -> [status, at, version, targets]
    calls,     \* the forwarded requests in flight
    sent       \* every forwarded request ever sent

clusterVars == <<present, version, listed>>
replicaVars == <<knows, since, held>>
requestVars == <<requests, calls, sent>>
vars == <<clusterVars, replicaVars, requestVars>>

Idle == [status |-> "idle", at |-> NoReplica, version |-> None, targets |-> {}]

Init ==
    /\ present = FALSE
    /\ version = 1
    /\ listed = Replicas
    /\ knows = [r \in Replicas |-> FALSE]
    /\ since = [r \in Replicas |-> None]
    /\ held = [r \in Replicas |-> None]
    /\ requests = [q \in Requests |-> Idle]
    /\ calls = {}
    /\ sent = {}

--------------------------------------------------------------------------------
(* The cluster, and a replica that learns of it.                           *)
ServiceAppearsOrLeaves ==
    /\ present' = ~present
    /\ UNCHANGED <<version, listed, replicaVars, requestVars>>

FileChanges ==
    /\ version < MaxVersion
    /\ version' = version + 1
    /\ UNCHANGED <<present, listed, replicaVars, requestVars>>

\* Mutant: a loop that runs is left alone.
KeepLoop(r) ==
    since' = [since EXCEPT ![r] = IF @ = None THEN version ELSE @]

\* Mutant: the loop waits for the next version.
StartLoopAhead(r) == since' = [since EXCEPT ![r] = version + 1]

\* A loop that runs is superseded: an answer counts from now on.
StartLoop(r) == since' = [since EXCEPT ![r] = version]

ServiceAdded(r) ==
    /\ present /\ ~knows[r]
    /\ knows' = [knows EXCEPT ![r] = TRUE]
    /\ StartLoop(r)
    /\ UNCHANGED <<clusterVars, held, requestVars>>

Forget(r) ==
    /\ knows' = [knows EXCEPT ![r] = FALSE]
    /\ since' = [since EXCEPT ![r] = None]
    /\ held' = [held EXCEPT ![r] = None]

ServiceDeleted(r) ==
    /\ ~present /\ knows[r]
    /\ Forget(r)
    /\ UNCHANGED <<clusterVars, requestVars>>

FetchAnswered(r) ==
    /\ since[r] # None
    /\ \E v \in since[r]..version : held' = [held EXCEPT ![r] = v]
    /\ since' = [since EXCEPT ![r] = None]
    /\ UNCHANGED <<clusterVars, knows, requestVars>>

\* A replica restarts with nothing; the clients waiting for it are cut off.
Restart(r) ==
    /\ r \in Restartable \cap listed
    /\ listed' = listed \ {r}
    /\ Forget(r)
    /\ requests' = [q \in Requests |->
                      IF requests[q].status = "forwarding" /\ requests[q].at = r
                      THEN [requests[q] EXCEPT !.status = "lost"]
                      ELSE requests[q]]
    /\ UNCHANGED <<present, version, calls, sent>>

BecomesReady(r) ==
    /\ r \notin listed
    /\ listed' = listed \cup {r}
    /\ UNCHANGED <<present, version, replicaVars, requestVars>>

--------------------------------------------------------------------------------
(* The PUT handler.                                                        *)
\* Mutant: the Via header is not set.
ForwardWithoutVia(q, r, pending) ==
    LET new == {[request |-> q, from |-> r, to |-> p, via |-> FALSE] : p \in listed \ {r}}
    IN  calls' = pending \cup new /\ sent' = sent \cup new

Forward(q, r, pending) ==
    LET new == {[request |-> q, from |-> r, to |-> p, via |-> TRUE] : p \in listed \ {r}}
    IN  calls' = pending \cup new /\ sent' = sent \cup new

Answer(q, status) == requests' = [requests EXCEPT ![q].status = status]

(* A request without a name, or with another one in its body than in its   *)
(* path, and one for a service the replica does not know.                  *)
PutRefused(q, r) ==
    /\ requests[q].status = "idle"
    /\ \E status \in {"400", "404"} :
        /\ status = "404" => ~knows[r]
        /\ requests' = [requests EXCEPT ![q] =
                          [status |-> status, at |-> r, version |-> version, targets |-> {}]]
    /\ UNCHANGED <<clusterVars, replicaVars, calls, sent>>

\* A client request that a replica accepts and forwards.
PutForward(q, r) ==
    /\ requests[q].status = "idle"
    /\ knows[r]
    /\ StartLoop(r)
    /\ requests' = [requests EXCEPT ![q] =
                      [status |-> "forwarding", at |-> r, version |-> version,
                       targets |-> listed \ {r}]]
    /\ Forward(q, r, calls)
    /\ UNCHANGED <<clusterVars, knows, held>>

\* The lookup of the other replicas fails.
PutLookupFails(q, r) ==
    /\ requests[q].status = "idle"
    /\ knows[r]
    /\ StartLoop(r)
    /\ requests' = [requests EXCEPT ![q] =
                      [status |-> "500", at |-> r, version |-> version, targets |-> {}]]
    /\ UNCHANGED <<clusterVars, knows, held, calls, sent>>

\* Mutant: a forwarded request is answered and not carried out.
PeerPutIgnored(call) ==
    /\ calls' = calls \ {call}
    /\ UNCHANGED <<clusterVars, replicaVars, requests, sent>>

\* A forwarded request arrives; with the Via header it is not forwarded on.
PeerPut(call) ==
    LET r == call.to
    IN  /\ IF knows[r] THEN StartLoop(r) ELSE UNCHANGED since
        /\ IF knows[r] /\ ~call.via
           THEN Forward(call.request, r, calls \ {call})
           ELSE calls' = calls \ {call} /\ UNCHANGED sent
        /\ UNCHANGED <<clusterVars, knows, held, requests>>

CallFails(call) ==
    /\ calls' = calls \ {call}
    /\ IF requests[call.request].status = "forwarding"
       THEN Answer(call.request, "500")
       ELSE UNCHANGED requests
    /\ UNCHANGED <<clusterVars, replicaVars, sent>>

\* propagateRefresh resolves.
PutAccepted(q) ==
    /\ requests[q].status = "forwarding"
    /\ \A call \in calls : call.request # q
    /\ Answer(q, "202")
    /\ UNCHANGED <<clusterVars, replicaVars, calls, sent>>

ReplicaStep(r) ==
    \/ ServiceAdded(r)
    \/ ServiceDeleted(r)
    \/ FetchAnswered(r)
    \/ Restart(r)
    \/ BecomesReady(r)

\* A client reaches a listed replica only.
ClientPut(q, r) ==
    /\ r \in listed
    /\ PutRefused(q, r) \/ PutForward(q, r) \/ PutLookupFails(q, r)

CallStep(call) == PeerPut(call) \/ CallFails(call)

Next ==
    \/ ServiceAppearsOrLeaves
    \/ FileChanges
    \/ \E r \in Replicas : ReplicaStep(r)
    \/ \E q \in Requests, r \in Replicas : ClientPut(q, r)
    \/ \E call \in calls : CallStep(call)
    \/ \E q \in Requests : PutAccepted(q)

Spec == Init /\ [][Next]_vars

(* A call arrives or fails, its caller goes on, and a fetch loop retries   *)
(* until it is answered.                                                   *)
Fairness ==
    /\ \A r \in Replicas : WF_vars(FetchAnswered(r))
    /\ \A q \in Requests : WF_vars(PutAccepted(q))
    /\ \A q \in Requests : WF_vars(\E call \in calls : call.request = q /\ CallStep(call))

FairSpec == Spec /\ Fairness

--------------------------------------------------------------------------------
Statuses == {"idle", "forwarding", "202", "400", "404", "500", "lost"}

Versions == 1..MaxVersion

Call == [request : Requests, from : Replicas, to : Replicas, via : BOOLEAN]

\* The types of the variables.
TypeOK ==
    /\ present \in BOOLEAN
    /\ version \in Versions
    /\ listed \subseteq Replicas
    /\ knows \in [Replicas -> BOOLEAN]
    /\ since \in [Replicas -> Versions \cup {None}]
    /\ held \in [Replicas -> Versions \cup {None}]
    /\ requests \in [Requests -> [status  : Statuses,
                                  at      : Replicas \cup {NoReplica},
                                  version : Versions \cup {None},
                                  targets : SUBSET Replicas]]
    /\ calls \subseteq Call
    /\ sent \subseteq Call

(* One client request is forwarded once: every call for it was sent by the *)
(* replica it landed on, so no replica sees it twice and the calls die out *)
(* (the Via header keeps a replica from forwarding what was forwarded).    *)
ForwardedOnce ==
    \A call \in sent :
        /\ call.from = requests[call.request].at
        /\ call.to # call.from

(* "This way all the Pods will remain in a synced state": after a 202, no  *)
(* replica the request was for still shows a file older than the request,  *)
(* unless it is reading the file again: however the calls, changes of the  *)
(* file, other requests, reads in progress and restarts interleave.        *)
Reached(q) == requests[q].targets \cup {requests[q].at}

AcceptedIsReadAgain ==
    \A q \in Requests : requests[q].status = "202" =>
        \A r \in Reached(q) : knows[r] =>
            held[r] >= requests[q].version \/ since[r] >= requests[q].version

(* Every request is answered or cut off, and after a 202 every replica it  *)
(* was for shows the new file or no longer knows the service.              *)
RequestsEnd ==
    \A q \in Requests :
        requests[q].status = "forwarding" ~> requests[q].status \in {"202", "500", "lost"}

AcceptedShows ==
    \A q \in Requests : \A r \in Replicas :
        (requests[q].status = "202" /\ r \in Reached(q))
            ~> (held[r] >= requests[q].version \/ ~knows[r])
================================================================================
