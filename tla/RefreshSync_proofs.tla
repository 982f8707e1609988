-------------------------- MODULE RefreshSync_proofs --------------------------
(***************************************************************************)
(* For any number of replicas, requests and versions: a request is         *)
(* forwarded once, and an accepted request is read again by every replica  *)
(* it was for.                                                             *)
(*                                                                         *)
(* The inductive invariant says where the guarantee is while a request is  *)
(* under way: each replica it is for either is up to date, or reads the    *)
(* file again, or has a call on its way to it.                             *)
(***************************************************************************)
EXTENDS RefreshSync, TLAPS

\* A call in flight carries the Via header.
AllVia == \A call \in calls : call.via

\* The calls are first-hand: none was sent on behalf of another call.
FirstHand ==
    /\ \A call \in calls \cup sent :
        /\ call.from = requests[call.request].at
        /\ call.to # call.from
    /\ \A q \in Requests : requests[q].status = "idle" => requests[q].at = NoReplica

CallsSound == AllVia /\ FirstHand

\* No loop is older than what its replica shows, and nothing is from the future.
LoopsOrdered ==
    /\ \A r \in Replicas : held[r] <= version /\ since[r] <= version
    /\ \A r \in Replicas : since[r] # None => held[r] <= since[r]
    /\ \A q \in Requests : requests[q].version <= version

UpToDate(r, v) == knows[r] => held[r] >= v \/ since[r] >= v

Pending(q, r) == \E call \in calls : call.request = q /\ call.to = r

\* Every replica a request is for is up to date, or will be called.
BroughtUp ==
    /\ \A q \in Requests : requests[q].status \in {"forwarding", "202"} =>
        \A r \in Reached(q) : UpToDate(r, requests[q].version) \/ Pending(q, r)
    /\ \A q \in Requests : requests[q].status = "202" =>
        \A call \in calls : call.request # q
    /\ \A q \in Requests : requests[q].status \in {"forwarding", "202"} =>
        requests[q].at \in Replicas

IInv == TypeOK /\ CallsSound /\ LoopsOrdered /\ BroughtUp

--------------------------------------------------------------------------------
RequestType ==
    [status  : Statuses,
     at      : Replicas \cup {NoReplica},
     version : Versions \cup {None},
     targets : SUBSET Replicas]

\* The calls a replica sends to the others.
NewCalls(q, r) ==
    {[request |-> q, from |-> r, to |-> p, via |-> TRUE] : p \in listed \ {r}}

(* What Forward adds are calls of the request to every other listed        *)
(* replica.                                                                *)
LEMMA NewCallsTyped ==
    ASSUME TypeOK, NEW q \in Requests, NEW r \in Replicas
    PROVE  /\ NewCalls(q, r) \subseteq Call
           /\ \A call \in NewCalls(q, r) :
                /\ call.request = q /\ call.from = r /\ call.via
                /\ call.to \in listed \ {r}
           /\ \A p \in listed \ {r} : \E call \in NewCalls(q, r) : call.to = p
  <1> DEFINE C(p) == [request |-> q, from |-> r, to |-> p, via |-> TRUE]
  <1>1. \A p \in Replicas : /\ C(p) \in Call
                            /\ C(p).request = q
                            /\ C(p).from = r
                            /\ C(p).to = p
    BY DEF Call
  <1>2. \A p : C(p).via
    BY Zenon
  <1>3. NewCalls(q, r) = {C(p) : p \in listed \ {r}}
    BY Zenon DEF NewCalls
  <1>4. listed \subseteq Replicas
    BY DEF TypeOK
  <1> HIDE DEF C
  <1>5. ASSUME NEW call \in NewCalls(q, r)
        PROVE  /\ call \in Call
               /\ call.request = q /\ call.from = r /\ call.via
               /\ call.to \in listed \ {r}
    <2>1. PICK p \in listed \ {r} : call = C(p)
      BY <1>3, <1>5, Zenon
    <2>2. call.via
      BY <1>2, <2>1, Zenon
    <2>3. QED
      BY <1>1, <1>4, <2>1, <2>2, Zenon
  <1>6. ASSUME NEW p \in listed \ {r}
        PROVE  \E call \in NewCalls(q, r) : call.to = p
    <2>1. C(p) \in NewCalls(q, r) /\ C(p).to = p
      BY <1>1, <1>3, <1>4, Zenon
    <2>2. QED
      BY <2>1, Zenon
  <1>7. QED
    BY <1>5, <1>6, Zenon

(* A status overwritten alone.                                             *)
LEMMA AnswerTyped ==
    ASSUME TypeOK, NEW q \in Requests, NEW status \in Statuses, Answer(q, status)
    PROVE  /\ requests' \in [Requests -> RequestType]
           /\ requests'[q].status = status
           /\ \A p \in Requests : /\ requests'[p].at = requests[p].at
                                  /\ requests'[p].version = requests[p].version
                                  /\ requests'[p].targets = requests[p].targets
                                  /\ p # q => requests'[p].status = requests[p].status
  <1>1. requests \in [Requests -> RequestType]
    BY DEF TypeOK, RequestType
  <1>2. requests' = [requests EXCEPT ![q] = [requests[q] EXCEPT !.status = status]]
    BY DEF Answer
  <1>3. [requests[q] EXCEPT !.status = status] \in RequestType
    BY <1>1 DEF RequestType
  <1>4. QED
    BY <1>1, <1>2, <1>3 DEF RequestType

\* A request lands at a replica.
Lands(q, r, status, targets) ==
    requests' = [requests EXCEPT ![q] = [status |-> status, at |-> r,
                                         version |-> version, targets |-> targets]]

(* The ways a client request may land.                                     *)
LEMMA PutLands ==
    ASSUME NEW q \in Requests, NEW r \in Replicas
    PROVE  /\ PutRefused(q, r) => \E status \in {"400", "404"} : Lands(q, r, status, {})
           /\ PutForward(q, r) => Lands(q, r, "forwarding", listed \ {r})
           /\ PutLookupFails(q, r) => Lands(q, r, "500", {})
  BY Zenon DEF PutRefused, PutForward, PutLookupFails, Lands

(* A request that lands is recorded as a whole.                            *)
LEMMA LandingTyped ==
    ASSUME TypeOK, NEW q \in Requests, NEW r \in Replicas, NEW status \in Statuses,
           NEW targets \in SUBSET Replicas, Lands(q, r, status, targets)
    PROVE  /\ requests' \in [Requests -> RequestType]
           /\ requests'[q].status = status
           /\ requests'[q].at = r
           /\ requests'[q].version = version
           /\ requests'[q].targets = targets
           /\ \A p \in Requests \ {q} : requests'[p] = requests[p]
  BY DEF Lands, TypeOK, RequestType

(* A loop starts at a version.                                             *)
LEMMA LoopTyped ==
    ASSUME TypeOK, NEW r \in Replicas, StartLoop(r)
    PROVE  since' \in [Replicas -> Versions \cup {None}]
  BY DEF TypeOK, StartLoop

(* The restart of a replica cuts off the clients waiting for it.           *)
LEMMA RestartTyped ==
    ASSUME TypeOK, NEW r \in Replicas, Restart(r)
    PROVE  /\ requests' \in [Requests -> RequestType]
           /\ \A q \in Requests :
                /\ requests'[q].at = requests[q].at
                /\ requests'[q].version = requests[q].version
                /\ requests'[q].targets = requests[q].targets
                /\ \/ requests'[q].status = requests[q].status
                   \/ requests'[q].status = "lost"
  <1> DEFINE Cut(q) == IF requests[q].status = "forwarding" /\ requests[q].at = r
                       THEN [requests[q] EXCEPT !.status = "lost"]
                       ELSE requests[q]
  <1>1. requests' = [q \in Requests |-> Cut(q)]
    BY DEF Restart
  <1>2. \A q \in Requests : requests[q] \in RequestType
    BY DEF TypeOK, RequestType
  <1>3. ASSUME NEW q \in Requests
        PROVE  /\ Cut(q) \in RequestType
               /\ Cut(q).at = requests[q].at
               /\ Cut(q).version = requests[q].version
               /\ Cut(q).targets = requests[q].targets
               /\ Cut(q).status \in {requests[q].status, "lost"}
    <2>1. [requests[q] EXCEPT !.status = "lost"] \in RequestType
      BY <1>2 DEF RequestType, Statuses
    <2>2. QED
      BY <1>2, <2>1 DEF RequestType
  <1> HIDE DEF Cut
  <1>4. QED
    BY <1>1, <1>3

(* A replica that forgets the service keeps the types of its state.        *)
LEMMA ForgetTyped ==
    ASSUME TypeOK, NEW r \in Replicas, Forget(r)
    PROVE  /\ knows' \in [Replicas -> BOOLEAN]
           /\ since' \in [Replicas -> Versions \cup {None}]
           /\ held' \in [Replicas -> Versions \cup {None}]
  BY DEF TypeOK, Forget

(* A forwarded request that arrives is not forwarded on.                   *)
LEMMA PeerPutEnds ==
    ASSUME CallsSound, NEW call \in calls, PeerPut(call)
    PROVE  calls' = calls \ {call} /\ sent' = sent
  <1>1. call.via
    BY Zenon DEF CallsSound, AllVia
  <1>2. QED
    BY <1>1, Zenon DEF PeerPut

(* The calls of a request that lands are new.                              *)
LEMMA ForwardSends ==
    ASSUME NEW q, NEW r, PutForward(q, r)
    PROVE  calls' = calls \cup NewCalls(q, r) /\ sent' = sent \cup NewCalls(q, r)
  BY Zenon DEF PutForward, Forward, NewCalls

--------------------------------------------------------------------------------
(* The types are kept by every step.                                       *)
LEMMA TypeStep == TypeOK /\ CallsSound /\ [Next]_vars => TypeOK'
  <1> SUFFICES ASSUME TypeOK, CallsSound, [Next]_vars PROVE TypeOK'
    OBVIOUS
  <1> USE DEF clusterVars, replicaVars, requestVars
  <1>1. CASE ServiceAppearsOrLeaves
    BY <1>1 DEF ServiceAppearsOrLeaves, TypeOK
  <1>2. CASE FileChanges
    BY <1>2, RefreshSyncAssumption DEF FileChanges, TypeOK, Versions
  <1>3. ASSUME NEW r \in Replicas, ServiceAdded(r) PROVE TypeOK'
    BY <1>3, LoopTyped DEF ServiceAdded, TypeOK
  <1>4. ASSUME NEW r \in Replicas, ServiceDeleted(r) PROVE TypeOK'
    BY <1>4, ForgetTyped DEF ServiceDeleted, TypeOK
  <1>5. ASSUME NEW r \in Replicas, FetchAnswered(r) PROVE TypeOK'
    <2>1. PICK v \in since[r]..version : held' = [held EXCEPT ![r] = v]
      BY <1>5 DEF FetchAnswered
    <2>2. v \in Versions
      BY <1>5, RefreshSyncAssumption DEF FetchAnswered, TypeOK, Versions, None
    <2>3. QED
      BY <1>5, <2>1, <2>2 DEF FetchAnswered, TypeOK
  <1>6. ASSUME NEW r \in Replicas, Restart(r) PROVE TypeOK'
    <2>1. Forget(r)
      BY <1>6 DEF Restart
    <2>2. QED
      BY <1>6, <2>1, ForgetTyped, RestartTyped DEF Restart, TypeOK, RequestType
  <1>7. ASSUME NEW r \in Replicas, BecomesReady(r) PROVE TypeOK'
    BY <1>7 DEF BecomesReady, TypeOK
  <1>8. ASSUME NEW q \in Requests, NEW r \in Replicas, PutRefused(q, r) PROVE TypeOK'
    <2>1. requests' \in [Requests -> RequestType]
      <3>1. PICK status \in {"400", "404"} : Lands(q, r, status, {})
        BY <1>8, PutLands
      <3>2. status \in Statuses /\ {} \in SUBSET Replicas
        BY DEF Statuses, TypeOK
      <3>3. QED
        BY <3>1, <3>2, LandingTyped
    <2>2. QED
      BY <1>8, <2>1 DEF PutRefused, TypeOK, RequestType
  <1>9. ASSUME NEW q \in Requests, NEW r \in Replicas, PutForward(q, r) PROVE TypeOK'
    <2>1. requests' \in [Requests -> RequestType]
      <3>1. Lands(q, r, "forwarding", listed \ {r})
        BY <1>9, PutLands
      <3>2. "forwarding" \in Statuses /\ listed \ {r} \in SUBSET Replicas
        BY DEF Statuses, TypeOK
      <3>3. QED
        BY <3>1, <3>2, LandingTyped
    <2>2. calls' \subseteq Call /\ sent' \subseteq Call
      BY <1>9, ForwardSends, NewCallsTyped DEF TypeOK
    <2>3. QED
      BY <1>9, <2>1, <2>2, LoopTyped DEF PutForward, TypeOK, RequestType
  <1>10. ASSUME NEW q \in Requests, NEW r \in Replicas, PutLookupFails(q, r) PROVE TypeOK'
    <2>1. requests' \in [Requests -> RequestType]
      <3>1. Lands(q, r, "500", {})
        BY <1>10, PutLands
      <3>2. "500" \in Statuses /\ {} \in SUBSET Replicas
        BY DEF Statuses, TypeOK
      <3>3. QED
        BY <3>1, <3>2, LandingTyped
    <2>2. QED
      BY <1>10, <2>1, LoopTyped DEF PutLookupFails, TypeOK, RequestType
  <1>11. ASSUME NEW call \in calls, PeerPut(call) PROVE TypeOK'
    <2>1. call.to \in Replicas
      BY <1>11 DEF TypeOK, Call
    <2>2. since' \in [Replicas -> Versions \cup {None}]
      BY <1>11, <2>1, LoopTyped DEF PeerPut, TypeOK
    <2>3. QED
      BY <1>11, <2>2, PeerPutEnds DEF PeerPut, TypeOK
  <1>12. ASSUME NEW call \in calls, CallFails(call) PROVE TypeOK'
    <2>1. call.request \in Requests
      BY <1>12 DEF TypeOK, Call
    <2>2. requests' \in [Requests -> RequestType]
      BY <1>12, <2>1, AnswerTyped DEF CallFails, Statuses, TypeOK, RequestType
    <2>3. QED
      BY <1>12, <2>2 DEF CallFails, TypeOK, RequestType
  <1>13. ASSUME NEW q \in Requests, PutAccepted(q) PROVE TypeOK'
    <2>1. requests' \in [Requests -> RequestType]
      BY <1>13, AnswerTyped DEF PutAccepted, Statuses
    <2>2. QED
      BY <1>13, <2>1 DEF PutAccepted, TypeOK, RequestType
  <1>14. CASE UNCHANGED vars
    BY <1>14 DEF vars, TypeOK
  <1>15. QED
    BY <1>1, <1>2, <1>3, <1>4, <1>5, <1>6, <1>7, <1>8, <1>9, <1>10, <1>11, <1>12, <1>13, <1>14
    DEF Next, ReplicaStep, ClientPut, CallStep

--------------------------------------------------------------------------------
(* What was sent is sent for a request that has landed, by the replica it  *)
(* landed on.                                                              *)
LEMMA NoCallsOfIdle ==
    ASSUME TypeOK, CallsSound, NEW call \in calls \cup sent,
           requests[call.request].status = "idle"
    PROVE  FALSE
  <1>1. call.request \in Requests /\ call.from \in Replicas
    BY DEF TypeOK, Call
  <1>2. call.from = NoReplica
    BY <1>1 DEF CallsSound, FirstHand
  <1>3. QED
    BY <1>1, <1>2, RefreshSyncAssumption

(* A request lands where nothing was sent for it before.                   *)
LEMMA LandingKeepsCalls ==
    ASSUME TypeOK, CallsSound, NEW q \in Requests, NEW r \in Replicas,
           requests[q].status = "idle",
           requests'[q].at = r, requests'[q].status # "idle",
           \A p \in Requests \ {q} : requests'[p] = requests[p],
           \/ calls' = calls /\ sent' = sent
           \/ calls' = calls \cup NewCalls(q, r) /\ sent' = sent \cup NewCalls(q, r)
    PROVE  CallsSound'
  <1>1. ASSUME NEW call \in calls \cup sent
        PROVE  call.from = requests'[call.request].at
    <2>1. call.request \in Requests \ {q}
      BY NoCallsOfIdle DEF TypeOK, Call
    <2>2. QED
      BY <2>1 DEF CallsSound, FirstHand
  <1>2. \A call \in NewCalls(q, r) :
            call.from = requests'[call.request].at /\ call.to # call.from
    BY NewCallsTyped
  <1>3. \A call \in calls' \cup sent' :
            call.from = requests'[call.request].at /\ call.to # call.from
    BY <1>1, <1>2 DEF CallsSound, FirstHand
  <1>4. \A call \in calls' : call.via
    <2>1. \A call \in NewCalls(q, r) : call.via
      BY NewCallsTyped, Zenon
    <2>2. \A call \in calls : call.via
      BY Zenon DEF CallsSound, AllVia
    <2>3. QED
      BY <2>1, <2>2, Zenon
  <1>5. \A p \in Requests : requests'[p].status = "idle" => requests'[p].at = NoReplica
    BY DEF CallsSound, FirstHand
  <1>6. QED
    BY <1>3, <1>4, <1>5, Zenon DEF CallsSound, AllVia, FirstHand

(* Calls are only taken away, and requests keep the replica they are at.   *)
LEMMA FewerCalls ==
    ASSUME TypeOK, CallsSound, calls' \subseteq calls, sent' = sent,
           \A p \in Requests : /\ requests'[p].at = requests[p].at
                               /\ requests'[p].status = "idle" => requests[p].status = "idle"
    PROVE  CallsSound'
  <1>1. \A call \in calls' \cup sent' :
            call.from = requests'[call.request].at /\ call.to # call.from
    <2>1. \A call \in calls \cup sent : call.request \in Requests
      BY DEF TypeOK, Call
    <2>2. QED
      BY <2>1, Zenon DEF CallsSound, FirstHand
  <1>2. \A call \in calls' : call.via
    BY Zenon DEF CallsSound, AllVia
  <1>3. \A p \in Requests : requests'[p].status = "idle" => requests'[p].at = NoReplica
    BY Zenon DEF CallsSound, FirstHand
  <1>4. QED
    BY <1>1, <1>2, <1>3, Zenon DEF CallsSound, AllVia, FirstHand

(* Only the replica a request landed on forwards it.                       *)
LEMMA CallsStep == TypeOK /\ CallsSound /\ [Next]_vars => CallsSound'
  <1> SUFFICES ASSUME TypeOK, CallsSound, [Next]_vars PROVE CallsSound'
    OBVIOUS
  <1> USE DEF clusterVars, replicaVars, requestVars
  <1>1. ASSUME UNCHANGED requestVars PROVE CallsSound'
    BY <1>1, FewerCalls
  <1>2. ASSUME NEW r \in Replicas, Restart(r) PROVE CallsSound'
    BY <1>2, RestartTyped, FewerCalls DEF Restart
  <1>3. ASSUME NEW q \in Requests, NEW r \in Replicas, PutRefused(q, r) PROVE CallsSound'
    <2>0. PICK status \in {"400", "404"} : Lands(q, r, status, {})
      BY <1>3, PutLands
    <2>1. status \in Statuses /\ status # "idle" /\ {} \in SUBSET Replicas
      BY DEF Statuses
    <2>2. requests'[q].at = r /\ requests'[q].status # "idle"
          /\ \A p \in Requests \ {q} : requests'[p] = requests[p]
      BY <2>0, <2>1, LandingTyped
    <2>3. QED
      BY <1>3, <2>2, LandingKeepsCalls DEF PutRefused
  <1>4. ASSUME NEW q \in Requests, NEW r \in Replicas, PutForward(q, r) PROVE CallsSound'
    <2>1. Lands(q, r, "forwarding", listed \ {r}) /\ "forwarding" \in Statuses
          /\ listed \ {r} \in SUBSET Replicas
      BY <1>4, PutLands DEF Statuses, TypeOK
    <2>2. requests'[q].at = r /\ requests'[q].status # "idle"
          /\ \A p \in Requests \ {q} : requests'[p] = requests[p]
      BY <2>1, LandingTyped
    <2>3. requests[q].status = "idle"
      BY <1>4 DEF PutForward
    <2>4. QED
      BY <1>4, <2>2, <2>3, ForwardSends, LandingKeepsCalls
  <1>5. ASSUME NEW q \in Requests, NEW r \in Replicas, PutLookupFails(q, r) PROVE CallsSound'
    <2>1. Lands(q, r, "500", {}) /\ "500" \in Statuses /\ {} \in SUBSET Replicas
      BY <1>5, PutLands DEF Statuses
    <2>2. requests'[q].at = r /\ requests'[q].status # "idle"
          /\ \A p \in Requests \ {q} : requests'[p] = requests[p]
      BY <2>1, LandingTyped
    <2>3. QED
      BY <1>5, <2>2, LandingKeepsCalls DEF PutLookupFails
  <1>6. ASSUME NEW call \in calls, PeerPut(call) PROVE CallsSound'
    BY <1>6, PeerPutEnds, FewerCalls DEF PeerPut
  <1>7. ASSUME NEW call \in calls, CallFails(call) PROVE CallsSound'
    <2>1. call.request \in Requests /\ "500" \in Statuses
      BY <1>7 DEF TypeOK, Call, Statuses
    <2>2. \A p \in Requests : /\ requests'[p].at = requests[p].at
                              /\ requests'[p].status = "idle" => requests[p].status = "idle"
      BY <1>7, <2>1, AnswerTyped DEF CallFails
    <2>3. QED
      BY <1>7, <2>2, FewerCalls DEF CallFails
  <1>8. ASSUME NEW q \in Requests, PutAccepted(q) PROVE CallsSound'
    <2>1. "202" \in Statuses
      BY DEF Statuses
    <2>2. \A p \in Requests : /\ requests'[p].at = requests[p].at
                              /\ requests'[p].status = "idle" => requests[p].status = "idle"
      BY <1>8, <2>1, AnswerTyped DEF PutAccepted
    <2>3. QED
      BY <1>8, <2>2, FewerCalls DEF PutAccepted
  <1>9. QED
    BY <1>1, <1>2, <1>3, <1>4, <1>5, <1>6, <1>7, <1>8
    DEF Next, ReplicaStep, ClientPut, CallStep, vars, ServiceAppearsOrLeaves, FileChanges,
        ServiceAdded, ServiceDeleted, FetchAnswered, BecomesReady

--------------------------------------------------------------------------------
(* The versions are numbers.                                               *)
LEMMA Numbers ==
    ASSUME TypeOK
    PROVE  /\ version \in Nat
           /\ \A r \in Replicas : held[r] \in Nat /\ since[r] \in Nat
           /\ \A q \in Requests : requests[q].version \in Nat
  BY RefreshSyncAssumption DEF TypeOK, Versions, None

(* What a step does to a replica: nothing, a (re)started loop, the answer  *)
(* of its loop, or forgetting.                                             *)
ReplicaEffect(r) ==
    \/ knows'[r] = knows[r] /\ held'[r] = held[r] /\ since'[r] = since[r]
    \/ held'[r] = held[r] /\ since'[r] = version
    \/ /\ knows'[r] = knows[r] /\ since'[r] = None
       /\ since[r] # None /\ held'[r] >= since[r] /\ held'[r] <= version
    \/ ~knows'[r] /\ held'[r] = None /\ since'[r] = None

(* A step that touches one replica has one of these effects on every one.  *)
LEMMA OneReplica ==
    ASSUME TypeOK, NEW r \in Replicas, NEW s \in Replicas,
           \/ StartLoop(r) /\ knows' = [knows EXCEPT ![r] = TRUE] /\ UNCHANGED held
           \/ StartLoop(r) /\ UNCHANGED <<knows, held>>
           \/ Forget(r)
           \/ FetchAnswered(r)
    PROVE  ReplicaEffect(s)
  <1>1. CASE StartLoop(r) /\ knows' = [knows EXCEPT ![r] = TRUE] /\ UNCHANGED held
    <2>1. held'[s] = held[s] /\ (s = r => since'[s] = version) /\ (s # r => since'[s] = since[s])
      BY <1>1 DEF StartLoop, TypeOK
    <2>2. s # r => knows'[s] = knows[s]
      BY <1>1, Zenon DEF TypeOK
    <2>3. QED
      BY <2>1, <2>2, Zenon DEF ReplicaEffect
  <1>2. CASE StartLoop(r) /\ UNCHANGED <<knows, held>>
    BY <1>2 DEF StartLoop, TypeOK, ReplicaEffect
  <1>3. CASE Forget(r)
    BY <1>3 DEF Forget, TypeOK, ReplicaEffect
  <1>4. CASE FetchAnswered(r)
    <2>1. PICK v \in since[r]..version : held' = [held EXCEPT ![r] = v]
      BY <1>4 DEF FetchAnswered
    <2>2. v >= since[r] /\ v <= version
      BY Numbers
    <2>3. QED
      BY <1>4, <2>1, <2>2 DEF FetchAnswered, TypeOK, ReplicaEffect, replicaVars
  <1>5. QED
    BY <1>1, <1>2, <1>3, <1>4

(* The file only moves on.                                                 *)
LEMMA VersionGrows ==
    ASSUME TypeOK, [Next]_vars
    PROVE  version' >= version
  <1>1. FileChanges => version' = version + 1
    BY DEF FileChanges
  <1>2. FileChanges \/ version' = version
    BY Zenon
    DEF Next, ReplicaStep, ClientPut, CallStep, vars, ServiceAppearsOrLeaves,
        ServiceAdded, ServiceDeleted, FetchAnswered, Restart, BecomesReady, PutRefused,
        PutForward, PutLookupFails, PeerPut, CallFails, PutAccepted,
        clusterVars, replicaVars, requestVars
  <1>3. QED
    BY <1>1, <1>2, Numbers

(* Every step has one of these effects on every replica.                   *)
LEMMA EveryEffect ==
    ASSUME TypeOK, [Next]_vars, NEW r \in Replicas
    PROVE  ReplicaEffect(r)
  <1> USE DEF clusterVars, replicaVars, requestVars
  <1>1. ASSUME UNCHANGED replicaVars PROVE ReplicaEffect(r)
    BY <1>1 DEF ReplicaEffect
  <1>2. ASSUME NEW s \in Replicas,
               ServiceAdded(s) \/ ServiceDeleted(s) \/ FetchAnswered(s) \/ Restart(s)
        PROVE  ReplicaEffect(r)
    BY <1>2, OneReplica DEF ServiceAdded, ServiceDeleted, Restart
  <1>3. ASSUME NEW q \in Requests, NEW s \in Replicas,
               PutForward(q, s) \/ PutLookupFails(q, s)
        PROVE  ReplicaEffect(r)
    BY <1>3, OneReplica DEF PutForward, PutLookupFails
  <1>4. ASSUME NEW call \in calls, PeerPut(call) PROVE ReplicaEffect(r)
    <2>1. call.to \in Replicas
      BY <1>4 DEF TypeOK, Call
    <2>2. UNCHANGED <<knows, held>> /\ (StartLoop(call.to) \/ UNCHANGED since)
      BY <1>4, Zenon DEF PeerPut
    <2>3. QED
      BY <1>1, <2>1, <2>2, OneReplica
  <1>5. QED
    BY <1>1, <1>2, <1>3, <1>4
    DEF Next, ReplicaStep, ClientPut, CallStep, vars, ServiceAppearsOrLeaves, FileChanges,
        BecomesReady, PutRefused, CallFails, PutAccepted

--------------------------------------------------------------------------------
(* A request keeps what it stands for.                                     *)
SameRequest(q) ==
    /\ requests'[q].at = requests[q].at
    /\ requests'[q].version = requests[q].version
    /\ requests'[q].targets = requests[q].targets

\* A step lets a request land, or changes at most the status of requests.
RequestsEffect ==
    \/ \A q \in Requests : SameRequest(q)
    \/ \E q \in Requests :
        /\ requests'[q].version = version
        /\ \A p \in Requests \ {q} : SameRequest(p)

(* Every step has one of these effects on the requests.                    *)
LEMMA EveryRequestEffect ==
    ASSUME TypeOK, [Next]_vars
    PROVE  RequestsEffect
  <1> USE DEF clusterVars, replicaVars, requestVars
  <1>1. ASSUME requests' = requests PROVE RequestsEffect
    BY <1>1 DEF RequestsEffect, SameRequest
  <1>2. ASSUME NEW r \in Replicas, Restart(r) PROVE RequestsEffect
    BY <1>2, RestartTyped DEF RequestsEffect, SameRequest
  <1>3. ASSUME NEW q \in Requests, NEW r \in Replicas,
               PutRefused(q, r) \/ PutForward(q, r) \/ PutLookupFails(q, r)
        PROVE  RequestsEffect
    <2>1. PICK status \in Statuses, targets \in SUBSET Replicas : Lands(q, r, status, targets)
      <3>1. {"400", "404", "forwarding", "500"} \subseteq Statuses
        BY DEF Statuses
      <3>2. {} \in SUBSET Replicas /\ listed \ {r} \in SUBSET Replicas
        BY DEF TypeOK
      <3>3. QED
        BY <1>3, <3>1, <3>2, PutLands
    <2>2. QED
      BY <2>1, LandingTyped DEF RequestsEffect, SameRequest
  <1>4. ASSUME NEW q \in Requests, NEW status \in Statuses, Answer(q, status)
        PROVE  RequestsEffect
    BY <1>4, AnswerTyped DEF RequestsEffect, SameRequest
  <1>5. ASSUME NEW call \in calls, CallFails(call) PROVE RequestsEffect
    <2>1. call.request \in Requests /\ "500" \in Statuses
      BY DEF TypeOK, Call, Statuses
    <2>2. QED
      BY <1>1, <1>4, <1>5, <2>1 DEF CallFails
  <1>6. ASSUME NEW q \in Requests, PutAccepted(q) PROVE RequestsEffect
    BY <1>4, <1>6 DEF PutAccepted, Statuses
  <1>7. QED
    BY <1>1, <1>2, <1>3, <1>5, <1>6
    DEF Next, ReplicaStep, ClientPut, CallStep, vars, ServiceAppearsOrLeaves, FileChanges,
        ServiceAdded, ServiceDeleted, FetchAnswered, BecomesReady, PeerPut

(* The loops stay ahead of what is shown.                                  *)
LEMMA LoopsStep ==
    ASSUME TypeOK, TypeOK', LoopsOrdered, [Next]_vars
    PROVE  LoopsOrdered'
  <1>1. ASSUME NEW r \in Replicas
        PROVE  /\ held'[r] <= version' /\ since'[r] <= version'
               /\ since'[r] # None => held'[r] <= since'[r]
    <2>1. /\ version \in Nat /\ held[r] \in Nat /\ since[r] \in Nat
          /\ version' \in Nat /\ held'[r] \in Nat /\ since'[r] \in Nat
      BY RefreshSyncAssumption DEF TypeOK, Versions, None
    <2>2. ReplicaEffect(r) /\ version' >= version
      BY EveryEffect, VersionGrows
    <2>3. QED
      BY <2>1, <2>2 DEF LoopsOrdered, ReplicaEffect, None
  <1>2. ASSUME NEW q \in Requests PROVE requests'[q].version <= version'
    <2>1. /\ version \in Nat /\ version' \in Nat /\ requests[q].version \in Nat
      BY RefreshSyncAssumption DEF TypeOK, Versions, None
    <2>2. version' >= version
      BY VersionGrows
    <2>3. requests'[q].version \in {requests[q].version, version}
      BY EveryRequestEffect DEF RequestsEffect, SameRequest
    <2>4. QED
      BY <2>1, <2>2, <2>3 DEF LoopsOrdered
  <1>3. QED
    BY <1>1, <1>2 DEF LoopsOrdered

--------------------------------------------------------------------------------
Open == {"forwarding", "202"}

\* UpToDate after the step.
UpdatedTo(r, v) == knows'[r] => held'[r] >= v \/ since'[r] >= v

(* A replica that is up to date stays so.                                  *)
LEMMA StaysUpToDate ==
    ASSUME TypeOK, TypeOK', LoopsOrdered, [Next]_vars, NEW r \in Replicas
    PROVE  \A v \in Nat : v <= version /\ UpToDate(r, v) => UpdatedTo(r, v)
  <1>1. /\ version \in Nat /\ held[r] \in Nat /\ since[r] \in Nat
        /\ held'[r] \in Nat /\ since'[r] \in Nat
    BY RefreshSyncAssumption DEF TypeOK, Versions, None
  <1>2. ASSUME NEW v \in Nat, v <= version, UpToDate(r, v) PROVE UpdatedTo(r, v)
    <2>1. ReplicaEffect(r)
      BY EveryEffect
    <2>2. CASE knows'[r] = knows[r] /\ held'[r] = held[r] /\ since'[r] = since[r]
      BY <1>2, <2>2, Zenon DEF UpToDate, UpdatedTo
    <2>3. CASE since'[r] = version
      BY <1>1, <1>2, <2>3 DEF UpdatedTo
    <2>4. CASE /\ knows'[r] = knows[r] /\ since'[r] = None
               /\ since[r] # None /\ held'[r] >= since[r] /\ held'[r] <= version
      <3>1. held[r] <= since[r]
        BY <2>4 DEF LoopsOrdered
      <3>2. held[r] >= v \/ since[r] >= v => held'[r] >= v
        BY <1>1, <1>2, <2>4, <3>1
      <3>3. QED
        BY <1>2, <2>4, <3>2, Zenon DEF UpToDate, UpdatedTo
    <2>5. CASE ~knows'[r]
      BY <2>5, Zenon DEF UpdatedTo
    <2>6. QED
      BY <2>1, <2>2, <2>3, <2>4, <2>5, Zenon DEF ReplicaEffect
  <1>3. QED
    BY <1>2

\* The parts of BroughtUp for one request after the step.
BroughtFor(q) ==
    /\ requests'[q].status \in Open =>
        \A r \in requests'[q].targets \cup {requests'[q].at} :
            \/ UpdatedTo(r, requests'[q].version)
            \/ \E call \in calls' : call.request = q /\ call.to = r
    /\ requests'[q].status = "202" => \A call \in calls' : call.request # q
    /\ requests'[q].status \in Open => requests'[q].at \in Replicas

(* A request that was under way stays brought up when each of its calls    *)
(* that goes has done its work.                                            *)
LEMMA BroughtKept ==
    ASSUME TypeOK, TypeOK', LoopsOrdered, BroughtUp, [Next]_vars, NEW q \in Requests,
           SameRequest(q),
           requests'[q].status \in Open => requests[q].status \in Open,
           \A call \in calls :
               call.request = q /\ requests'[q].status \in Open =>
                   call \in calls' \/ UpdatedTo(call.to, requests[q].version),
           requests'[q].status = "202" => \A call \in calls' : call.request # q
    PROVE  BroughtFor(q)
  <1>0. ASSUME requests'[q].status \in Open PROVE requests'[q].at \in Replicas
    BY <1>0, Zenon DEF BroughtUp, SameRequest, Open
  <1> SUFFICES ASSUME requests'[q].status \in Open,
                      NEW r \in requests'[q].targets \cup {requests'[q].at}
               PROVE  \/ UpdatedTo(r, requests'[q].version)
                      \/ \E call \in calls' : call.request = q /\ call.to = r
    BY <1>0, Zenon DEF BroughtFor
  <1>1. r \in Reached(q) /\ requests'[q].version = requests[q].version
    BY DEF SameRequest, Reached
  <1>2. requests[q].version \in Nat /\ requests[q].version <= version
    BY RefreshSyncAssumption DEF TypeOK, Versions, None, LoopsOrdered
  <1>3. requests[q].status \in {"forwarding", "202"}
    BY DEF Open
  <1>4. UpToDate(r, requests[q].version) \/ Pending(q, r)
    BY <1>1, <1>3, Zenon DEF BroughtUp
  <1>5. CASE Pending(q, r)
    BY <1>1, <1>5, Zenon DEF Pending
  <1>6. CASE UpToDate(r, requests[q].version) /\ r \in Replicas
    BY <1>1, <1>2, <1>6, StaysUpToDate
  <1>7. r \in Replicas
    <2>1. requests[q].targets \subseteq Replicas
      BY DEF TypeOK
    <2>2. requests[q].at \in Replicas
      BY <1>3, Zenon DEF BroughtUp
    <2>3. QED
      BY <1>1, <2>1, <2>2 DEF Reached
  <1>8. QED
    BY <1>4, <1>5, <1>6, <1>7, Zenon

(* Calls are only taken away, each after its work, and no request becomes  *)
(* open.                                                                   *)
LEMMA BroughtByFewer ==
    ASSUME TypeOK, TypeOK', LoopsOrdered, BroughtUp, [Next]_vars, calls' \subseteq calls,
           \A q \in Requests :
               /\ SameRequest(q)
               /\ requests'[q].status \in Open => requests[q].status \in Open
               /\ requests'[q].status = "202" =>
                      requests[q].status = "202" \/ \A call \in calls : call.request # q,
           \A call \in calls \ calls' :
               requests'[call.request].status \in Open =>
                   UpdatedTo(call.to, requests[call.request].version)
    PROVE  \A q \in Requests : BroughtFor(q)
  <1> SUFFICES ASSUME NEW q \in Requests PROVE BroughtFor(q)
    OBVIOUS
  <1>1. requests'[q].status = "202" => \A call \in calls' : call.request # q
    BY Zenon DEF BroughtUp
  <1>2. \A call \in calls :
            call.request = q /\ requests'[q].status \in Open =>
                call \in calls' \/ UpdatedTo(call.to, requests[q].version)
    OBVIOUS
  <1>3. QED
    BY <1>1, <1>2, BroughtKept

(* A request that lands and is not forwarded adds nothing to bring up.     *)
LEMMA BroughtByLanding ==
    ASSUME TypeOK, TypeOK', LoopsOrdered, BroughtUp, [Next]_vars,
           NEW q \in Requests, requests'[q].status \notin Open, calls' = calls,
           \A p \in Requests \ {q} : requests'[p] = requests[p]
    PROVE  \A p \in Requests : BroughtFor(p)
  <1>1. BroughtFor(q)
    BY Zenon DEF BroughtFor, Open
  <1>2. ASSUME NEW p \in Requests \ {q} PROVE BroughtFor(p)
    <2>1. SameRequest(p) /\ requests'[p].status = requests[p].status
      BY DEF SameRequest
    <2>2. requests'[p].status = "202" => \A call \in calls' : call.request # p
      BY <2>1, Zenon DEF BroughtUp
    <2>3. QED
      BY <2>1, <2>2, BroughtKept
  <1>3. QED
    BY <1>1, <1>2

(* A request that is forwarded restarts the loop of the replica it landed  *)
(* on and calls the others.                                                *)
LEMMA BroughtByForward ==
    ASSUME TypeOK, TypeOK', CallsSound, LoopsOrdered, BroughtUp, [Next]_vars,
           NEW q \in Requests, NEW r \in Replicas, PutForward(q, r)
    PROVE  \A p \in Requests : BroughtFor(p)
  <1>1. /\ requests'[q].status = "forwarding" /\ requests'[q].at = r
        /\ requests'[q].version = version /\ requests'[q].targets = listed \ {r}
        /\ \A p \in Requests \ {q} : requests'[p] = requests[p]
    <2>1. Lands(q, r, "forwarding", listed \ {r})
      BY PutLands
    <2>2. "forwarding" \in Statuses /\ listed \ {r} \in SUBSET Replicas
      BY DEF Statuses, TypeOK
    <2>3. QED
      BY <2>1, <2>2, LandingTyped
  <1>2. calls' = calls \cup NewCalls(q, r)
    BY ForwardSends
  <1>3. BroughtFor(q)
    <2>1. UpdatedTo(r, version)
      <3>1. since'[r] = version /\ version >= version
        BY Numbers DEF PutForward, StartLoop, TypeOK
      <3>2. QED
        BY <3>1, Zenon DEF UpdatedTo
    <2>2. \A p \in listed \ {r} : \E call \in calls' : call.request = q /\ call.to = p
      BY <1>2, NewCallsTyped
    <2>3. QED
      BY <1>1, <2>1, <2>2 DEF BroughtFor
  <1>4. ASSUME NEW p \in Requests \ {q} PROVE BroughtFor(p)
    <2>1. SameRequest(p) /\ requests'[p].status = requests[p].status
      BY <1>1 DEF SameRequest
    <2>2. \A call \in NewCalls(q, r) : call.request # p
      BY NewCallsTyped
    <2>3. requests'[p].status = "202" => \A call \in calls' : call.request # p
      BY <1>2, <2>1, <2>2, Zenon DEF BroughtUp
    <2>4. calls \subseteq calls'
      BY <1>2
    <2>5. QED
      BY <2>1, <2>3, <2>4, BroughtKept
  <1>5. QED
    BY <1>3, <1>4

(* Every step leaves the replicas brought up.                              *)
LEMMA BroughtStep ==
    ASSUME TypeOK, TypeOK', CallsSound, LoopsOrdered, BroughtUp, [Next]_vars
    PROVE  BroughtUp'
  <1> USE DEF clusterVars, replicaVars, requestVars
  <1>1. SUFFICES \A q \in Requests : BroughtFor(q)
    BY Zenon DEF BroughtFor, BroughtUp, Reached, UpdatedTo, UpToDate, Pending, Open
  <1>2. ASSUME requests' = requests, calls' = calls PROVE \A q \in Requests : BroughtFor(q)
    BY <1>2, BroughtByFewer DEF SameRequest, BroughtUp
  <1>3. ASSUME NEW r \in Replicas, Restart(r) PROVE \A q \in Requests : BroughtFor(q)
    <2>1. \A q \in Requests : /\ SameRequest(q)
                              /\ requests'[q].status \in Open =>
                                     requests'[q].status = requests[q].status
      BY <1>3, RestartTyped DEF SameRequest, Open
    <2>2. calls' = calls
      BY <1>3 DEF Restart
    <2>3. \A q \in Requests : requests'[q].status = "202" => requests[q].status = "202"
      BY <2>1 DEF Open
    <2>4. QED
      BY <2>1, <2>2, <2>3, BroughtByFewer
  <1>4. ASSUME NEW q \in Requests, NEW r \in Replicas,
               PutRefused(q, r) \/ PutLookupFails(q, r)
        PROVE  \A p \in Requests : BroughtFor(p)
    <2>1. PICK status \in {"400", "404", "500"} : Lands(q, r, status, {})
      BY <1>4, PutLands
    <2>2. status \in Statuses /\ {} \in SUBSET Replicas /\ status \notin Open
      BY DEF Statuses, Open
    <2>3. requests'[q].status \notin Open /\ \A p \in Requests \ {q} : requests'[p] = requests[p]
      BY <2>1, <2>2, LandingTyped
    <2>4. calls' = calls
      BY <1>4 DEF PutRefused, PutLookupFails
    <2>5. QED
      BY <2>3, <2>4, BroughtByLanding
  <1>5. ASSUME NEW q \in Requests, NEW r \in Replicas, PutForward(q, r)
        PROVE  \A p \in Requests : BroughtFor(p)
    BY <1>5, BroughtByForward
  <1>6. ASSUME NEW call \in calls, PeerPut(call) PROVE \A q \in Requests : BroughtFor(q)
    <2>1. calls' = calls \ {call}
      BY <1>6, PeerPutEnds
    <2>2. call.to \in Replicas /\ call.request \in Requests
      BY DEF TypeOK, Call
    <2>3. UpdatedTo(call.to, requests[call.request].version)
      <3>1. CASE knows[call.to]
        <4>1. since'[call.to] = version
          BY <1>6, <2>2, <3>1 DEF PeerPut, StartLoop, TypeOK
        <4>2. version >= requests[call.request].version
          BY <2>2, Numbers DEF LoopsOrdered
        <4>3. QED
          BY <4>1, <4>2, Zenon DEF UpdatedTo
      <3>2. CASE ~knows[call.to]
        BY <1>6, <3>2, Zenon DEF PeerPut, UpdatedTo
      <3>3. QED
        BY <3>1, <3>2
    <2>4. requests' = requests
      BY <1>6 DEF PeerPut
    <2>5. QED
      BY <2>1, <2>3, <2>4, BroughtByFewer DEF SameRequest
  <1>7. ASSUME NEW call \in calls, CallFails(call) PROVE \A q \in Requests : BroughtFor(q)
    <2>1. calls' = calls \ {call} /\ call.request \in Requests
      BY <1>7 DEF CallFails, TypeOK, Call
    <2>2. CASE requests[call.request].status = "forwarding"
      <3>1. "500" \in Statuses /\ Answer(call.request, "500") /\ "500" \notin Open
        BY <1>7, <2>2 DEF CallFails, Statuses, Open
      <3>2. /\ requests'[call.request].status \notin Open
            /\ \A q \in Requests :
                 /\ SameRequest(q)
                 /\ requests'[q].status \in Open => requests'[q].status = requests[q].status
        BY <2>1, <3>1, AnswerTyped DEF SameRequest
      <3>3. \A q \in Requests : requests'[q].status = "202" => requests[q].status = "202"
        BY <3>2 DEF Open
      <3>4. QED
        BY <2>1, <3>2, <3>3, BroughtByFewer
    <2>3. CASE requests[call.request].status # "forwarding"
      <3>1. requests' = requests
        BY <1>7, <2>3 DEF CallFails
      <3>2. requests[call.request].status \notin Open
        BY <2>1, <2>3, Zenon DEF BroughtUp, Open
      <3>3. QED
        BY <2>1, <3>1, <3>2, BroughtByFewer DEF SameRequest
    <2>4. QED
      BY <2>2, <2>3
  <1>8. ASSUME NEW q \in Requests, PutAccepted(q) PROVE \A p \in Requests : BroughtFor(p)
    <2>1. calls' = calls /\ Answer(q, "202") /\ "202" \in Statuses
          /\ requests[q].status \in Open /\ \A call \in calls : call.request # q
      BY <1>8 DEF PutAccepted, Statuses, Open
    <2>2. \A p \in Requests : /\ SameRequest(p)
                              /\ p # q => requests'[p].status = requests[p].status
      BY <2>1, AnswerTyped DEF SameRequest
    <2>3. QED
      BY <2>1, <2>2, BroughtByFewer
  <1>9. QED
    BY <1>2, <1>3, <1>4, <1>5, <1>6, <1>7, <1>8
    DEF Next, ReplicaStep, ClientPut, CallStep, vars, ServiceAppearsOrLeaves, FileChanges,
        ServiceAdded, ServiceDeleted, FetchAnswered, BecomesReady

--------------------------------------------------------------------------------
(* The invariant holds at the start, before any request.                   *)
LEMMA InitIInv == Init => IInv
  <1> SUFFICES ASSUME Init PROVE IInv
    OBVIOUS
  <1>1. TypeOK
    <2>1. Idle \in RequestType
      BY DEF Idle, RequestType, Statuses, None
    <2>2. requests \in [Requests -> RequestType]
      BY <2>1 DEF Init
    <2>3. version \in Versions
      BY RefreshSyncAssumption DEF Init, Versions
    <2>4. QED
      BY <2>2, <2>3 DEF Init, TypeOK, RequestType
  <1>2. CallsSound
    <2>1. calls = {} /\ sent = {} /\ \A q \in Requests : requests[q].at = NoReplica
      BY DEF Init, Idle
    <2>2. QED
      BY <2>1, Zenon DEF CallsSound, AllVia, FirstHand
  <1>3. LoopsOrdered
    BY DEF Init, LoopsOrdered, Idle, None
  <1>4. BroughtUp
    <2>1. \A q \in Requests : requests[q].status \notin {"forwarding", "202"}
      BY DEF Init, Idle
    <2>2. QED
      BY <2>1 DEF BroughtUp
  <1>5. QED
    BY <1>1, <1>2, <1>3, <1>4 DEF IInv

(* The inductive invariant.                                                *)
THEOREM Invariance == Spec => []IInv
  <1>1. IInv /\ [Next]_vars => IInv'
    BY TypeStep, CallsStep, LoopsStep, BroughtStep DEF IInv
  <1>2. QED
    BY InitIInv, <1>1, PTL DEF Spec

(* The state of the replicas and of the requests has its types.            *)
THEOREM TypeCorrect == Spec => []TypeOK
  <1>1. IInv => TypeOK
    BY DEF IInv
  <1>2. QED
    BY Invariance, <1>1, PTL

(* However many replicas there are, a request is forwarded by the replica  *)
(* the client reached and by no other.                                     *)
THEOREM ForwardingOnce == Spec => []ForwardedOnce
  <1>1. IInv => ForwardedOnce
    BY DEF IInv, CallsSound, FirstHand, ForwardedOnce
  <1>2. QED
    BY Invariance, <1>1, PTL

(* After a 202 no replica the request was for still shows an older file    *)
(* without reading it again.                                               *)
THEOREM AcceptedRead == Spec => []AcceptedIsReadAgain
  <1>1. IInv => AcceptedIsReadAgain
    BY Zenon DEF IInv, BroughtUp, AcceptedIsReadAgain, UpToDate, Pending
  <1>2. QED
    BY Invariance, <1>1, PTL
================================================================================
