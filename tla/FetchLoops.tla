------------------------------ MODULE FetchLoops ------------------------------
(***************************************************************************)
(* What the discovery of services promises, without the content of their   *)
(* files: the collection of services, the fetch loops a service event      *)
(* starts in place of the loops of that name, and the revision each of the *)
(* two configurations of a service was read at.  Discovery implements it.  *)
(*                                                                         *)
(* The collection and the loops are those of @adp/kubernetes, as           *)
(* uiServiceCollection.js and configQueryService.js set them up: one       *)
(* service per name, config.json retried forever, config.package.json      *)
(* given up after PackageTryLimit failures in favour of a default, and the *)
(* answers of superseded loops dropped.  A service whose protocol is not   *)
(* recognised has no url to read from and never answers.                   *)
(***************************************************************************)
EXTENDS Naturals

CONSTANTS
    Names,            \* the names of the labelled services
    Revisions,        \* the revisions of a service
    Uids,             \* what the cluster may announce: <<name, revision>>
    NotAnnounced,     \* no revision
    HasProtocol,      \* the uids whose protocol is recognised
    PackageTryLimit   \* CONFIG_PACKAGE_FETCH_TRY_LIMIT

ASSUME FetchLoopsAssumption ==
    /\ NotAnnounced \notin Revisions
    /\ Uids \subseteq Names \X Revisions
    /\ HasProtocol \subseteq Uids
    /\ PackageTryLimit \in Nat \ {0}

VARIABLES
    services,    \* the collection: name -> revision
    loops,       \* the fetch loops in progress: name -> [config, package, tries]
    configRev,   \* name -> the revision config.json was read at
    packageRev   \* name -> the revision config.package.json was read at

vars == <<services, loops, configRev, packageRev>>

Announced(n) == services[n] # NotAnnounced

NoLoop == [config |-> FALSE, package |-> FALSE, tries |-> 0]

NoRevision == [n \in Names |-> NotAnnounced]

Init ==
    /\ services = NoRevision
    /\ loops = [n \in Names |-> NoLoop]
    /\ configRev = NoRevision
    /\ packageRev = NoRevision

\* Mutant: only config.json is fetched anew.
EmitForConfigOnly(n, rev) ==
    /\ services' = [services EXCEPT ![n] = rev]
    /\ loops' = [loops EXCEPT ![n].config = TRUE]
    /\ UNCHANGED <<configRev, packageRev>>

EmitService(n, rev) ==
    /\ services' = [services EXCEPT ![n] = rev]
    /\ loops' = [loops EXCEPT ![n] = [config |-> TRUE, package |-> TRUE, tries |-> 0]]
    /\ UNCHANGED <<configRev, packageRev>>

\* A service appears or is modified.
Announce(n, rev) ==
    /\ <<n, rev>> \in Uids
    /\ services[n] # rev
    /\ EmitService(n, rev)

\* A refresh request emits a known service once more.
ForceUpdateService(n) ==
    /\ Announced(n)
    /\ EmitService(n, services[n])

\* Mutant: the loops of a deleted service go on.
DeleteKeepsLoops(n) ==
    /\ Announced(n)
    /\ services' = [services EXCEPT ![n] = NotAnnounced]
    /\ configRev' = [configRev EXCEPT ![n] = NotAnnounced]
    /\ packageRev' = [packageRev EXCEPT ![n] = NotAnnounced]
    /\ UNCHANGED loops

DeleteService(n) ==
    /\ Announced(n)
    /\ services' = [services EXCEPT ![n] = NotAnnounced]
    /\ loops' = [loops EXCEPT ![n] = NoLoop]
    /\ configRev' = [configRev EXCEPT ![n] = NotAnnounced]
    /\ packageRev' = [packageRev EXCEPT ![n] = NotAnnounced]

FetchConfig(n) ==
    /\ loops[n].config
    /\ <<n, services[n]>> \in HasProtocol
    /\ loops' = [loops EXCEPT ![n].config = FALSE]
    /\ configRev' = [configRev EXCEPT ![n] = services[n]]
    /\ UNCHANGED <<services, packageRev>>

StorePackages(n) ==
    /\ loops' = [loops EXCEPT ![n].package = FALSE, ![n].tries = 0]
    /\ packageRev' = [packageRev EXCEPT ![n] = services[n]]
    /\ UNCHANGED <<services, configRev>>

FetchPackages(n) ==
    /\ loops[n].package
    /\ <<n, services[n]>> \in HasProtocol
    /\ StorePackages(n)

\* Mutant: one try too many.
PackageFetchFailsOnceMore(n) ==
    /\ loops[n].package
    /\ loops[n].tries < PackageTryLimit
    /\ loops' = [loops EXCEPT ![n].tries = @ + 1]
    /\ UNCHANGED <<services, configRev, packageRev>>

\* A failed try of config.package.json, not the last one.
PackageFetchFails(n) ==
    /\ loops[n].package
    /\ loops[n].tries + 1 < PackageTryLimit
    /\ loops' = [loops EXCEPT ![n].tries = @ + 1]
    /\ UNCHANGED <<services, configRev, packageRev>>

\* The last try fails: DEFAULT_PACKAGE_CONFIG is stored.
PackageFetchGivesUp(n) ==
    /\ loops[n].package
    /\ loops[n].tries + 1 >= PackageTryLimit
    /\ StorePackages(n)

PackageAnswer(n) ==
    FetchPackages(n) \/ PackageFetchFails(n) \/ PackageFetchGivesUp(n)

ServiceEvent(n) ==
    \/ \E rev \in Revisions : Announce(n, rev)
    \/ ForceUpdateService(n)
    \/ DeleteService(n)

Next == \E n \in Names : ServiceEvent(n) \/ FetchConfig(n) \/ PackageAnswer(n)

(* The retry loops never rest: a service that answers is read in the end,  *)
(* and every try of the package file ends.  No service has to appear,      *)
(* change or leave.                                                        *)
Fairness == \A n \in Names : WF_vars(FetchConfig(n)) /\ WF_vars(PackageAnswer(n))

Spec == Init /\ [][Next]_vars

FairSpec == Spec /\ Fairness

--------------------------------------------------------------------------------
\* The types of the variables.
TypeOK ==
    /\ services \in [Names -> Revisions \cup {NotAnnounced}]
    /\ loops \in [Names -> [config  : BOOLEAN, package : BOOLEAN,
                            tries   : 0..(PackageTryLimit - 1)]]
    /\ configRev \in [Names -> Revisions \cup {NotAnnounced}]
    /\ packageRev \in [Names -> Revisions \cup {NotAnnounced}]

(* No announced service is forgotten and no deleted one remembered: both   *)
(* configurations of a service are those of its current revision, or the   *)
(* loop that will bring them is still running, whatever was modified,      *)
(* refreshed or given up in between.                                       *)
NoServiceForgotten ==
    \A n \in Names :
        IF Announced(n)
        THEN /\ configRev[n] = services[n] \/ loops[n].config
             /\ packageRev[n] = services[n] \/ loops[n].package
        ELSE /\ configRev[n] = NotAnnounced
             /\ packageRev[n] = NotAnnounced
             /\ loops[n] = NoLoop

(* A reachable service that stays at one revision is in the end known at   *)
(* that revision: its config.json even while refresh requests go on        *)
(* forever, its packages once no refresh restarts the counted tries.       *)
Converges ==
    \A n \in Names : \A rev \in Revisions :
        <<n, rev>> \in HasProtocol =>
            /\ <>[](services[n] = rev) => <>[](configRev[n] = rev)
            /\ (<>[](services[n] = rev) /\ <>[][~ForceUpdateService(n)]_loops)
                   => <>[](packageRev[n] = rev)
================================================================================
