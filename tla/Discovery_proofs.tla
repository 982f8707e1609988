--------------------------- MODULE Discovery_proofs ---------------------------
(***************************************************************************)
(* For any services, contents, manual files and overrides: Discovery       *)
(* implements FetchLoops, its types are right, no service is forgotten,    *)
(* and the proxy mirrors the collection.  For that what the merge and the  *)
(* import map compute is never looked at: no content and no exception      *)
(* makes a handler leave the promise of the fetch loops.                   *)
(*                                                                         *)
(* The second half looks at what they compute.  Each fold of ConfigMerge   *)
(* and ImportMap stays where its steps stay (Induction), so whatever is    *)
(* published or imported comes from an entry of the config maps, and while *)
(* all files are complete no calculation throws: nothing of a deleted      *)
(* service stays (DeletedServicesLeave), what is imported can be fetched   *)
(* (ImportsAreServed), and an app only the backend's own service declares  *)
(* is never lost, so a replica that is ready stays so (ReadinessStays).    *)
(*                                                                         *)
(* The last part compares the replica with one that has just read the same *)
(* files (StatelessReplicas).  The two differ at any time in groups that   *)
(* the mappings add to an app anyway: configurations that are alike in     *)
(* this sense stay alike through each fold, and once the mappings are      *)
(* applied what they differed in is gone.                                  *)
(***************************************************************************)
EXTENDS Discovery, Induction

(* What updateConfig writes back into the configurations never touches the *)
(* revisions they were read at, nor which manual file was read.            *)
LEMMA UpdateConfigKeepsRevisions ==
    ASSUME NEW cMap, NEW cOrder, NEW man, NEW ovr,
           UpdateConfig(cMap, cOrder, man, ovr)
    PROVE  /\ DOMAIN configMap' = Names
           /\ \A n \in Names : configMap'[n].rev = cMap[n].rev
           /\ RevisionsIn(configMap)' = RevisionsIn(cMap)
           /\ manual'.file = man.file
           /\ manualOverrides' = ovr
  <1> DEFINE calculated == CalculateConfig(ConfigList(cMap, cOrder, man), ovr)
             Stored(n)  == [rev     |-> cMap[n].rev,
                            content |-> cMap[n].content,
                            meta    |-> [cMap[n].meta EXCEPT
                                           !.apps = ShareGroups(@, n, calculated, ovr.overrides)]]
             shared     == ShareGroups(calculated.manualApps, Manual, calculated, ovr.overrides)
  <1>1. /\ configMap' = [n \in Names |-> Stored(n)]
        /\ manual' = [file |-> man.file, apps |-> shared]
        /\ manualOverrides' = ovr
    BY Zenon DEF UpdateConfig, Publish
  <1>2. \A n \in Names : Stored(n).rev = cMap[n].rev
    BY Zenon
  <1> HIDE DEF Stored, shared
  <1>3. \A n \in Names : configMap'[n].rev = cMap[n].rev
    BY <1>1, <1>2
  <1>4. RevisionsIn(configMap)' = RevisionsIn(cMap)
    BY <1>3 DEF RevisionsIn
  <1>5. QED
    BY <1>1, <1>3, <1>4

--------------------------------------------------------------------------------
(* Both config maps have an entry, if only an empty one, for every service.*)
EntryForEveryName == DOMAIN configMap = Names /\ DOMAIN packageMap = Names

(* No event drops or adds an entry of the config maps.                     *)
THEOREM EntriesStay == Spec => []EntryForEveryName
  <1>1. Init => EntryForEveryName
    BY DEF Init, EntryForEveryName
  <1>2. EntryForEveryName /\ [Next]_vars => EntryForEveryName'
    <2> SUFFICES ASSUME EntryForEveryName, [Next]_vars PROVE EntryForEveryName'
      OBVIOUS
    <2>1. ASSUME NEW n \in Names, NEW rev, EmitService(n, rev)
          PROVE  EntryForEveryName'
      BY <2>1 DEF EmitService, configVars, packageVars, EntryForEveryName
    <2>2. ASSUME NEW n \in Names, DeleteService(n)
          PROVE  EntryForEveryName'
      BY <2>2, UpdateConfigKeepsRevisions DEF DeleteService, EntryForEveryName
    <2>3. ASSUME NEW n \in Names, NEW content \in Revisions, FetchConfig(n, content)
          PROVE  EntryForEveryName'
      BY <2>3, UpdateConfigKeepsRevisions DEF FetchConfig, packageVars, EntryForEveryName
    <2>4. ASSUME NEW n \in Names, NEW modules, StorePackages(n, modules)
          PROVE  EntryForEveryName'
      BY <2>4 DEF StorePackages, configVars, EntryForEveryName
    <2>5. ASSUME NEW n \in Names, PackageFetchFails(n)
          PROVE  EntryForEveryName'
      BY <2>5 DEF PackageFetchFails, configVars, packageVars, EntryForEveryName
    <2>6. ASSUME NEW meta \in ManualMetas, ManualConfigChanged(meta)
          PROVE  EntryForEveryName'
      BY <2>6, UpdateConfigKeepsRevisions
      DEF ManualConfigChanged, packageVars, EntryForEveryName
    <2>7. ASSUME NEW ovr \in Overrides, ManualOverridesChanged(ovr)
          PROVE  EntryForEveryName'
      BY <2>7, UpdateConfigKeepsRevisions
      DEF ManualOverridesChanged, packageVars, EntryForEveryName
    <2>8. CASE UNCHANGED vars
      BY <2>8 DEF vars, configVars, packageVars, EntryForEveryName
    <2>9. QED
      BY <2>1, <2>2, <2>3, <2>4, <2>5, <2>6, <2>7, <2>8
      DEF Next, ServiceEvent, ConfigAnswer, PackageAnswer, AddService, ModifyService,
          ForceUpdateService, FetchPackages, PackageFetchGivesUp
  <1>3. QED
    BY <1>1, <1>2, PTL DEF Spec

--------------------------------------------------------------------------------
(* An emitted service restarts the loops and leaves what was read alone.   *)
LEMMA EmitRefines ==
    ASSUME NEW n \in Names, NEW rev, EmitService(n, rev)
    PROVE  FL!EmitService(n, rev)
  BY DEF EmitService, FL!EmitService, configVars, packageVars, RevisionsIn

(* The end of a package loop stores the packages at the current revision.  *)
LEMMA StoreRefines ==
    ASSUME EntryForEveryName, NEW n \in Names, NEW modules, StorePackages(n, modules)
    PROVE  FL!StorePackages(n)
  <1>1. RevisionsIn(packageMap)' = [RevisionsIn(packageMap) EXCEPT ![n] = services[n]]
    BY DEF StorePackages, RevisionsIn, EntryForEveryName
  <1>2. RevisionsIn(configMap)' = RevisionsIn(configMap)
    BY DEF StorePackages, configVars, RevisionsIn
  <1>3. QED
    BY <1>1, <1>2 DEF StorePackages, FL!StorePackages

(* Discovery implements FetchLoops: every handler is a step of the fetch   *)
(* loops or leaves them alone, wherever the merge or the import map throw. *)
THEOREM Refinement == Spec => FL!Spec
  <1>1. Init => FL!Init
    BY DEF Init, FL!Init, FL!NoRevision, FL!NoLoop, NoLoop, RevisionsIn, NoConfig, NoPackages
  <1>2. EntryForEveryName /\ [Next]_vars => [FL!Next]_(FL!vars)
    <2> SUFFICES ASSUME EntryForEveryName, [Next]_vars
                 PROVE  FL!Next \/ UNCHANGED FL!vars
      OBVIOUS
    <2>1. ASSUME NEW n \in Names, NEW rev \in Revisions,
                 AddService(n, rev) \/ ModifyService(n, rev)
          PROVE  FL!Next
      <3>1. services[n] # rev
        BY <2>1, DiscoveryAssumption DEF AddService, ModifyService, Announced
      <3>2. FL!Announce(n, rev)
        BY <2>1, <3>1, EmitRefines DEF AddService, ModifyService, FL!Announce
      <3>3. QED
        BY <3>2 DEF FL!Next, FL!ServiceEvent
    <2>2. ASSUME NEW n \in Names, ForceUpdateService(n)
          PROVE  FL!Next
      <3>1. FL!ForceUpdateService(n)
        BY <2>2, EmitRefines
        DEF ForceUpdateService, Announced, FL!ForceUpdateService, FL!Announced
      <3>2. QED
        BY <3>1 DEF FL!Next, FL!ServiceEvent
    <2>3. ASSUME NEW n \in Names, DeleteService(n)
          PROVE  FL!Next
      <3>1. RevisionsIn(configMap)' = [RevisionsIn(configMap) EXCEPT ![n] = NotAnnounced]
        <4> DEFINE cMap == [configMap EXCEPT ![n] = NoConfig]
        <4>1. UpdateConfig(cMap, Without(configOrder, n), manual, manualOverrides)
          BY <2>3, Zenon DEF DeleteService
        <4>2. RevisionsIn(cMap) = [RevisionsIn(configMap) EXCEPT ![n] = NotAnnounced]
          BY DEF NoConfig, RevisionsIn, EntryForEveryName
        <4> HIDE DEF cMap
        <4>3. QED
          BY <4>1, <4>2, UpdateConfigKeepsRevisions
      <3>2. RevisionsIn(packageMap)' = [RevisionsIn(packageMap) EXCEPT ![n] = NotAnnounced]
        BY <2>3 DEF DeleteService, NoPackages, RevisionsIn, EntryForEveryName
      <3>3. FL!DeleteService(n)
        BY <2>3, <3>1, <3>2
        DEF DeleteService, FL!DeleteService, Announced, FL!Announced, NoLoop, FL!NoLoop
      <3>4. QED
        BY <3>3 DEF FL!Next, FL!ServiceEvent
    <2>4. ASSUME NEW n \in Names, NEW content \in Revisions, FetchConfig(n, content)
          PROVE  FL!Next
      <3>1. RevisionsIn(configMap)' = [RevisionsIn(configMap) EXCEPT ![n] = services[n]]
        <4> DEFINE entry == [rev |-> services[n], content |-> content,
                             meta |-> MetaOf[<<n, content>>]]
                   cMap  == [configMap EXCEPT ![n] = entry]
        <4>1. UpdateConfig(cMap, AppendNew(configOrder, configMap, n),
                           manual, manualOverrides)
          BY <2>4, Zenon DEF FetchConfig
        <4>2. entry.rev = services[n]
          OBVIOUS
        <4> HIDE DEF entry
        <4>3. RevisionsIn(cMap) = [RevisionsIn(configMap) EXCEPT ![n] = services[n]]
          BY <4>2 DEF RevisionsIn, EntryForEveryName
        <4> HIDE DEF cMap
        <4>4. QED
          BY <4>1, <4>3, UpdateConfigKeepsRevisions
      <3>2. RevisionsIn(packageMap)' = RevisionsIn(packageMap)
        BY <2>4 DEF FetchConfig, packageVars, RevisionsIn
      <3>3. FL!FetchConfig(n)
        BY <2>4, <3>1, <3>2 DEF FetchConfig, FL!FetchConfig
      <3>4. QED
        BY <3>3 DEF FL!Next
    <2>5. ASSUME NEW n \in Names, NEW content \in Revisions, FetchPackages(n, content)
          PROVE  FL!Next
      <3>1. FL!FetchPackages(n)
        BY <2>5, StoreRefines DEF FetchPackages, FL!FetchPackages
      <3>2. QED
        BY <3>1 DEF FL!Next, FL!PackageAnswer
    <2>6. ASSUME NEW n \in Names, PackageFetchFails(n)
          PROVE  FL!Next
      <3>1. FL!PackageFetchFails(n)
        BY <2>6
        DEF PackageFetchFails, FL!PackageFetchFails, configVars, packageVars, RevisionsIn
      <3>2. QED
        BY <3>1 DEF FL!Next, FL!PackageAnswer
    <2>7. ASSUME NEW n \in Names, PackageFetchGivesUp(n)
          PROVE  FL!Next
      <3>1. FL!PackageFetchGivesUp(n)
        BY <2>7, StoreRefines DEF PackageFetchGivesUp, FL!PackageFetchGivesUp
      <3>2. QED
        BY <3>1 DEF FL!Next, FL!PackageAnswer
    <2>8. ASSUME NEW meta \in ManualMetas, ManualConfigChanged(meta)
          PROVE  UNCHANGED FL!vars
      BY <2>8, UpdateConfigKeepsRevisions
      DEF ManualConfigChanged, collectionVars, packageVars, RevisionsIn, FL!vars
    <2>9. ASSUME NEW ovr \in Overrides, ManualOverridesChanged(ovr)
          PROVE  UNCHANGED FL!vars
      BY <2>9, UpdateConfigKeepsRevisions
      DEF ManualOverridesChanged, collectionVars, packageVars, RevisionsIn, FL!vars
    <2>10. CASE UNCHANGED vars
      BY <2>10 DEF vars, collectionVars, configVars, packageVars, RevisionsIn, FL!vars
    <2>11. QED
      BY <2>1, <2>2, <2>3, <2>4, <2>5, <2>6, <2>7, <2>8, <2>9, <2>10
      DEF Next, ServiceEvent, ConfigAnswer, PackageAnswer
  <1>3. QED
    BY <1>1, <1>2, EntriesStay, PTL DEF Spec, FL!Spec

--------------------------------------------------------------------------------
FLP == INSTANCE FetchLoops_proofs
        WITH configRev <- RevisionsIn(configMap), packageRev <- RevisionsIn(packageMap)

(* The same as the property the run checks.                                *)
COROLLARY Implementation == Spec => ImplementsFetchLoops
  BY Refinement, PTL DEF ImplementsFetchLoops

(* The fetch loops of Discovery are those FetchLoops_proofs is about.      *)
LEMMA SameFetchLoops == FL!Spec => FLP!Spec
  <1>1. FL!Init => FLP!Init
    BY DEF FL!Init, FLP!Init, FL!NoRevision, FLP!NoRevision, FL!NoLoop, FLP!NoLoop
  <1>2. [FL!Next]_(FL!vars) => [FLP!Next]_(FLP!vars)
    BY Zenon DEF FL!Next, FLP!Next, FL!vars, FLP!vars, FL!ServiceEvent, FLP!ServiceEvent,
           FL!PackageAnswer, FLP!PackageAnswer, FL!Announce, FLP!Announce,
           FL!ForceUpdateService, FLP!ForceUpdateService, FL!DeleteService, FLP!DeleteService,
           FL!FetchConfig, FLP!FetchConfig, FL!FetchPackages, FLP!FetchPackages,
           FL!PackageFetchFails, FLP!PackageFetchFails,
           FL!PackageFetchGivesUp, FLP!PackageFetchGivesUp,
           FL!EmitService, FLP!EmitService, FL!StorePackages, FLP!StorePackages,
           FL!Announced, FLP!Announced, FL!NoLoop, FLP!NoLoop
  <1>3. QED
    BY <1>1, <1>2, PTL DEF FL!Spec, FLP!Spec

(* The assumptions on Discovery's constants are those of FetchLoops.       *)
LEMMA FetchLoopsAssumed == FLP!FetchLoopsAssumption
  BY DiscoveryAssumption DEF FLP!FetchLoopsAssumption

(* No announced service is forgotten and no deleted one remembered in the  *)
(* maps updateConfig and updateImportMap work from.                        *)
THEOREM NothingForgotten == Spec => []NoServiceForgotten
  <1>1. FLP!Spec => []FLP!NoServiceForgotten
    BY FetchLoopsAssumed, FLP!NothingForgotten
  <1>2. FLP!NoServiceForgotten => NoServiceForgotten
    BY DEF NoServiceForgotten, FL!NoServiceForgotten, FLP!NoServiceForgotten,
           FL!Announced, FLP!Announced, FL!NoLoop, FLP!NoLoop
  <1>3. QED
    BY <1>1, <1>2, Refinement, SameFetchLoops, PTL

--------------------------------------------------------------------------------
\* What the collection holds, as far as the proxy has to know it.
CollectionTyped == services \in [Names -> Revisions \cup {NotAnnounced}]

(* The collection and the loops keep their types: FetchLoops, which         *)
(* Discovery implements, promises that.                                    *)
LEMMA CollectionStaysTyped == Spec => [](CollectionTyped /\ FLP!TypeOK)
  <1>1. FLP!Spec => []FLP!TypeOK
    BY FetchLoopsAssumed, FLP!TypeCorrect
  <1>2. FLP!TypeOK => CollectionTyped
    BY DEF FLP!TypeOK, CollectionTyped
  <1>3. QED
    BY <1>1, <1>2, Refinement, SameFetchLoops, PTL

(* The routes of the services that are in the collection and answer.       *)
Routes(collection) ==
    {<<n, collection[n]>> : n \in {m \in Names : collection[m] # NotAnnounced}} \cap HasProtocol

(* An emitted service takes the place of all routes of its name.           *)
LEMMA EmittedServiceRouted ==
    ASSUME CollectionTyped, serviceMap = Routes(services),
           NEW n \in Names, NEW rev \in Revisions, EmitService(n, rev)
    PROVE  serviceMap' = Routes(services')
  <1>1. services' = [services EXCEPT ![n] = rev]
    BY DEF EmitService
  <1>2. serviceMap' = {uid \in serviceMap : uid[1] # n} \cup ({<<n, rev>>} \cap HasProtocol)
    BY DEF EmitService, ProxyAddService, CleanUpPreviousService
  <1>3. rev # NotAnnounced
    BY DiscoveryAssumption
  <1>4. services'[n] = rev /\ \A m \in Names \ {n} : services'[m] = services[m]
    BY <1>1 DEF CollectionTyped
  <1>5. ASSUME NEW uid \in serviceMap' PROVE uid \in Routes(services')
    BY <1>2, <1>3, <1>4, <1>5 DEF Routes
  <1>6. ASSUME NEW uid \in Routes(services') PROVE uid \in serviceMap'
    <2>1. PICK m \in Names : /\ services'[m] # NotAnnounced
                             /\ uid = <<m, services'[m]>>
                             /\ uid \in HasProtocol
      BY <1>6 DEF Routes
    <2>2. CASE m = n
      BY <1>2, <1>4, <2>1, <2>2
    <2>3. CASE m # n
      BY <1>2, <1>4, <2>1, <2>3 DEF Routes
    <2>4. QED
      BY <2>2, <2>3
  <1>7. QED
    BY <1>5, <1>6

(* A deletion takes the route of the uid the collection held: there is no  *)
(* other of that name.                                                     *)
LEMMA DeletedServiceUnrouted ==
    ASSUME CollectionTyped, serviceMap = Routes(services),
           NEW n \in Names, DeleteService(n)
    PROVE  serviceMap' = Routes(services')
  <1>1. services' = [services EXCEPT ![n] = NotAnnounced]
    BY DEF DeleteService
  <1>2. serviceMap' = serviceMap \ {<<n, services[n]>>}
    BY DEF DeleteService, ProxyDeleteService
  <1>3. services'[n] = NotAnnounced /\ \A m \in Names \ {n} : services'[m] = services[m]
    BY <1>1 DEF CollectionTyped
  <1>4. ASSUME NEW uid \in serviceMap' PROVE uid \in Routes(services')
    BY <1>2, <1>3, <1>4 DEF Routes
  <1>5. ASSUME NEW uid \in Routes(services') PROVE uid \in serviceMap'
    BY <1>2, <1>3, <1>5 DEF Routes
  <1>6. QED
    BY <1>4, <1>5

(* The proxy routes exactly the current uid of every service of the        *)
(* collection that has a protocol.                                         *)
THEOREM ProxyCorrect == Spec => []ProxyMirrorsCollection
  <1>1. ProxyMirrorsCollection <=> serviceMap = Routes(services)
    BY DEF ProxyMirrorsCollection, Routes, Announced
  <1>2. Init => ProxyMirrorsCollection
    BY DEF Init, ProxyMirrorsCollection, Announced
  <1>3. CollectionTyped /\ ProxyMirrorsCollection /\ [Next]_vars => ProxyMirrorsCollection'
    <2> SUFFICES ASSUME CollectionTyped, serviceMap = Routes(services), [Next]_vars
                 PROVE  serviceMap' = Routes(services')
      BY DEF ProxyMirrorsCollection, Routes, Announced
    <2>1. ASSUME NEW n \in Names, NEW rev \in Revisions,
                 AddService(n, rev) \/ ModifyService(n, rev)
          PROVE  serviceMap' = Routes(services')
      BY <2>1, EmittedServiceRouted DEF AddService, ModifyService
    <2>2. ASSUME NEW n \in Names, ForceUpdateService(n)
          PROVE  serviceMap' = Routes(services')
      <3>1. services[n] \in Revisions
        BY <2>2 DEF ForceUpdateService, Announced, CollectionTyped
      <3>2. QED
        BY <2>2, <3>1, EmittedServiceRouted DEF ForceUpdateService
    <2>3. ASSUME NEW n \in Names, DeleteService(n)
          PROVE  serviceMap' = Routes(services')
      BY <2>3, DeletedServiceUnrouted
    <2>4. ASSUME UNCHANGED <<services, serviceMap>>
          PROVE  serviceMap' = Routes(services')
      BY <2>4
    <2>5. QED
      BY <2>1, <2>2, <2>3, <2>4
      DEF Next, ServiceEvent, ConfigAnswer, PackageAnswer, FetchConfig, FetchPackages,
          PackageFetchFails, PackageFetchGivesUp, StorePackages, ManualConfigChanged,
          ManualOverridesChanged, collectionVars, vars
  <1>4. QED
    BY <1>2, <1>3, CollectionStaysTyped, PTL DEF Spec

--------------------------------------------------------------------------------
\* What is in memory of the manual files was read from a possible file.
FilesLoaded == manual.file \in ManualMetas /\ manualOverrides \in Overrides

(* Only a file that was read replaces a file that was read.                *)
LEMMA FilesStayLoaded == Spec => []FilesLoaded
  <1>1. Init => FilesLoaded
    BY DEF Init, FilesLoaded, Loaded
  <1>2. FilesLoaded /\ [Next]_vars => FilesLoaded'
    <2> SUFFICES ASSUME FilesLoaded, [Next]_vars PROVE FilesLoaded'
      OBVIOUS
    <2>1. ASSUME NEW n \in Names, DeleteService(n)
          PROVE  FilesLoaded'
      BY <2>1, UpdateConfigKeepsRevisions DEF DeleteService, FilesLoaded
    <2>2. ASSUME NEW n \in Names, NEW content \in Revisions, FetchConfig(n, content)
          PROVE  FilesLoaded'
      BY <2>2, UpdateConfigKeepsRevisions DEF FetchConfig, FilesLoaded
    <2>3. ASSUME NEW meta \in ManualMetas, ManualConfigChanged(meta)
          PROVE  FilesLoaded'
      BY <2>3, UpdateConfigKeepsRevisions DEF ManualConfigChanged, Loaded, FilesLoaded
    <2>4. ASSUME NEW ovr \in Overrides, ManualOverridesChanged(ovr)
          PROVE  FilesLoaded'
      BY <2>4, UpdateConfigKeepsRevisions DEF ManualOverridesChanged, FilesLoaded
    <2>5. ASSUME UNCHANGED manualVars
          PROVE  FilesLoaded'
      BY <2>5 DEF manualVars, FilesLoaded
    <2>6. QED
      BY <2>1, <2>2, <2>3, <2>4, <2>5
      DEF Next, ServiceEvent, ConfigAnswer, PackageAnswer, AddService, ModifyService,
          ForceUpdateService, EmitService, FetchPackages, PackageFetchFails,
          PackageFetchGivesUp, StorePackages, vars
  <1>3. QED
    BY <1>1, <1>2, PTL DEF Spec

(* The types of the state the collection, the proxy, the fetch loops and   *)
(* the config maps keep.                                                   *)
THEOREM TypeCorrect == Spec => []TypeOK
  <1>1. FLP!TypeOK /\ EntryForEveryName /\ ProxyMirrorsCollection /\ FilesLoaded => TypeOK
    <2> SUFFICES ASSUME FLP!TypeOK, EntryForEveryName, ProxyMirrorsCollection, FilesLoaded
                 PROVE  TypeOK
      OBVIOUS
    <2>1. serviceMap \subseteq Uids
      BY DiscoveryAssumption DEF ProxyMirrorsCollection
    <2>2. \A n \in Names : /\ configMap[n].rev \in Revisions \cup {NotAnnounced}
                           /\ packageMap[n].rev \in Revisions \cup {NotAnnounced}
      BY DEF FLP!TypeOK, RevisionsIn
    <2>3. QED
      BY <2>1, <2>2 DEF TypeOK, FLP!TypeOK, EntryForEveryName, FilesLoaded
  <1>2. QED
    BY <1>1, CollectionStaysTyped, EntriesStay, ProxyCorrect, FilesStayLoaded, PTL
--------------------------------------------------------------------------------
(* ResolveApps is reached by adding one app after the other.               *)
AppsRun(g, S, n, stores, config) ==
    /\ g \in [0..n -> S]
    /\ g[0] = stores
    /\ \A i \in 1..n : g[i] = AddApp(g[i - 1], config.meta.apps[i], config)
    /\ ResolveApps(stores, config) = g[n]

(* There is such a run: one state for each app.                            *)
LEMMA AppsReached ==
    ASSUME NEW S, NEW stores, NEW config, stores \in S, NEW n \in Nat,
           DOMAIN config.meta.apps = 1..n,
           \A s \in S, i \in 1..n : AddApp(s, config.meta.apps[i], config) \in S
    PROVE  \E g : AppsRun(g, S, n, stores, config)
  <1> DEFINE items == config.meta.apps
             step == [p \in S \X (1..n) |-> AddApp(p[1], items[p[2]], config)]
             Rec(iter) == iter = [s \in SUBSET (1..n) |->
                IF s = {} THEN stores
                ELSE AddApp(iter[s \ {Max(s)}], items[Max(s)], config)]
             it == CHOOSE iter : Rec(iter)
  <1>1. step \in [S \X (1..n) -> S]
    OBVIOUS
  <1>2. \A s \in S, i \in 1..n : step[<<s, i>>] = AddApp(s, items[i], config)
    OBVIOUS
  <1>3. ResolveApps(stores, config) = it[1..n]
    BY Zenon DEF ResolveApps, FoldLeft, MapThenFoldSet
  <1>4. \A s \in SUBSET (1..n) : s # {} => Max(s) \in 1..n
    BY MaxPosition
  <1> HIDE DEF items, step
  <1>5. \E iter : Rec(iter)
    <2>1. PICK iter \in [SUBSET (1..n) -> S] :
              \A s \in SUBSET (1..n) : Folded(iter, s, stores, step)
      BY <1>1, FoldExists
    <2>2. \A s \in SUBSET (1..n) :
            iter[s] = IF s = {} THEN stores
                      ELSE AddApp(iter[s \ {Max(s)}], items[Max(s)], config)
      BY <1>2, <1>4, <2>1 DEF Folded
    <2>3. QED
      BY <2>2
  <1>6. Rec(it)
    BY <1>5
  <1> HIDE DEF it
  <1>7. \A s \in SUBSET (1..n) :
            it[s] = IF s = {} THEN stores
                    ELSE AddApp(it[s \ {Max(s)}], items[Max(s)], config)
    BY <1>6
  <1> HIDE DEF Rec
  <1>8. IsFold(it, S, stores, n, step)
    BY <1>2, <1>4, <1>7 DEF IsFold, Folded
  <1>9. PICK g : IsRun(g, S, stores, n, step) /\ g[n] = it[1..n]
    <2>1. FoldsTo(S, stores, n, step, it[1..n])
      BY <1>1, <1>8, FoldReaches
    <2>2. QED
      BY <2>1 DEF FoldsTo
  <1>10. /\ g \in [0..n -> S]
         /\ g[0] = stores
         /\ \A i \in 1..n : g[i] = step[<<g[i - 1], i>>]
    BY <1>9 DEF IsRun
  <1>11. \A i \in 1..n : g[i] = AddApp(g[i - 1], items[i], config)
    <2>1. \A i \in 1..n : g[i - 1] \in S
      BY <1>10
    <2>2. QED
      BY <1>2, <1>10, <2>1
  <1>12. QED
    BY <1>3, <1>9, <1>10, <1>11 DEF items, AppsRun

(* The folds of the merge and of the import map stay where each of their   *)
(* steps stays: first ResolveApps.                                         *)
LEMMA AppsFold ==
    ASSUME NEW S, NEW stores, NEW config, stores \in S, NEW n \in Nat,
           DOMAIN config.meta.apps = 1..n,
           \A s \in S, i \in 1..n : AddApp(s, config.meta.apps[i], config) \in S
    PROVE  ResolveApps(stores, config) \in S
  <1>1. PICK g : AppsRun(g, S, n, stores, config)
    BY AppsReached
  <1>2. QED
    BY <1>1 DEF AppsRun

(* So does ResolveGroups.                                                  *)
LEMMA GroupsFold ==
    ASSUME NEW S, NEW store, NEW config, store \in S, NEW n \in Nat,
           DOMAIN config.meta.groups = 1..n,
           \A s \in S, i \in 1..n : PutItem(s, ResolvedItem(s, config.meta.groups[i], config)) \in S
    PROVE  ResolveGroups(store, config) \in S
  <1> DEFINE items == config.meta.groups
             step == [p \in S \X (1..n) |-> PutItem(p[1], ResolvedItem(p[1], items[p[2]], config))]
             Rec(iter) == iter = [s \in SUBSET (1..n) |->
                IF s = {} THEN store
                ELSE PutItem(iter[s \ {Max(s)}], ResolvedItem(iter[s \ {Max(s)}], items[Max(s)], config))]
             it == CHOOSE iter : Rec(iter)
  <1>1. step \in [S \X (1..n) -> S]
    OBVIOUS
  <1>2. \A s \in S, i \in 1..n : step[<<s, i>>] = PutItem(s, ResolvedItem(s, items[i], config))
    OBVIOUS
  <1>3. ResolveGroups(store, config) = it[1..n]
    BY Zenon DEF ResolveGroups, FoldLeft, MapThenFoldSet
  <1>4. \A s \in SUBSET (1..n) : s # {} => Max(s) \in 1..n
    BY MaxPosition
  <1> HIDE DEF items, step
  <1>5. \E iter : Rec(iter)
    <2>1. PICK iter \in [SUBSET (1..n) -> S] :
              \A s \in SUBSET (1..n) : Folded(iter, s, store, step)
      BY <1>1, FoldExists
    <2>2. \A s \in SUBSET (1..n) :
            iter[s] = IF s = {} THEN store
                      ELSE PutItem(iter[s \ {Max(s)}], ResolvedItem(iter[s \ {Max(s)}], items[Max(s)], config))
      BY <1>2, <1>4, <2>1 DEF Folded
    <2>3. QED
      BY <2>2
  <1>6. Rec(it)
    BY <1>5
  <1> HIDE DEF it
  <1>7. \A s \in SUBSET (1..n) :
            it[s] = IF s = {} THEN store
                    ELSE PutItem(it[s \ {Max(s)}], ResolvedItem(it[s \ {Max(s)}], items[Max(s)], config))
    BY <1>6
  <1> HIDE DEF Rec
  <1>8. IsFold(it, S, store, n, step)
    BY <1>2, <1>4, <1>7 DEF IsFold, Folded
  <1>9. QED
    BY <1>1, <1>3, <1>8, FoldStays

(* So does ResolveComponents.                                              *)
LEMMA ComponentsFold ==
    ASSUME NEW S, NEW store, NEW config, store \in S, NEW n \in Nat,
           DOMAIN config.meta.components = 1..n,
           \A s \in S, i \in 1..n : PutItem(s, UpdateItemWithSource(ResolvedItem(s, config.meta.components[i], config), config)) \in S
    PROVE  ResolveComponents(store, config) \in S
  <1> DEFINE items == config.meta.components
             step == [p \in S \X (1..n) |-> PutItem(p[1], UpdateItemWithSource(ResolvedItem(p[1], items[p[2]], config), config))]
             Rec(iter) == iter = [s \in SUBSET (1..n) |->
                IF s = {} THEN store
                ELSE PutItem(iter[s \ {Max(s)}], UpdateItemWithSource(ResolvedItem(iter[s \ {Max(s)}], items[Max(s)], config), config))]
             it == CHOOSE iter : Rec(iter)
  <1>1. step \in [S \X (1..n) -> S]
    OBVIOUS
  <1>2. \A s \in S, i \in 1..n : step[<<s, i>>] = PutItem(s, UpdateItemWithSource(ResolvedItem(s, items[i], config), config))
    OBVIOUS
  <1>3. ResolveComponents(store, config) = it[1..n]
    BY Zenon DEF ResolveComponents, FoldLeft, MapThenFoldSet
  <1>4. \A s \in SUBSET (1..n) : s # {} => Max(s) \in 1..n
    BY MaxPosition
  <1> HIDE DEF items, step
  <1>5. \E iter : Rec(iter)
    <2>1. PICK iter \in [SUBSET (1..n) -> S] :
              \A s \in SUBSET (1..n) : Folded(iter, s, store, step)
      BY <1>1, FoldExists
    <2>2. \A s \in SUBSET (1..n) :
            iter[s] = IF s = {} THEN store
                      ELSE PutItem(iter[s \ {Max(s)}], UpdateItemWithSource(ResolvedItem(iter[s \ {Max(s)}], items[Max(s)], config), config))
      BY <1>2, <1>4, <2>1 DEF Folded
    <2>3. QED
      BY <2>2
  <1>6. Rec(it)
    BY <1>5
  <1> HIDE DEF it
  <1>7. \A s \in SUBSET (1..n) :
            it[s] = IF s = {} THEN store
                    ELSE PutItem(it[s \ {Max(s)}], UpdateItemWithSource(ResolvedItem(it[s \ {Max(s)}], items[Max(s)], config), config))
    BY <1>6
  <1> HIDE DEF Rec
  <1>8. IsFold(it, S, store, n, step)
    BY <1>2, <1>4, <1>7 DEF IsFold, Folded
  <1>9. QED
    BY <1>1, <1>3, <1>8, FoldStays

(* So does ResolveActions.                                                 *)
LEMMA ActionsFold ==
    ASSUME NEW S, NEW store, NEW config, store \in S, NEW n \in Nat,
           DOMAIN config.meta.actions = 1..n,
           \A s \in S, i \in 1..n : AddAction(s, config.meta.actions[i], config) \in S
    PROVE  ResolveActions(store, config) \in S
  <1> DEFINE items == config.meta.actions
             step == [p \in S \X (1..n) |-> AddAction(p[1], items[p[2]], config)]
             Rec(iter) == iter = [s \in SUBSET (1..n) |->
                IF s = {} THEN store
                ELSE AddAction(iter[s \ {Max(s)}], items[Max(s)], config)]
             it == CHOOSE iter : Rec(iter)
  <1>1. step \in [S \X (1..n) -> S]
    OBVIOUS
  <1>2. \A s \in S, i \in 1..n : step[<<s, i>>] = AddAction(s, items[i], config)
    OBVIOUS
  <1>3. ResolveActions(store, config) = it[1..n]
    BY Zenon DEF ResolveActions, FoldLeft, MapThenFoldSet
  <1>4. \A s \in SUBSET (1..n) : s # {} => Max(s) \in 1..n
    BY MaxPosition
  <1> HIDE DEF items, step
  <1>5. \E iter : Rec(iter)
    <2>1. PICK iter \in [SUBSET (1..n) -> S] :
              \A s \in SUBSET (1..n) : Folded(iter, s, store, step)
      BY <1>1, FoldExists
    <2>2. \A s \in SUBSET (1..n) :
            iter[s] = IF s = {} THEN store
                      ELSE AddAction(iter[s \ {Max(s)}], items[Max(s)], config)
      BY <1>2, <1>4, <2>1 DEF Folded
    <2>3. QED
      BY <2>2
  <1>6. Rec(it)
    BY <1>5
  <1> HIDE DEF it
  <1>7. \A s \in SUBSET (1..n) :
            it[s] = IF s = {} THEN store
                    ELSE AddAction(it[s \ {Max(s)}], items[Max(s)], config)
    BY <1>6
  <1> HIDE DEF Rec
  <1>8. IsFold(it, S, store, n, step)
    BY <1>2, <1>4, <1>7 DEF IsFold, Folded
  <1>9. QED
    BY <1>1, <1>3, <1>8, FoldStays

(* The merge is reached by processing one configuration after the other.   *)
ConfigsRun(g, S, n, list) ==
    /\ g \in [0..n -> S]
    /\ g[0] = EmptyStores
    /\ \A i \in 1..n : g[i] = ProcessConfig(g[i - 1], list[i])
    /\ FoldLeft(ProcessConfig, EmptyStores, list) = g[n]

(* There is such a run: one state for each configuration.                  *)
LEMMA ConfigsReached ==
    ASSUME NEW S, NEW list, EmptyStores \in S, NEW n \in Nat,
           DOMAIN list = 1..n,
           \A s \in S, i \in 1..n : ProcessConfig(s, list[i]) \in S
    PROVE  \E g : ConfigsRun(g, S, n, list)
  <1> DEFINE items == list
             step == [p \in S \X (1..n) |-> ProcessConfig(p[1], items[p[2]])]
             Rec(iter) == iter = [s \in SUBSET (1..n) |->
                IF s = {} THEN EmptyStores
                ELSE ProcessConfig(iter[s \ {Max(s)}], items[Max(s)])]
             it == CHOOSE iter : Rec(iter)
  <1>1. step \in [S \X (1..n) -> S]
    OBVIOUS
  <1>2. \A s \in S, i \in 1..n : step[<<s, i>>] = ProcessConfig(s, items[i])
    OBVIOUS
  <1>3. FoldLeft(ProcessConfig, EmptyStores, list) = it[1..n]
    BY Zenon DEF FoldLeft, MapThenFoldSet
  <1>4. \A s \in SUBSET (1..n) : s # {} => Max(s) \in 1..n
    BY MaxPosition
  <1> HIDE DEF items, step
  <1>5. \E iter : Rec(iter)
    <2>1. PICK iter \in [SUBSET (1..n) -> S] :
              \A s \in SUBSET (1..n) : Folded(iter, s, EmptyStores, step)
      BY <1>1, FoldExists
    <2>2. \A s \in SUBSET (1..n) :
            iter[s] = IF s = {} THEN EmptyStores
                      ELSE ProcessConfig(iter[s \ {Max(s)}], items[Max(s)])
      BY <1>2, <1>4, <2>1 DEF Folded
    <2>3. QED
      BY <2>2
  <1>6. Rec(it)
    BY <1>5
  <1> HIDE DEF it
  <1>7. \A s \in SUBSET (1..n) :
            it[s] = IF s = {} THEN EmptyStores
                    ELSE ProcessConfig(it[s \ {Max(s)}], items[Max(s)])
    BY <1>6
  <1> HIDE DEF Rec
  <1>8. IsFold(it, S, EmptyStores, n, step)
    BY <1>2, <1>4, <1>7 DEF IsFold, Folded
  <1>9. PICK g : IsRun(g, S, EmptyStores, n, step) /\ g[n] = it[1..n]
    <2>1. FoldsTo(S, EmptyStores, n, step, it[1..n])
      BY <1>1, <1>8, FoldReaches
    <2>2. QED
      BY <2>1 DEF FoldsTo
  <1>10. /\ g \in [0..n -> S]
         /\ g[0] = EmptyStores
         /\ \A i \in 1..n : g[i] = step[<<g[i - 1], i>>]
    BY <1>9 DEF IsRun
  <1>11. \A i \in 1..n : g[i] = ProcessConfig(g[i - 1], items[i])
    <2>1. \A i \in 1..n : g[i - 1] \in S
      BY <1>10
    <2>2. QED
      BY <1>2, <1>10, <2>1
  <1>12. QED
    BY <1>3, <1>9, <1>10, <1>11 DEF items, ConfigsRun

(* So does the fold over the configurations.                               *)
LEMMA ConfigsFold ==
    ASSUME NEW S, NEW configs, EmptyStores \in S, NEW n \in Nat,
           DOMAIN configs = 1..n,
           \A s \in S, i \in 1..n : ProcessConfig(s, configs[i]) \in S
    PROVE  FoldLeft(ProcessConfig, EmptyStores, configs) \in S
  <1>1. PICK g : ConfigsRun(g, S, n, configs)
    BY ConfigsReached
  <1>2. QED
    BY <1>1 DEF ConfigsRun

(* The pass over the overrides is reached by one override after the other.  *)
OverridesRun(g, S, n, list, overrides) ==
    /\ g \in [0..n -> S]
    /\ g[0] = list
    /\ \A i \in 1..n : g[i] = OverrideEntity(g[i - 1], overrides[i])
    /\ OverrideList(list, overrides) = g[n]

(* There is such a run: one state for each override.                       *)
LEMMA OverridesReached ==
    ASSUME NEW S, NEW list, NEW overrides, list \in S, NEW n \in Nat,
           DOMAIN overrides = 1..n,
           \A s \in S, i \in 1..n : OverrideEntity(s, overrides[i]) \in S
    PROVE  \E g : OverridesRun(g, S, n, list, overrides)
  <1> DEFINE items == overrides
             step == [p \in S \X (1..n) |-> OverrideEntity(p[1], items[p[2]])]
             Rec(iter) == iter = [s \in SUBSET (1..n) |->
                IF s = {} THEN list
                ELSE OverrideEntity(iter[s \ {Max(s)}], items[Max(s)])]
             it == CHOOSE iter : Rec(iter)
  <1>1. step \in [S \X (1..n) -> S]
    OBVIOUS
  <1>2. \A s \in S, i \in 1..n : step[<<s, i>>] = OverrideEntity(s, items[i])
    OBVIOUS
  <1>3. OverrideList(list, overrides) = it[1..n]
    BY Zenon DEF OverrideList, FoldLeft, MapThenFoldSet
  <1>4. \A s \in SUBSET (1..n) : s # {} => Max(s) \in 1..n
    BY MaxPosition
  <1> HIDE DEF items, step
  <1>5. \E iter : Rec(iter)
    <2>1. PICK iter \in [SUBSET (1..n) -> S] :
              \A s \in SUBSET (1..n) : Folded(iter, s, list, step)
      BY <1>1, FoldExists
    <2>2. \A s \in SUBSET (1..n) :
            iter[s] = IF s = {} THEN list
                      ELSE OverrideEntity(iter[s \ {Max(s)}], items[Max(s)])
      BY <1>2, <1>4, <2>1 DEF Folded
    <2>3. QED
      BY <2>2
  <1>6. Rec(it)
    BY <1>5
  <1> HIDE DEF it
  <1>7. \A s \in SUBSET (1..n) :
            it[s] = IF s = {} THEN list
                    ELSE OverrideEntity(it[s \ {Max(s)}], items[Max(s)])
    BY <1>6
  <1> HIDE DEF Rec
  <1>8. IsFold(it, S, list, n, step)
    BY <1>2, <1>4, <1>7 DEF IsFold, Folded
  <1>9. PICK g : IsRun(g, S, list, n, step) /\ g[n] = it[1..n]
    <2>1. FoldsTo(S, list, n, step, it[1..n])
      BY <1>1, <1>8, FoldReaches
    <2>2. QED
      BY <2>1 DEF FoldsTo
  <1>10. /\ g \in [0..n -> S]
         /\ g[0] = list
         /\ \A i \in 1..n : g[i] = step[<<g[i - 1], i>>]
    BY <1>9 DEF IsRun
  <1>11. \A i \in 1..n : g[i] = OverrideEntity(g[i - 1], items[i])
    <2>1. \A i \in 1..n : g[i - 1] \in S
      BY <1>10
    <2>2. QED
      BY <1>2, <1>10, <2>1
  <1>12. QED
    BY <1>3, <1>9, <1>10, <1>11 DEF items, OverridesRun

(* So does the pass over the overrides.                                    *)
LEMMA OverridesFold ==
    ASSUME NEW S, NEW list, NEW overrides, list \in S, NEW n \in Nat,
           DOMAIN overrides = 1..n,
           \A s \in S, i \in 1..n : OverrideEntity(s, overrides[i]) \in S
    PROVE  OverrideList(list, overrides) \in S
  <1>1. PICK g : OverridesRun(g, S, n, list, overrides)
    BY OverridesReached
  <1>2. QED
    BY <1>1 DEF OverridesRun

(* So is the pass over the apps of a group mapping.                        *)
MappedAppsRun(g, S, n, result, mapping) ==
    /\ g \in [0..n -> S]
    /\ g[0] = result
    /\ \A i \in 1..n : g[i] = AddOneGroup(g[i - 1], mapping.group, mapping.apps[i])
    /\ AddGroup(result, mapping) = g[n]

(* There is such a run: one state for each app of the mapping.             *)
LEMMA MappedAppsReached ==
    ASSUME NEW S, NEW result, NEW mapping, result \in S, NEW n \in Nat,
           DOMAIN mapping.apps = 1..n,
           \A s \in S, i \in 1..n : AddOneGroup(s, mapping.group, mapping.apps[i]) \in S
    PROVE  \E g : MappedAppsRun(g, S, n, result, mapping)
  <1> DEFINE items == mapping.apps
             step == [p \in S \X (1..n) |-> AddOneGroup(p[1], mapping.group, items[p[2]])]
             Rec(iter) == iter = [s \in SUBSET (1..n) |->
                IF s = {} THEN result
                ELSE AddOneGroup(iter[s \ {Max(s)}], mapping.group, items[Max(s)])]
             it == CHOOSE iter : Rec(iter)
  <1>1. step \in [S \X (1..n) -> S]
    OBVIOUS
  <1>2. \A s \in S, i \in 1..n : step[<<s, i>>] = AddOneGroup(s, mapping.group, items[i])
    OBVIOUS
  <1>3. AddGroup(result, mapping) = it[1..n]
    BY Zenon DEF AddGroup, FoldLeft, MapThenFoldSet
  <1>4. \A s \in SUBSET (1..n) : s # {} => Max(s) \in 1..n
    BY MaxPosition
  <1> HIDE DEF items, step
  <1>5. \E iter : Rec(iter)
    <2>1. PICK iter \in [SUBSET (1..n) -> S] :
              \A s \in SUBSET (1..n) : Folded(iter, s, result, step)
      BY <1>1, FoldExists
    <2>2. \A s \in SUBSET (1..n) :
            iter[s] = IF s = {} THEN result
                      ELSE AddOneGroup(iter[s \ {Max(s)}], mapping.group, items[Max(s)])
      BY <1>2, <1>4, <2>1 DEF Folded
    <2>3. QED
      BY <2>2
  <1>6. Rec(it)
    BY <1>5
  <1> HIDE DEF it
  <1>7. \A s \in SUBSET (1..n) :
            it[s] = IF s = {} THEN result
                    ELSE AddOneGroup(it[s \ {Max(s)}], mapping.group, items[Max(s)])
    BY <1>6
  <1> HIDE DEF Rec
  <1>8. IsFold(it, S, result, n, step)
    BY <1>2, <1>4, <1>7 DEF IsFold, Folded
  <1>9. PICK g : IsRun(g, S, result, n, step) /\ g[n] = it[1..n]
    <2>1. FoldsTo(S, result, n, step, it[1..n])
      BY <1>1, <1>8, FoldReaches
    <2>2. QED
      BY <2>1 DEF FoldsTo
  <1>10. /\ g \in [0..n -> S]
         /\ g[0] = result
         /\ \A i \in 1..n : g[i] = step[<<g[i - 1], i>>]
    BY <1>9 DEF IsRun
  <1>11. \A i \in 1..n : g[i] = AddOneGroup(g[i - 1], mapping.group, items[i])
    <2>1. \A i \in 1..n : g[i - 1] \in S
      BY <1>10
    <2>2. QED
      BY <1>2, <1>10, <2>1
  <1>12. QED
    BY <1>3, <1>9, <1>10, <1>11 DEF items, MappedAppsRun

(* So does the pass over the apps of a group mapping.                      *)
LEMMA MappedAppsFold ==
    ASSUME NEW S, NEW result, NEW mapping, result \in S, NEW n \in Nat,
           DOMAIN mapping.apps = 1..n,
           \A s \in S, i \in 1..n : AddOneGroup(s, mapping.group, mapping.apps[i]) \in S
    PROVE  AddGroup(result, mapping) \in S
  <1>1. PICK g : MappedAppsRun(g, S, n, result, mapping)
    BY MappedAppsReached
  <1>2. QED
    BY <1>1 DEF MappedAppsRun

(* So is the pass over the group mappings.                                 *)
MappingsRun(g, S, n, result, groupMappings) ==
    /\ g \in [0..n -> S]
    /\ g[0] = result
    /\ \A i \in 1..n : g[i] = AddGroup(g[i - 1], groupMappings[i])
    /\ AddGroupToApp(result, groupMappings) = g[n]

(* There is such a run: one state for each mapping.                        *)
LEMMA MappingsReached ==
    ASSUME NEW S, NEW result, NEW groupMappings, result \in S, NEW n \in Nat,
           DOMAIN groupMappings = 1..n,
           \A s \in S, i \in 1..n : AddGroup(s, groupMappings[i]) \in S
    PROVE  \E g : MappingsRun(g, S, n, result, groupMappings)
  <1> DEFINE items == groupMappings
             step == [p \in S \X (1..n) |-> AddGroup(p[1], items[p[2]])]
             Rec(iter) == iter = [s \in SUBSET (1..n) |->
                IF s = {} THEN result
                ELSE AddGroup(iter[s \ {Max(s)}], items[Max(s)])]
             it == CHOOSE iter : Rec(iter)
  <1>1. step \in [S \X (1..n) -> S]
    OBVIOUS
  <1>2. \A s \in S, i \in 1..n : step[<<s, i>>] = AddGroup(s, items[i])
    OBVIOUS
  <1>3. AddGroupToApp(result, groupMappings) = it[1..n]
    BY Zenon DEF AddGroupToApp, FoldLeft, MapThenFoldSet
  <1>4. \A s \in SUBSET (1..n) : s # {} => Max(s) \in 1..n
    BY MaxPosition
  <1> HIDE DEF items, step
  <1>5. \E iter : Rec(iter)
    <2>1. PICK iter \in [SUBSET (1..n) -> S] :
              \A s \in SUBSET (1..n) : Folded(iter, s, result, step)
      BY <1>1, FoldExists
    <2>2. \A s \in SUBSET (1..n) :
            iter[s] = IF s = {} THEN result
                      ELSE AddGroup(iter[s \ {Max(s)}], items[Max(s)])
      BY <1>2, <1>4, <2>1 DEF Folded
    <2>3. QED
      BY <2>2
  <1>6. Rec(it)
    BY <1>5
  <1> HIDE DEF it
  <1>7. \A s \in SUBSET (1..n) :
            it[s] = IF s = {} THEN result
                    ELSE AddGroup(it[s \ {Max(s)}], items[Max(s)])
    BY <1>6
  <1> HIDE DEF Rec
  <1>8. IsFold(it, S, result, n, step)
    BY <1>2, <1>4, <1>7 DEF IsFold, Folded
  <1>9. PICK g : IsRun(g, S, result, n, step) /\ g[n] = it[1..n]
    <2>1. FoldsTo(S, result, n, step, it[1..n])
      BY <1>1, <1>8, FoldReaches
    <2>2. QED
      BY <2>1 DEF FoldsTo
  <1>10. /\ g \in [0..n -> S]
         /\ g[0] = result
         /\ \A i \in 1..n : g[i] = step[<<g[i - 1], i>>]
    BY <1>9 DEF IsRun
  <1>11. \A i \in 1..n : g[i] = AddGroup(g[i - 1], items[i])
    <2>1. \A i \in 1..n : g[i - 1] \in S
      BY <1>10
    <2>2. QED
      BY <1>2, <1>10, <2>1
  <1>12. QED
    BY <1>3, <1>9, <1>10, <1>11 DEF items, MappingsRun

(* So does the pass over the group mappings.                               *)
LEMMA MappingsFold ==
    ASSUME NEW S, NEW result, NEW groupMappings, result \in S, NEW n \in Nat,
           DOMAIN groupMappings = 1..n,
           \A s \in S, i \in 1..n : AddGroup(s, groupMappings[i]) \in S
    PROVE  AddGroupToApp(result, groupMappings) \in S
  <1>1. PICK g : MappingsRun(g, S, n, result, groupMappings)
    BY MappingsReached
  <1>2. QED
    BY <1>1 DEF MappingsRun

(* So does the pass over the packages.                                     *)
LEMMA ImportsFold ==
    ASSUME NEW S, NEW packages, NEW order, NoEntries \in S, NEW n \in Nat,
           DOMAIN order = 1..n,
           \A s \in S, i \in 1..n : AddImport(s, order[i], packages[order[i]]) \in S
    PROVE  ImportAll(packages, order) \in S
  <1> DEFINE items == order
             step == [p \in S \X (1..n) |-> AddImport(p[1], items[p[2]], packages[items[p[2]]])]
             Rec(iter) == iter = [s \in SUBSET (1..n) |->
                IF s = {} THEN NoEntries
                ELSE AddImport(iter[s \ {Max(s)}], items[Max(s)], packages[items[Max(s)]])]
             it == CHOOSE iter : Rec(iter)
  <1>1. step \in [S \X (1..n) -> S]
    OBVIOUS
  <1>2. \A s \in S, i \in 1..n : step[<<s, i>>] = AddImport(s, items[i], packages[items[i]])
    OBVIOUS
  <1>3. ImportAll(packages, order) = it[1..n]
    BY Zenon DEF ImportAll, FoldLeft, MapThenFoldSet
  <1>4. \A s \in SUBSET (1..n) : s # {} => Max(s) \in 1..n
    BY MaxPosition
  <1> HIDE DEF items, step
  <1>5. \E iter : Rec(iter)
    <2>1. PICK iter \in [SUBSET (1..n) -> S] :
              \A s \in SUBSET (1..n) : Folded(iter, s, NoEntries, step)
      BY <1>1, FoldExists
    <2>2. \A s \in SUBSET (1..n) :
            iter[s] = IF s = {} THEN NoEntries
                      ELSE AddImport(iter[s \ {Max(s)}], items[Max(s)], packages[items[Max(s)]])
      BY <1>2, <1>4, <2>1 DEF Folded
    <2>3. QED
      BY <2>2
  <1>6. Rec(it)
    BY <1>5
  <1> HIDE DEF it
  <1>7. \A s \in SUBSET (1..n) :
            it[s] = IF s = {} THEN NoEntries
                    ELSE AddImport(it[s \ {Max(s)}], items[Max(s)], packages[items[Max(s)]])
    BY <1>6
  <1> HIDE DEF Rec
  <1>8. IsFold(it, S, NoEntries, n, step)
    BY <1>2, <1>4, <1>7 DEF IsFold, Folded
  <1>9. QED
    BY <1>1, <1>3, <1>8, FoldStays

--------------------------------------------------------------------------------
(* What the merge makes of complete configurations.                        *)
\* The contents of complete files.
GroupedApps ==
    [name : EntityNames, type : EntityTypes, url : Urls, groups : SUBSET GroupNames]

GroupedMetas ==
    [apps : Seq(GroupedApps), groups : Seq(UiEntities), components : Seq(UiEntities),
     actions : Seq(UiActions)]

\* A configuration of one of the sources, as updateConfig merges it.
IsConfig(config, sources) ==
    /\ config.name \in sources
    /\ config.base \in Urls \cup {NoBase}
    /\ config.meta \in GroupedMetas

\* What the merge makes of configurations of these sources.
ServedApps(sources) ==
    [name : EntityNames, type : EntityTypes, url : Urls, groups : SUBSET GroupNames,
     service : sources]

ServedEntities(sources) == [name : EntityNames, type : EntityTypes, service : sources]

Items(components, sources) == [component : components, source : sources]

Stores(sources) ==
    [apps       : Seq(Items(ServedApps(sources), sources)),
     groups     : Seq(Items(UiEntities, sources)),
     components : Seq(Items(ServedEntities(sources), sources)),
     actions    : Seq(Items(UiActions, sources)),
     manualApps : Seq(GroupedApps)]

(* A lookup answers a position, or 0.                                      *)
LEMMA StoreIndexIn ==
    ASSUME NEW T, NEW store \in Seq(T), NEW name
    PROVE  /\ StoreIndex(store, name) \in 0..Len(store)
           /\ StoreIndex(store, name) # 0 => store[StoreIndex(store, name)].component.name = name
  <1> DEFINE found == {i \in 1..Len(store) : store[i].component.name = name}
  <1>1. StoreIndex(store, name) = IF found # {} THEN Min(found) ELSE 0
    BY Zenon DEF StoreIndex, SelectInSeq
  <1>2. found \in SUBSET (1..Len(store)) /\ Len(store) \in Nat
    OBVIOUS
  <1> HIDE DEF found
  <1>3. CASE found = {}
    BY <1>1, <1>2, <1>3
  <1>4. CASE found # {}
    <2>1. Min(found) \in found
      BY <1>2, <1>4, MinPosition
    <2>2. Min(found) \in 1..Len(store) /\ store[Min(found)].component.name = name
      BY <1>2, <2>1 DEF found
    <2>3. QED
      BY <1>1, <1>2, <1>4, <2>2
  <1>5. QED
    BY <1>3, <1>4

(* The same in a list of entities.                                         *)
LEMMA IndexIn ==
    ASSUME NEW T, NEW list \in Seq(T), NEW name
    PROVE  /\ IndexOfName(list, name) \in 0..Len(list)
           /\ IndexOfName(list, name) # 0 => list[IndexOfName(list, name)].name = name
  <1> DEFINE found == {i \in 1..Len(list) : list[i].name = name}
  <1>1. IndexOfName(list, name) = IF found # {} THEN Min(found) ELSE 0
    BY Zenon DEF IndexOfName, SelectInSeq
  <1>2. found \in SUBSET (1..Len(list)) /\ Len(list) \in Nat
    OBVIOUS
  <1> HIDE DEF found
  <1>3. CASE found = {}
    BY <1>1, <1>2, <1>3
  <1>4. CASE found # {}
    <2>1. Min(found) \in found
      BY <1>2, <1>4, MinPosition
    <2>2. Min(found) \in 1..Len(list) /\ list[Min(found)].name = name
      BY <1>2, <2>1 DEF found
    <2>3. QED
      BY <1>1, <1>2, <1>4, <2>2
  <1>5. QED
    BY <1>3, <1>4

(* An entry that is added or replaced leaves the list a list of its kind.  *)
LEMMA PutItemIn ==
    ASSUME NEW T, NEW store \in Seq(T), NEW item \in T
    PROVE  PutItem(store, item) \in Seq(T)
  <1>1. StoreIndex(store, item.component.name) \in 0..Len(store)
    BY StoreIndexIn
  <1>2. QED
    BY <1>1 DEF PutItem

(* The same for the list of the manual apps.                               *)
LEMMA PutByNameIn ==
    ASSUME NEW T, NEW list \in Seq(T), NEW entity \in T
    PROVE  PutByName(list, entity) \in Seq(T)
  <1>1. IndexOfName(list, entity.name) \in 0..Len(list)
    BY IndexIn
  <1>2. QED
    BY <1>1 DEF PutByName

(* The resolver keeps the stored item or takes the new one.                *)
LEMMA ResolvedIn ==
    ASSUME NEW C, NEW sources, NEW store \in Seq(Items(C, sources)), NEW component,
           NEW config, config.name \in sources
    PROVE  \/ ResolvedItem(store, component, config) \in Items(C, sources)
           \/ ResolvedItem(store, component, config) = [component |-> component, source |-> config.name]
  <1> DEFINE at == StoreIndex(store, component.name)
             new == [component |-> component, source |-> config.name]
  <1>1. at \in 0..Len(store)
    BY StoreIndexIn
  <1>2. ResolvedItem(store, component, config)
          = IF at = 0 THEN new ELSE ResolveEntityByType(store[at], new)
    BY DEF ResolvedItem
  <1> HIDE DEF at
  <1>3. at # 0 => store[at] \in Items(C, sources)
    BY <1>1
  <1>4. ResolvedItem(store, component, config) \in {new, store[at]}
        /\ (at = 0 => ResolvedItem(store, component, config) = new)
    BY <1>2 DEF ResolveEntityByType
  <1>5. QED
    BY <1>3, <1>4

(* An app of one of the sources is stored with the service it is from.     *)
LEMMA AddAppIn ==
    ASSUME NEW sources, NEW stores \in Stores(sources), NEW app \in GroupedApps,
           NEW config, IsConfig(config, sources)
    PROVE  AddApp(stores, app, config) \in Stores(sources)
  <1> DEFINE resolved == ResolvedItem(stores.apps, app, config)
             item == UpdateItemToAbsoluteUrl(resolved, config)
  <1>1. stores.apps \in Seq(Items(ServedApps(sources), sources)) /\ config.name \in sources
        /\ config.base \in Urls \cup {NoBase}
    BY DEF Stores, IsConfig
  <1>2. \/ resolved \in Items(ServedApps(sources), sources)
        \/ resolved = [component |-> app, source |-> config.name]
    BY <1>1, ResolvedIn
  <1> HIDE DEF resolved
  <1>3. /\ resolved.source \in sources
        /\ resolved.component.name \in EntityNames
        /\ resolved.component.type \in EntityTypes
        /\ resolved.component.url \in Urls
        /\ resolved.component.groups \in SUBSET GroupNames
    BY <1>1, <1>2 DEF Items, ServedApps, GroupedApps
  <1>4. /\ item.source = resolved.source
        /\ item.component = [name |-> resolved.component.name, type |-> resolved.component.type,
              url |-> UpdateToAbsoluteUrl(resolved.component.url, config.base),
              groups |-> resolved.component.groups, service |-> resolved.source]
        /\ item = [component |-> item.component, source |-> item.source]
    BY <1>1, <1>2 DEF UpdateItemToAbsoluteUrl, Items
  <1>5. UpdateToAbsoluteUrl(resolved.component.url, config.base) \in Urls
    BY <1>1, <1>3 DEF UpdateToAbsoluteUrl
  <1> HIDE DEF item
  <1>6. item.component \in ServedApps(sources)
    BY <1>3, <1>4, <1>5 DEF ServedApps
  <1>7. item \in Items(ServedApps(sources), sources)
    BY <1>3, <1>4, <1>6 DEF Items
  <1>8. WithoutService(item.component) \in GroupedApps
    BY <1>6 DEF WithoutService, ServedApps, GroupedApps
  <1>9. PutItem(stores.apps, item) \in Seq(Items(ServedApps(sources), sources))
    BY <1>1, <1>7, PutItemIn
  <1>10. stores.manualApps \in Seq(GroupedApps)
         /\ PutByName(stores.manualApps, WithoutService(item.component)) \in Seq(GroupedApps)
    BY <1>8, PutByNameIn DEF Stores
  <1>11. PutApp(stores, item) \in Stores(sources)
    BY <1>9, <1>10 DEF PutApp, Stores
  <1>12. QED
    BY <1>11 DEF AddApp, item, resolved

(* The apps of a configuration leave the stores as they should be.         *)
LEMMA ResolveAppsIn ==
    ASSUME NEW sources, NEW stores \in Stores(sources), NEW config, IsConfig(config, sources)
    PROVE  ResolveApps(stores, config) \in Stores(sources)
  <1> DEFINE n == Len(config.meta.apps)
             S == Stores(sources)
  <1>1. config.meta.apps \in Seq(GroupedApps)
    BY DEF IsConfig, GroupedMetas
  <1>2. n \in Nat /\ DOMAIN config.meta.apps = 1..n
        /\ \A i \in 1..n : config.meta.apps[i] \in GroupedApps
    BY <1>1
  <1>3. \A s \in S, i \in 1..n : AddApp(s, config.meta.apps[i], config) \in S
    BY <1>2, AddAppIn
  <1>4. stores \in S
    OBVIOUS
  <1> HIDE DEF n, S
  <1>5. ResolveApps(stores, config) \in S
    BY <1>2, <1>3, <1>4, AppsFold
  <1>6. QED
    BY <1>5 DEF S

(* So do its groups.                                                       *)
LEMMA ResolveGroupsIn ==
    ASSUME NEW sources, NEW store \in Seq(Items(UiEntities, sources)),
           NEW config, IsConfig(config, sources)
    PROVE  ResolveGroups(store, config) \in Seq(Items(UiEntities, sources))
  <1> DEFINE n == Len(config.meta.groups)
             S == Seq(Items(UiEntities, sources))
  <1>1. config.meta.groups \in Seq(UiEntities) /\ config.name \in sources
    BY DEF IsConfig, GroupedMetas
  <1>2. n \in Nat /\ DOMAIN config.meta.groups = 1..n
        /\ \A i \in 1..n : config.meta.groups[i] \in UiEntities
    BY <1>1
  <1>3. ASSUME NEW s \in S, NEW i \in 1..n
        PROVE  PutItem(s, ResolvedItem(s, config.meta.groups[i], config)) \in S
    <2> DEFINE group == config.meta.groups[i]
               resolved == ResolvedItem(s, group, config)
    <2>1. \/ resolved \in Items(UiEntities, sources)
          \/ resolved = [component |-> group, source |-> config.name]
      BY <1>1, ResolvedIn
    <2>2. group \in UiEntities
      BY <1>2
    <2> HIDE DEF resolved, group
    <2>3. resolved \in Items(UiEntities, sources)
      BY <1>1, <2>1, <2>2 DEF Items
    <2>4. PutItem(s, resolved) \in S
      BY <2>3, PutItemIn
    <2>5. QED
      BY <2>4 DEF resolved, group
  <1>4. store \in S
    OBVIOUS
  <1> HIDE DEF n, S
  <1>5. ResolveGroups(store, config) \in S
    BY <1>2, <1>3, <1>4, GroupsFold
  <1>6. QED
    BY <1>5 DEF S

(* So do its components.                                                   *)
LEMMA ResolveComponentsIn ==
    ASSUME NEW sources, NEW store \in Seq(Items(ServedEntities(sources), sources)),
           NEW config, IsConfig(config, sources)
    PROVE  ResolveComponents(store, config) \in Seq(Items(ServedEntities(sources), sources))
  <1> DEFINE n == Len(config.meta.components)
             S == Seq(Items(ServedEntities(sources), sources))
  <1>1. config.meta.components \in Seq(UiEntities) /\ config.name \in sources
    BY DEF IsConfig, GroupedMetas
  <1>2. n \in Nat /\ DOMAIN config.meta.components = 1..n
        /\ \A i \in 1..n : config.meta.components[i] \in UiEntities
    BY <1>1
  <1>3. ASSUME NEW s \in S, NEW i \in 1..n
        PROVE  PutItem(s, UpdateItemWithSource(
                            ResolvedItem(s, config.meta.components[i], config), config)) \in S
    <2> DEFINE component == config.meta.components[i]
               resolved == ResolvedItem(s, component, config)
               item == UpdateItemWithSource(resolved, config)
    <2>1. \/ resolved \in Items(ServedEntities(sources), sources)
          \/ resolved = [component |-> component, source |-> config.name]
      BY <1>1, ResolvedIn
    <2>2. component \in UiEntities
      BY <1>2
    <2> HIDE DEF resolved, component
    <2>3. /\ resolved.source \in sources
          /\ resolved.component.name \in EntityNames
          /\ resolved.component.type \in EntityTypes
      BY <1>1, <2>1, <2>2 DEF Items, ServedEntities, UiEntities
    <2>4. item = [component |-> [name |-> resolved.component.name,
                                 type |-> resolved.component.type,
                                 service |-> resolved.source],
                  source |-> resolved.source]
      BY <1>1, <2>1 DEF UpdateItemWithSource, Items
    <2> HIDE DEF item
    <2>5. item \in Items(ServedEntities(sources), sources)
      BY <2>3, <2>4 DEF Items, ServedEntities
    <2>6. PutItem(s, item) \in S
      BY <2>5, PutItemIn
    <2>7. QED
      BY <2>6 DEF item, resolved, component
  <1>4. store \in S
    OBVIOUS
  <1> HIDE DEF n, S
  <1>5. ResolveComponents(store, config) \in S
    BY <1>2, <1>3, <1>4, ComponentsFold
  <1>6. QED
    BY <1>5 DEF S

(* So do its actions.                                                      *)
LEMMA ResolveActionsIn ==
    ASSUME NEW sources, NEW store \in Seq(Items(UiActions, sources)),
           NEW config, IsConfig(config, sources)
    PROVE  ResolveActions(store, config) \in Seq(Items(UiActions, sources))
  <1> DEFINE n == Len(config.meta.actions)
             S == Seq(Items(UiActions, sources))
  <1>1. config.meta.actions \in Seq(UiActions) /\ config.name \in sources
    BY DEF IsConfig, GroupedMetas
  <1>2. n \in Nat /\ DOMAIN config.meta.actions = 1..n
        /\ \A i \in 1..n : config.meta.actions[i] \in UiActions
    BY <1>1
  <1>3. ASSUME NEW s \in S, NEW i \in 1..n
        PROVE  AddAction(s, config.meta.actions[i], config) \in S
    <2>1. [component |-> config.meta.actions[i], source |-> config.name]
             \in Items(UiActions, sources)
      BY <1>1, <1>2 DEF Items
    <2>2. QED
      BY <2>1 DEF AddAction
  <1>4. store \in S
    OBVIOUS
  <1> HIDE DEF n, S
  <1>5. ResolveActions(store, config) \in S
    BY <1>2, <1>3, <1>4, ActionsFold
  <1>6. QED
    BY <1>5 DEF S

(* What the merge collects of configurations of some sources is of them.   *)
LEMMA ProcessConfigIn ==
    ASSUME NEW sources, NEW stores \in Stores(sources), NEW config, IsConfig(config, sources)
    PROVE  ProcessConfig(stores, config) \in Stores(sources)
  <1> DEFINE resolved == ResolveApps(stores, config)
  <1>1. resolved \in Stores(sources)
    BY ResolveAppsIn
  <1> HIDE DEF resolved
  <1>2. ResolveGroups(resolved.groups, config) \in Seq(Items(UiEntities, sources))
    BY <1>1, ResolveGroupsIn DEF Stores
  <1>3. ResolveComponents(resolved.components, config)
            \in Seq(Items(ServedEntities(sources), sources))
    BY <1>1, ResolveComponentsIn DEF Stores
  <1>4. ResolveActions(resolved.actions, config) \in Seq(Items(UiActions, sources))
    BY <1>1, ResolveActionsIn DEF Stores
  <1>5. [resolved EXCEPT !.groups     = ResolveGroups(@, config),
                         !.components = ResolveComponents(@, config),
                         !.actions    = ResolveActions(@, config)] \in Stores(sources)
    BY <1>1, <1>2, <1>3, <1>4 DEF Stores
  <1>6. QED
    BY <1>5 DEF ProcessConfig, resolved

(* What mergeConfigs returns.                                              *)
LEMMA MergedIn ==
    ASSUME NEW sources, NEW configs, NEW n \in Nat, DOMAIN configs = 1..n,
           \A i \in 1..n : IsConfig(configs[i], sources)
    PROVE  /\ MergeConfigs(configs).apps \in Seq(ServedApps(sources))
           /\ MergeConfigs(configs).manualApps \in Seq(GroupedApps)
           /\ MergeConfigs(configs).threw = FALSE
           /\ DOMAIN MergeConfigs(configs) = {"apps", "groups", "components", "actions",
                                              "manualApps", "threw"}
  <1> DEFINE S == Stores(sources)
             merged == FoldLeft(ProcessConfig, EmptyStores, configs)
  <1>1. EmptyStores \in S
    BY DEF EmptyStores, Stores
  <1>2. \A s \in S, i \in 1..n : ProcessConfig(s, configs[i]) \in S
    BY ProcessConfigIn
  <1> HIDE DEF S
  <1>3. merged \in S
    BY <1>1, <1>2, ConfigsFold
  <1>4. MergeConfigs(configs) = ListsOf(merged)
    BY DEF MergeConfigs
  <1> HIDE DEF merged
  <1>5. /\ merged.apps \in Seq(Items(ServedApps(sources), sources))
        /\ merged.manualApps \in Seq(GroupedApps)
    BY <1>3 DEF S, Stores
  <1>6. Components(merged.apps) \in Seq(ServedApps(sources))
    <2>1. /\ DOMAIN merged.apps = 1..Len(merged.apps) /\ Len(merged.apps) \in Nat
          /\ \A i \in 1..Len(merged.apps) :
                merged.apps[i] \in Items(ServedApps(sources), sources)
      BY <1>5
    <2>2. \A i \in 1..Len(merged.apps) : merged.apps[i].component \in ServedApps(sources)
      BY <2>1 DEF Items
    <2>3. QED
      BY <2>1, <2>2 DEF Components
  <1>7. QED
    BY <1>4, <1>5, <1>6 DEF ListsOf

(* An overridden app stays an app of its service: the schema of overrides  *)
(* knows no service attribute.                                             *)
LEMMA OverlaidIn ==
    ASSUME NEW sources, NEW app \in ServedApps(sources), NEW override, IsAppOverride(override)
    PROVE  Overlay(app, override.attributes) \in ServedApps(sources)
  <1> DEFINE given == override.attributes
             r == Overlay(app, given)
  <1>1. /\ DOMAIN app = {"name", "type", "url", "groups", "service"}
        /\ app.name \in EntityNames /\ app.type \in EntityTypes /\ app.url \in Urls
        /\ app.groups \in SUBSET GroupNames /\ app.service \in sources
    BY DEF ServedApps
  <1>2. /\ DOMAIN given \subseteq {"type", "url", "groups"}
        /\ "type" \in DOMAIN given => given["type"] \in EntityTypes
        /\ "url" \in DOMAIN given => given["url"] \in Urls
        /\ "groups" \in DOMAIN given => given["groups"] \in SUBSET GroupNames
    BY DEF IsAppOverride
  <1> HIDE DEF given
  <1>3. r = [f \in {"name", "type", "url", "groups", "service"} |->
                IF f \in DOMAIN given THEN given[f] ELSE app[f]]
    <2>1. DOMAIN app \cup DOMAIN given = {"name", "type", "url", "groups", "service"}
      BY <1>1, <1>2
    <2>2. QED
      BY <2>1, Zenon DEF Overlay
  <1>4. /\ r["name"] \in EntityNames /\ r["type"] \in EntityTypes /\ r["url"] \in Urls
        /\ r["groups"] \in SUBSET GroupNames /\ r["service"] \in sources
    BY <1>1, <1>2, <1>3
  <1>5. r = [f \in {"name", "type", "url", "groups", "service"} |-> r[f]]
    BY <1>3
  <1> HIDE DEF r
  <1>6. r \in ServedApps(sources)
    BY <1>4, <1>5 DEF ServedApps
  <1>7. QED
    BY <1>6 DEF r, given

(* So does a list of apps under all the overrides.                         *)
LEMMA OverridesIn ==
    ASSUME NEW sources, NEW list \in Seq(ServedApps(sources)),
           NEW overrides, IsList(overrides),
           \A i \in DOMAIN overrides : IsAppOverride(overrides[i])
    PROVE  OverrideList(list, overrides) \in Seq(ServedApps(sources))
  <1> DEFINE n == Len(overrides)
             S == Seq(ServedApps(sources))
  <1>1. n \in Nat /\ DOMAIN overrides = 1..n
    BY DEF IsList
  <1>2. ASSUME NEW s \in S, NEW i \in 1..n PROVE OverrideEntity(s, overrides[i]) \in S
    <2> DEFINE at == IndexOfName(s, overrides[i].name)
               T == ServedApps(sources)
    <2>1. at \in 0..Len(s)
      BY IndexIn
    <2>2. OverrideEntity(s, overrides[i])
            = IF at = 0 THEN s
              ELSE [s EXCEPT ![at] = Overlay(s[at], overrides[i].attributes)]
      BY DEF OverrideEntity
    <2> HIDE DEF at
    <2>3. at # 0 => s[at] \in ServedApps(sources)
      BY <2>1
    <2>4. at # 0 => Overlay(s[at], overrides[i].attributes) \in T
      BY <1>1, <2>3, OverlaidIn
    <2>5. s \in Seq(T)
      OBVIOUS
    <2> HIDE DEF T
    <2>6. OverrideEntity(s, overrides[i]) \in Seq(T)
      BY <2>1, <2>2, <2>4, <2>5
    <2>7. QED
      BY <2>6 DEF T
  <1>3. list \in S
    OBVIOUS
  <1> HIDE DEF n, S
  <1>4. OverrideList(list, overrides) \in S
    BY <1>1, <1>2, <1>3, OverridesFold
  <1>5. QED
    BY <1>4 DEF S

(* A result of the merge to which groups were added, and nothing threw.    *)
Results(result, sources) == {[result EXCEPT !.apps = apps] : apps \in Seq(ServedApps(sources))}

IsResult(result) ==
    /\ DOMAIN result = {"apps", "groups", "components", "actions", "manualApps", "threw"}
    /\ result = [field \in DOMAIN result |-> result[field]]
    /\ result.threw = FALSE

(* A group mapping never throws on apps that have groups.                  *)
LEMMA AddOneGroupIn ==
    ASSUME NEW sources, NEW result, IsResult(result), NEW r \in Results(result, sources),
           NEW group \in GroupNames, NEW appName
    PROVE  AddOneGroup(r, group, appName) \in Results(result, sources)
  <1> DEFINE at == IndexOfName(r.apps, appName)
             T == ServedApps(sources)
  <1>1. PICK apps \in Seq(T) : r = [result EXCEPT !.apps = apps]
    BY DEF Results
  <1>2. r.apps = apps /\ r.threw = FALSE
    BY <1>1 DEF IsResult
  <1>3. at \in 0..Len(apps)
    BY <1>2, IndexIn
  <1>4. CASE at = 0
    BY <1>4 DEF AddOneGroup
  <1>5. CASE at # 0
    <2> DEFINE grouped == [apps[at] EXCEPT !.groups = @ \cup {group}]
               longer == [apps EXCEPT ![at] = grouped]
    <2>1. apps[at] \in T
      BY <1>3, <1>5
    <2>2. apps[at].groups \in SUBSET GroupNames
      BY <2>1 DEF ServedApps
    <2>3. apps[at].groups # NoGroups
      BY <2>2, ContentsAssumption
    <2>4. grouped \in T
      BY <2>1, <2>2 DEF ServedApps
    <2>5. AddOneGroup(r, group, appName) = [r EXCEPT !.apps[at].groups = @ \cup {group}]
      BY <1>2, <1>5, <2>3 DEF AddOneGroup
    <2>6. [r EXCEPT !.apps[at].groups = @ \cup {group}] = [r EXCEPT !.apps = longer]
      BY <1>2
    <2>7. [r EXCEPT !.apps = longer] = [result EXCEPT !.apps = longer]
      BY <1>1 DEF IsResult
    <2> HIDE DEF grouped, T
    <2>8. longer \in Seq(T)
      BY <1>3, <1>5, <2>4
    <2> HIDE DEF longer
    <2>9. QED
      BY <2>5, <2>6, <2>7, <2>8 DEF Results, T
  <1>6. QED
    BY <1>4, <1>5

(* Nor do all of them.                                                     *)
LEMMA GroupsAddedIn ==
    ASSUME NEW sources, NEW result, IsResult(result), result.apps \in Seq(ServedApps(sources)),
           NEW groupMappings \in Seq(GroupMappings)
    PROVE  AddGroupToApp(result, groupMappings) \in Results(result, sources)
  <1> DEFINE n == Len(groupMappings)
             S == Results(result, sources)
  <1>1. result \in S
    <2>1. result = [result EXCEPT !.apps = result.apps]
      BY DEF IsResult
    <2>2. QED
      BY <2>1 DEF Results
  <1>2. n \in Nat /\ DOMAIN groupMappings = 1..n
        /\ \A i \in 1..n : groupMappings[i] \in GroupMappings
    OBVIOUS
  <1>3. ASSUME NEW r \in S, NEW mapping \in GroupMappings PROVE AddGroup(r, mapping) \in S
    <2> DEFINE k == Len(mapping.apps)
    <2>1. mapping.group \in GroupNames /\ mapping.apps \in Seq(EntityNames)
      BY DEF GroupMappings
    <2>2. k \in Nat /\ DOMAIN mapping.apps = 1..k
      BY <2>1
    <2>3. \A q \in S, i \in 1..k : AddOneGroup(q, mapping.group, mapping.apps[i]) \in S
      BY <2>1, AddOneGroupIn
    <2> HIDE DEF k, S
    <2>4. QED
      BY <2>2, <2>3, MappedAppsFold
  <1>4. \A r \in S, i \in 1..n : AddGroup(r, groupMappings[i]) \in S
    BY <1>2, <1>3
  <1> HIDE DEF n, S
  <1>5. AddGroupToApp(result, groupMappings) \in S
    BY <1>1, <1>2, <1>4, MappingsFold
  <1>6. QED
    BY <1>5 DEF S

(* From complete files the whole calculation yields apps of their sources, *)
(* and it does not throw.                                                  *)
LEMMA CalculatedIn ==
    ASSUME NEW sources, NEW configs, NEW n \in Nat, DOMAIN configs = 1..n,
           \A i \in 1..n : IsConfig(configs[i], sources), NEW ovr, IsOverridesFile(ovr)
    PROVE  /\ CalculateConfig(configs, ovr).apps \in Seq(ServedApps(sources))
           /\ CalculateConfig(configs, ovr).manualApps \in Seq(GroupedApps)
           /\ CalculateConfig(configs, ovr).threw = FALSE
  <1> DEFINE merged == MergeConfigs(configs)
             result == OverrideConfig(merged, ovr.overrides)
  <1>1. /\ merged.apps \in Seq(ServedApps(sources))
        /\ merged.manualApps \in Seq(GroupedApps)
        /\ merged.threw = FALSE
        /\ DOMAIN merged = {"apps", "groups", "components", "actions", "manualApps", "threw"}
    BY MergedIn
  <1>2. CalculateConfig(configs, ovr) = AddGroupToApp(result, ovr.groupMappings)
    BY DEF CalculateConfig
  <1> HIDE DEF merged
  <1>3. /\ result.apps = OverrideList(merged.apps, ovr.overrides.apps)
        /\ result.manualApps = merged.manualApps
        /\ IsResult(result)
    BY <1>1 DEF OverrideConfig, IsResult
  <1>4. OverrideList(merged.apps, ovr.overrides.apps) \in Seq(ServedApps(sources))
    BY <1>1, OverridesIn DEF IsOverridesFile
  <1>5. ovr.groupMappings \in Seq(GroupMappings)
    BY DEF IsOverridesFile
  <1> HIDE DEF result
  <1>6. AddGroupToApp(result, ovr.groupMappings) \in Results(result, sources)
    BY <1>3, <1>4, <1>5, GroupsAddedIn
  <1>7. PICK apps \in Seq(ServedApps(sources)) :
            CalculateConfig(configs, ovr) = [result EXCEPT !.apps = apps]
    BY <1>2, <1>6 DEF Results
  <1>8. QED
    BY <1>1, <1>3, <1>7 DEF IsResult

(* What is written back into the declared apps leaves their files complete.*)
LEMMA SharedIn ==
    ASSUME NEW sources, NEW declaredApps \in Seq(GroupedApps), NEW source, NEW overrides,
           NEW calculated, calculated.apps \in Seq(ServedApps(sources))
    PROVE  ShareGroups(declaredApps, source, calculated, overrides) \in Seq(GroupedApps)
  <1> DEFINE n == Len(declaredApps)
             at(i) == IndexOfName(calculated.apps, declaredApps[i].name)
             shared == ShareGroups(declaredApps, source, calculated, overrides)
  <1>1. n \in Nat /\ DOMAIN declaredApps = 1..n
        /\ \A i \in 1..n : declaredApps[i] \in GroupedApps
    OBVIOUS
  <1>2. DOMAIN shared = 1..n /\ shared = [i \in 1..n |-> shared[i]]
    BY <1>1 DEF ShareGroups
  <1>3. ASSUME NEW i \in 1..n PROVE shared[i] \in GroupedApps
    <2>1. at(i) \in 0..Len(calculated.apps)
      BY IndexIn
    <2>2. at(i) # 0 => calculated.apps[at(i)] \in ServedApps(sources)
      BY <2>1
    <2>3. at(i) # 0 => calculated.apps[at(i)].groups \in SUBSET GroupNames
      BY <2>2 DEF ServedApps
    <2>4. \/ shared[i] = declaredApps[i]
          \/ /\ at(i) # 0
             /\ shared[i] = [declaredApps[i] EXCEPT !.groups = calculated.apps[at(i)].groups]
      BY <1>1 DEF ShareGroups
    <2> HIDE DEF at, shared
    <2>5. QED
      BY <1>1, <2>3, <2>4 DEF GroupedApps
  <1> HIDE DEF shared
  <1>4. shared \in Seq(GroupedApps)
    BY <1>1, <1>2, <1>3
  <1>5. QED
    BY <1>4 DEF shared

--------------------------------------------------------------------------------
KnownIn(map) == {n \in Names : IsKnown(map[n])}

\* An insertion order lists just these names, each once.
Ordered(order, names) ==
    /\ order \in Seq(Names)
    /\ \A n \in Names : n \in names <=> \E i \in 1..Len(order) : order[i] = n
    /\ \A i, j \in 1..Len(order) : order[i] = order[j] => i = j

(* A key that is assigned keeps its place or goes to the end.              *)
LEMMA AppendNewOrdered ==
    ASSUME NEW map, NEW order, Ordered(order, KnownIn(map)), NEW n \in Names
    PROVE  Ordered(AppendNew(order, map, n), KnownIn(map) \cup {n})
  <1>1. CASE IsKnown(map[n])
    BY <1>1 DEF Ordered, AppendNew, KnownIn
  <1>2. CASE ~IsKnown(map[n])
    <2> DEFINE longer == Append(order, n)
    <2>1. /\ order \in Seq(Names) /\ Len(order) \in Nat
          /\ \A i \in 1..Len(order) : order[i] # n
      BY <1>2 DEF Ordered, KnownIn
    <2>2. /\ longer \in Seq(Names) /\ Len(longer) = Len(order) + 1
          /\ longer[Len(order) + 1] = n
          /\ \A i \in 1..Len(order) : longer[i] = order[i]
      BY <2>1
    <2>3. AppendNew(order, map, n) = longer
      BY <1>2 DEF AppendNew
    <2> HIDE DEF longer
    <2>4. ASSUME NEW m \in Names
          PROVE  m \in KnownIn(map) \cup {n} <=> \E i \in 1..Len(longer) : longer[i] = m
      <3>1. m \in KnownIn(map) <=> \E i \in 1..Len(order) : order[i] = m
        BY DEF Ordered
      <3>2. (\E i \in 1..Len(longer) : longer[i] = m)
              <=> m = n \/ \E i \in 1..Len(order) : order[i] = m
        BY <2>1, <2>2
      <3>3. QED
        BY <3>1, <3>2
    <2>5. \A i, j \in 1..Len(longer) : longer[i] = longer[j] => i = j
      BY <2>1, <2>2 DEF Ordered
    <2>6. QED
      BY <2>2, <2>3, <2>4, <2>5 DEF Ordered
  <1>3. QED
    BY <1>1, <1>2

(* A key that is deleted leaves its place, and only that.                  *)
LEMMA WithoutOrdered ==
    ASSUME NEW names, NEW order, Ordered(order, names), NEW n \in Names
    PROVE  Ordered(Without(order, n), names \ {n})
  <1> DEFINE found == {i \in 1..Len(order) : order[i] = n}
             at == SelectInSeq(order, LAMBDA m : m = n)
  <1>1. at = IF found # {} THEN Min(found) ELSE 0
    BY Zenon DEF SelectInSeq
  <1>2. Without(order, n) = IF at = 0 THEN order ELSE RemoveAt(order, at)
    BY DEF Without
  <1>3. order \in Seq(Names) /\ Len(order) \in Nat /\ found \in SUBSET (1..Len(order))
    BY DEF Ordered
  <1> HIDE DEF at
  <1>4. CASE found = {}
    BY <1>1, <1>2, <1>4 DEF Ordered
  <1>5. CASE found # {}
    <2> DEFINE before == SubSeq(order, 1, at - 1)
               after == SubSeq(order, at + 1, Len(order))
               shorter == before \o after
    <2>1. at \in found
      <3> HIDE DEF found
      <3>1. Min(found) \in found
        BY <1>3, <1>5, MinPosition
      <3>2. QED
        BY <1>1, <1>5, <3>1
    <2>2. at \in 1..Len(order) /\ order[at] = n
      BY <2>1
    <2> HIDE DEF found
    <2>3. Without(order, n) = shorter
      <3>1. at # 0
        BY <1>3, <2>2
      <3>2. Without(order, n) = RemoveAt(order, at)
        BY <1>2, <3>1
      <3>3. QED
        BY <3>2, Zenon DEF RemoveAt
    <2>4. /\ before \in Seq(Names) /\ Len(before) = at - 1
          /\ \A i \in 1..(at - 1) : before[i] = order[i]
      BY <1>3, <2>2
    <2>5. /\ after \in Seq(Names) /\ Len(after) = Len(order) - at
          /\ \A i \in 1..(Len(order) - at) : after[i] = order[at + i]
      BY <1>3, <2>2
    <2> HIDE DEF before, after
    <2>6. /\ shorter \in Seq(Names) /\ Len(shorter) = Len(order) - 1
          /\ \A i \in 1..(at - 1) : shorter[i] = order[i]
          /\ \A i \in at..(Len(order) - 1) : shorter[i] = order[i + 1]
      BY <1>3, <2>2, <2>4, <2>5
    <2> HIDE DEF shorter
    <2>7. ASSUME NEW m \in Names
          PROVE  m \in names \ {n} <=> \E i \in 1..Len(shorter) : shorter[i] = m
      <3>1. m \in names <=> \E i \in 1..Len(order) : order[i] = m
        BY DEF Ordered
      <3>2. ASSUME NEW i \in 1..Len(shorter), shorter[i] = m PROVE m \in names /\ m # n
        <4>1. CASE i < at
          <5>1. i \in 1..Len(order) /\ i # at /\ order[i] = m
            BY <1>3, <2>2, <2>6, <3>2, <4>1
          <5>2. QED
            BY <2>2, <3>1, <5>1 DEF Ordered
        <4>2. CASE i >= at
          <5>1. i + 1 \in 1..Len(order) /\ i + 1 # at /\ order[i + 1] = m
            BY <1>3, <2>2, <2>6, <3>2, <4>2
          <5>2. QED
            BY <2>2, <3>1, <5>1 DEF Ordered
        <4>3. QED
          BY <1>3, <2>2, <2>6, <4>1, <4>2
      <3>3. ASSUME m \in names, m # n PROVE \E i \in 1..Len(shorter) : shorter[i] = m
        <4>1. PICK j \in 1..Len(order) : order[j] = m
          BY <3>1, <3>3
        <4>2. CASE j < at
          BY <1>3, <2>2, <2>6, <4>1, <4>2
        <4>3. CASE j > at
          <5>1. j - 1 \in at..(Len(order) - 1) /\ (j - 1) + 1 = j
            BY <1>3, <2>2, <4>3
          <5>2. shorter[j - 1] = m /\ j - 1 \in 1..Len(shorter)
            BY <1>3, <2>2, <2>6, <4>1, <5>1
          <5>3. QED
            BY <5>2
        <4>4. QED
          BY <1>3, <2>2, <3>3, <4>1, <4>2, <4>3
      <3>4. QED
        BY <3>2, <3>3
    <2>8. \A i, j \in 1..Len(shorter) : shorter[i] = shorter[j] => i = j
      <3>1. \A i \in 1..Len(shorter) :
               shorter[i] = order[IF i < at THEN i ELSE i + 1]
        BY <1>3, <2>2, <2>6
      <3>2. QED
        BY <1>3, <2>2, <2>6, <3>1 DEF Ordered
    <2>9. QED
      BY <2>3, <2>6, <2>7, <2>8 DEF Ordered
  <1>6. QED
    BY <1>4, <1>5

\* The config map and its order hold complete files of known uids.
ConfigMapComplete(map, order) ==
    /\ Ordered(order, KnownIn(map))
    /\ \A n \in Names : /\ map[n].meta \in GroupedMetas
                        /\ IsKnown(map[n]) => <<n, map[n].rev>> \in Uids

ManualComplete(man, ovr) ==
    /\ man.file \in ManualMetas
    /\ man.apps \in Seq(GroupedApps)
    /\ IsOverridesFile(ovr)

\* Everything published comes from the manual file or a known configuration.
ConfigInv ==
    /\ ConfigMapComplete(configMap, configOrder)
    /\ ManualComplete(manual, manualOverrides)
    /\ published.apps \in Seq(ServedApps({Manual} \cup KnownIn(configMap)))

(* The apps of a complete file have groups.                                *)
LEMMA CompleteMeta ==
    ASSUME NEW meta \in UiMetas, AppsHaveGroups(meta)
    PROVE  meta \in GroupedMetas
  <1>1. /\ meta.apps \in Seq(UiApps) /\ Len(meta.apps) \in Nat
        /\ DOMAIN meta.apps = 1..Len(meta.apps)
        /\ meta.apps = [i \in 1..Len(meta.apps) |-> meta.apps[i]]
    BY DEF UiMetas
  <1>2. \A i \in 1..Len(meta.apps) : meta.apps[i] \in UiApps /\ meta.apps[i].groups # NoGroups
    BY <1>1 DEF AppsHaveGroups
  <1>3. \A i \in 1..Len(meta.apps) : meta.apps[i] \in GroupedApps
    BY <1>2 DEF UiApps, GroupedApps
  <1>4. meta.apps \in Seq(GroupedApps)
    BY <1>1, <1>3
  <1>5. QED
    BY <1>4 DEF UiMetas, GroupedMetas

(* The list updateConfig merges.                                           *)
LEMMA ConfigListIn ==
    ASSUME NEW cMap, NEW cOrder, NEW man, NEW ovr,
           ConfigMapComplete(cMap, cOrder), ManualComplete(man, ovr)
    PROVE  LET configs == ConfigList(cMap, cOrder, man)
           IN  /\ DOMAIN configs = 1..(Len(cOrder) + 1)
               /\ \A i \in 1..(Len(cOrder) + 1) :
                    IsConfig(configs[i], {Manual} \cup KnownIn(cMap))
  <1> DEFINE configs == ConfigList(cMap, cOrder, man)
             first == [name |-> Manual, base |-> NoBase,
                       meta |-> [man.file EXCEPT !.apps = man.apps, !.components = <<>>]]
             entry(i) == [name |-> cOrder[i], base |-> BaseOf[<<cOrder[i], cMap[cOrder[i]].rev>>],
                          meta |-> cMap[cOrder[i]].meta]
             others == [i \in 1..Len(cOrder) |-> entry(i)]
             sources == {Manual} \cup KnownIn(cMap)
  <1>1. cOrder \in Seq(Names) /\ Len(cOrder) \in Nat /\ DOMAIN cOrder = 1..Len(cOrder)
        /\ \A i \in 1..Len(cOrder) : cOrder[i] \in KnownIn(cMap)
    BY DEF ConfigMapComplete, Ordered
  <1>2. configs = <<first>> \o others
    BY <1>1 DEF ConfigList
  <1>3. IsConfig(first, sources)
    <2>1. man.file \in UiMetas /\ man.apps \in Seq(GroupedApps)
      BY ContentsAssumption DEF ManualComplete
    <2> DEFINE file == man.file
               meta == [file EXCEPT !.apps = man.apps, !.components = <<>>]
    <2>2. first.name = Manual /\ first.base = NoBase /\ first.meta = meta
      OBVIOUS
    <2>3. file \in UiMetas /\ <<>> \in Seq(UiEntities)
      BY <2>1
    <2> HIDE DEF file
    <2>4. meta \in GroupedMetas
      BY <2>1, <2>3 DEF UiMetas, GroupedMetas
    <2> HIDE DEF meta, first
    <2>5. QED
      BY <2>2, <2>4 DEF IsConfig
  <1>4. ASSUME NEW i \in 1..Len(cOrder) PROVE IsConfig(entry(i), sources)
    <2>1. cOrder[i] \in Names /\ cOrder[i] \in KnownIn(cMap)
      BY <1>1
    <2>2. cMap[cOrder[i]].meta \in GroupedMetas /\ <<cOrder[i], cMap[cOrder[i]].rev>> \in Uids
      BY <2>1 DEF ConfigMapComplete, KnownIn
    <2>3. BaseOf[<<cOrder[i], cMap[cOrder[i]].rev>>] \in Urls \cup {NoBase}
      BY <2>2, ContentsAssumption
    <2>4. QED
      BY <2>1, <2>2, <2>3 DEF IsConfig
  <1> HIDE DEF first, entry, configs
  <1>5. /\ DOMAIN configs = 1..(Len(cOrder) + 1) /\ configs[1] = first
        /\ \A i \in 1..Len(cOrder) : configs[i + 1] = entry(i)
    <2>1. others \in Seq({entry(i) : i \in 1..Len(cOrder)}) /\ Len(others) = Len(cOrder)
      BY <1>1
    <2> HIDE DEF others
    <2>2. DOMAIN configs = 1..(Len(cOrder) + 1) /\ configs[1] = first
          /\ \A i \in 1..Len(cOrder) : configs[i + 1] = others[i]
      BY <1>1, <1>2, <2>1
    <2>3. QED
      BY <2>2 DEF others
  <1>6. ASSUME NEW i \in 1..(Len(cOrder) + 1) PROVE IsConfig(configs[i], sources)
    <2>1. CASE i = 1
      BY <1>3, <1>5, <2>1
    <2>2. CASE i # 1
      <3>1. i - 1 \in 1..Len(cOrder) /\ (i - 1) + 1 = i
        BY <1>1, <2>2
      <3>2. configs[i] = entry(i - 1)
        BY <1>5, <3>1
      <3>3. QED
        BY <1>4, <3>1, <3>2
    <2>3. QED
      BY <2>1, <2>2
  <1>7. QED
    BY <1>5, <1>6 DEF configs

(* updateConfig publishes what comes from the configurations it merges, it *)
(* does not throw, and what it writes back leaves them complete.           *)
LEMMA UpdateConfigIn ==
    ASSUME NEW cMap, NEW cOrder, NEW man, NEW ovr,
           ConfigMapComplete(cMap, cOrder), ManualComplete(man, ovr),
           UpdateConfig(cMap, cOrder, man, ovr)
    PROVE  /\ ConfigInv'
           /\ KnownIn(configMap') = KnownIn(cMap)
           /\ ~GroupMappingThrows(cMap, cOrder, man, ovr)
  <1> DEFINE configs == ConfigList(cMap, cOrder, man)
             sources == {Manual} \cup KnownIn(cMap)
             n == Len(cOrder) + 1
             calculated == CalculateConfig(configs, ovr)
  <1>1. n \in Nat /\ DOMAIN configs = 1..n /\ \A i \in 1..n : IsConfig(configs[i], sources)
    <2>1. Len(cOrder) \in Nat
      BY DEF ConfigMapComplete, Ordered
    <2>2. DOMAIN configs = 1..n /\ \A i \in 1..n : IsConfig(configs[i], sources)
      BY ConfigListIn
    <2>3. n \in Nat
      BY <2>1
    <2> HIDE DEF n, configs, sources
    <2>4. QED
      BY <2>2, <2>3
  <1>2. IsOverridesFile(ovr)
    BY DEF ManualComplete
  <1> HIDE DEF n
  <1>3. /\ calculated.apps \in Seq(ServedApps(sources))
        /\ calculated.manualApps \in Seq(GroupedApps)
        /\ calculated.threw = FALSE
    BY <1>1, <1>2, CalculatedIn
  <1>4. Publish(calculated, cMap, cOrder, man, ovr)
    BY Zenon DEF UpdateConfig
  <1>5. ~GroupMappingThrows(cMap, cOrder, man, ovr)
    BY <1>3 DEF GroupMappingThrows
  <1> HIDE DEF calculated
  <1>6. /\ published'.apps = calculated.apps
        /\ configOrder' = cOrder
        /\ manualOverrides' = ovr
        /\ manual'.file = man.file
        /\ manual'.apps = ShareGroups(calculated.manualApps, Manual, calculated, ovr.overrides)
    BY <1>3, <1>4 DEF Publish
  <1>7. \A m \in Names :
            /\ configMap'[m].rev = cMap[m].rev
            /\ configMap'[m].meta = [cMap[m].meta EXCEPT
                                        !.apps = ShareGroups(@, m, calculated, ovr.overrides)]
    BY <1>4 DEF Publish
  <1>8. manual'.apps \in Seq(GroupedApps)
    BY <1>3, <1>6, SharedIn
  <1>9. ASSUME NEW m \in Names PROVE configMap'[m].meta \in GroupedMetas
    <2>1. cMap[m].meta \in GroupedMetas
      BY DEF ConfigMapComplete
    <2>2. ShareGroups(cMap[m].meta.apps, m, calculated, ovr.overrides) \in Seq(GroupedApps)
      BY <1>3, <2>1, SharedIn DEF GroupedMetas
    <2>3. QED
      BY <1>7, <2>1, <2>2 DEF GroupedMetas
  <1>10. KnownIn(configMap') = KnownIn(cMap)
    BY <1>7 DEF KnownIn, IsKnown
  <1>11. ConfigMapComplete(configMap', configOrder')
    BY <1>6, <1>7, <1>9, <1>10 DEF ConfigMapComplete, IsKnown
  <1>12. ManualComplete(manual', manualOverrides')
    BY <1>6, <1>8 DEF ManualComplete
  <1>13. QED
    BY <1>3, <1>5, <1>6, <1>10, <1>11, <1>12 DEF ConfigInv

--------------------------------------------------------------------------------
(* An entry that is written or deleted leaves the config map complete.     *)
LEMMA EntryWritten ==
    ASSUME NEW n \in Names, ConfigMapComplete(configMap, configOrder), EntryForEveryName,
           NEW entry, IsKnown(entry), entry.meta \in GroupedMetas, <<n, entry.rev>> \in Uids
    PROVE  ConfigMapComplete([configMap EXCEPT ![n] = entry],
                             AppendNew(configOrder, configMap, n))
  <1> DEFINE cMap == [configMap EXCEPT ![n] = entry]
  <1>1. cMap[n] = entry /\ \A m \in Names \ {n} : cMap[m] = configMap[m]
    BY DEF EntryForEveryName
  <1> HIDE DEF cMap
  <1>2. KnownIn(cMap) = KnownIn(configMap) \cup {n}
    BY <1>1 DEF KnownIn
  <1>3. Ordered(AppendNew(configOrder, configMap, n), KnownIn(cMap))
    BY <1>2, AppendNewOrdered DEF ConfigMapComplete
  <1>4. \A m \in Names : /\ cMap[m].meta \in GroupedMetas
                         /\ IsKnown(cMap[m]) => <<m, cMap[m].rev>> \in Uids
    BY <1>1 DEF ConfigMapComplete
  <1>5. ConfigMapComplete(cMap, AppendNew(configOrder, configMap, n))
    BY <1>3, <1>4 DEF ConfigMapComplete
  <1>6. QED
    BY <1>5 DEF cMap

(* So does an entry that is deleted.                                       *)
LEMMA EntryDeleted ==
    ASSUME NEW n \in Names, ConfigMapComplete(configMap, configOrder), EntryForEveryName
    PROVE  /\ ConfigMapComplete([configMap EXCEPT ![n] = NoConfig], Without(configOrder, n))
           /\ KnownIn([configMap EXCEPT ![n] = NoConfig]) = KnownIn(configMap) \ {n}
  <1> DEFINE cMap == [configMap EXCEPT ![n] = NoConfig]
  <1>1. cMap[n] = NoConfig /\ \A m \in Names \ {n} : cMap[m] = configMap[m]
    BY DEF EntryForEveryName
  <1> HIDE DEF cMap
  <1>2. ~IsKnown(NoConfig) /\ NoConfig.meta \in GroupedMetas
    BY DEF IsKnown, NoConfig, GroupedMetas
  <1>3. KnownIn(cMap) = KnownIn(configMap) \ {n}
    BY <1>1, <1>2 DEF KnownIn
  <1>4. Ordered(Without(configOrder, n), KnownIn(cMap))
    BY <1>3, WithoutOrdered DEF ConfigMapComplete
  <1>5. \A m \in Names : /\ cMap[m].meta \in GroupedMetas
                         /\ IsKnown(cMap[m]) => <<m, cMap[m].rev>> \in Uids
    BY <1>1, <1>2 DEF ConfigMapComplete
  <1>6. ConfigMapComplete(cMap, Without(configOrder, n))
    BY <1>4, <1>5 DEF ConfigMapComplete
  <1>7. QED
    BY <1>3, <1>6 DEF cMap

(* Only complete files get into memory, and into what is published.        *)
LEMMA ConfigStep ==
    ASSUME FilesComplete, ConfigInv, EntryForEveryName, CollectionTyped, [Next]_vars
    PROVE  ConfigInv'
  <1>1. ASSUME NEW n \in Names, DeleteService(n) PROVE ConfigInv'
    <2>1. UpdateConfig([configMap EXCEPT ![n] = NoConfig], Without(configOrder, n),
                       manual, manualOverrides)
      BY <1>1, Zenon DEF DeleteService
    <2>2. ConfigMapComplete([configMap EXCEPT ![n] = NoConfig], Without(configOrder, n))
      BY EntryDeleted DEF ConfigInv
    <2>3. QED
      BY <2>1, <2>2, UpdateConfigIn DEF ConfigInv
  <1>2. ASSUME NEW n \in Names, NEW content \in Revisions, FetchConfig(n, content)
        PROVE  ConfigInv'
    <2> DEFINE entry == [rev |-> services[n], content |-> content,
                         meta |-> MetaOf[<<n, content>>]]
    <2>1. <<n, services[n]>> \in HasProtocol /\ content \in Serves[<<n, services[n]>>]
      BY <1>2 DEF FetchConfig
    <2>2. <<n, content>> \in Uids /\ <<n, services[n]>> \in Uids
      BY <2>1, ContentsAssumption, DiscoveryAssumption
    <2>3. MetaOf[<<n, content>>] \in GroupedMetas
      BY <2>2, ContentsAssumption, CompleteMeta DEF FilesComplete
    <2>4. services[n] # NotAnnounced
      BY <2>2, DiscoveryAssumption
    <2>5. entry.meta \in GroupedMetas /\ <<n, entry.rev>> \in Uids /\ IsKnown(entry)
      BY <2>2, <2>3, <2>4 DEF IsKnown
    <2>6. UpdateConfig([configMap EXCEPT ![n] = entry], AppendNew(configOrder, configMap, n),
                       manual, manualOverrides)
      BY <1>2, Zenon DEF FetchConfig
    <2> HIDE DEF entry
    <2>7. ConfigMapComplete([configMap EXCEPT ![n] = entry],
                            AppendNew(configOrder, configMap, n))
      BY <2>5, EntryWritten DEF ConfigInv
    <2>8. QED
      BY <2>6, <2>7, UpdateConfigIn DEF ConfigInv
  <1>3. ASSUME NEW meta \in ManualMetas, ManualConfigChanged(meta) PROVE ConfigInv'
    <2>1. UpdateConfig(configMap, configOrder, Loaded(meta), manualOverrides)
      BY <1>3, Zenon DEF ManualConfigChanged
    <2>2. meta \in GroupedMetas
      BY ContentsAssumption, CompleteMeta DEF FilesComplete
    <2>3. ManualComplete(Loaded(meta), manualOverrides)
      BY <2>2 DEF ManualComplete, Loaded, GroupedMetas, ConfigInv
    <2>4. QED
      BY <2>1, <2>3, UpdateConfigIn DEF ConfigInv
  <1>4. ASSUME NEW ovr \in Overrides, ManualOverridesChanged(ovr) PROVE ConfigInv'
    <2>1. UpdateConfig(configMap, configOrder, manual, ovr)
      BY <1>4, Zenon DEF ManualOverridesChanged
    <2>2. ManualComplete(manual, ovr)
      BY DEF ManualComplete, ConfigInv, FilesComplete
    <2>3. QED
      BY <2>1, <2>2, UpdateConfigIn DEF ConfigInv
  <1>5. ASSUME UNCHANGED <<configVars, manualVars, published>> PROVE ConfigInv'
    BY <1>5 DEF configVars, manualVars, ConfigInv
  <1>6. QED
    BY <1>1, <1>2, <1>3, <1>4, <1>5
    DEF Next, ServiceEvent, ConfigAnswer, PackageAnswer, AddService, ModifyService,
        ForceUpdateService, EmitService, FetchPackages, PackageFetchFails,
        PackageFetchGivesUp, StorePackages, vars

(* It starts with nothing fetched and a complete manual configuration.     *)
LEMMA ConfigInit ==
    ASSUME FilesComplete, Init
    PROVE  ConfigInv
  <1>1. KnownIn(configMap) = {} /\ NoConfig.meta \in GroupedMetas
        /\ \A n \in Names : configMap[n] = NoConfig /\ ~IsKnown(configMap[n])
    BY DEF Init, KnownIn, IsKnown, NoConfig, GroupedMetas
  <1>2. ConfigMapComplete(configMap, configOrder)
    BY <1>1 DEF Init, ConfigMapComplete, Ordered
  <1>3. PICK meta \in ManualMetas : manual = Loaded(meta)
    BY DEF Init
  <1>4. meta \in GroupedMetas
    BY ContentsAssumption, CompleteMeta DEF FilesComplete
  <1>5. ManualComplete(manual, manualOverrides)
    BY <1>3, <1>4 DEF Init, ManualComplete, Loaded, GroupedMetas, FilesComplete
  <1>6. published.apps = <<>>
    BY DEF Init, NothingPublished
  <1>7. QED
    BY <1>2, <1>5, <1>6 DEF ConfigInv
--------------------------------------------------------------------------------
\* A module whose version semver accepts and that has a main entry.
IsReadable(module) == IsModule(module) /\ module.version # BadVersion /\ module.hasMain

ReadableList(modules) ==
    IsList(modules) /\ \A i \in DOMAIN modules : IsReadable(modules[i])

\* A package of one of the uids, and packages of them by their ids.
IsPackage(package, uids) == package.uid \in uids /\ IsReadable(package.module)

ArePackages(packages, uids) ==
    /\ IsFiniteSet(DOMAIN packages)
    /\ \A id \in DOMAIN packages :
        /\ IsPackage(packages[id], uids)
        /\ id = PackageId(packages[id])

\* A package list whose services with modules have these uids.
IsPackageList(list, uids) ==
    /\ IsList(list)
    /\ \A i \in DOMAIN list :
        /\ ReadableList(list[i].modules)
        /\ list[i].modules # <<>> => list[i].uid \in uids

(* The modules of all the services, each with the uid of its own.          *)
LEMMA ModulesIn ==
    ASSUME NEW list, NEW uids, IsPackageList(list, uids)
    PROVE  /\ Len(Modules(list)) \in Nat
           /\ DOMAIN Modules(list) = 1..Len(Modules(list))
           /\ \A k \in 1..Len(Modules(list)) : IsPackage(Modules(list)[k], uids)
  <1> DEFINE part(i) == [j \in DOMAIN list[i].modules |->
                            [module |-> list[i].modules[j], uid |-> list[i].uid]]
             parts == [i \in DOMAIN list |-> part(i)]
             E == UNION {{part(i)[j] : j \in DOMAIN list[i].modules} : i \in DOMAIN list}
  <1>1. Modules(list) = FlattenSeq(parts)
    BY Zenon DEF Modules
  <1>2. DOMAIN list = 1..Len(list) /\ Len(list) \in Nat
    BY DEF IsPackageList, IsList
  <1>3. ASSUME NEW i \in DOMAIN list PROVE part(i) \in Seq(E)
    <2> DEFINE m == Len(list[i].modules)
    <2>1. m \in Nat /\ DOMAIN list[i].modules = 1..m
      BY DEF IsPackageList, ReadableList, IsList
    <2>2. \A j \in 1..m : part(i)[j] \in E
      BY <2>1
    <2>3. part(i) = [j \in 1..m |-> part(i)[j]]
      BY <2>1
    <2> HIDE DEF part, m, E
    <2>4. QED
      BY <2>1, <2>2, <2>3
  <1>4. ASSUME NEW e \in E PROVE IsPackage(e, uids)
    <2>1. PICK i \in DOMAIN list : \E j \in DOMAIN list[i].modules : e = part(i)[j]
      OBVIOUS
    <2>2. PICK j \in DOMAIN list[i].modules : e = part(i)[j]
      BY <2>1
    <2>3. e.module = list[i].modules[j] /\ e.uid = list[i].uid
      BY <2>2
    <2>4. list[i].modules # <<>>
      <3>1. j \notin {}
        OBVIOUS
      <3>2. DOMAIN <<>> = {}
        OBVIOUS
      <3>3. QED
        BY <3>2
    <2>5. QED
      BY <2>3, <2>4 DEF IsPackageList, ReadableList, IsPackage
  <1> HIDE DEF part, E
  <1>5. parts \in Seq(Seq(E))
    <2>1. parts \in [1..Len(list) -> Seq(E)]
      BY <1>2, <1>3
    <2>2. QED
      BY <1>2, <2>1
  <1> HIDE DEF parts
  <1>6. Modules(list) \in Seq(E)
    BY <1>1, <1>5, Flattened
  <1>7. QED
    BY <1>4, <1>6

(* Of the modules with one id, one is kept.                                *)
LEMMA PackagesIn ==
    ASSUME NEW list, NEW uids, IsPackageList(list, uids)
    PROVE  ArePackages(MergePackageList(list), uids)
  <1> DEFINE all == Modules(list)
             n == Len(all)
             ids == {PackageId(e) : e \in ToSet(all)}
             last(id) == SelectLastInSeq(all, LAMBDA e : PackageId(e) = id)
             packages == MergePackageList(list)
  <1>1. n \in Nat /\ DOMAIN all = 1..n /\ \A k \in 1..n : IsPackage(all[k], uids)
    BY ModulesIn
  <1>2. packages = [id \in ids |-> all[last(id)]]
    BY Zenon DEF MergePackageList
  <1> HIDE DEF all, n
  <1>3. ids = {PackageId(all[k]) : k \in 1..n}
    BY <1>1 DEF ToSet
  <1>4. ASSUME NEW id \in ids PROVE last(id) \in 1..n /\ PackageId(all[last(id)]) = id
    <2> DEFINE found == {k \in 1..n : PackageId(all[k]) = id}
    <2>1. last(id) = IF found # {} THEN Max(found) ELSE 0
      BY Zenon DEF SelectLastInSeq, n
    <2>2. found # {} /\ found \in SUBSET (1..n)
      BY <1>3
    <2>3. Max(found) \in found
      <3> HIDE DEF found
      <3>1. QED
        BY <1>1, <2>2, MaxPosition
    <2>4. QED
      BY <2>1, <2>2, <2>3
  <1>5. IsFiniteSet(ids)
    <2>1. IsFiniteSet(1..n)
      <3>1. n \in Int /\ 1 \in Int
        BY <1>1
      <3>2. QED
        BY <3>1, FS_Interval
    <2> DEFINE f == [k \in 1..n |-> PackageId(all[k])]
    <2>2. f \in Surjection(1..n, ids)
      BY <1>3 DEF Surjection
    <2>3. QED
      BY <2>1, <2>2, FS_Surjection
  <1> HIDE DEF ids, last, packages
  <1>6. DOMAIN packages = ids /\ \A id \in ids : packages[id] = all[last(id)]
    BY <1>2
  <1>7. \A id \in ids : IsPackage(packages[id], uids) /\ id = PackageId(packages[id])
    BY <1>1, <1>4, <1>6
  <1>8. ArePackages(packages, uids)
    BY <1>5, <1>6, <1>7 DEF ArePackages
  <1>9. QED
    BY <1>8 DEF packages

(* Readable packages are ordered by their versions, and never malformed.   *)
LEMMA PackagesReadable ==
    ASSUME NEW packages, NEW uids, ArePackages(packages, uids)
    PROVE  /\ \A id \in DOMAIN packages :
                /\ id = <<id[1], id[2]>> /\ id[2] \in Nat /\ id[2] # BadVersion
                /\ packages[id].uid \in uids
           /\ ~Malformed(packages)
  <1>1. ASSUME NEW id \in DOMAIN packages
        PROVE  /\ id = <<id[1], id[2]>> /\ id[2] \in Nat /\ id[2] # BadVersion
               /\ packages[id].uid \in uids /\ packages[id].module.hasMain
    <2>1. IsPackage(packages[id], uids) /\ id = PackageId(packages[id])
      BY DEF ArePackages
    <2>2. id = <<packages[id].module.name, packages[id].module.version>>
      BY <2>1 DEF PackageId
    <2>3. id[1] = packages[id].module.name /\ id[2] = packages[id].module.version
      BY <2>2
    <2>4. id = <<id[1], id[2]>>
      BY <2>2, <2>3
    <2>5. QED
      BY <2>1, <2>3, <2>4 DEF IsPackage, IsReadable, IsModule
  <1>2. QED
    BY <1>1 DEF Malformed

(* Every import leads to one of the packages.                              *)
LEMMA ImportsIn ==
    ASSUME NEW packages, NEW uids, ArePackages(packages, uids)
    PROVE  \A key \in DOMAIN Imports(packages) : Imports(packages)[key][1] \in uids
  <1> DEFINE K == DOMAIN packages
             rank == [id \in K |-> id[2]]
             links == {Url(packages[id]) : id \in K}
             keys == K \cup {<<id[1]>> : id \in K}
             S == UNION {[D -> links] : D \in SUBSET keys}
             order == CHOOSE f \in SetToSeqs(K) : InVersionOrder(f)
             n == Cardinality(K)
  <1>1. IsFiniteSet(K) /\ rank \in [K -> Nat]
    BY PackagesReadable DEF ArePackages
  <1>2. PICK f : IsSorting(f, K, rank)
    <2> HIDE DEF K, rank
    <2>1. QED
      BY <1>1, SortingExists
  <1>3. f \in SetToSeqs(K) /\ InVersionOrder(f)
    <2>1. /\ f \in [1..n -> K]
          /\ \A i, j \in 1..n : i # j => f[i] # f[j]
          /\ \A i, j \in 1..n : i < j => rank[f[i]] <= rank[f[j]]
      BY <1>2, Zenon DEF IsSorting
    <2>2. f \in SetToSeqs(K)
      BY <2>1, Zenon DEF SetToSeqs
    <2>3. DOMAIN f = 1..n /\ \A i \in 1..n : rank[f[i]] = f[i][2]
      BY <2>1
    <2>4. QED
      BY <2>1, <2>2, <2>3 DEF InVersionOrder
  <1>4. order \in SetToSeqs(K)
    BY <1>3
  <1>5. Imports(packages) = ImportAll(packages, order)
    BY Zenon DEF Imports
  <1> HIDE DEF order, n
  <1>6. n \in Nat /\ DOMAIN order = 1..n /\ \A i \in 1..n : order[i] \in K
    <2>1. order \in [1..n -> K]
      BY <1>4, Zenon DEF SetToSeqs, n
    <2>2. n \in Nat
      BY <1>1, FS_CardinalityType DEF n
    <2>3. QED
      BY <2>1, <2>2
  <1>7. NoEntries \in S
    <2>1. NoEntries \in [{} -> links] /\ {} \in SUBSET keys
      BY DEF NoEntries
    <2> HIDE DEF links, keys
    <2>2. QED
      BY <2>1
  <1>8. ASSUME NEW s \in S, NEW id \in K PROVE AddImport(s, id, packages[id]) \in S
    <2>1. PICK D \in SUBSET keys : s \in [D -> links]
      OBVIOUS
    <2> DEFINE D2 == D \cup {<<id[1]>>, id}
    <2>2. D2 \in SUBSET keys /\ Url(packages[id]) \in links
      OBVIOUS
    <2> HIDE DEF keys, links
    <2>3. AddImport(s, id, packages[id]) \in [D2 -> links]
      BY <2>1, <2>2 DEF AddImport
    <2>4. QED
      BY <2>2, <2>3
  <1> HIDE DEF S
  <1>9. ImportAll(packages, order) \in S
    <2>1. \A s \in S, i \in 1..n : AddImport(s, order[i], packages[order[i]]) \in S
      BY <1>6, <1>8
    <2>2. QED
      BY <1>6, <1>7, <2>1, ImportsFold
  <1>10. PICK D \in SUBSET keys : Imports(packages) \in [D -> links]
    BY <1>5, <1>9 DEF S
  <1>11. \A link \in links : link[1] \in uids
    BY PackagesReadable DEF Url
  <1>12. QED
    BY <1>10, <1>11

(* A version that can be resolved is that of one of the packages.          *)
LEMMA ResolvedVersionIn ==
    ASSUME NEW packages, NEW uids, ArePackages(packages, uids), NEW name, NEW range,
           Resolvable(name, range, packages)
    PROVE  ResolveVersion(name, range, packages).uid \in uids
  <1>1. CASE \E v \in range : range = {v} /\ <<name, v>> \in DOMAIN packages
    <2>1. PICK v \in range : range = {v} /\ <<name, v>> \in DOMAIN packages
      BY <1>1
    <2>2. (CHOOSE w \in range : TRUE) = v
      BY <2>1
    <2>3. ResolveVersion(name, range, packages) = packages[<<name, v>>]
      BY <1>1, <2>2, Zenon DEF ResolveVersion
    <2>4. QED
      BY <2>1, <2>3, PackagesReadable
  <1>2. CASE ~\E v \in range : range = {v} /\ <<name, v>> \in DOMAIN packages
    <2> DEFINE fitting == Satisfying(name, range, packages)
               versions == {id[2] : id \in fitting}
    <2>1. fitting # {} /\ fitting \subseteq DOMAIN packages /\ \A id \in fitting : id[1] = name
      BY <1>2 DEF Resolvable, Satisfying
    <2> HIDE DEF fitting
    <2>2. versions \subseteq Nat /\ versions # {}
      BY <2>1, PackagesReadable
    <2>3. IsFiniteSet(versions)
      <3>1. IsFiniteSet(fitting)
        BY <2>1, FS_Subset DEF ArePackages
      <3> DEFINE f == [id \in fitting |-> id[2]]
      <3>2. f \in Surjection(fitting, versions)
        BY DEF Surjection
      <3>3. QED
        BY <3>1, <3>2, FS_Surjection
    <2>4. Max(versions) \in versions
      <3> HIDE DEF versions
      <3>1. QED
        BY <2>2, <2>3, LargestElement
    <2>5. PICK id \in fitting : id[2] = Max(versions)
      BY <2>4
    <2>6. id = <<name, Max(versions)>> /\ id \in DOMAIN packages
      BY <2>1, <2>5, PackagesReadable
    <2>7. ResolveVersion(name, range, packages) = packages[<<name, Max(versions)>>]
      BY <1>2, Zenon DEF ResolveVersion, fitting
    <2>8. QED
      BY <2>6, <2>7, PackagesReadable
  <1>3. QED
    BY <1>1, <1>2

(* Every entry of a scope leads to one of the packages as well.            *)
LEMMA ScopesIn ==
    ASSUME NEW packages, NEW uids, ArePackages(packages, uids)
    PROVE  \A url \in DOMAIN Scopes(packages) : \A name \in DOMAIN Scopes(packages)[url] :
              Scopes(packages)[url][name][1] \in uids
  <1> DEFINE scopes == Scopes(packages)
             dependent == {id \in DOMAIN packages : DOMAIN packages[id].module.deps # {}}
             pick(url) == CHOOSE id \in dependent : Url(packages[id]) = url
  <1> SUFFICES ASSUME NEW url \in DOMAIN scopes, NEW name \in DOMAIN scopes[url]
               PROVE  scopes[url][name][1] \in uids
    OBVIOUS
  <1>1. scopes = [u \in {Url(packages[id]) : id \in dependent} |->
                    Scope(packages[pick(u)], packages)]
    BY Zenon DEF Scopes
  <1>2. url \in {Url(packages[id]) : id \in dependent}
    BY <1>1
  <1>3. scopes[url] = Scope(packages[pick(url)], packages)
    BY <1>1, <1>2
  <1> DEFINE package == packages[pick(url)]
             deps == package.module.deps
             found == {m \in DOMAIN deps : Resolvable(m, deps[m], packages)}
  <1> HIDE DEF pick, package
  <1>4. scopes[url] = [m \in found |-> Url(ResolveVersion(m, deps[m], packages))]
    BY <1>3, Zenon DEF Scope, package
  <1> HIDE DEF scopes, deps
  <1>5. name \in found /\ scopes[url][name] = Url(ResolveVersion(name, deps[name], packages))
    BY <1>4
  <1>6. ResolveVersion(name, deps[name], packages).uid \in uids
    BY <1>5, ResolvedVersionIn
  <1>7. QED
    BY <1>5, <1>6 DEF Url

\* Every link of an import map leads to one of the uids.
LeadsTo(map, uids) ==
    /\ \A key \in DOMAIN map.imports : map.imports[key][1] \in uids
    /\ \A url \in DOMAIN map.scopes : \A name \in DOMAIN map.scopes[url] :
           map.scopes[url][name][1] \in uids

(* The import map of readable packages never throws and leads to their     *)
(* uids only.                                                              *)
LEMMA ImportMapIn ==
    ASSUME NEW list, NEW uids, IsPackageList(list, uids)
    PROVE  /\ CalculateImportMap(list).threw = FALSE
           /\ LeadsTo(CalculateImportMap(list).map, uids)
  <1> DEFINE packages == MergePackageList(list)
  <1>1. ArePackages(packages, uids)
    BY PackagesIn
  <1> HIDE DEF packages
  <1>2. ~Malformed(packages)
    BY <1>1, PackagesReadable
  <1>3. CalculateImportMap(list) =
          [threw |-> FALSE, map |-> [imports |-> Imports(packages), scopes |-> Scopes(packages)]]
    BY <1>2, Zenon DEF CalculateImportMap, packages
  <1>4. QED
    BY <1>1, <1>3, ImportsIn, ScopesIn DEF LeadsTo

--------------------------------------------------------------------------------
\* The uids whose modules a package map holds.
ModuleUids(map) == {<<m, map[m].rev>> : m \in {k \in KnownIn(map) : map[k].modules # <<>>}}

\* The package map and its order hold readable modules of uids that answer.
PackageMapComplete(map, order) ==
    /\ Ordered(order, KnownIn(map))
    /\ \A n \in Names : ReadableList(map[n].modules)
    /\ ModuleUids(map) \subseteq HasProtocol

\* The import map leads to modules of the package map, and nowhere else.
ImportInv ==
    /\ PackageMapComplete(packageMap, packageOrder)
    /\ LeadsTo(importMap, ModuleUids(packageMap))

(* updateImportMap never throws on a complete package map.                 *)
LEMMA UpdateImportMapIn ==
    ASSUME NEW pMap, NEW pOrder, PackageMapComplete(pMap, pOrder), UpdateImportMap(pMap, pOrder)
    PROVE  LeadsTo(importMap', ModuleUids(pMap))
  <1> DEFINE list == PackageList(pMap, pOrder)
             calculated == CalculateImportMap(list)
  <1>1. pOrder \in Seq(Names) /\ Len(pOrder) \in Nat /\ DOMAIN pOrder = 1..Len(pOrder)
        /\ \A i \in 1..Len(pOrder) : pOrder[i] \in KnownIn(pMap)
    BY DEF PackageMapComplete, Ordered
  <1>2. list = [i \in 1..Len(pOrder) |->
                   [name |-> pOrder[i], uid |-> <<pOrder[i], pMap[pOrder[i]].rev>>,
                    modules |-> pMap[pOrder[i]].modules]]
    BY <1>1 DEF PackageList
  <1>3. IsList(list)
    <2> DEFINE n == Len(pOrder)
    <2>1. n \in Nat /\ DOMAIN list = 1..n
      BY <1>1, <1>2
    <2>2. list \in Seq({list[i] : i \in 1..n})
      <3>1. list = [i \in 1..n |-> list[i]]
        BY <1>2
      <3> HIDE DEF list, n
      <3>2. QED
        BY <2>1, <3>1
    <2> HIDE DEF list, n
    <2>3. Len(list) \in Nat /\ DOMAIN list = 1..Len(list)
      BY <2>2
    <2>4. QED
      BY <2>3 DEF IsList
  <1>4. ASSUME NEW i \in DOMAIN list
        PROVE  /\ ReadableList(list[i].modules)
               /\ list[i].modules # <<>> => list[i].uid \in ModuleUids(pMap)
    <2>1. i \in 1..Len(pOrder)
      BY <1>2
    <2>2. pOrder[i] \in KnownIn(pMap) /\ pOrder[i] \in Names
      BY <1>1, <2>1 DEF KnownIn
    <2>3. list[i].modules = pMap[pOrder[i]].modules
          /\ list[i].uid = <<pOrder[i], pMap[pOrder[i]].rev>>
      BY <1>2, <2>1
    <2> HIDE DEF list
    <2>4. QED
      BY <2>2, <2>3 DEF PackageMapComplete, ModuleUids
  <1> HIDE DEF list
  <1>5. IsPackageList(list, ModuleUids(pMap))
    BY <1>3, <1>4 DEF IsPackageList
  <1>6. calculated.threw = FALSE /\ LeadsTo(calculated.map, ModuleUids(pMap))
    BY <1>5, ImportMapIn
  <1>7. importMap' = IF calculated.threw THEN importMap ELSE calculated.map
    BY Zenon DEF UpdateImportMap, list
  <1>8. QED
    BY <1>6, <1>7

(* An entry that is written or deleted leaves the package map complete.    *)
LEMMA PackagesWritten ==
    ASSUME NEW n \in Names, PackageMapComplete(packageMap, packageOrder), EntryForEveryName,
           NEW entry, IsKnown(entry), ReadableList(entry.modules),
           entry.modules # <<>> => <<n, entry.rev>> \in HasProtocol
    PROVE  PackageMapComplete([packageMap EXCEPT ![n] = entry],
                              AppendNew(packageOrder, packageMap, n))
  <1> DEFINE pMap == [packageMap EXCEPT ![n] = entry]
  <1>1. pMap[n] = entry /\ \A m \in Names \ {n} : pMap[m] = packageMap[m]
    BY DEF EntryForEveryName
  <1> HIDE DEF pMap
  <1>2. KnownIn(pMap) = KnownIn(packageMap) \cup {n}
    BY <1>1 DEF KnownIn
  <1>3. Ordered(AppendNew(packageOrder, packageMap, n), KnownIn(pMap))
    BY <1>2, AppendNewOrdered DEF PackageMapComplete
  <1>4. \A m \in Names : ReadableList(pMap[m].modules)
    BY <1>1 DEF PackageMapComplete
  <1>5. ASSUME NEW m \in KnownIn(pMap), pMap[m].modules # <<>>
        PROVE  <<m, pMap[m].rev>> \in HasProtocol
    <2>1. CASE m = n
      BY <1>1, <1>5, <2>1
    <2>2. CASE m # n
      <3>1. m \in KnownIn(packageMap) /\ pMap[m] = packageMap[m]
        BY <1>1, <1>2, <2>2 DEF KnownIn
      <3>2. QED
        BY <1>5, <3>1 DEF PackageMapComplete, ModuleUids
    <2>3. QED
      BY <2>1, <2>2
  <1>6. ModuleUids(pMap) \subseteq HasProtocol
    BY <1>5 DEF ModuleUids
  <1>7. PackageMapComplete(pMap, AppendNew(packageOrder, packageMap, n))
    BY <1>3, <1>4, <1>6 DEF PackageMapComplete
  <1>8. QED
    BY <1>7 DEF pMap

(* So does one that is deleted.                                            *)
LEMMA PackagesDeleted ==
    ASSUME NEW n \in Names, PackageMapComplete(packageMap, packageOrder), EntryForEveryName
    PROVE  PackageMapComplete([packageMap EXCEPT ![n] = NoPackages], Without(packageOrder, n))
  <1> DEFINE pMap == [packageMap EXCEPT ![n] = NoPackages]
  <1>1. pMap[n] = NoPackages /\ \A m \in Names \ {n} : pMap[m] = packageMap[m]
    BY DEF EntryForEveryName
  <1> HIDE DEF pMap
  <1>2. ~IsKnown(NoPackages) /\ ReadableList(NoPackages.modules)
    BY DEF IsKnown, NoPackages, ReadableList, IsList
  <1>3. KnownIn(pMap) = KnownIn(packageMap) \ {n}
    BY <1>1, <1>2 DEF KnownIn
  <1>4. Ordered(Without(packageOrder, n), KnownIn(pMap))
    BY <1>3, WithoutOrdered DEF PackageMapComplete
  <1>5. \A m \in Names : ReadableList(pMap[m].modules)
    BY <1>1, <1>2 DEF PackageMapComplete
  <1>6. ModuleUids(pMap) \subseteq ModuleUids(packageMap)
    <2>1. ASSUME NEW m \in KnownIn(pMap)
          PROVE  m \in KnownIn(packageMap) /\ pMap[m] = packageMap[m]
      BY <1>1, <1>3 DEF KnownIn
    <2>2. QED
      BY <2>1 DEF ModuleUids
  <1>7. PackageMapComplete(pMap, Without(packageOrder, n))
    BY <1>4, <1>5, <1>6 DEF PackageMapComplete
  <1>8. QED
    BY <1>7 DEF pMap

(* The package list of a service gets into memory when it can be read.     *)
LEMMA PackagesStored ==
    ASSUME ImportInv, EntryForEveryName, NEW n \in Names, services[n] # NotAnnounced,
           NEW modules, ReadableList(modules),
           modules # <<>> => <<n, services[n]>> \in HasProtocol,
           StorePackages(n, modules)
    PROVE  ImportInv'
  <1> DEFINE entry == [rev |-> services[n], modules |-> modules]
  <1>1. IsKnown(entry) /\ entry.modules = modules /\ entry.rev = services[n]
    BY DEF IsKnown
  <1>2. /\ packageMap' = [packageMap EXCEPT ![n] = entry]
        /\ packageOrder' = AppendNew(packageOrder, packageMap, n)
        /\ UpdateImportMap(packageMap', packageOrder')
    BY DEF StorePackages
  <1> HIDE DEF entry
  <1>3. PackageMapComplete(packageMap', packageOrder')
    BY <1>1, <1>2, PackagesWritten DEF ImportInv
  <1>4. QED
    BY <1>2, <1>3, UpdateImportMapIn DEF ImportInv

(* Only readable packages get into memory, and into the import map; a      *)
(* deletion calculates it anew, since updateConfig has not thrown before.  *)
LEMMA ImportStep ==
    ASSUME FilesComplete, ImportInv, ConfigInv, EntryForEveryName, NoServiceForgotten,
           [Next]_vars
    PROVE  ImportInv'
  <1>1. ASSUME NEW n \in Names, DeleteService(n) PROVE ImportInv'
    <2> DEFINE cMap == [configMap EXCEPT ![n] = NoConfig]
               cOrder == Without(configOrder, n)
    <2>1. UpdateConfig(cMap, cOrder, manual, manualOverrides)
      BY <1>1, Zenon DEF DeleteService
    <2>2. ConfigMapComplete(cMap, cOrder)
      BY EntryDeleted DEF ConfigInv
    <2> HIDE DEF cMap, cOrder
    <2>3. ~GroupMappingThrows(cMap, cOrder, manual, manualOverrides)
      BY <2>1, <2>2, UpdateConfigIn DEF ConfigInv
    <2>4. /\ packageMap' = [packageMap EXCEPT ![n] = NoPackages]
          /\ packageOrder' = Without(packageOrder, n)
          /\ UpdateImportMap(packageMap', packageOrder')
      BY <1>1, <2>3, Zenon DEF DeleteService, cMap, cOrder
    <2>5. PackageMapComplete(packageMap', packageOrder')
      BY <2>4, PackagesDeleted DEF ImportInv
    <2>6. QED
      BY <2>4, <2>5, UpdateImportMapIn DEF ImportInv
  <1>2. ASSUME NEW n \in Names, NEW content \in Revisions, FetchPackages(n, content)
        PROVE  ImportInv'
    <2> DEFINE modules == ModulesOf[<<n, content>>]
    <2>1. /\ <<n, services[n]>> \in HasProtocol /\ content \in Serves[<<n, services[n]>>]
          /\ StorePackages(n, modules)
      BY <1>2 DEF FetchPackages
    <2>2. <<n, content>> \in Uids /\ services[n] # NotAnnounced
      BY <2>1, ContentsAssumption, DiscoveryAssumption
    <2>3. ReadableList(modules)
      BY <2>2, ContentsAssumption DEF FilesComplete, ModulesReadable, ReadableList, IsReadable
    <2> HIDE DEF modules
    <2>4. QED
      BY <2>1, <2>2, <2>3, PackagesStored
  <1>3. ASSUME NEW n \in Names, PackageFetchGivesUp(n) PROVE ImportInv'
    <2>1. loops[n].package /\ StorePackages(n, <<>>)
      BY <1>3 DEF PackageFetchGivesUp
    <2>2. services[n] # NotAnnounced
      BY <2>1 DEF NoServiceForgotten, FL!NoServiceForgotten, FL!Announced, FL!NoLoop
    <2>3. ReadableList(<<>>)
      BY DEF ReadableList, IsList
    <2>4. QED
      BY <2>1, <2>2, <2>3, PackagesStored
  <1>4. ASSUME UNCHANGED <<packageVars, importMap>> PROVE ImportInv'
    BY <1>4 DEF packageVars, ImportInv
  <1>5. QED
    BY <1>1, <1>2, <1>3, <1>4
    DEF Next, ServiceEvent, ConfigAnswer, PackageAnswer, AddService, ModifyService,
        ForceUpdateService, EmitService, FetchConfig, PackageFetchFails,
        ManualConfigChanged, ManualOverridesChanged, vars

(* It starts with no packages and an empty import map.                     *)
LEMMA ImportInit == Init => ImportInv
  <1> SUFFICES ASSUME Init PROVE ImportInv
    OBVIOUS
  <1>1. KnownIn(packageMap) = {} /\ ReadableList(NoPackages.modules)
        /\ \A n \in Names : packageMap[n] = NoPackages
    BY DEF Init, KnownIn, IsKnown, NoPackages, ReadableList, IsList
  <1>2. PackageMapComplete(packageMap, packageOrder)
    BY <1>1 DEF Init, PackageMapComplete, Ordered, ModuleUids
  <1>3. LeadsTo(importMap, ModuleUids(packageMap))
    BY DEF Init, LeadsTo, EmptyImportMap, NoEntries
  <1>4. QED
    BY <1>2, <1>3 DEF ImportInv

(* While all files are complete, what is published and imported stays that *)
(* of the entries of the config maps.                                      *)
LEMMA ContentsInvariant ==
    ASSUME FilesComplete
    PROVE  Spec => [](ConfigInv /\ ImportInv)
  <1>1. Init => ConfigInv /\ ImportInv
    BY ConfigInit, ImportInit
  <1>2. /\ ConfigInv /\ ImportInv /\ EntryForEveryName /\ CollectionTyped /\ NoServiceForgotten
        /\ [Next]_vars
        => (ConfigInv /\ ImportInv)'
    BY ConfigStep, ImportStep
  <1>3. QED
    BY <1>1, <1>2, EntriesStay, CollectionStaysTyped, NothingForgotten, PTL DEF Spec

(* An imported uid is that of an entry of the package map.                 *)
LEMMA ImportedFromPackageMap ==
    ASSUME ImportInv, NEW uid \in ImportedUids
    PROVE  uid \in ModuleUids(packageMap)
  BY DEF ImportedUids, ImportInv, LeadsTo

(* While all files are complete, nothing of a service that is gone is      *)
(* published or imported, whatever collided with it, was overridden, or    *)
(* was fetched, modified and refreshed in between.  The run Frozen shows   *)
(* that a file that is not complete can keep a deleted service published.  *)
THEOREM DeletedServicesLeave ==
    ASSUME FilesComplete
    PROVE  Spec => []DeletedServicesGone
  <1>1. ConfigInv /\ ImportInv /\ NoServiceForgotten => DeletedServicesGone
    <2> SUFFICES ASSUME ConfigInv, ImportInv, NoServiceForgotten PROVE DeletedServicesGone
      OBVIOUS
    <2>1. ASSUME NEW app \in ToSet(published.apps)
          PROVE  app.service = Manual \/ Announced(app.service)
      <3>1. app.service \in {Manual} \cup KnownIn(configMap)
        <4> DEFINE served == ServedApps({Manual} \cup KnownIn(configMap))
        <4>1. published.apps \in Seq(served)
          BY DEF ConfigInv
        <4>2. app \in served
          <5> HIDE DEF served
          <5>1. QED
            BY <4>1 DEF ToSet
        <4>3. QED
          BY <4>2 DEF ServedApps
      <3>2. ASSUME NEW n \in KnownIn(configMap) PROVE Announced(n)
        BY DEF KnownIn, IsKnown, NoServiceForgotten, FL!NoServiceForgotten, FL!Announced,
               Announced, RevisionsIn
      <3>3. QED
        BY <3>1, <3>2
    <2>2. ASSUME NEW uid \in ImportedUids PROVE Announced(uid[1])
      <3>1. PICK n \in KnownIn(packageMap) : uid = <<n, packageMap[n].rev>>
        BY ImportedFromPackageMap DEF ModuleUids
      <3>2. Announced(n)
        BY DEF KnownIn, IsKnown, NoServiceForgotten, FL!NoServiceForgotten, FL!Announced,
               Announced, RevisionsIn
      <3>3. QED
        BY <3>1, <3>2
    <2>3. QED
      BY <2>1, <2>2 DEF DeletedServicesGone
  <1>2. QED
    BY <1>1, ContentsInvariant, NothingForgotten, PTL

(* While all files are complete, a module the import map sends a browser   *)
(* to can be fetched through the proxy, except while the package list of   *)
(* its service is being fetched anew.                                      *)
THEOREM ImportsAreServed ==
    ASSUME FilesComplete
    PROVE  Spec => []ImportMapServable
  <1>1. ImportInv /\ NoServiceForgotten /\ ProxyMirrorsCollection => ImportMapServable
    <2> SUFFICES ASSUME ImportInv, NoServiceForgotten, ProxyMirrorsCollection,
                        NEW uid \in ImportedUids, ~loops[uid[1]].package
                 PROVE  uid \in serviceMap
      BY DEF ImportMapServable
    <2>1. PICK n \in KnownIn(packageMap) : /\ packageMap[n].modules # <<>>
                                           /\ uid = <<n, packageMap[n].rev>>
      BY ImportedFromPackageMap DEF ModuleUids
    <2>2. n \in Names /\ Announced(n) /\ packageMap[n].rev = services[n]
      BY <2>1 DEF KnownIn, IsKnown, NoServiceForgotten, FL!NoServiceForgotten, FL!Announced,
                  Announced, RevisionsIn
    <2>3. uid \in HasProtocol
      BY <2>1 DEF ImportInv, PackageMapComplete, ModuleUids
    <2>4. QED
      BY <2>1, <2>2, <2>3 DEF ProxyMirrorsCollection
  <1>2. QED
    BY <1>1, ContentsInvariant, NothingForgotten, ProxyCorrect, PTL

--------------------------------------------------------------------------------
(* The app of the backend's own service through the merge: nothing but its *)
(* own service ever holds it, and once it is in the store it stays there.  *)
HoldsOwn(stores, name) ==
    /\ \A i \in 1..Len(stores.apps) : stores.apps[i].component.name = name =>
         stores.apps[i].source = OwnService /\ stores.apps[i].component.service = OwnService
    /\ \A i \in 1..Len(stores.manualApps) : stores.manualApps[i].name # name

IsStored(store, name) == \E i \in 1..Len(store) : store[i].component.name = name

\* Only the backend's own service declares it.
OnlyOwn(config, name) == Declares(config.meta.apps, name) => config.name = OwnService

(* A stored item takes the place of the one with its name; no name leaves  *)
(* the store.                                                              *)
LEMMA PutIs ==
    ASSUME NEW T, NEW store \in Seq(T), NEW item \in T
    PROVE  LET r == PutItem(store, item)
           IN  /\ \A i \in 1..Len(r) : r[i] = item \/ \E j \in 1..Len(store) : r[i] = store[j]
               /\ IsStored(r, item.component.name)
               /\ \A name : IsStored(store, name) => IsStored(r, name)
  <1> DEFINE at == StoreIndex(store, item.component.name)
             r == PutItem(store, item)
             n == Len(store)
  <1>1. at \in 0..n /\ (at # 0 => store[at].component.name = item.component.name)
    BY StoreIndexIn
  <1>2. r = IF at = 0 THEN Append(store, item) ELSE [store EXCEPT ![at] = item]
    BY DEF PutItem
  <1>3. n \in Nat
    OBVIOUS
  <1> HIDE DEF at, r
  <1>4. CASE at = 0
    <2>1. r = Append(store, item)
      BY <1>2, <1>4
    <2>2. Len(r) = n + 1 /\ r[n + 1] = item /\ \A i \in 1..n : r[i] = store[i]
      BY <2>1
    <2> HIDE DEF n
    <2>3. n + 1 \in 1..(n + 1) /\ \A i \in 1..(n + 1) : i \in 1..n \/ i = n + 1
      BY <1>3
    <2>4. \A i \in 1..n : i \in 1..(n + 1)
      BY <1>3
    <2>5. IsStored(r, item.component.name)
      BY <2>2, <2>3 DEF IsStored
    <2>6. \A name : IsStored(store, name) => IsStored(r, name)
      BY <2>2, <2>4 DEF IsStored, n
    <2>7. \A i \in 1..Len(r) : r[i] = item \/ \E j \in 1..n : r[i] = store[j]
      BY <2>2, <2>3
    <2>8. QED
      BY <2>5, <2>6, <2>7 DEF r, n
  <1>5. CASE at # 0
    <2>1. at \in 1..n
      BY <1>1, <1>3, <1>5
    <2>2. r = [store EXCEPT ![at] = item]
      BY <1>2, <1>5
    <2>3. Len(r) = n /\ r[at] = item /\ \A i \in 1..n : i # at => r[i] = store[i]
      BY <2>1, <2>2
    <2> HIDE DEF n
    <2>4. IsStored(r, item.component.name)
      BY <2>1, <2>3 DEF IsStored
    <2>5. ASSUME NEW name, IsStored(store, name) PROVE IsStored(r, name)
      <3>1. PICK j \in 1..n : store[j].component.name = name
        BY <2>5 DEF IsStored, n
      <3>2. r[j].component.name = name
        BY <1>1, <1>5, <2>3, <3>1
      <3>3. QED
        BY <2>3, <3>2 DEF IsStored
    <2>6. \A i \in 1..Len(r) : r[i] = item \/ \E j \in 1..n : r[i] = store[j]
      BY <2>3
    <2>7. QED
      BY <2>4, <2>5, <2>6 DEF r, n
  <1>6. QED
    BY <1>4, <1>5

(* The same in a list of entities.                                         *)
LEMMA PutByNameIs ==
    ASSUME NEW T, NEW list \in Seq(T), NEW entity \in T
    PROVE  \A i \in 1..Len(PutByName(list, entity)) :
              \/ PutByName(list, entity)[i] = entity
              \/ \E j \in 1..Len(list) : PutByName(list, entity)[i] = list[j]
  <1> DEFINE at == IndexOfName(list, entity.name)
             r == PutByName(list, entity)
             n == Len(list)
  <1>1. at \in 0..n /\ n \in Nat
    BY IndexIn
  <1>2. r = IF at = 0 THEN Append(list, entity) ELSE [list EXCEPT ![at] = entity]
    BY DEF PutByName
  <1> HIDE DEF at, r
  <1>3. CASE at = 0
    <2>1. r = Append(list, entity)
      BY <1>2, <1>3
    <2>2. Len(r) = n + 1 /\ r[n + 1] = entity /\ \A i \in 1..n : r[i] = list[i]
      BY <2>1
    <2> HIDE DEF n
    <2>3. \A i \in 1..(n + 1) : i \in 1..n \/ i = n + 1
      BY <1>1
    <2>4. QED
      BY <2>2, <2>3 DEF r, n
  <1>4. CASE at # 0
    <2>1. r = [list EXCEPT ![at] = entity] /\ at \in 1..n
      BY <1>1, <1>2, <1>4
    <2>2. Len(r) = n /\ r[at] = entity /\ \A i \in 1..n : i # at => r[i] = list[i]
      BY <2>1
    <2> HIDE DEF n
    <2>3. QED
      BY <2>2 DEF r, n
  <1>5. QED
    BY <1>3, <1>4

(* One app through the resolver: whoever wins a collision, the app of the  *)
(* backend's own service keeps its service and its place in the store.     *)
LEMMA OwnAdded ==
    ASSUME NEW sources, NEW stores \in Stores(sources), NEW app \in GroupedApps,
           NEW config, IsConfig(config, sources), OwnService # Manual,
           NEW name, HoldsOwn(stores, name), app.name = name => config.name = OwnService
    PROVE  LET r == AddApp(stores, app, config)
           IN  /\ r \in Stores(sources) /\ HoldsOwn(r, name)
               /\ IsStored(stores.apps, name) \/ app.name = name => IsStored(r.apps, name)
  <1> DEFINE resolved == ResolvedItem(stores.apps, app, config)
             item == UpdateItemToAbsoluteUrl(resolved, config)
             new == [component |-> app, source |-> config.name]
             at == StoreIndex(stores.apps, app.name)
             T == Items(ServedApps(sources), sources)
             put == PutItem(stores.apps, item)
             entity == WithoutService(item.component)
             r == AddApp(stores, app, config)
  <1>1. stores.apps \in Seq(T) /\ stores.manualApps \in Seq(GroupedApps)
        /\ config.name \in sources /\ config.base \in Urls \cup {NoBase}
    BY DEF Stores, IsConfig
  <1>2. resolved = IF at = 0 THEN new ELSE ResolveEntityByType(stores.apps[at], new)
    BY DEF ResolvedItem
  <1>3. at \in 0..Len(stores.apps) /\ (at # 0 => stores.apps[at].component.name = app.name)
    <2> HIDE DEF T
    <2>1. QED
      BY <1>1, StoreIndexIn
  <1> HIDE DEF at
  <1>4. \/ resolved = new
        \/ at # 0 /\ resolved = stores.apps[at]
    BY <1>2 DEF ResolveEntityByType
  <1>5. at # 0 => at \in 1..Len(stores.apps) /\ stores.apps[at] \in T
    BY <1>1, <1>3
  <1> HIDE DEF resolved
  <1>6. /\ resolved.component.name = app.name
        /\ app.name = name => resolved.source = OwnService
    BY <1>3, <1>4, <1>5 DEF HoldsOwn
  <1>7. /\ resolved.source \in sources
        /\ resolved.component.name \in EntityNames
        /\ resolved.component.type \in EntityTypes
        /\ resolved.component.url \in Urls
        /\ resolved.component.groups \in SUBSET GroupNames
    BY <1>1, <1>4, <1>5 DEF Items, ServedApps, GroupedApps
  <1>8. /\ item.source = resolved.source
        /\ item.component = [name |-> resolved.component.name, type |-> resolved.component.type,
              url |-> UpdateToAbsoluteUrl(resolved.component.url, config.base),
              groups |-> resolved.component.groups, service |-> resolved.source]
        /\ item = [component |-> item.component, source |-> item.source]
    BY <1>1, <1>4, <1>5 DEF UpdateItemToAbsoluteUrl, Items
  <1>9. UpdateToAbsoluteUrl(resolved.component.url, config.base) \in Urls
    BY <1>1, <1>7 DEF UpdateToAbsoluteUrl
  <1> HIDE DEF item
  <1>10. /\ item.component.name = app.name
         /\ item.component.service = item.source
         /\ app.name = name => item.source = OwnService
    BY <1>6, <1>8
  <1>11. item.component \in ServedApps(sources)
    BY <1>7, <1>8, <1>9 DEF ServedApps
  <1>12. item \in T
    BY <1>7, <1>8, <1>11 DEF Items
  <1>13. entity \in GroupedApps /\ entity.name = app.name
    BY <1>10, <1>11 DEF WithoutService, ServedApps, GroupedApps
  <1> HIDE DEF T, entity, put
  <1>14. /\ \A i \in 1..Len(put) : put[i] = item \/ \E j \in 1..Len(stores.apps) : put[i] = stores.apps[j]
         /\ IsStored(put, app.name)
         /\ IsStored(stores.apps, name) => IsStored(put, name)
    BY <1>1, <1>10, <1>12, PutIs DEF put
  <1>15. \A i \in 1..Len(put) : put[i].component.name = name =>
            put[i].source = OwnService /\ put[i].component.service = OwnService
    BY <1>10, <1>14 DEF HoldsOwn
  <1> DEFINE manualApps == IF item.source = Manual THEN PutByName(stores.manualApps, entity)
                           ELSE stores.manualApps
  <1>16. \A i \in 1..Len(manualApps) : manualApps[i].name # name
    <2>1. CASE item.source = Manual
      <3>1. app.name # name
        BY <1>10, <2>1
      <3>2. \A i \in 1..Len(PutByName(stores.manualApps, entity)) :
              \/ PutByName(stores.manualApps, entity)[i] = entity
              \/ \E j \in 1..Len(stores.manualApps) :
                    PutByName(stores.manualApps, entity)[i] = stores.manualApps[j]
        BY <1>1, <1>13, PutByNameIs
      <3>3. QED
        BY <1>13, <2>1, <3>1, <3>2 DEF HoldsOwn
    <2>2. CASE item.source # Manual
      BY <2>2 DEF HoldsOwn
    <2>3. QED
      BY <2>1, <2>2
  <1>17. r = PutApp(stores, item)
    BY DEF AddApp, item, resolved
  <1>18. r = [stores EXCEPT !.apps = put, !.manualApps = manualApps]
    BY <1>17 DEF PutApp, put, entity
  <1> HIDE DEF manualApps, r
  <1>19. r.apps = put /\ r.manualApps = manualApps
    BY <1>18 DEF Stores
  <1>20. r \in Stores(sources)
    BY AddAppIn DEF r
  <1>21. HoldsOwn(r, name)
    BY <1>15, <1>16, <1>19 DEF HoldsOwn
  <1>22. IsStored(stores.apps, name) \/ app.name = name => IsStored(r.apps, name)
    BY <1>14, <1>19
  <1>23. QED
    BY <1>20, <1>21, <1>22 DEF r

(* The apps of a configuration: its own app is stored.                     *)
LEMMA OwnAppsResolved ==
    ASSUME NEW sources, NEW stores \in Stores(sources), NEW config, IsConfig(config, sources),
           OwnService # Manual, NEW name, HoldsOwn(stores, name), OnlyOwn(config, name)
    PROVE  LET r == ResolveApps(stores, config)
           IN  /\ HoldsOwn(r, name)
               /\ IsStored(stores.apps, name) \/ Declares(config.meta.apps, name)
                    => IsStored(r.apps, name)
  <1> DEFINE items == config.meta.apps
             n == Len(items)
             S == {s \in Stores(sources) : HoldsOwn(s, name)}
  <1>1. items \in Seq(GroupedApps)
    BY DEF IsConfig, GroupedMetas
  <1>2. n \in Nat /\ DOMAIN items = 1..n /\ \A i \in 1..n : items[i] \in GroupedApps
    BY <1>1
  <1>3. \A i \in 1..n : items[i].name = name => config.name = OwnService
    BY <1>2 DEF OnlyOwn, Declares
  <1>4. ASSUME NEW s \in S, NEW i \in 1..n
        PROVE  /\ AddApp(s, items[i], config) \in S
               /\ IsStored(s.apps, name) \/ items[i].name = name
                    => IsStored(AddApp(s, items[i], config).apps, name)
    <2> DEFINE app == items[i]
    <2>1. app \in GroupedApps /\ (app.name = name => config.name = OwnService)
      BY <1>2, <1>3
    <2>2. s \in Stores(sources) /\ HoldsOwn(s, name)
      OBVIOUS
    <2> HIDE DEF app, S
    <2>3. /\ AddApp(s, app, config) \in Stores(sources) /\ HoldsOwn(AddApp(s, app, config), name)
          /\ IsStored(s.apps, name) \/ app.name = name
               => IsStored(AddApp(s, app, config).apps, name)
      BY <2>1, <2>2, OwnAdded
    <2>4. QED
      BY <2>3 DEF app, S
  <1>5. stores \in S
    OBVIOUS
  <1>6. \A s \in S, i \in 1..n : AddApp(s, config.meta.apps[i], config) \in S
    BY <1>4
  <1>7. DOMAIN config.meta.apps = 1..n
    BY <1>2
  <1> HIDE DEF n, S
  <1>8. PICK g : AppsRun(g, S, n, stores, config)
    BY <1>2, <1>5, <1>6, <1>7, AppsReached
  <1>9. /\ g \in [0..n -> S] /\ g[0] = stores
        /\ \A i \in 1..n : g[i] = AddApp(g[i - 1], items[i], config)
        /\ ResolveApps(stores, config) = g[n]
    BY <1>8 DEF AppsRun
  <1> HIDE DEF items
  <1>10. g[n] \in S
    BY <1>2, <1>9
  <1> DEFINE upto == {i \in 0..n : (IsStored(stores.apps, name) \/ \E j \in 1..i : items[j].name = name)
                                      => IsStored(g[i].apps, name)}
  <1>11. 0 \in upto
    BY <1>2, <1>9
  <1>12. ASSUME NEW i \in 0..n, i < n, i \in upto PROVE i + 1 \in upto
    <2>1. i + 1 \in 1..n /\ i + 1 \in 0..n /\ (i + 1) - 1 = i
      BY <1>2, <1>12
    <2>2. g[i] \in S /\ g[i + 1] = AddApp(g[i], items[i + 1], config)
      BY <1>9, <2>1
    <2>3. IsStored(g[i].apps, name) \/ items[i + 1].name = name => IsStored(g[i + 1].apps, name)
      BY <1>4, <2>1, <2>2
    <2>4. \A j \in 1..(i + 1) : j \in 1..i \/ j = i + 1
      BY <1>2
    <2>5. (IsStored(stores.apps, name) \/ \E j \in 1..i : items[j].name = name)
            => IsStored(g[i].apps, name)
      BY <1>12
    <2>6. (IsStored(stores.apps, name) \/ \E j \in 1..(i + 1) : items[j].name = name)
            => IsStored(g[i + 1].apps, name)
      BY <2>3, <2>4, <2>5
    <2>7. QED
      BY <2>1, <2>6
  <1>13. n \in upto
    <2> HIDE DEF upto
    <2>1. \A i \in 0..n : i \in upto
      BY <1>2, <1>11, <1>12, UpTo
    <2>2. QED
      BY <1>2, <2>1
  <1>14. Declares(items, name) <=> \E j \in 1..n : items[j].name = name
    BY <1>2 DEF Declares
  <1>15. QED
    BY <1>9, <1>10, <1>13, <1>14 DEF S, items

\* Configurations of these sources, of which only the own one declares the app.
OnlyOwnConfigs(configs, n, sources, name) ==
    /\ DOMAIN configs = 1..n
    /\ \A i \in 1..n : IsConfig(configs[i], sources) /\ OnlyOwn(configs[i], name)

\* The app in the merged lists, when one of the configurations declares it.
OwnAppIn(lists, configs, n, name) ==
    /\ \A i \in 1..Len(lists.apps) : lists.apps[i].name = name => lists.apps[i].service = OwnService
    /\ \A i \in 1..Len(lists.manualApps) : lists.manualApps[i].name # name
    /\ (\E i \in 1..n : Declares(configs[i].meta.apps, name)) =>
            \E i \in 1..Len(lists.apps) : lists.apps[i].name = name

(* The merge of configurations, one of which declares the app, has it.     *)
LEMMA OwnMerged ==
    ASSUME NEW sources, NEW configs, NEW n \in Nat, NEW name,
           OnlyOwnConfigs(configs, n, sources, name), OwnService # Manual
    PROVE  OwnAppIn(MergeConfigs(configs), configs, n, name)
  <1> DEFINE S == {s \in Stores(sources) : HoldsOwn(s, name)}
             merged == FoldLeft(ProcessConfig, EmptyStores, configs)
  <1>0. /\ DOMAIN configs = 1..n
        /\ \A i \in 1..n : IsConfig(configs[i], sources) /\ OnlyOwn(configs[i], name)
    BY DEF OnlyOwnConfigs
  <1>1. EmptyStores \in S
    <2>1. EmptyStores \in Stores(sources)
      BY DEF EmptyStores, Stores
    <2>2. HoldsOwn(EmptyStores, name)
      BY DEF EmptyStores, HoldsOwn
    <2>3. QED
      BY <2>1, <2>2
  <1>2. ASSUME NEW s \in S, NEW i \in 1..n
        PROVE  /\ ProcessConfig(s, configs[i]) \in S
               /\ IsStored(s.apps, name) \/ Declares(configs[i].meta.apps, name)
                    => IsStored(ProcessConfig(s, configs[i]).apps, name)
    <2> DEFINE config == configs[i]
               r == ResolveApps(s, config)
               p == ProcessConfig(s, config)
    <2>1. s \in Stores(sources) /\ HoldsOwn(s, name)
      OBVIOUS
    <2>2. IsConfig(config, sources) /\ OnlyOwn(config, name)
      BY <1>0
    <2> HIDE DEF S, config
    <2>3. /\ HoldsOwn(r, name)
          /\ IsStored(s.apps, name) \/ Declares(config.meta.apps, name) => IsStored(r.apps, name)
      BY <2>1, <2>2, OwnAppsResolved
    <2>4. r \in Stores(sources) /\ p \in Stores(sources)
      BY <2>1, <2>2, ResolveAppsIn, ProcessConfigIn
    <2>5. p.apps = r.apps /\ p.manualApps = r.manualApps
      <3>1. p = [r EXCEPT !.groups     = ResolveGroups(@, config),
                          !.components = ResolveComponents(@, config),
                          !.actions    = ResolveActions(@, config)]
        BY DEF ProcessConfig
      <3> HIDE DEF r, p
      <3>2. QED
        BY <2>4, <3>1 DEF Stores
    <2> HIDE DEF r, p
    <2>6. HoldsOwn(p, name)
      BY <2>3, <2>5 DEF HoldsOwn
    <2>7. QED
      BY <2>3, <2>4, <2>5, <2>6 DEF S, p, config
  <1>3. \A s \in S, i \in 1..n : ProcessConfig(s, configs[i]) \in S
    BY <1>2
  <1> HIDE DEF S
  <1>4. PICK g : ConfigsRun(g, S, n, configs)
    BY <1>0, <1>1, <1>3, ConfigsReached
  <1>5. /\ g \in [0..n -> S] /\ g[0] = EmptyStores
        /\ \A i \in 1..n : g[i] = ProcessConfig(g[i - 1], configs[i])
        /\ merged = g[n]
    BY <1>4 DEF ConfigsRun
  <1> DEFINE upto == {i \in 0..n : (\E j \in 1..i : Declares(configs[j].meta.apps, name))
                                      => IsStored(g[i].apps, name)}
  <1>6. 0 \in upto
    OBVIOUS
  <1>7. ASSUME NEW i \in 0..n, i < n, i \in upto PROVE i + 1 \in upto
    <2>1. i + 1 \in 1..n /\ i + 1 \in 0..n /\ (i + 1) - 1 = i
      BY <1>7
    <2>2. g[i] \in S /\ g[i + 1] = ProcessConfig(g[i], configs[i + 1])
      BY <1>5, <2>1
    <2>3. IsStored(g[i].apps, name) \/ Declares(configs[i + 1].meta.apps, name)
            => IsStored(g[i + 1].apps, name)
      BY <1>2, <2>1, <2>2
    <2>4. \A j \in 1..(i + 1) : j \in 1..i \/ j = i + 1
      OBVIOUS
    <2>5. (\E j \in 1..i : Declares(configs[j].meta.apps, name)) => IsStored(g[i].apps, name)
      BY <1>7
    <2>6. (\E j \in 1..(i + 1) : Declares(configs[j].meta.apps, name))
            => IsStored(g[i + 1].apps, name)
      BY <2>3, <2>4, <2>5
    <2>7. QED
      BY <2>1, <2>6
  <1>8. n \in upto
    <2> HIDE DEF upto
    <2>1. \A i \in 0..n : i \in upto
      BY <1>6, <1>7, UpTo
    <2>2. QED
      BY <2>1
  <1>9. merged \in S
    BY <1>5
  <1>10. MergeConfigs(configs) = ListsOf(merged)
    BY DEF MergeConfigs
  <1>11. (\E i \in 1..n : Declares(configs[i].meta.apps, name)) => IsStored(merged.apps, name)
    BY <1>5, <1>8
  <1> HIDE DEF merged
  <1>12. /\ merged.apps \in Seq(Items(ServedApps(sources), sources)) /\ HoldsOwn(merged, name)
    BY <1>9 DEF S, Stores
  <1>13. /\ DOMAIN merged.apps = 1..Len(merged.apps) /\ Len(merged.apps) \in Nat
    BY <1>12
  <1> DEFINE apps == Components(merged.apps)
  <1>14. Len(apps) = Len(merged.apps) /\ \A i \in 1..Len(merged.apps) : apps[i] = merged.apps[i].component
    BY <1>13 DEF Components
  <1> HIDE DEF apps
  <1>15. ListsOf(merged).apps = apps /\ ListsOf(merged).manualApps = merged.manualApps
    BY DEF ListsOf, apps
  <1>16. QED
    BY <1>10, <1>11, <1>12, <1>14, <1>15 DEF HoldsOwn, IsStored, OwnAppIn

(* Overrides and group mappings leave every app in its place, with its     *)
(* name and its service.                                                   *)
SameApps(list, sources) ==
    {kept \in Seq(ServedApps(sources)) :
        /\ Len(kept) = Len(list)
        /\ \A i \in 1..Len(list) : kept[i].name = list[i].name /\ kept[i].service = list[i].service}

(* An override knows no name and no service attribute.                     *)
LEMMA OverlayKeeps ==
    ASSUME NEW sources, NEW app \in ServedApps(sources), NEW override, IsAppOverride(override)
    PROVE  LET r == Overlay(app, override.attributes)
           IN  r.name = app.name /\ r.service = app.service
  <1> DEFINE given == override.attributes
             r == Overlay(app, given)
  <1>1. DOMAIN app = {"name", "type", "url", "groups", "service"}
    BY DEF ServedApps
  <1>2. "name" \notin DOMAIN given /\ "service" \notin DOMAIN given
    BY DEF IsAppOverride
  <1> HIDE DEF given
  <1>3. r = [f \in DOMAIN app \cup DOMAIN given |-> IF f \in DOMAIN given THEN given[f] ELSE app[f]]
    BY Zenon DEF Overlay
  <1> HIDE DEF r
  <1>4. r["name"] = app["name"] /\ r["service"] = app["service"]
    BY <1>1, <1>2, <1>3
  <1>5. QED
    BY <1>4 DEF r, given

(* So all the overrides keep the apps in their places.                     *)
LEMMA OverridesKeep ==
    ASSUME NEW sources, NEW list \in Seq(ServedApps(sources)),
           NEW overrides, IsList(overrides),
           \A i \in DOMAIN overrides : IsAppOverride(overrides[i])
    PROVE  OverrideList(list, overrides) \in SameApps(list, sources)
  <1> DEFINE n == Len(overrides)
             S == SameApps(list, sources)
  <1>1. n \in Nat /\ DOMAIN overrides = 1..n
    BY DEF IsList
  <1>2. ASSUME NEW s \in S, NEW i \in 1..n PROVE OverrideEntity(s, overrides[i]) \in S
    <2> DEFINE at == IndexOfName(s, overrides[i].name)
               T == ServedApps(sources)
               laid == Overlay(s[at], overrides[i].attributes)
               r == OverrideEntity(s, overrides[i])
    <2>1. /\ s \in Seq(T) /\ Len(s) = Len(list) /\ Len(s) \in Nat
          /\ \A j \in 1..Len(list) : s[j].name = list[j].name /\ s[j].service = list[j].service
      BY DEF SameApps
    <2>2. at \in 0..Len(s)
      BY <2>1, IndexIn
    <2>3. r = IF at = 0 THEN s ELSE [s EXCEPT ![at] = laid]
      BY DEF OverrideEntity
    <2> HIDE DEF at
    <2>4. CASE at = 0
      BY <2>3, <2>4
    <2>5. CASE at # 0
      <3>1. at \in 1..Len(s) /\ s[at] \in ServedApps(sources)
        BY <2>1, <2>2, <2>5
      <3>2. laid \in T /\ laid.name = s[at].name /\ laid.service = s[at].service
        BY <1>1, <3>1, OverlaidIn, OverlayKeeps
      <3>3. r = [s EXCEPT ![at] = laid]
        BY <2>3, <2>5
      <3> HIDE DEF T, laid, r
      <3>4. r \in Seq(T) /\ Len(r) = Len(s) /\ r[at] = laid
            /\ \A j \in 1..Len(s) : j # at => r[j] = s[j]
        BY <2>1, <3>1, <3>2, <3>3
      <3>5. \A j \in 1..Len(list) : r[j].name = list[j].name /\ r[j].service = list[j].service
        BY <2>1, <3>2, <3>4
      <3>6. QED
        BY <2>1, <3>4, <3>5 DEF SameApps, T, r
    <2>6. QED
      BY <2>4, <2>5
  <1>3. list \in S
    BY DEF SameApps
  <1> HIDE DEF n, S
  <1>4. OverrideList(list, overrides) \in S
    BY <1>1, <1>2, <1>3, OverridesFold
  <1>5. QED
    BY <1>4 DEF S

(* So does a group that is added to an app.                                *)
LEMMA AddOneGroupKeeps ==
    ASSUME NEW sources, NEW result, IsResult(result), NEW r \in Results(result, sources),
           NEW list, r.apps \in SameApps(list, sources), NEW group \in GroupNames, NEW appName
    PROVE  AddOneGroup(r, group, appName).apps \in SameApps(list, sources)
  <1> DEFINE at == IndexOfName(r.apps, appName)
             T == ServedApps(sources)
             apps == r.apps
             added == AddOneGroup(r, group, appName).apps
  <1>1. /\ apps \in Seq(T) /\ Len(apps) = Len(list) /\ Len(apps) \in Nat
        /\ \A j \in 1..Len(list) : apps[j].name = list[j].name /\ apps[j].service = list[j].service
    BY DEF SameApps
  <1>2. r.threw = FALSE /\ DOMAIN r = {"apps", "groups", "components", "actions", "manualApps", "threw"}
    BY DEF IsResult, Results
  <1>3. at \in 0..Len(apps)
    BY <1>1, IndexIn
  <1>4. CASE at = 0
    BY <1>4 DEF AddOneGroup
  <1>5. CASE at # 0
    <2> DEFINE grouped == [apps[at] EXCEPT !.groups = @ \cup {group}]
    <2>1. at \in 1..Len(apps) /\ apps[at] \in T
      BY <1>1, <1>3, <1>5
    <2>2. apps[at].groups \in SUBSET GroupNames
      BY <2>1 DEF ServedApps
    <2>3. apps[at].groups # NoGroups
      BY <2>2, ContentsAssumption
    <2>4. grouped \in T /\ grouped.name = apps[at].name /\ grouped.service = apps[at].service
      BY <2>1, <2>2 DEF ServedApps
    <2>5. AddOneGroup(r, group, appName) = [r EXCEPT !.apps[at].groups = @ \cup {group}]
      BY <1>2, <1>5, <2>3 DEF AddOneGroup
    <2>6. added = [apps EXCEPT ![at] = grouped]
      BY <1>2, <2>5
    <2> HIDE DEF grouped, T, at, apps, added
    <2>7. added \in Seq(T) /\ Len(added) = Len(apps) /\ added[at] = grouped
          /\ \A j \in 1..Len(apps) : j # at => added[j] = apps[j]
      BY <1>1, <2>1, <2>4, <2>6
    <2>8. \A j \in 1..Len(list) : added[j].name = list[j].name /\ added[j].service = list[j].service
      BY <1>1, <2>4, <2>7
    <2>9. QED
      BY <1>1, <2>7, <2>8 DEF SameApps, T, added
  <1>6. QED
    BY <1>4, <1>5

(* So do all the group mappings.                                           *)
LEMMA GroupsAddedKeep ==
    ASSUME NEW sources, NEW result, IsResult(result), result.apps \in Seq(ServedApps(sources)),
           NEW groupMappings \in Seq(GroupMappings)
    PROVE  AddGroupToApp(result, groupMappings).apps \in SameApps(result.apps, sources)
  <1> DEFINE n == Len(groupMappings)
             S == {r \in Results(result, sources) : r.apps \in SameApps(result.apps, sources)}
  <1>1. result \in S
    <2>1. result = [result EXCEPT !.apps = result.apps]
      BY DEF IsResult
    <2>2. result.apps \in SameApps(result.apps, sources)
      BY DEF SameApps
    <2>3. QED
      BY <2>1, <2>2 DEF Results
  <1>2. n \in Nat /\ DOMAIN groupMappings = 1..n
        /\ \A i \in 1..n : groupMappings[i] \in GroupMappings
    OBVIOUS
  <1>3. ASSUME NEW r \in S, NEW mapping \in GroupMappings PROVE AddGroup(r, mapping) \in S
    <2> DEFINE k == Len(mapping.apps)
    <2>1. mapping.group \in GroupNames /\ mapping.apps \in Seq(EntityNames)
      BY DEF GroupMappings
    <2>2. k \in Nat /\ DOMAIN mapping.apps = 1..k
      BY <2>1
    <2>3. \A q \in S, i \in 1..k : AddOneGroup(q, mapping.group, mapping.apps[i]) \in S
      BY <2>1, AddOneGroupIn, AddOneGroupKeeps
    <2> HIDE DEF k, S
    <2>4. QED
      BY <2>2, <2>3, MappedAppsFold
  <1>4. \A r \in S, i \in 1..n : AddGroup(r, groupMappings[i]) \in S
    BY <1>2, <1>3
  <1> HIDE DEF n, S
  <1>5. AddGroupToApp(result, groupMappings) \in S
    BY <1>1, <1>2, <1>4, MappingsFold
  <1>6. QED
    BY <1>5 DEF S

(* So the app is in what the whole calculation yields, under its service.  *)
LEMMA OwnCalculated ==
    ASSUME NEW sources, NEW configs, NEW n \in Nat, DOMAIN configs = 1..n,
           \A i \in 1..n : IsConfig(configs[i], sources), NEW ovr, IsOverridesFile(ovr),
           OwnService # Manual, NEW name, \A i \in 1..n : OnlyOwn(configs[i], name)
    PROVE  LET calculated == CalculateConfig(configs, ovr)
           IN  /\ \A i \in 1..Len(calculated.manualApps) : calculated.manualApps[i].name # name
               /\ (\E i \in 1..n : Declares(configs[i].meta.apps, name)) =>
                    \E app \in ToSet(calculated.apps) : app.service = OwnService
  <1> DEFINE merged == MergeConfigs(configs)
             result == OverrideConfig(merged, ovr.overrides)
             calculated == CalculateConfig(configs, ovr)
  <1>1. /\ merged.apps \in Seq(ServedApps(sources))
        /\ merged.manualApps \in Seq(GroupedApps)
        /\ merged.threw = FALSE
        /\ DOMAIN merged = {"apps", "groups", "components", "actions", "manualApps", "threw"}
    BY MergedIn
  <1>2. calculated = AddGroupToApp(result, ovr.groupMappings)
    BY DEF CalculateConfig
  <1>3. /\ \A i \in 1..Len(merged.apps) :
              merged.apps[i].name = name => merged.apps[i].service = OwnService
        /\ \A i \in 1..Len(merged.manualApps) : merged.manualApps[i].name # name
        /\ (\E i \in 1..n : Declares(configs[i].meta.apps, name)) =>
              \E i \in 1..Len(merged.apps) : merged.apps[i].name = name
    <2> HIDE DEF result, calculated
    <2>1. OnlyOwnConfigs(configs, n, sources, name)
      BY DEF OnlyOwnConfigs
    <2> HIDE DEF merged
    <2>2. OwnAppIn(MergeConfigs(configs), configs, n, name)
      BY <2>1, OwnMerged
    <2>3. QED
      BY <2>2 DEF OwnAppIn, merged
  <1> HIDE DEF merged
  <1>4. /\ result.apps = OverrideList(merged.apps, ovr.overrides.apps)
        /\ result.manualApps = merged.manualApps
        /\ IsResult(result)
    BY <1>1 DEF OverrideConfig, IsResult
  <1>5. result.apps \in SameApps(merged.apps, sources)
    BY <1>1, <1>4, OverridesKeep DEF IsOverridesFile
  <1>6. ovr.groupMappings \in Seq(GroupMappings) /\ result.apps \in Seq(ServedApps(sources))
    BY <1>5 DEF IsOverridesFile, SameApps
  <1> HIDE DEF result, calculated
  <1>7. calculated.apps \in SameApps(result.apps, sources)
    BY <1>2, <1>4, <1>6, GroupsAddedKeep
  <1>8. calculated.manualApps = merged.manualApps
    <2>1. AddGroupToApp(result, ovr.groupMappings) \in Results(result, sources)
      BY <1>4, <1>6, GroupsAddedIn
    <2>2. PICK apps : calculated = [result EXCEPT !.apps = apps]
      BY <1>2, <2>1 DEF Results
    <2>3. QED
      BY <1>4, <2>2 DEF IsResult
  <1>9. /\ calculated.apps \in Seq(ServedApps(sources)) /\ Len(calculated.apps) = Len(merged.apps)
        /\ \A i \in 1..Len(merged.apps) : calculated.apps[i].service = merged.apps[i].service
    BY <1>5, <1>7 DEF SameApps
  <1>10. ASSUME NEW i \in 1..n, Declares(configs[i].meta.apps, name)
         PROVE  \E app \in ToSet(calculated.apps) : app.service = OwnService
    <2>1. PICK j \in 1..Len(merged.apps) : merged.apps[j].service = OwnService
      BY <1>3, <1>10
    <2>2. calculated.apps[j].service = OwnService /\ j \in DOMAIN calculated.apps
      BY <1>9, <2>1
    <2>3. calculated.apps[j] \in ToSet(calculated.apps)
      BY <2>2 DEF ToSet
    <2>4. QED
      BY <2>2, <2>3
  <1>11. QED
    BY <1>3, <1>8, <1>10 DEF calculated

(* What is written back into the declared apps leaves them their names.    *)
LEMMA SharedDeclares ==
    ASSUME NEW declaredApps, NEW source, NEW calculated, NEW overrides, NEW name,
           declaredApps \in Seq(GroupedApps)
    PROVE  Declares(ShareGroups(declaredApps, source, calculated, overrides), name)
             <=> Declares(declaredApps, name)
  <1> DEFINE shared == ShareGroups(declaredApps, source, calculated, overrides)
             at(i) == IndexOfName(calculated.apps, declaredApps[i].name)
  <1>1. DOMAIN shared = DOMAIN declaredApps
    BY DEF ShareGroups
  <1>2. ASSUME NEW i \in DOMAIN declaredApps PROVE shared[i].name = declaredApps[i].name
    <2>1. declaredApps[i] \in GroupedApps
      OBVIOUS
    <2>2. \/ shared[i] = declaredApps[i]
          \/ shared[i] = [declaredApps[i] EXCEPT !.groups = calculated.apps[at(i)].groups]
      BY DEF ShareGroups
    <2> HIDE DEF shared, at
    <2>3. QED
      BY <2>1, <2>2 DEF GroupedApps
  <1> HIDE DEF shared
  <1>3. QED
    BY <1>1, <1>2 DEF Declares, shared

(* The app with this name is declared by the backend's own service, with   *)
(* any of the contents it may have been read with, and by nothing else.    *)
OnlyInOwn(cMap, man, name) ==
    /\ \A n \in Names : IsKnown(cMap[n]) => (Declares(cMap[n].meta.apps, name) <=> n = OwnService)
    /\ ~Declares(man.apps, name)

(* Then so it is in the list updateConfig merges.                          *)
LEMMA OwnListed ==
    ASSUME NEW cMap, NEW cOrder, NEW man, NEW ovr, ConfigMapComplete(cMap, cOrder),
           ManualComplete(man, ovr), OwnService \in Names,
           NEW name, OnlyInOwn(cMap, man, name)
    PROVE  LET configs == ConfigList(cMap, cOrder, man)
               n == Len(cOrder) + 1
           IN  /\ DOMAIN configs = 1..n
               /\ \A i \in 1..n : OnlyOwn(configs[i], name)
               /\ IsKnown(cMap[OwnService]) =>
                    \E i \in 1..n : Declares(configs[i].meta.apps, name)
  <1> DEFINE file == man.file
             first == [name |-> Manual, base |-> NoBase,
                       meta |-> [file EXCEPT !.apps = man.apps, !.components = <<>>]]
             entry(i) == [name |-> cOrder[i],
                          base |-> BaseOf[<<cOrder[i], cMap[cOrder[i]].rev>>],
                          meta |-> cMap[cOrder[i]].meta]
             others == [i \in DOMAIN cOrder |-> entry(i)]
             configs == ConfigList(cMap, cOrder, man)
  <1>1. /\ cOrder \in Seq(Names) /\ Len(cOrder) \in Nat /\ DOMAIN cOrder = 1..Len(cOrder)
        /\ \A m \in Names : m \in KnownIn(cMap) <=> \E i \in 1..Len(cOrder) : cOrder[i] = m
    BY DEF ConfigMapComplete, Ordered
  <1>2. configs = <<first>> \o others
    BY DEF ConfigList
  <1>3. first.meta.apps = man.apps
    <2>1. file \in UiMetas
      BY ContentsAssumption DEF ManualComplete
    <2> HIDE DEF file
    <2>2. QED
      BY <2>1 DEF UiMetas
  <1> HIDE DEF first, entry, configs
  <1>4. /\ DOMAIN configs = 1..(Len(cOrder) + 1) /\ configs[1] = first
        /\ \A i \in 1..Len(cOrder) : configs[i + 1] = entry(i)
    <2>1. others \in Seq({entry(i) : i \in 1..Len(cOrder)}) /\ Len(others) = Len(cOrder)
      BY <1>1
    <2> HIDE DEF others
    <2>2. DOMAIN configs = 1..(Len(cOrder) + 1) /\ configs[1] = first
          /\ \A i \in 1..Len(cOrder) : configs[i + 1] = others[i]
      BY <1>1, <1>2, <2>1
    <2>3. QED
      BY <1>1, <2>2 DEF others
  <1>5. ASSUME NEW i \in 1..(Len(cOrder) + 1) PROVE OnlyOwn(configs[i], name)
    <2>1. CASE i = 1
      BY <1>3, <1>4, <2>1 DEF OnlyOwn, OnlyInOwn
    <2>2. CASE i # 1
      <3>1. i - 1 \in 1..Len(cOrder) /\ (i - 1) + 1 = i
        BY <1>1, <2>2
      <3>2. configs[i] = entry(i - 1) /\ cOrder[i - 1] \in KnownIn(cMap)
        BY <1>1, <1>4, <3>1
      <3> DEFINE m == cOrder[i - 1]
      <3>3. configs[i].name = m /\ configs[i].meta = cMap[m].meta
        BY <3>2 DEF entry
      <3>4. m \in Names /\ IsKnown(cMap[m])
        BY <3>2 DEF KnownIn
      <3> HIDE DEF m
      <3>5. QED
        BY <3>3, <3>4 DEF OnlyOwn, OnlyInOwn
    <2>3. QED
      BY <2>1, <2>2
  <1>6. ASSUME IsKnown(cMap[OwnService])
        PROVE  \E i \in 1..(Len(cOrder) + 1) : Declares(configs[i].meta.apps, name)
    <2>1. PICK i \in 1..Len(cOrder) : cOrder[i] = OwnService
      BY <1>1, <1>6 DEF KnownIn
    <2>2. entry(i).meta = cMap[OwnService].meta
      BY <2>1 DEF entry
    <2>3. configs[i + 1].meta = cMap[OwnService].meta
      BY <1>4, <2>2
    <2>4. Declares(configs[i + 1].meta.apps, name)
      BY <1>6, <2>3 DEF OnlyInOwn
    <2>5. i + 1 \in 1..(Len(cOrder) + 1)
      BY <1>1
    <2>6. QED
      BY <2>4, <2>5
  <1>7. QED
    BY <1>4, <1>5, <1>6 DEF configs

(* updateConfig publishes the app and leaves it where it is declared.      *)
LEMMA OwnPublished ==
    ASSUME NEW cMap, NEW cOrder, NEW man, NEW ovr, ConfigMapComplete(cMap, cOrder),
           ManualComplete(man, ovr), UpdateConfig(cMap, cOrder, man, ovr),
           OwnService \in Names, NEW name, OnlyInOwn(cMap, man, name)
    PROVE  OnlyInOwn(configMap', manual', name) /\ (IsKnown(configMap'[OwnService]) => Ready')
  <1> DEFINE configs == ConfigList(cMap, cOrder, man)
             sources == {Manual} \cup KnownIn(cMap)
             n == Len(cOrder) + 1
             calculated == CalculateConfig(configs, ovr)
  <1>1. n \in Nat
    BY DEF ConfigMapComplete, Ordered
  <1>2. /\ DOMAIN configs = 1..n /\ \A i \in 1..n : OnlyOwn(configs[i], name)
        /\ IsKnown(cMap[OwnService]) => \E i \in 1..n : Declares(configs[i].meta.apps, name)
    BY OwnListed
  <1>3. \A i \in 1..n : IsConfig(configs[i], sources)
    BY ConfigListIn
  <1>4. IsOverridesFile(ovr) /\ OwnService # Manual
    BY DiscoveryAssumption DEF ManualComplete
  <1> HIDE DEF n, configs, sources
  <1>5. /\ calculated.apps \in Seq(ServedApps(sources))
        /\ calculated.manualApps \in Seq(GroupedApps)
        /\ calculated.threw = FALSE
    BY <1>1, <1>2, <1>3, <1>4, CalculatedIn
  <1>6. /\ \A i \in 1..Len(calculated.manualApps) : calculated.manualApps[i].name # name
        /\ (\E i \in 1..n : Declares(configs[i].meta.apps, name)) =>
              \E app \in ToSet(calculated.apps) : app.service = OwnService
    BY <1>1, <1>2, <1>3, <1>4, OwnCalculated
  <1>7. Publish(calculated, cMap, cOrder, man, ovr)
    BY Zenon DEF UpdateConfig, configs
  <1> HIDE DEF calculated
  <1>8. /\ published'.apps = calculated.apps
        /\ manual'.apps = ShareGroups(calculated.manualApps, Manual, calculated, ovr.overrides)
    BY <1>5, <1>7 DEF Publish
  <1>9. \A m \in Names :
            /\ configMap'[m].rev = cMap[m].rev
            /\ configMap'[m].meta = [cMap[m].meta EXCEPT
                                        !.apps = ShareGroups(@, m, calculated, ovr.overrides)]
    BY <1>7 DEF Publish
  <1>10. ASSUME NEW m \in Names, IsKnown(configMap'[m])
         PROVE  Declares(configMap'[m].meta.apps, name) <=> m = OwnService
    <2> DEFINE apps == cMap[m].meta.apps
    <2>1. cMap[m].meta \in GroupedMetas
      BY DEF ConfigMapComplete
    <2>2. apps \in Seq(GroupedApps)
          /\ configMap'[m].meta.apps = ShareGroups(apps, m, calculated, ovr.overrides)
      BY <1>9, <2>1 DEF GroupedMetas
    <2>3. IsKnown(cMap[m])
      BY <1>9, <1>10 DEF IsKnown
    <2>4. Declares(apps, name) <=> m = OwnService
      BY <2>3 DEF OnlyInOwn
    <2> HIDE DEF apps
    <2>5. Declares(ShareGroups(apps, m, calculated, ovr.overrides), name) <=> Declares(apps, name)
      BY <2>2, SharedDeclares
    <2>6. QED
      BY <2>2, <2>4, <2>5
  <1>11. ~Declares(manual'.apps, name)
    <2> DEFINE apps == calculated.manualApps
    <2>1. ~Declares(apps, name)
      BY <1>5, <1>6 DEF Declares
    <2>2. apps \in Seq(GroupedApps) /\ manual'.apps = ShareGroups(apps, Manual, calculated, ovr.overrides)
      BY <1>5, <1>8
    <2> HIDE DEF apps
    <2>3. Declares(ShareGroups(apps, Manual, calculated, ovr.overrides), name) <=> Declares(apps, name)
      BY <2>2, SharedDeclares
    <2>4. QED
      BY <2>1, <2>2, <2>3
  <1>12. IsKnown(configMap'[OwnService]) => Ready'
    BY <1>2, <1>6, <1>8, <1>9 DEF IsKnown, Ready
  <1>13. QED
    BY <1>10, <1>11, <1>12 DEF OnlyInOwn

\* The app OwnAppDeclared promises.
OwnAppName(name) ==
    /\ \A uid \in Uids : Declares(MetaOf[uid].apps, name) <=> uid[1] = OwnService
    /\ \A meta \in ManualMetas : ~Declares(meta.apps, name)

(* Every step that publishes leaves the replica ready if its own           *)
(* configuration is known.                                                 *)
LEMMA OwnStep ==
    ASSUME FilesComplete, OwnService \in Names, NEW name, OwnAppName(name),
           ConfigInv, EntryForEveryName, CollectionTyped, OnlyInOwn(configMap, manual, name),
           [Next]_vars
    PROVE  /\ OnlyInOwn(configMap', manual', name)
           /\ Ready /\ IsKnown(configMap'[OwnService]) => Ready'
  <1> DEFINE Kept == /\ OnlyInOwn(configMap', manual', name)
                     /\ Ready /\ IsKnown(configMap'[OwnService]) => Ready'
  <1>0. ConfigMapComplete(configMap, configOrder) /\ ManualComplete(manual, manualOverrides)
    BY DEF ConfigInv
  <1>1. ASSUME NEW n \in Names, DeleteService(n) PROVE Kept
    <2> DEFINE cMap == [configMap EXCEPT ![n] = NoConfig]
    <2>1. UpdateConfig(cMap, Without(configOrder, n), manual, manualOverrides)
      BY <1>1, Zenon DEF DeleteService
    <2>2. ConfigMapComplete(cMap, Without(configOrder, n))
      BY <1>0, EntryDeleted
    <2>3. cMap[n] = NoConfig /\ \A m \in Names \ {n} : cMap[m] = configMap[m]
      BY DEF EntryForEveryName
    <2>4. ~IsKnown(NoConfig)
      BY DEF IsKnown, NoConfig
    <2> HIDE DEF cMap
    <2>5. OnlyInOwn(cMap, manual, name)
      BY <2>3, <2>4 DEF OnlyInOwn
    <2>6. QED
      BY <1>0, <2>1, <2>2, <2>5, OwnPublished
  <1>2. ASSUME NEW n \in Names, NEW content \in Revisions, FetchConfig(n, content) PROVE Kept
    <2> DEFINE entry == [rev |-> services[n], content |-> content,
                         meta |-> MetaOf[<<n, content>>]]
               cMap == [configMap EXCEPT ![n] = entry]
    <2>1. <<n, services[n]>> \in HasProtocol /\ content \in Serves[<<n, services[n]>>]
      BY <1>2 DEF FetchConfig
    <2>2. <<n, content>> \in Uids /\ <<n, services[n]>> \in Uids
      BY <2>1, ContentsAssumption, DiscoveryAssumption
    <2>3. MetaOf[<<n, content>>] \in GroupedMetas
      BY <2>2, ContentsAssumption, CompleteMeta DEF FilesComplete
    <2>4. services[n] # NotAnnounced
      BY <2>2, DiscoveryAssumption
    <2>5. entry.meta \in GroupedMetas /\ <<n, entry.rev>> \in Uids /\ IsKnown(entry)
      BY <2>2, <2>3, <2>4 DEF IsKnown
    <2>6. UpdateConfig(cMap, AppendNew(configOrder, configMap, n), manual, manualOverrides)
      BY <1>2, Zenon DEF FetchConfig
    <2>7. Declares(entry.meta.apps, name) <=> n = OwnService
      <3>1. Declares(MetaOf[<<n, content>>].apps, name) <=> n = OwnService
        BY <2>2 DEF OwnAppName
      <3>2. QED
        BY <3>1
    <2> HIDE DEF entry
    <2>8. ConfigMapComplete(cMap, AppendNew(configOrder, configMap, n))
      BY <1>0, <2>5, EntryWritten
    <2>9. cMap[n] = entry /\ \A m \in Names \ {n} : cMap[m] = configMap[m]
      BY DEF EntryForEveryName
    <2> HIDE DEF cMap
    <2>10. OnlyInOwn(cMap, manual, name)
      BY <2>7, <2>9 DEF OnlyInOwn
    <2>11. QED
      BY <1>0, <2>6, <2>8, <2>10, OwnPublished
  <1>3. ASSUME NEW meta \in ManualMetas, ManualConfigChanged(meta) PROVE Kept
    <2>1. UpdateConfig(configMap, configOrder, Loaded(meta), manualOverrides)
      BY <1>3, Zenon DEF ManualConfigChanged
    <2>2. meta \in GroupedMetas
      BY ContentsAssumption, CompleteMeta DEF FilesComplete
    <2>3. ManualComplete(Loaded(meta), manualOverrides)
      BY <2>2 DEF ManualComplete, Loaded, GroupedMetas, ConfigInv
    <2>4. OnlyInOwn(configMap, Loaded(meta), name)
      BY DEF OnlyInOwn, OwnAppName, Loaded
    <2>5. QED
      BY <1>0, <2>1, <2>3, <2>4, OwnPublished
  <1>4. ASSUME NEW ovr \in Overrides, ManualOverridesChanged(ovr) PROVE Kept
    <2>1. UpdateConfig(configMap, configOrder, manual, ovr)
      BY <1>4, Zenon DEF ManualOverridesChanged
    <2>2. ManualComplete(manual, ovr)
      BY DEF ManualComplete, ConfigInv, FilesComplete
    <2>3. QED
      BY <1>0, <2>1, <2>2, OwnPublished
  <1>5. ASSUME UNCHANGED <<configVars, manualVars, published>> PROVE Kept
    BY <1>5 DEF configVars, manualVars, Ready
  <1> HIDE DEF Kept
  <1>6. Kept
    BY <1>1, <1>2, <1>3, <1>4, <1>5
    DEF Next, ServiceEvent, ConfigAnswer, PackageAnswer, AddService, ModifyService,
        ForceUpdateService, EmitService, FetchPackages, PackageFetchFails,
        PackageFetchGivesUp, StorePackages, vars
  <1>7. QED
    BY <1>6 DEF Kept

(* A replica that has become ready stays ready while its own configuration *)
(* is known, whatever other services and manual files declare, override    *)
(* and map to groups, as long as all files are complete and the backend's  *)
(* own service has an app nobody else declares.                            *)
THEOREM ReadinessStays ==
    ASSUME FilesComplete, OwnAppDeclared
    PROVE  Spec => ReadinessKept
  <1>1. PICK name \in EntityNames : OwnAppName(name)
    BY DEF OwnAppDeclared, OwnAppName
  <1>2. OwnService \in Names
    BY DEF OwnAppDeclared
  <1> DEFINE OwnInv == OnlyInOwn(configMap, manual, name)
  <1>3. Init => OwnInv
    <2>1. ASSUME Init PROVE ~IsKnown(NoConfig) /\ \A n \in Names : configMap[n] = NoConfig
      BY <2>1 DEF Init, IsKnown, NoConfig
    <2>2. ASSUME Init PROVE ~Declares(manual.apps, name)
      BY <1>1, <2>2 DEF Init, Loaded, OwnAppName
    <2>3. QED
      BY <2>1, <2>2 DEF OnlyInOwn
  <1>4. OwnInv /\ ConfigInv /\ EntryForEveryName /\ CollectionTyped /\ [Next]_vars
        => OwnInv' /\ (Ready /\ IsKnown(configMap'[OwnService]) => Ready')
    BY <1>1, <1>2, OwnStep
  <1> HIDE DEF OwnInv
  <1>5. QED
    BY <1>3, <1>4, EntriesStay, CollectionStaysTyped, ContentsInvariant, PTL
    DEF Spec, ReadinessKept

(* The groups, components and actions of a configuration are resolved by   *)
(* its name and what it declares.                                          *)
GroupsBy(store, name, groups) ==
    FoldLeft(LAMBDA s, group : PutItem(s,
                LET new == [component |-> group, source |-> name]
                    at  == StoreIndex(s, group.name)
                IN  IF at = 0 THEN new ELSE ResolveEntityByType(s[at], new)),
             store, groups)

(* ResolveGroups looks at nothing else.                                    *)
LEMMA GroupsAreBy ==
    ASSUME NEW store, NEW config
    PROVE  ResolveGroups(store, config) = GroupsBy(store, config.name, config.meta.groups)
  BY Zenon DEF ResolveGroups, GroupsBy, ResolvedItem

ComponentsBy(store, name, components) ==
    FoldLeft(LAMBDA s, component : PutItem(s, UpdateItemWithSource(
                LET new == [component |-> component, source |-> name]
                    at  == StoreIndex(s, component.name)
                IN  IF at = 0 THEN new ELSE ResolveEntityByType(s[at], new), 0)),
             store, components)

(* ResolveComponents neither.                                              *)
LEMMA ComponentsAreBy ==
    ASSUME NEW store, NEW config
    PROVE  ResolveComponents(store, config)
             = ComponentsBy(store, config.name, config.meta.components)
  BY Zenon DEF ResolveComponents, ComponentsBy, ResolvedItem, UpdateItemWithSource

ActionsBy(store, name, actions) ==
    FoldLeft(LAMBDA s, action : Append(s, [component |-> action, source |-> name]), store, actions)

(* ResolveActions neither.                                                 *)
LEMMA ActionsAreBy ==
    ASSUME NEW store, NEW config
    PROVE  ResolveActions(store, config) = ActionsBy(store, config.name, config.meta.actions)
  BY Zenon DEF ResolveActions, ActionsBy, AddAction

--------------------------------------------------------------------------------
(* Two apps that differ in their groups at most, and then only in groups   *)
(* that are added to every app of that name.                               *)
SameApp(app, other, added) ==
    /\ app.name = other.name /\ app.type = other.type /\ app.url = other.url
    /\ app.groups \cup added[app.name] = other.groups \cup added[other.name]

AppsAlike(list, other, added) ==
    /\ Len(list) = Len(other)
    /\ \A i \in 1..Len(list) : SameApp(list[i], other[i], added)

\* The same for apps with their services, and for items of a store.
ServedAlike(list, other, added) ==
    /\ AppsAlike(list, other, added)
    /\ \A i \in 1..Len(list) : list[i].service = other[i].service

ItemAlike(item, other, added) ==
    /\ SameApp(item.component, other.component, added)
    /\ item.component.service = other.component.service
    /\ item.source = other.source

ItemsAlike(store, other, added) ==
    /\ Len(store) = Len(other)
    /\ \A i \in 1..Len(store) : ItemAlike(store[i], other[i], added)

StoresAlike(stores, other, added) ==
    /\ ItemsAlike(stores.apps, other.apps, added)
    /\ stores.groups = other.groups
    /\ stores.components = other.components
    /\ stores.actions = other.actions

(* A lookup looks at the names alone.                                      *)
LEMMA SameStoreIndex ==
    ASSUME NEW T, NEW store \in Seq(T), NEW other \in Seq(T), NEW name,
           Len(store) = Len(other),
           \A i \in 1..Len(store) : store[i].component.name = other[i].component.name
    PROVE  StoreIndex(store, name) = StoreIndex(other, name)
  <1> DEFINE found(list) == {i \in 1..Len(list) : list[i].component.name = name}
  <1>1. /\ StoreIndex(store, name) = IF found(store) # {} THEN Min(found(store)) ELSE 0
        /\ StoreIndex(other, name) = IF found(other) # {} THEN Min(found(other)) ELSE 0
    BY Zenon DEF StoreIndex, SelectInSeq
  <1>2. found(store) = found(other)
    OBVIOUS
  <1> HIDE DEF found
  <1>3. QED
    BY <1>1, <1>2

(* So does the one in a list of entities.                                  *)
LEMMA SameIndex ==
    ASSUME NEW T, NEW list \in Seq(T), NEW other \in Seq(T), NEW name,
           Len(list) = Len(other), \A i \in 1..Len(list) : list[i].name = other[i].name
    PROVE  IndexOfName(list, name) = IndexOfName(other, name)
  <1> DEFINE found(l) == {i \in 1..Len(l) : l[i].name = name}
  <1>1. /\ IndexOfName(list, name) = IF found(list) # {} THEN Min(found(list)) ELSE 0
        /\ IndexOfName(other, name) = IF found(other) # {} THEN Min(found(other)) ELSE 0
    BY Zenon DEF IndexOfName, SelectInSeq
  <1>2. found(list) = found(other)
    OBVIOUS
  <1> HIDE DEF found
  <1>3. QED
    BY <1>1, <1>2

(* Items that are alike, put into stores that are, leave them alike.       *)
LEMMA PutAlike ==
    ASSUME NEW T, NEW store \in Seq(T), NEW other \in Seq(T), NEW item \in T, NEW twin \in T,
           NEW added, ItemsAlike(store, other, added), ItemAlike(item, twin, added)
    PROVE  ItemsAlike(PutItem(store, item), PutItem(other, twin), added)
  <1> DEFINE at == StoreIndex(store, item.component.name)
             n == Len(store)
             one == PutItem(store, item)
             two == PutItem(other, twin)
  <1>1. /\ n \in Nat /\ Len(other) = n
        /\ \A i \in 1..n : ItemAlike(store[i], other[i], added)
    BY DEF ItemsAlike
  <1>2. item.component.name = twin.component.name
        /\ \A i \in 1..n : store[i].component.name = other[i].component.name
    BY <1>1 DEF ItemAlike, SameApp
  <1>3. StoreIndex(other, twin.component.name) = at
    <2> HIDE DEF at
    <2>1. StoreIndex(other, item.component.name) = StoreIndex(store, item.component.name)
      BY <1>1, <1>2, SameStoreIndex
    <2>2. QED
      BY <1>2, <2>1 DEF at
  <1>4. at \in 0..n
    BY StoreIndexIn
  <1>5. /\ one = IF at = 0 THEN Append(store, item) ELSE [store EXCEPT ![at] = item]
        /\ two = IF at = 0 THEN Append(other, twin) ELSE [other EXCEPT ![at] = twin]
    BY <1>3 DEF PutItem
  <1> HIDE DEF at, one, two
  <1>6. CASE at = 0
    <2>1. /\ Len(one) = n + 1 /\ one[n + 1] = item /\ \A i \in 1..n : one[i] = store[i]
          /\ Len(two) = n + 1 /\ two[n + 1] = twin /\ \A i \in 1..n : two[i] = other[i]
      BY <1>1, <1>5, <1>6
    <2>2. \A i \in 1..(n + 1) : i \in 1..n \/ i = n + 1
      BY <1>1
    <2> HIDE DEF n
    <2>3. \A i \in 1..(n + 1) : ItemAlike(one[i], two[i], added)
      BY <1>1, <2>1, <2>2
    <2>4. QED
      BY <2>1, <2>3 DEF ItemsAlike, one, two
  <1>7. CASE at # 0
    <2>1. at \in 1..n
      BY <1>1, <1>4, <1>7
    <2>2. /\ Len(one) = n /\ one[at] = item /\ \A i \in 1..n : i # at => one[i] = store[i]
          /\ Len(two) = n /\ two[at] = twin /\ \A i \in 1..n : i # at => two[i] = other[i]
      BY <1>1, <1>5, <1>7, <2>1
    <2> HIDE DEF n
    <2>3. \A i \in 1..n : ItemAlike(one[i], two[i], added)
      BY <1>1, <2>2
    <2>4. QED
      BY <2>2, <2>3 DEF ItemsAlike, one, two
  <1>8. QED
    BY <1>6, <1>7

\* Configurations of one service that declare the same but for such groups.
ConfigAlike(config, other, added) ==
    /\ config.name = other.name /\ config.base = other.base
    /\ AppsAlike(config.meta.apps, other.meta.apps, added)
    /\ config.meta.groups = other.meta.groups
    /\ config.meta.components = other.meta.components
    /\ config.meta.actions = other.meta.actions

(* What the resolver makes of an app and of its twin: the groups of an app *)
(* decide nothing.                                                         *)
LEMMA AddAppAlike ==
    ASSUME NEW sources, NEW stores \in Stores(sources), NEW twins \in Stores(sources),
           NEW app \in GroupedApps, NEW twin \in GroupedApps,
           NEW config, IsConfig(config, sources), NEW other, IsConfig(other, sources),
           NEW added, StoresAlike(stores, twins, added), SameApp(app, twin, added),
           config.name = other.name, config.base = other.base
    PROVE  StoresAlike(AddApp(stores, app, config), AddApp(twins, twin, other), added)
  <1> DEFINE T == Items(ServedApps(sources), sources)
             Resolved(s, a, c) == ResolvedItem(s.apps, a, c)
             Updated(s, a, c) == UpdateItemToAbsoluteUrl(Resolved(s, a, c), c)
             at == StoreIndex(stores.apps, app.name)
             new == [component |-> app, source |-> config.name]
             newTwin == [component |-> twin, source |-> config.name]
             one == Resolved(stores, app, config)
             two == Resolved(twins, twin, other)
             item == Updated(stores, app, config)
             itemTwin == Updated(twins, twin, other)
  <1>1. /\ stores.apps \in Seq(T) /\ twins.apps \in Seq(T)
        /\ config.name \in sources /\ config.base \in Urls \cup {NoBase}
    BY DEF Stores, IsConfig
  <1>2. /\ Len(stores.apps) = Len(twins.apps) /\ app.name = twin.name
        /\ \A i \in 1..Len(stores.apps) : ItemAlike(stores.apps[i], twins.apps[i], added)
    BY DEF StoresAlike, ItemsAlike, SameApp
  <1>3. at \in 0..Len(stores.apps) /\ StoreIndex(twins.apps, twin.name) = at
    <2>1. \A i \in 1..Len(stores.apps) :
              stores.apps[i].component.name = twins.apps[i].component.name
      BY <1>2 DEF ItemAlike, SameApp
    <2> HIDE DEF T, at
    <2>2. StoreIndex(stores.apps, app.name) \in 0..Len(stores.apps)
          /\ StoreIndex(stores.apps, app.name) = StoreIndex(twins.apps, app.name)
      BY <1>1, <1>2, <2>1, StoreIndexIn, SameStoreIndex
    <2>3. QED
      BY <1>2, <2>2 DEF at
  <1>4. /\ one = IF at = 0 THEN new ELSE ResolveEntityByType(stores.apps[at], new)
        /\ two = IF at = 0 THEN newTwin ELSE ResolveEntityByType(twins.apps[at], newTwin)
    BY <1>3 DEF ResolvedItem
  <1> HIDE DEF at
  <1>5. at # 0 => /\ at \in 1..Len(stores.apps)
                  /\ stores.apps[at] \in T /\ twins.apps[at] \in T
                  /\ ItemAlike(stores.apps[at], twins.apps[at], added)
    BY <1>1, <1>2, <1>3
  <1>6. \/ one = new /\ two = newTwin
        \/ at # 0 /\ one = stores.apps[at] /\ two = twins.apps[at]
    <2>1. at # 0 => stores.apps[at].component.type = twins.apps[at].component.type
      BY <1>5 DEF ItemAlike, SameApp
    <2>2. new.component.type = newTwin.component.type
      BY DEF SameApp
    <2>3. QED
      BY <1>4, <2>1, <2>2 DEF ResolveEntityByType
  <1> HIDE DEF one, two
  <1>7. SameApp(one.component, two.component, added) /\ one.source = two.source
    BY <1>5, <1>6 DEF ItemAlike
  <1>8. \A r \in {one, two} :
            /\ r.source \in sources
            /\ r.component.name \in EntityNames
            /\ r.component.type \in EntityTypes
            /\ r.component.url \in Urls
            /\ r.component.groups \in SUBSET GroupNames
            /\ r = [component |-> r.component, source |-> r.source]
    BY <1>1, <1>5, <1>6 DEF Items, ServedApps, GroupedApps
  <1>9. /\ item.source = one.source
        /\ item.component = [name |-> one.component.name, type |-> one.component.type,
              url |-> UpdateToAbsoluteUrl(one.component.url, config.base),
              groups |-> one.component.groups, service |-> one.source]
        /\ item = [component |-> item.component, source |-> item.source]
        /\ itemTwin.source = two.source
        /\ itemTwin.component = [name |-> two.component.name, type |-> two.component.type,
              url |-> UpdateToAbsoluteUrl(two.component.url, config.base),
              groups |-> two.component.groups, service |-> two.source]
        /\ itemTwin = [component |-> itemTwin.component, source |-> itemTwin.source]
    BY <1>8 DEF UpdateItemToAbsoluteUrl, one, two
  <1>10. \A r \in {one, two} : UpdateToAbsoluteUrl(r.component.url, config.base) \in Urls
    BY <1>1, <1>8 DEF UpdateToAbsoluteUrl
  <1> HIDE DEF item, itemTwin
  <1>11. item.component \in ServedApps(sources) /\ itemTwin.component \in ServedApps(sources)
    BY <1>8, <1>9, <1>10 DEF ServedApps
  <1>12. item \in T /\ itemTwin \in T
    BY <1>8, <1>9, <1>11 DEF Items
  <1>13. ItemAlike(item, itemTwin, added)
    BY <1>7, <1>9 DEF ItemAlike, SameApp
  <1> HIDE DEF T
  <1>14. ItemsAlike(PutItem(stores.apps, item), PutItem(twins.apps, itemTwin), added)
    BY <1>1, <1>12, <1>13, PutAlike DEF StoresAlike
  <1>15. /\ AddApp(stores, app, config) = PutApp(stores, item)
         /\ AddApp(twins, twin, other) = PutApp(twins, itemTwin)
    BY DEF AddApp, item, itemTwin
  <1>16. \A s \in Stores(sources), i \in {item, itemTwin} :
            /\ PutApp(s, i).apps = PutItem(s.apps, i)
            /\ PutApp(s, i).groups = s.groups
            /\ PutApp(s, i).components = s.components
            /\ PutApp(s, i).actions = s.actions
    BY DEF PutApp, Stores
  <1>17. QED
    BY <1>14, <1>15, <1>16 DEF StoresAlike

(* The apps of configurations that are alike.                              *)
LEMMA ResolveAppsAlike ==
    ASSUME NEW sources, NEW stores \in Stores(sources), NEW twins \in Stores(sources),
           NEW config, IsConfig(config, sources), NEW other, IsConfig(other, sources),
           NEW added, StoresAlike(stores, twins, added), ConfigAlike(config, other, added)
    PROVE  StoresAlike(ResolveApps(stores, config), ResolveApps(twins, other), added)
  <1> DEFINE n == Len(config.meta.apps)
             S == Stores(sources)
             apps == config.meta.apps
             appTwins == other.meta.apps
  <1>1. apps \in Seq(GroupedApps) /\ appTwins \in Seq(GroupedApps) /\ Len(appTwins) = n
    BY DEF IsConfig, GroupedMetas, ConfigAlike, AppsAlike
  <1>2. /\ n \in Nat /\ DOMAIN apps = 1..n /\ DOMAIN appTwins = 1..n
        /\ \A i \in 1..n : apps[i] \in GroupedApps /\ appTwins[i] \in GroupedApps
    BY <1>1
  <1>3. \A i \in 1..n : SameApp(apps[i], appTwins[i], added)
    BY DEF ConfigAlike, AppsAlike
  <1>4. /\ \A s \in S, i \in 1..n : AddApp(s, config.meta.apps[i], config) \in S
        /\ \A s \in S, i \in 1..n : AddApp(s, other.meta.apps[i], other) \in S
    BY <1>2, AddAppIn
  <1>5. stores \in S /\ twins \in S
    OBVIOUS
  <1>6. config.name = other.name /\ config.base = other.base
    BY DEF ConfigAlike
  <1>7. ASSUME NEW s \in S, NEW t \in S, StoresAlike(s, t, added), NEW i \in 1..n
        PROVE  StoresAlike(AddApp(s, apps[i], config), AddApp(t, appTwins[i], other), added)
    <2> DEFINE app == apps[i]
               twin == appTwins[i]
    <2>1. app \in GroupedApps /\ twin \in GroupedApps /\ SameApp(app, twin, added)
      BY <1>2, <1>3
    <2> HIDE DEF app, twin
    <2>2. StoresAlike(AddApp(s, app, config), AddApp(t, twin, other), added)
      BY <1>6, <1>7, <2>1, AddAppAlike
    <2>3. QED
      BY <2>2 DEF app, twin
  <1> HIDE DEF n, S
  <1>8. PICK g : AppsRun(g, S, n, stores, config)
    BY <1>2, <1>4, <1>5, AppsReached
  <1>9. PICK h : AppsRun(h, S, n, twins, other)
    BY <1>2, <1>4, <1>5, AppsReached
  <1>10. /\ g \in [0..n -> S] /\ g[0] = stores
         /\ \A i \in 1..n : g[i] = AddApp(g[i - 1], apps[i], config)
         /\ ResolveApps(stores, config) = g[n]
    BY <1>8 DEF AppsRun
  <1>11. /\ h \in [0..n -> S] /\ h[0] = twins
         /\ \A i \in 1..n : h[i] = AddApp(h[i - 1], appTwins[i], other)
         /\ ResolveApps(twins, other) = h[n]
    BY <1>9 DEF AppsRun
  <1> HIDE DEF apps, appTwins
  <1> DEFINE upto == {i \in 0..n : StoresAlike(g[i], h[i], added)}
  <1>12. 0 \in upto
    BY <1>2, <1>10, <1>11
  <1>13. ASSUME NEW i \in 0..n, i < n, i \in upto PROVE i + 1 \in upto
    <2>1. i + 1 \in 1..n /\ i + 1 \in 0..n /\ (i + 1) - 1 = i
      BY <1>2, <1>13
    <2>2. /\ g[i] \in S /\ g[i + 1] = AddApp(g[i], apps[i + 1], config)
          /\ h[i] \in S /\ h[i + 1] = AddApp(h[i], appTwins[i + 1], other)
      BY <1>10, <1>11, <2>1
    <2>3. StoresAlike(g[i], h[i], added)
      BY <1>13
    <2>4. StoresAlike(g[i + 1], h[i + 1], added)
      BY <1>7, <2>1, <2>2, <2>3
    <2>5. QED
      BY <2>1, <2>4
  <1>14. n \in upto
    <2> HIDE DEF upto
    <2>1. \A i \in 0..n : i \in upto
      BY <1>2, <1>12, <1>13, UpTo
    <2>2. QED
      BY <1>2, <2>1
  <1>15. QED
    BY <1>10, <1>11, <1>14

(* A whole configuration.                                                  *)
LEMMA ProcessConfigAlike ==
    ASSUME NEW sources, NEW stores \in Stores(sources), NEW twins \in Stores(sources),
           NEW config, IsConfig(config, sources), NEW other, IsConfig(other, sources),
           NEW added, StoresAlike(stores, twins, added), ConfigAlike(config, other, added)
    PROVE  StoresAlike(ProcessConfig(stores, config), ProcessConfig(twins, other), added)
  <1> DEFINE one == ResolveApps(stores, config)
             two == ResolveApps(twins, other)
  <1>1. one \in Stores(sources) /\ two \in Stores(sources) /\ StoresAlike(one, two, added)
    BY ResolveAppsIn, ResolveAppsAlike
  <1>2. /\ ProcessConfig(stores, config)
              = [one EXCEPT !.groups     = ResolveGroups(@, config),
                            !.components = ResolveComponents(@, config),
                            !.actions    = ResolveActions(@, config)]
        /\ ProcessConfig(twins, other)
              = [two EXCEPT !.groups     = ResolveGroups(@, other),
                            !.components = ResolveComponents(@, other),
                            !.actions    = ResolveActions(@, other)]
    BY DEF ProcessConfig
  <1> HIDE DEF one, two
  <1>3. /\ one.groups = two.groups
        /\ one.components = two.components
        /\ one.actions = two.actions
    BY <1>1 DEF StoresAlike
  <1>4. /\ ResolveGroups(one.groups, config) = ResolveGroups(two.groups, other)
        /\ ResolveComponents(one.components, config) = ResolveComponents(two.components, other)
        /\ ResolveActions(one.actions, config) = ResolveActions(two.actions, other)
    BY <1>3, GroupsAreBy, ComponentsAreBy, ActionsAreBy DEF ConfigAlike
  <1>5. /\ ProcessConfig(stores, config).apps = one.apps
        /\ ProcessConfig(twins, other).apps = two.apps
        /\ ProcessConfig(stores, config).groups = ResolveGroups(one.groups, config)
        /\ ProcessConfig(twins, other).groups = ResolveGroups(two.groups, other)
        /\ ProcessConfig(stores, config).components = ResolveComponents(one.components, config)
        /\ ProcessConfig(twins, other).components = ResolveComponents(two.components, other)
        /\ ProcessConfig(stores, config).actions = ResolveActions(one.actions, config)
        /\ ProcessConfig(twins, other).actions = ResolveActions(two.actions, other)
    BY <1>1, <1>2 DEF Stores
  <1>6. QED
    BY <1>1, <1>4, <1>5 DEF StoresAlike

\* Two lists of configurations, of these sources, that are alike.
ListsAlike(configs, others, n, sources, added) ==
    /\ DOMAIN configs = 1..n /\ DOMAIN others = 1..n
    /\ \A i \in 1..n : /\ IsConfig(configs[i], sources) /\ IsConfig(others[i], sources)
                       /\ ConfigAlike(configs[i], others[i], added)

(* What the merge makes of lists that are alike.                           *)
ResultsAlike(result, other, added) ==
    /\ ServedAlike(result.apps, other.apps, added)
    /\ result.groups = other.groups
    /\ result.components = other.components
    /\ result.actions = other.actions

(* Lists that are alike are merged into results that are alike.            *)
LEMMA MergedAlike ==
    ASSUME NEW sources, NEW configs, NEW others, NEW n \in Nat, NEW added,
           ListsAlike(configs, others, n, sources, added)
    PROVE  ResultsAlike(MergeConfigs(configs), MergeConfigs(others), added)
  <1> DEFINE S == Stores(sources)
             one == FoldLeft(ProcessConfig, EmptyStores, configs)
             two == FoldLeft(ProcessConfig, EmptyStores, others)
  <1>1. EmptyStores \in S
    BY DEF EmptyStores, Stores
  <1>2. /\ DOMAIN configs = 1..n /\ DOMAIN others = 1..n
        /\ \A i \in 1..n : /\ IsConfig(configs[i], sources) /\ IsConfig(others[i], sources)
                           /\ ConfigAlike(configs[i], others[i], added)
    BY DEF ListsAlike
  <1>3. /\ \A s \in S, i \in 1..n : ProcessConfig(s, configs[i]) \in S
        /\ \A s \in S, i \in 1..n : ProcessConfig(s, others[i]) \in S
    BY <1>2, ProcessConfigIn
  <1>4. ASSUME NEW s \in S, NEW t \in S, StoresAlike(s, t, added), NEW i \in 1..n
        PROVE  StoresAlike(ProcessConfig(s, configs[i]), ProcessConfig(t, others[i]), added)
    <2>1. s \in Stores(sources) /\ t \in Stores(sources)
      OBVIOUS
    <2>2. IsConfig(configs[i], sources) /\ IsConfig(others[i], sources)
          /\ ConfigAlike(configs[i], others[i], added)
      BY <1>2
    <2> HIDE DEF S
    <2>3. QED
      BY <1>4, <2>1, <2>2, ProcessConfigAlike
  <1> HIDE DEF S
  <1>5. PICK g : ConfigsRun(g, S, n, configs)
    BY <1>1, <1>2, <1>3, ConfigsReached
  <1>6. PICK h : ConfigsRun(h, S, n, others)
    BY <1>1, <1>2, <1>3, ConfigsReached
  <1>7. /\ g \in [0..n -> S] /\ g[0] = EmptyStores
        /\ \A i \in 1..n : g[i] = ProcessConfig(g[i - 1], configs[i])
        /\ one = g[n]
        /\ h \in [0..n -> S] /\ h[0] = EmptyStores
        /\ \A i \in 1..n : h[i] = ProcessConfig(h[i - 1], others[i])
        /\ two = h[n]
    BY <1>5, <1>6 DEF ConfigsRun
  <1> DEFINE upto == {i \in 0..n : StoresAlike(g[i], h[i], added)}
  <1>8. 0 \in upto
    BY <1>7 DEF StoresAlike, ItemsAlike, EmptyStores
  <1>9. ASSUME NEW i \in 0..n, i < n, i \in upto PROVE i + 1 \in upto
    <2>1. i + 1 \in 1..n /\ i + 1 \in 0..n /\ (i + 1) - 1 = i
      BY <1>9
    <2>2. /\ g[i] \in S /\ g[i + 1] = ProcessConfig(g[i], configs[i + 1])
          /\ h[i] \in S /\ h[i + 1] = ProcessConfig(h[i], others[i + 1])
      BY <1>7, <2>1
    <2>3. StoresAlike(g[i], h[i], added)
      BY <1>9
    <2>4. StoresAlike(g[i + 1], h[i + 1], added)
      BY <1>4, <2>1, <2>2, <2>3
    <2>5. QED
      BY <2>1, <2>4
  <1>10. n \in upto
    <2> HIDE DEF upto
    <2>1. \A i \in 0..n : i \in upto
      BY <1>8, <1>9, UpTo
    <2>2. QED
      BY <2>1
  <1>11. one \in S /\ two \in S /\ StoresAlike(one, two, added)
    BY <1>7, <1>10
  <1>12. MergeConfigs(configs) = ListsOf(one) /\ MergeConfigs(others) = ListsOf(two)
    BY DEF MergeConfigs
  <1> HIDE DEF one, two
  <1>13. /\ one.apps \in Seq(Items(ServedApps(sources), sources))
         /\ two.apps \in Seq(Items(ServedApps(sources), sources))
         /\ ItemsAlike(one.apps, two.apps, added)
    BY <1>11 DEF S, Stores, StoresAlike
  <1>14. ServedAlike(Components(one.apps), Components(two.apps), added)
    <2> DEFINE m == Len(one.apps)
               T == Items(ServedApps(sources), sources)
    <2>1. /\ m \in Nat /\ Len(two.apps) = m
          /\ DOMAIN one.apps = 1..m /\ DOMAIN two.apps = 1..m
          /\ \A i \in 1..m : ItemAlike(one.apps[i], two.apps[i], added)
      BY <1>13 DEF ItemsAlike
    <2>2. /\ Len(Components(one.apps)) = m /\ Len(Components(two.apps)) = m
          /\ \A i \in 1..m : /\ Components(one.apps)[i] = one.apps[i].component
                             /\ Components(two.apps)[i] = two.apps[i].component
      BY <2>1 DEF Components
    <2>3. QED
      BY <2>1, <2>2 DEF ServedAlike, AppsAlike, ItemAlike
  <1>15. QED
    BY <1>11, <1>12, <1>14 DEF ListsOf, StoresAlike, ResultsAlike

(* An override makes the same of an app and of its twin.                   *)
LEMMA OverlayAlike ==
    ASSUME NEW sources, NEW app \in ServedApps(sources), NEW twin \in ServedApps(sources),
           NEW added, SameApp(app, twin, added), app.service = twin.service,
           NEW override, IsAppOverride(override)
    PROVE  LET one == Overlay(app, override.attributes)
               two == Overlay(twin, override.attributes)
           IN  SameApp(one, two, added) /\ one.service = two.service
  <1> DEFINE given == override.attributes
             one == Overlay(app, given)
             two == Overlay(twin, given)
             fields == {"name", "type", "url", "groups", "service"}
  <1>1. /\ DOMAIN app = fields /\ DOMAIN twin = fields
        /\ app.name = twin.name /\ app.type = twin.type /\ app.url = twin.url
        /\ app.service = twin.service
        /\ app.groups \cup added[app.name] = twin.groups \cup added[app.name]
    BY DEF ServedApps, SameApp
  <1>2. DOMAIN given \subseteq {"type", "url", "groups"}
    BY DEF IsAppOverride
  <1> HIDE DEF given
  <1>3. /\ one = [f \in DOMAIN app \cup DOMAIN given |->
                    IF f \in DOMAIN given THEN given[f] ELSE app[f]]
        /\ two = [f \in DOMAIN twin \cup DOMAIN given |->
                    IF f \in DOMAIN given THEN given[f] ELSE twin[f]]
    BY Zenon DEF Overlay
  <1> HIDE DEF one, two
  <1>4. DOMAIN app \cup DOMAIN given = fields /\ DOMAIN twin \cup DOMAIN given = fields
    BY <1>1, <1>2
  <1>5. \A f \in fields : /\ one[f] = IF f \in DOMAIN given THEN given[f] ELSE app[f]
                          /\ two[f] = IF f \in DOMAIN given THEN given[f] ELSE twin[f]
    BY <1>3, <1>4
  <1>6. /\ one["name"] = app["name"] /\ two["name"] = app["name"]
        /\ one["service"] = two["service"]
        /\ one["type"] = two["type"] /\ one["url"] = two["url"]
        /\ one["groups"] \cup added[app["name"]] = two["groups"] \cup added[app["name"]]
    BY <1>1, <1>2, <1>5
  <1>7. QED
    BY <1>6 DEF SameApp, one, two, given

(* So do all the overrides.                                                *)
LEMMA OverridesAlike ==
    ASSUME NEW sources, NEW list \in Seq(ServedApps(sources)),
           NEW other \in Seq(ServedApps(sources)), NEW added, ServedAlike(list, other, added),
           NEW overrides, IsList(overrides),
           \A i \in DOMAIN overrides : IsAppOverride(overrides[i])
    PROVE  ServedAlike(OverrideList(list, overrides), OverrideList(other, overrides), added)
  <1> DEFINE n == Len(overrides)
             T == ServedApps(sources)
             S == Seq(T)
  <1>1. n \in Nat /\ DOMAIN overrides = 1..n /\ \A i \in 1..n : IsAppOverride(overrides[i])
    BY DEF IsList
  <1>2. ASSUME NEW s \in S, NEW i \in 1..n PROVE OverrideEntity(s, overrides[i]) \in S
    <2> DEFINE at == IndexOfName(s, overrides[i].name)
    <2>1. at \in 0..Len(s)
      BY IndexIn
    <2>2. OverrideEntity(s, overrides[i])
            = IF at = 0 THEN s
              ELSE [s EXCEPT ![at] = Overlay(s[at], overrides[i].attributes)]
      BY DEF OverrideEntity
    <2> HIDE DEF at
    <2>3. at # 0 => s[at] \in ServedApps(sources)
      BY <2>1
    <2>4. at # 0 => Overlay(s[at], overrides[i].attributes) \in T
      BY <1>1, <2>3, OverlaidIn
    <2> HIDE DEF T
    <2>5. QED
      BY <2>1, <2>2, <2>4
  <1>3. ASSUME NEW s \in S, NEW t \in S, ServedAlike(s, t, added), NEW i \in 1..n
        PROVE  ServedAlike(OverrideEntity(s, overrides[i]), OverrideEntity(t, overrides[i]), added)
    <2> DEFINE at == IndexOfName(s, overrides[i].name)
               m == Len(s)
               one == OverrideEntity(s, overrides[i])
               two == OverrideEntity(t, overrides[i])
               laid == Overlay(s[at], overrides[i].attributes)
               laidTwin == Overlay(t[at], overrides[i].attributes)
    <2>1. /\ m \in Nat /\ Len(t) = m /\ s \in Seq(T) /\ t \in Seq(T)
          /\ \A j \in 1..m : SameApp(s[j], t[j], added) /\ s[j].service = t[j].service
      BY <1>3 DEF ServedAlike, AppsAlike
    <2>2. at \in 0..m
      BY IndexIn
    <2>3. IndexOfName(t, overrides[i].name) = at
      <3>1. \A j \in 1..Len(s) : s[j].name = t[j].name
        BY <2>1 DEF SameApp
      <3> HIDE DEF T
      <3>2. IndexOfName(s, overrides[i].name) = IndexOfName(t, overrides[i].name)
        BY <2>1, <3>1, SameIndex
      <3>3. QED
        BY <3>2
    <2>4. /\ one = IF at = 0 THEN s ELSE [s EXCEPT ![at] = laid]
          /\ two = IF at = 0 THEN t ELSE [t EXCEPT ![at] = laidTwin]
      BY <2>3 DEF OverrideEntity
    <2> HIDE DEF at
    <2>5. CASE at = 0
      BY <1>3, <2>4, <2>5
    <2>6. CASE at # 0
      <3>1. /\ at \in 1..m /\ s[at] \in ServedApps(sources) /\ t[at] \in ServedApps(sources)
            /\ SameApp(s[at], t[at], added) /\ s[at].service = t[at].service
        BY <2>1, <2>2, <2>6
      <3>2. SameApp(laid, laidTwin, added) /\ laid.service = laidTwin.service
        <4> DEFINE app == s[at]
                   twin == t[at]
                   override == overrides[i]
        <4>1. /\ app \in ServedApps(sources) /\ twin \in ServedApps(sources)
              /\ SameApp(app, twin, added) /\ app.service = twin.service
              /\ IsAppOverride(override)
          BY <1>1, <3>1
        <4> HIDE DEF app, twin, override, one, two, S, T, n
        <4>2. /\ SameApp(Overlay(app, override.attributes),
                         Overlay(twin, override.attributes), added)
              /\ Overlay(app, override.attributes).service
                    = Overlay(twin, override.attributes).service
          BY <4>1, OverlayAlike
        <4>3. QED
          BY <4>2 DEF app, twin, override
      <3> HIDE DEF one, two, laid, laidTwin, T
      <3>3. /\ Len(one) = m /\ one[at] = laid /\ \A j \in 1..m : j # at => one[j] = s[j]
            /\ Len(two) = m /\ two[at] = laidTwin /\ \A j \in 1..m : j # at => two[j] = t[j]
        BY <2>1, <2>4, <2>6, <3>1
      <3>4. \A j \in 1..m : SameApp(one[j], two[j], added) /\ one[j].service = two[j].service
        BY <2>1, <3>2, <3>3
      <3> HIDE DEF m
      <3>5. QED
        BY <3>3, <3>4 DEF ServedAlike, AppsAlike, one, two
    <2>7. QED
      BY <2>5, <2>6
  <1>4. list \in S /\ other \in S
    OBVIOUS
  <1> HIDE DEF n, S
  <1>5. PICK g : OverridesRun(g, S, n, list, overrides)
    BY <1>1, <1>2, <1>4, OverridesReached
  <1>6. PICK h : OverridesRun(h, S, n, other, overrides)
    BY <1>1, <1>2, <1>4, OverridesReached
  <1>7. /\ g \in [0..n -> S] /\ g[0] = list
        /\ \A i \in 1..n : g[i] = OverrideEntity(g[i - 1], overrides[i])
        /\ OverrideList(list, overrides) = g[n]
        /\ h \in [0..n -> S] /\ h[0] = other
        /\ \A i \in 1..n : h[i] = OverrideEntity(h[i - 1], overrides[i])
        /\ OverrideList(other, overrides) = h[n]
    BY <1>5, <1>6 DEF OverridesRun
  <1> DEFINE upto == {i \in 0..n : ServedAlike(g[i], h[i], added)}
  <1>8. 0 \in upto
    BY <1>1, <1>7
  <1>9. ASSUME NEW i \in 0..n, i < n, i \in upto PROVE i + 1 \in upto
    <2>1. i + 1 \in 1..n /\ i + 1 \in 0..n /\ (i + 1) - 1 = i
      BY <1>1, <1>9
    <2>2. /\ g[i] \in S /\ g[i + 1] = OverrideEntity(g[i], overrides[i + 1])
          /\ h[i] \in S /\ h[i + 1] = OverrideEntity(h[i], overrides[i + 1])
      BY <1>7, <2>1
    <2>3. ServedAlike(g[i], h[i], added)
      BY <1>9
    <2>4. ServedAlike(g[i + 1], h[i + 1], added)
      BY <1>3, <2>1, <2>2, <2>3
    <2>5. QED
      BY <2>1, <2>4
  <1>10. n \in upto
    <2> HIDE DEF upto
    <2>1. \A i \in 0..n : i \in upto
      BY <1>1, <1>8, <1>9, UpTo
    <2>2. QED
      BY <1>1, <2>1
  <1>11. QED
    BY <1>7, <1>10

\* The groups of an app no override gives groups to stay.
GroupsKept(list, overrides, sources) ==
    {kept \in SameApps(list, sources) :
        \A i \in 1..Len(list) :
            kept[i].groups # list[i].groups =>
                \E k \in DOMAIN overrides : /\ overrides[k].name = list[i].name
                                            /\ "groups" \in DOMAIN overrides[k].attributes}

(* The overrides leave the groups they do not name, and all names.         *)
LEMMA OverridesKeepGroups ==
    ASSUME NEW sources, NEW list \in Seq(ServedApps(sources)),
           NEW overrides, IsList(overrides),
           \A i \in DOMAIN overrides : IsAppOverride(overrides[i])
    PROVE  OverrideList(list, overrides) \in GroupsKept(list, overrides, sources)
  <1> DEFINE n == Len(overrides)
             S == GroupsKept(list, overrides, sources)
  <1>1. n \in Nat /\ DOMAIN overrides = 1..n
    BY DEF IsList
  <1>2. ASSUME NEW s \in S, NEW i \in 1..n PROVE OverrideEntity(s, overrides[i]) \in S
    <2> DEFINE at == IndexOfName(s, overrides[i].name)
               T == ServedApps(sources)
               given == overrides[i].attributes
               laid == Overlay(s[at], given)
               r == OverrideEntity(s, overrides[i])
    <2>1. /\ s \in Seq(T) /\ Len(s) = Len(list) /\ Len(s) \in Nat
          /\ \A j \in 1..Len(list) : s[j].name = list[j].name /\ s[j].service = list[j].service
          /\ \A j \in 1..Len(list) : s[j].groups # list[j].groups =>
                \E k \in 1..n : /\ overrides[k].name = list[j].name
                                /\ "groups" \in DOMAIN overrides[k].attributes
      BY <1>1 DEF SameApps, GroupsKept
    <2>2. at \in 0..Len(s) /\ (at # 0 => s[at].name = overrides[i].name)
      BY <2>1, IndexIn
    <2>3. r = IF at = 0 THEN s ELSE [s EXCEPT ![at] = laid]
      BY DEF OverrideEntity
    <2> HIDE DEF at
    <2>4. CASE at = 0
      BY <2>3, <2>4
    <2>5. CASE at # 0
      <3>1. at \in 1..Len(s) /\ s[at] \in ServedApps(sources)
        BY <2>1, <2>2, <2>5
      <3>2. laid \in T /\ laid.name = s[at].name /\ laid.service = s[at].service
        BY <1>1, <3>1, OverlaidIn, OverlayKeeps
      <3>3. "groups" \notin DOMAIN given => laid.groups = s[at].groups
        <4>1. DOMAIN s[at] = {"name", "type", "url", "groups", "service"}
          BY <3>1 DEF ServedApps
        <4> DEFINE app == s[at]
        <4> HIDE DEF given, app
        <4>2. Overlay(app, given)
                = [f \in DOMAIN app \cup DOMAIN given |->
                    IF f \in DOMAIN given THEN given[f] ELSE app[f]]
          BY Zenon DEF Overlay
        <4>3. "groups" \notin DOMAIN given => Overlay(app, given)["groups"] = app["groups"]
          BY <4>1, <4>2 DEF app
        <4>4. QED
          BY <4>3 DEF app
      <3>4. r = [s EXCEPT ![at] = laid]
        BY <2>3, <2>5
      <3> HIDE DEF T, laid, r
      <3>5. r \in Seq(T) /\ Len(r) = Len(s) /\ r[at] = laid
            /\ \A j \in 1..Len(s) : j # at => r[j] = s[j]
        BY <2>1, <3>1, <3>2, <3>4
      <3>6. \A j \in 1..Len(list) : r[j].name = list[j].name /\ r[j].service = list[j].service
        BY <2>1, <3>2, <3>5
      <3>7. \A j \in 1..Len(list) : r[j].groups # list[j].groups =>
                \E k \in 1..n : /\ overrides[k].name = list[j].name
                                /\ "groups" \in DOMAIN overrides[k].attributes
        BY <2>1, <2>2, <2>5, <3>3, <3>5
      <3>8. r \in SameApps(list, sources)
        BY <2>1, <3>5, <3>6 DEF SameApps, T
      <3>9. QED
        BY <1>1, <3>7, <3>8 DEF GroupsKept, r
    <2>6. QED
      BY <2>4, <2>5
  <1>3. list \in S
    BY DEF SameApps, GroupsKept
  <1> HIDE DEF n, S
  <1>4. OverrideList(list, overrides) \in S
    BY <1>1, <1>2, <1>3, OverridesFold
  <1>5. QED
    BY <1>4 DEF S

--------------------------------------------------------------------------------
(* Where an item of the merge comes from: a declaration of its service,    *)
(* which the resolver changes in its url only, and only a relative one.    *)
ComesFrom(item, config) ==
    /\ config.name = item.source
    /\ \E i \in DOMAIN config.meta.apps :
        /\ config.meta.apps[i].name = item.component.name
        /\ config.meta.apps[i].type = item.component.type
        /\ config.meta.apps[i].groups = item.component.groups
        /\ config.meta.apps[i].url # Relative => config.meta.apps[i].url = item.component.url

IsDeclared(item, configs) == \E j \in DOMAIN configs : ComesFrom(item, configs[j])

\* The stores of a merge of these configurations: a name is there once.
OnceIn(store) ==
    \A i, j \in 1..Len(store) : store[i].component.name = store[j].component.name => i = j

DeclaredStores(sources, configs) ==
    {stores \in Stores(sources) :
        /\ OnceIn(stores.apps)
        /\ \A i \in 1..Len(stores.apps) :
                /\ IsDeclared(stores.apps[i], configs)
                /\ stores.apps[i].component.service = stores.apps[i].source}

(* A lookup answers 0 only when the name is not there.                     *)
LEMMA StoreIndexNone ==
    ASSUME NEW T, NEW store \in Seq(T), NEW name, StoreIndex(store, name) = 0
    PROVE  \A i \in 1..Len(store) : store[i].component.name # name
  <1> DEFINE found == {i \in 1..Len(store) : store[i].component.name = name}
  <1>1. StoreIndex(store, name) = IF found # {} THEN Min(found) ELSE 0
    BY Zenon DEF StoreIndex, SelectInSeq
  <1>2. found \in SUBSET (1..Len(store)) /\ Len(store) \in Nat
    OBVIOUS
  <1> HIDE DEF found
  <1>3. ASSUME found # {} PROVE FALSE
    <2>1. Min(found) \in found
      BY <1>2, <1>3, MinPosition
    <2>2. QED
      BY <1>1, <1>2, <1>3, <2>1
  <1>4. QED
    BY <1>3 DEF found

(* The same in a list of entities.                                         *)
LEMMA IndexNone ==
    ASSUME NEW T, NEW list \in Seq(T), NEW name, IndexOfName(list, name) = 0
    PROVE  \A i \in 1..Len(list) : list[i].name # name
  <1> DEFINE found == {i \in 1..Len(list) : list[i].name = name}
  <1>1. IndexOfName(list, name) = IF found # {} THEN Min(found) ELSE 0
    BY Zenon DEF IndexOfName, SelectInSeq
  <1>2. found \in SUBSET (1..Len(list)) /\ Len(list) \in Nat
    OBVIOUS
  <1> HIDE DEF found
  <1>3. ASSUME found # {} PROVE FALSE
    <2>1. Min(found) \in found
      BY <1>2, <1>3, MinPosition
    <2>2. QED
      BY <1>1, <1>2, <1>3, <2>1
  <1>4. QED
    BY <1>3 DEF found

(* A name stays in the store once.                                         *)
LEMMA PutOnce ==
    ASSUME NEW T, NEW store \in Seq(T), OnceIn(store), NEW item \in T
    PROVE  OnceIn(PutItem(store, item))
  <1> DEFINE at == StoreIndex(store, item.component.name)
             r == PutItem(store, item)
             n == Len(store)
  <1>1. n \in Nat /\ at \in 0..n /\ (at # 0 => store[at].component.name = item.component.name)
        /\ (at = 0 => \A i \in 1..n : store[i].component.name # item.component.name)
    BY StoreIndexIn, StoreIndexNone
  <1>2. r = IF at = 0 THEN Append(store, item) ELSE [store EXCEPT ![at] = item]
    BY DEF PutItem
  <1> HIDE DEF at, r
  <1>3. CASE at = 0
    <2>1. Len(r) = n + 1 /\ r[n + 1] = item /\ \A i \in 1..n : r[i] = store[i]
      BY <1>2, <1>3
    <2>2. \A i \in 1..(n + 1) : i \in 1..n \/ i = n + 1
      BY <1>1
    <2> HIDE DEF n
    <2>3. \A i, j \in 1..(n + 1) : r[i].component.name = r[j].component.name => i = j
      BY <1>1, <1>3, <2>1, <2>2 DEF OnceIn, n
    <2>4. QED
      BY <2>1, <2>3 DEF OnceIn, r
  <1>4. CASE at # 0
    <2>1. Len(r) = n /\ r[at] = item /\ \A i \in 1..n : i # at => r[i] = store[i]
      BY <1>1, <1>2, <1>4
    <2>2. \A i \in 1..n : r[i].component.name = store[i].component.name
      BY <1>1, <1>4, <2>1
    <2>3. QED
      BY <2>1, <2>2 DEF OnceIn, r
  <1>5. QED
    BY <1>3, <1>4

\* What adding an app does to the stores.
Added(stores, item, r) ==
    /\ r.apps = PutItem(stores.apps, item)
    /\ r.manualApps = IF item.source = Manual
                      THEN PutByName(stores.manualApps, WithoutService(item.component))
                      ELSE stores.manualApps

(* The item stored for an app is that of a declaration.                    *)
LEMMA AddedIsDeclared ==
    ASSUME NEW sources, NEW configs, NEW stores \in DeclaredStores(sources, configs),
           NEW j \in DOMAIN configs, IsConfig(configs[j], sources),
           NEW i \in DOMAIN configs[j].meta.apps
    PROVE  LET r == AddApp(stores, configs[j].meta.apps[i], configs[j])
           IN  /\ r \in DeclaredStores(sources, configs)
               /\ \E item \in Items(ServedApps(sources), sources) :
                    /\ item.component.name = configs[j].meta.apps[i].name
                    /\ IsDeclared(item, configs)
                    /\ Added(stores, item, r)
  <1> DEFINE config == configs[j]
             app == config.meta.apps[i]
             T == Items(ServedApps(sources), sources)
             resolved == ResolvedItem(stores.apps, app, config)
             item == UpdateItemToAbsoluteUrl(resolved, config)
             new == [component |-> app, source |-> config.name]
             at == StoreIndex(stores.apps, app.name)
             r == AddApp(stores, app, config)
  <1>1. /\ stores \in Stores(sources) /\ stores.apps \in Seq(T)
        /\ OnceIn(stores.apps)
        /\ \A k \in 1..Len(stores.apps) :
                /\ IsDeclared(stores.apps[k], configs)
                /\ stores.apps[k].component.service = stores.apps[k].source
        /\ config.name \in sources /\ config.base \in Urls \cup {NoBase}
        /\ app \in GroupedApps
    BY DEF Stores, IsConfig, GroupedMetas, DeclaredStores
  <1>2. resolved = IF at = 0 THEN new ELSE ResolveEntityByType(stores.apps[at], new)
    BY DEF ResolvedItem
  <1>3. at \in 0..Len(stores.apps) /\ (at # 0 => stores.apps[at].component.name = app.name)
    <2> HIDE DEF T
    <2>1. QED
      BY <1>1, StoreIndexIn
  <1> HIDE DEF at
  <1>4. \/ resolved = new
        \/ at # 0 /\ resolved = stores.apps[at]
    BY <1>2 DEF ResolveEntityByType
  <1>5. at # 0 => at \in 1..Len(stores.apps) /\ stores.apps[at] \in T
    BY <1>1, <1>3
  <1>6. IsDeclared(new, configs)
    <2>1. ComesFrom(new, configs[j])
      BY DEF ComesFrom
    <2>2. QED
      BY <2>1 DEF IsDeclared
  <1> HIDE DEF resolved
  <1>7. IsDeclared(resolved, configs) /\ resolved.component.name = app.name
    BY <1>1, <1>3, <1>4, <1>5, <1>6
  <1>8. /\ resolved.source \in sources
        /\ resolved.component.name \in EntityNames
        /\ resolved.component.type \in EntityTypes
        /\ resolved.component.url \in Urls
        /\ resolved.component.groups \in SUBSET GroupNames
        /\ resolved = [component |-> resolved.component, source |-> resolved.source]
    BY <1>1, <1>4, <1>5 DEF Items, ServedApps, GroupedApps
  <1>9. /\ item.source = resolved.source
        /\ item.component = [name |-> resolved.component.name, type |-> resolved.component.type,
              url |-> UpdateToAbsoluteUrl(resolved.component.url, config.base),
              groups |-> resolved.component.groups, service |-> resolved.source]
        /\ item = [component |-> item.component, source |-> item.source]
    BY <1>8 DEF UpdateItemToAbsoluteUrl
  <1>10. UpdateToAbsoluteUrl(resolved.component.url, config.base) \in Urls
         /\ (resolved.component.url # Relative =>
                UpdateToAbsoluteUrl(resolved.component.url, config.base) = resolved.component.url)
    BY <1>1, <1>8 DEF UpdateToAbsoluteUrl
  <1>11. item \in T
    <2> HIDE DEF item
    <2>1. item.component \in ServedApps(sources)
      BY <1>8, <1>9, <1>10 DEF ServedApps
    <2>2. QED
      BY <1>8, <1>9, <2>1 DEF Items
  <1> HIDE DEF item, config
  <1>12. item.component.name = app.name /\ item.component.service = item.source
    BY <1>7, <1>9
  <1>13. IsDeclared(item, configs)
    <2>1. PICK k \in DOMAIN configs : ComesFrom(resolved, configs[k])
      BY <1>7 DEF IsDeclared
    <2>2. PICK m \in DOMAIN configs[k].meta.apps :
            /\ configs[k].meta.apps[m].name = resolved.component.name
            /\ configs[k].meta.apps[m].type = resolved.component.type
            /\ configs[k].meta.apps[m].groups = resolved.component.groups
            /\ configs[k].meta.apps[m].url # Relative
                 => configs[k].meta.apps[m].url = resolved.component.url
      BY <2>1 DEF ComesFrom
    <2>3. /\ item.component.name = resolved.component.name
          /\ item.component.type = resolved.component.type
          /\ item.component.groups = resolved.component.groups
          /\ resolved.component.url # Relative => item.component.url = resolved.component.url
      BY <1>9, <1>10
    <2>4. ComesFrom(item, configs[k])
      BY <1>9, <2>1, <2>2, <2>3 DEF ComesFrom
    <2>5. QED
      BY <2>4 DEF IsDeclared
  <1>14. r = PutApp(stores, item)
    BY DEF AddApp, item, resolved
  <1>15. Added(stores, item, r)
    <2> HIDE DEF T, app
    <2>1. QED
      BY <1>1, <1>14 DEF Added, PutApp, Stores
  <1>16. r \in Stores(sources)
    BY <1>1, AddAppIn DEF config
  <1>17. OnceIn(r.apps)
    <2> HIDE DEF T, r
    <2>1. OnceIn(PutItem(stores.apps, item))
      BY <1>1, <1>11, PutOnce
    <2>2. QED
      BY <1>15, <2>1 DEF Added
  <1>18. \A k \in 1..Len(r.apps) : /\ IsDeclared(r.apps[k], configs)
                                    /\ r.apps[k].component.service = r.apps[k].source
    <2> HIDE DEF T, r
    <2> DEFINE put == PutItem(stores.apps, item)
    <2>1. \A k \in 1..Len(put) : put[k] = item \/ \E m \in 1..Len(stores.apps) : put[k] = stores.apps[m]
      BY <1>1, <1>11, PutIs
    <2> HIDE DEF put
    <2>2. \A k \in 1..Len(put) : /\ IsDeclared(put[k], configs)
                                  /\ put[k].component.service = put[k].source
      BY <1>1, <1>12, <1>13, <2>1
    <2>3. QED
      BY <1>15, <2>2 DEF Added, put
  <1>19. r \in DeclaredStores(sources, configs)
    BY <1>16, <1>17, <1>18 DEF DeclaredStores
  <1> HIDE DEF r, T
  <1>20. QED
    BY <1>11, <1>12, <1>13, <1>15, <1>19 DEF r, T, app, config

\* The apps of the manual configuration, of which there is one in the list.
ManualList(configs, list) ==
    /\ \A j \in DOMAIN configs : configs[j].name = Manual => configs[j].meta.apps = list
    /\ list \in Seq(GroupedApps) /\ NamesOnce(list) /\ UrlsAbsolute(list)

(* A manual app with an absolute url is never changed by the merge.        *)
LEMMA ManualAppIs ==
    ASSUME NEW sources, NEW configs, NEW list, ManualList(configs, list),
           NEW item \in Items(ServedApps(sources), sources), IsDeclared(item, configs),
           item.source = Manual
    PROVE  \E k \in 1..Len(list) : WithoutService(item.component) = list[k]
  <1>1. PICK j \in DOMAIN configs : ComesFrom(item, configs[j])
    BY DEF IsDeclared
  <1>2. configs[j].meta.apps = list
    BY <1>1 DEF ComesFrom, ManualList
  <1>3. PICK k \in DOMAIN list :
            /\ list[k].name = item.component.name
            /\ list[k].type = item.component.type
            /\ list[k].groups = item.component.groups
            /\ list[k].url # Relative => list[k].url = item.component.url
    BY <1>1, <1>2 DEF ComesFrom
  <1>4. k \in 1..Len(list) /\ list[k] \in GroupedApps /\ list[k].url # Relative
    BY DEF ManualList, UrlsAbsolute
  <1>5. list[k] = [name |-> list[k].name, type |-> list[k].type, url |-> list[k].url,
                   groups |-> list[k].groups]
    BY <1>4 DEF GroupedApps
  <1>6. WithoutService(item.component) = list[k]
    BY <1>3, <1>4, <1>5 DEF WithoutService
  <1>7. QED
    BY <1>4, <1>6

(* Put into the list it is in, it changes nothing.                         *)
LEMMA PutKnown ==
    ASSUME NEW list \in Seq(GroupedApps), NamesOnce(list), NEW k \in 1..Len(list)
    PROVE  PutByName(list, list[k]) = list
  <1> DEFINE at == IndexOfName(list, list[k].name)
  <1>1. at \in 0..Len(list) /\ (at # 0 => list[at].name = list[k].name)
        /\ (at = 0 => \A i \in 1..Len(list) : list[i].name # list[k].name)
    BY IndexIn, IndexNone
  <1>2. PutByName(list, list[k]) = IF at = 0 THEN Append(list, list[k]) ELSE [list EXCEPT ![at] = list[k]]
    BY DEF PutByName
  <1> HIDE DEF at
  <1>3. at \in 1..Len(list) /\ DOMAIN list = 1..Len(list)
    BY <1>1
  <1>4. at = k
    BY <1>1, <1>3 DEF NamesOnce
  <1>5. list = [i \in 1..Len(list) |-> list[i]]
    BY <1>3
  <1>6. [list EXCEPT ![k] = list[k]] = list
    BY <1>3, <1>5
  <1>7. at # 0
    BY <1>3
  <1>8. QED
    BY <1>2, <1>4, <1>6, <1>7

(* The manual configuration is merged first: each of its apps is new.      *)
LEMMA ManualResolved ==
    ASSUME NEW sources, NEW config, IsConfig(config, sources), config.name = Manual,
           NamesOnce(config.meta.apps), UrlsAbsolute(config.meta.apps)
    PROVE  ResolveApps(EmptyStores, config).manualApps = config.meta.apps
  <1> DEFINE list == config.meta.apps
             n == Len(list)
             configs == [i \in {1} |-> config]
             S == DeclaredStores(sources, configs)
  <1>1. /\ list \in Seq(GroupedApps) /\ n \in Nat /\ DOMAIN list = 1..n
        /\ \A i \in 1..n : list[i] \in GroupedApps
        /\ \A i, j \in 1..n : list[i].name = list[j].name => i = j
    BY DEF IsConfig, GroupedMetas, NamesOnce
  <1>2. DOMAIN configs = {1} /\ configs[1] = config
    OBVIOUS
  <1>3. ManualList(configs, list)
    BY <1>1, <1>2 DEF ManualList
  <1>4. EmptyStores \in S
    BY DEF EmptyStores, DeclaredStores, Stores, OnceIn
  <1> HIDE DEF configs
  <1>5. ASSUME NEW s \in S, NEW i \in 1..n
        PROVE  LET r == AddApp(s, list[i], config)
               IN  r \in S /\ r.manualApps = PutByName(s.manualApps, list[i])
    <2> DEFINE r == AddApp(s, list[i], config)
    <2>1. i \in DOMAIN configs[1].meta.apps /\ 1 \in DOMAIN configs /\ IsConfig(configs[1], sources)
      BY <1>1, <1>2
    <2>2. /\ AddApp(s, configs[1].meta.apps[i], configs[1]) \in DeclaredStores(sources, configs)
          /\ \E item \in Items(ServedApps(sources), sources) :
                /\ item.component.name = configs[1].meta.apps[i].name
                /\ IsDeclared(item, configs)
                /\ Added(s, item, AddApp(s, configs[1].meta.apps[i], configs[1]))
      BY <2>1, AddedIsDeclared
    <2> HIDE DEF r
    <2>3. PICK item \in Items(ServedApps(sources), sources) :
              /\ item.component.name = list[i].name
              /\ IsDeclared(item, configs)
              /\ Added(s, item, r)
      BY <1>2, <2>2 DEF r
    <2>4. item.source = Manual
      BY <1>2, <2>3 DEF IsDeclared, ComesFrom
    <2> HIDE DEF list
    <2>5. PICK k \in 1..n : WithoutService(item.component) = list[k]
      BY <1>3, <2>3, <2>4, ManualAppIs
    <2>6. list[k].name = list[i].name
      BY <2>3, <2>5 DEF WithoutService
    <2>7. k = i
      BY <1>1, <2>6
    <2>8. r.manualApps = PutByName(s.manualApps, list[i])
      BY <2>3, <2>4, <2>5, <2>7 DEF Added
    <2>9. r \in S
      BY <1>2, <2>2 DEF r, list
    <2>10. QED
      BY <2>8, <2>9 DEF r
  <1>6. \A s \in S, i \in 1..n : AddApp(s, config.meta.apps[i], config) \in S
    BY <1>5
  <1>7. \A s \in S : s.manualApps \in Seq(GroupedApps)
    BY DEF DeclaredStores, Stores
  <1> HIDE DEF n, S
  <1>8. PICK g : AppsRun(g, S, n, EmptyStores, config)
    BY <1>1, <1>4, <1>6, AppsReached
  <1>9. /\ g \in [0..n -> S] /\ g[0] = EmptyStores
        /\ \A i \in 1..n : g[i] = AddApp(g[i - 1], list[i], config)
        /\ ResolveApps(EmptyStores, config) = g[n]
    BY <1>8 DEF AppsRun
  <1> HIDE DEF list
  <1> DEFINE upto == {i \in 0..n : /\ Len(g[i].manualApps) = i
                                   /\ \A j \in 1..i : g[i].manualApps[j] = list[j]}
  <1>10. 0 \in upto
    BY <1>1, <1>9 DEF EmptyStores
  <1>11. ASSUME NEW i \in 0..n, i < n, i \in upto PROVE i + 1 \in upto
    <2> DEFINE before == g[i].manualApps
               app == list[i + 1]
    <2>1. i + 1 \in 1..n /\ i + 1 \in 0..n /\ (i + 1) - 1 = i
      BY <1>1, <1>11
    <2>2. g[i] \in S /\ g[i + 1].manualApps = PutByName(before, app)
      BY <1>5, <1>9, <2>1
    <2>3. /\ before \in Seq(GroupedApps) /\ Len(before) = i
          /\ \A j \in 1..i : before[j] = list[j]
      BY <1>7, <1>11, <2>2
    <2>4. \A j \in 1..i : before[j].name # app.name
      <3>1. ASSUME NEW j \in 1..i PROVE j \in 1..n /\ j # i + 1
        BY <1>1, <2>1
      <3>2. QED
        BY <1>1, <2>1, <2>3, <3>1
    <2> HIDE DEF before, app
    <2>5. IndexOfName(before, app.name) = 0
      <3>1. /\ IndexOfName(before, app.name) \in 0..i
            /\ IndexOfName(before, app.name) # 0
                 => before[IndexOfName(before, app.name)].name = app.name
        BY <2>3, IndexIn
      <3>2. QED
        BY <2>4, <3>1
    <2>6. PutByName(before, app) = Append(before, app)
      BY <2>5 DEF PutByName
    <2>7. /\ Len(Append(before, app)) = i + 1
          /\ Append(before, app)[i + 1] = app
          /\ \A j \in 1..i : Append(before, app)[j] = before[j]
      BY <2>3
    <2>8. \A j \in 1..(i + 1) : j \in 1..i \/ j = i + 1
      BY <1>1
    <2>9. \A j \in 1..(i + 1) : g[i + 1].manualApps[j] = list[j]
      BY <2>2, <2>3, <2>6, <2>7, <2>8 DEF app
    <2>10. QED
      BY <2>1, <2>2, <2>6, <2>7, <2>9
  <1>12. n \in upto
    <2> HIDE DEF upto
    <2>1. \A i \in 0..n : i \in upto
      BY <1>1, <1>10, <1>11, UpTo
    <2>2. QED
      BY <1>1, <2>1
  <1> DEFINE result == g[n].manualApps
  <1>13. /\ result \in Seq(GroupedApps) /\ Len(result) = n
         /\ \A j \in 1..n : result[j] = list[j]
    BY <1>1, <1>7, <1>9, <1>12
  <1> HIDE DEF result
  <1>14. result = list
    BY <1>1, <1>13 DEF n
  <1>15. QED
    BY <1>9, <1>14 DEF result, list

(* The apps of one configuration of the list.                              *)
LEMMA AppsDeclared ==
    ASSUME NEW sources, NEW configs, NEW stores \in DeclaredStores(sources, configs),
           NEW j \in DOMAIN configs, IsConfig(configs[j], sources)
    PROVE  LET r == ResolveApps(stores, configs[j])
           IN  /\ r \in DeclaredStores(sources, configs)
               /\ ManualList(configs, stores.manualApps) => r.manualApps = stores.manualApps
  <1> DEFINE config == configs[j]
             n == Len(config.meta.apps)
             D == DeclaredStores(sources, configs)
             list == stores.manualApps
             M == {s \in D : s.manualApps = list}
  <1>1. n \in Nat /\ DOMAIN config.meta.apps = 1..n
    BY DEF IsConfig, GroupedMetas
  <1>2. ASSUME NEW s \in D, NEW i \in 1..n
        PROVE  LET r == AddApp(s, config.meta.apps[i], config)
               IN  r \in D /\ \E item \in Items(ServedApps(sources), sources) :
                                    IsDeclared(item, configs) /\ Added(s, item, r)
    <2>1. s \in DeclaredStores(sources, configs) /\ i \in DOMAIN configs[j].meta.apps
      BY <1>1
    <2> HIDE DEF D, n
    <2>2. QED
      BY <2>1, AddedIsDeclared DEF D
  <1>3. \A s \in D, i \in 1..n : AddApp(s, config.meta.apps[i], config) \in D
    BY <1>2
  <1>4. stores \in D /\ stores \in M
    OBVIOUS
  <1>5. ResolveApps(stores, config) \in D
    <2> HIDE DEF D, n, config
    <2>1. QED
      BY <1>1, <1>3, <1>4, AppsFold
  <1>6. ASSUME ManualList(configs, list) PROVE ResolveApps(stores, config) \in M
    <2>1. list \in Seq(GroupedApps) /\ NamesOnce(list)
      BY <1>6 DEF ManualList
    <2>2. ASSUME NEW s \in M, NEW i \in 1..n
          PROVE  AddApp(s, config.meta.apps[i], config) \in M
      <3> DEFINE r == AddApp(s, config.meta.apps[i], config)
      <3>1. s \in D /\ s.manualApps = list
        OBVIOUS
      <3>2. r \in D /\ \E item \in Items(ServedApps(sources), sources) :
                            IsDeclared(item, configs) /\ Added(s, item, r)
        BY <1>2, <3>1
      <3> HIDE DEF r, D, n, config, list
      <3>3. PICK item \in Items(ServedApps(sources), sources) :
                IsDeclared(item, configs) /\ Added(s, item, r)
        BY <3>2
      <3>4. item.source # Manual => r.manualApps = list
        BY <3>1, <3>3 DEF Added
      <3>5. ASSUME item.source = Manual PROVE r.manualApps = list
        <4>1. PICK k \in 1..Len(list) : WithoutService(item.component) = list[k]
          BY <1>6, <3>3, <3>5, ManualAppIs
        <4>2. PutByName(list, list[k]) = list
          BY <2>1, PutKnown
        <4>3. QED
          BY <3>1, <3>3, <3>5, <4>1, <4>2 DEF Added
      <3>6. r.manualApps = list
        BY <3>4, <3>5
      <3>7. QED
        BY <3>2, <3>6 DEF r
    <2> HIDE DEF M, n, config
    <2>3. QED
      BY <1>1, <1>4, <2>2, AppsFold
  <1>7. QED
    BY <1>5, <1>6

(* A whole configuration.                                                  *)
LEMMA ProcessedDeclared ==
    ASSUME NEW sources, NEW configs, NEW stores \in DeclaredStores(sources, configs),
           NEW j \in DOMAIN configs, IsConfig(configs[j], sources)
    PROVE  LET r == ProcessConfig(stores, configs[j])
           IN  /\ r \in DeclaredStores(sources, configs)
               /\ r.manualApps = ResolveApps(stores, configs[j]).manualApps
               /\ ManualList(configs, stores.manualApps) => r.manualApps = stores.manualApps
  <1> DEFINE r == ProcessConfig(stores, configs[j])
             apps == ResolveApps(stores, configs[j])
  <1>1. /\ apps \in DeclaredStores(sources, configs)
        /\ ManualList(configs, stores.manualApps) => apps.manualApps = stores.manualApps
    BY AppsDeclared
  <1>2. r = [apps EXCEPT !.groups     = ResolveGroups(@, configs[j]),
                         !.components = ResolveComponents(@, configs[j]),
                         !.actions    = ResolveActions(@, configs[j])]
    BY DEF ProcessConfig
  <1>3. r \in Stores(sources)
    BY ProcessConfigIn DEF DeclaredStores
  <1> HIDE DEF r, apps
  <1>4. r.apps = apps.apps /\ r.manualApps = apps.manualApps
    BY <1>1, <1>2 DEF DeclaredStores, Stores
  <1>5. r \in DeclaredStores(sources, configs)
    BY <1>1, <1>3, <1>4 DEF DeclaredStores
  <1>6. QED
    BY <1>1, <1>4, <1>5 DEF r, apps

\* The list updateConfig merges: the manual configuration first, then those
\* of the services.
IsMergeList(configs, n, sources, list) ==
    /\ n \in Nat /\ n > 0 /\ DOMAIN configs = 1..n
    /\ \A i \in 1..n : IsConfig(configs[i], sources)
    /\ configs[1].name = Manual /\ ManualList(configs, list)

\* Each app, listed once, has the groups its service declares for it.
AppsDeclaredIn(apps, configs) ==
    /\ NamesOnce(apps)
    /\ \A i \in DOMAIN apps : \E j \in DOMAIN configs :
        /\ configs[j].name = apps[i].service
        /\ \E k \in DOMAIN configs[j].meta.apps :
            /\ configs[j].meta.apps[k].name = apps[i].name
            /\ configs[j].meta.apps[k].groups = apps[i].groups

(* The merged apps are such, and the manual apps are left as they were.    *)
LEMMA MergedDeclared ==
    ASSUME NEW sources, NEW configs, NEW n, NEW list, IsMergeList(configs, n, sources, list)
    PROVE  /\ MergeConfigs(configs).manualApps = list
           /\ AppsDeclaredIn(MergeConfigs(configs).apps, configs)
  <1> DEFINE D == DeclaredStores(sources, configs)
             merged == FoldLeft(ProcessConfig, EmptyStores, configs)
  <1>1. /\ n \in Nat /\ n > 0 /\ DOMAIN configs = 1..n
        /\ \A i \in 1..n : IsConfig(configs[i], sources)
        /\ configs[1].name = Manual /\ configs[1].meta.apps = list
        /\ ManualList(configs, list) /\ NamesOnce(list) /\ UrlsAbsolute(list)
    BY DEF IsMergeList, ManualList
  <1>2. EmptyStores \in D
    BY DEF EmptyStores, DeclaredStores, Stores, OnceIn
  <1>3. ASSUME NEW s \in D, NEW i \in 1..n
        PROVE  /\ ProcessConfig(s, configs[i]) \in D
               /\ ProcessConfig(s, configs[i]).manualApps
                    = ResolveApps(s, configs[i]).manualApps
               /\ ManualList(configs, s.manualApps)
                    => ProcessConfig(s, configs[i]).manualApps = s.manualApps
    <2>1. i \in DOMAIN configs /\ IsConfig(configs[i], sources)
      BY <1>1
    <2>2. s \in DeclaredStores(sources, configs)
      OBVIOUS
    <2> HIDE DEF D
    <2>3. QED
      BY <2>1, <2>2, ProcessedDeclared DEF D
  <1>4. \A s \in D, i \in 1..n : ProcessConfig(s, configs[i]) \in D
    BY <1>3
  <1> HIDE DEF D
  <1>5. PICK g : ConfigsRun(g, D, n, configs)
    BY <1>1, <1>2, <1>4, ConfigsReached
  <1>6. /\ g \in [0..n -> D] /\ g[0] = EmptyStores
        /\ \A i \in 1..n : g[i] = ProcessConfig(g[i - 1], configs[i])
        /\ merged = g[n]
    BY <1>5 DEF ConfigsRun
  <1> DEFINE upto == {i \in 0..n : i # 0 => g[i].manualApps = list}
  <1>7. 0 \in upto
    BY <1>1
  <1>8. ASSUME NEW i \in 0..n, i < n, i \in upto PROVE i + 1 \in upto
    <2>1. i + 1 \in 1..n /\ i + 1 \in 0..n /\ (i + 1) - 1 = i
      BY <1>1, <1>8
    <2>2. g[i] \in D /\ g[i + 1] = ProcessConfig(g[i], configs[i + 1])
      BY <1>6, <2>1
    <2>3. CASE i = 0
      <3>1. 1 \in 1..n /\ g[1] = ProcessConfig(EmptyStores, configs[1])
        BY <1>6, <2>1, <2>2, <2>3
      <3>2. g[1].manualApps = ResolveApps(EmptyStores, configs[1]).manualApps
        BY <1>2, <1>3, <3>1
      <3> DEFINE config == configs[1]
      <3>3. IsConfig(config, sources) /\ config.name = Manual
            /\ NamesOnce(config.meta.apps) /\ UrlsAbsolute(config.meta.apps)
        BY <1>1, <3>1
      <3> HIDE DEF config
      <3>4. ResolveApps(EmptyStores, config).manualApps = config.meta.apps
        BY <3>3, ManualResolved
      <3>5. g[1].manualApps = list
        BY <1>1, <3>2, <3>4 DEF config
      <3>6. QED
        BY <2>1, <2>3, <3>5
    <2>4. CASE i # 0
      <3>1. g[i].manualApps = list
        BY <1>8, <2>4
      <3>2. g[i + 1].manualApps = list
        BY <1>1, <1>3, <2>1, <2>2, <3>1
      <3>3. QED
        BY <2>1, <3>2
    <2>5. QED
      BY <2>3, <2>4
  <1>9. n \in upto
    <2> HIDE DEF upto
    <2>1. \A i \in 0..n : i \in upto
      BY <1>1, <1>7, <1>8, UpTo
    <2>2. QED
      BY <1>1, <2>1
  <1>10. merged \in D /\ merged.manualApps = list
    BY <1>1, <1>6, <1>9
  <1>11. MergeConfigs(configs) = ListsOf(merged)
    BY DEF MergeConfigs
  <1> HIDE DEF merged
  <1> DEFINE T == Items(ServedApps(sources), sources)
             m == Len(merged.apps)
             apps == Components(merged.apps)
  <1>12. /\ merged.apps \in Seq(T) /\ m \in Nat /\ DOMAIN merged.apps = 1..m
         /\ \A i, j \in 1..m :
                merged.apps[i].component.name = merged.apps[j].component.name => i = j
         /\ \A i \in 1..m : /\ IsDeclared(merged.apps[i], configs)
                            /\ merged.apps[i].component.service = merged.apps[i].source
    BY <1>10 DEF D, DeclaredStores, Stores, OnceIn
  <1> HIDE DEF m
  <1>13. DOMAIN apps = 1..m /\ \A i \in 1..m : apps[i] = merged.apps[i].component
    BY <1>12 DEF Components
  <1> HIDE DEF apps
  <1>14. ASSUME NEW i \in 1..m
         PROVE  \E j \in DOMAIN configs :
                    /\ configs[j].name = apps[i].service
                    /\ \E k \in DOMAIN configs[j].meta.apps :
                        /\ configs[j].meta.apps[k].name = apps[i].name
                        /\ configs[j].meta.apps[k].groups = apps[i].groups
    <2>1. PICK j \in DOMAIN configs : ComesFrom(merged.apps[i], configs[j])
      BY <1>12 DEF IsDeclared
    <2>2. PICK k \in DOMAIN configs[j].meta.apps :
            /\ configs[j].meta.apps[k].name = merged.apps[i].component.name
            /\ configs[j].meta.apps[k].groups = merged.apps[i].component.groups
      BY <2>1 DEF ComesFrom
    <2>3. configs[j].name = apps[i].service
      BY <1>12, <1>13, <2>1 DEF ComesFrom
    <2>4. QED
      BY <1>13, <2>2, <2>3
  <1>15. AppsDeclaredIn(apps, configs)
    BY <1>12, <1>13, <1>14 DEF AppsDeclaredIn, NamesOnce
  <1>16. QED
    BY <1>10, <1>11, <1>15 DEF ListsOf, apps

--------------------------------------------------------------------------------
\* The groups the first k mappings add to the apps of a name.
MappedTo(groupMappings, k, name) ==
    {groupMappings[i].group :
        i \in {j \in 1..k : \E m \in 1..Len(groupMappings[j].apps) :
                                groupMappings[j].apps[m] = name}}

AddedGroups(groupMappings) ==
    [name \in EntityNames |-> MappedTo(groupMappings, Len(groupMappings), name)]

\* Groups were added to the apps of a list, and nothing else was changed.
Grown(apps, list, groups) ==
    /\ Len(apps) = Len(list)
    /\ \A i \in 1..Len(list) :
        /\ apps[i].name = list[i].name /\ apps[i].type = list[i].type
        /\ apps[i].url = list[i].url /\ apps[i].service = list[i].service
        /\ apps[i].groups = list[i].groups \cup groups[list[i].name]

(* One group, for one app.                                                 *)
LEMMA AddOneGroupGrows ==
    ASSUME NEW sources, NEW result, IsResult(result), NEW r \in Results(result, sources),
           NamesOnce(r.apps), NEW group \in GroupNames, NEW appName
    PROVE  Grown(AddOneGroup(r, group, appName).apps, r.apps,
                 [name \in EntityNames |-> IF name = appName THEN {group} ELSE {}])
  <1> DEFINE at == IndexOfName(r.apps, appName)
             T == ServedApps(sources)
             apps == r.apps
             grown == AddOneGroup(r, group, appName).apps
             groups == [name \in EntityNames |-> IF name = appName THEN {group} ELSE {}]
  <1>1. apps \in Seq(T) /\ Len(apps) \in Nat /\ DOMAIN apps = 1..Len(apps)
        /\ \A i \in 1..Len(apps) : apps[i] \in T
    BY DEF Results, IsResult
  <1>2. r.threw = FALSE /\ DOMAIN r = {"apps", "groups", "components", "actions", "manualApps", "threw"}
    BY DEF IsResult, Results
  <1>3. at \in 0..Len(apps) /\ (at # 0 => apps[at].name = appName)
        /\ (at = 0 => \A i \in 1..Len(apps) : apps[i].name # appName)
    <2> HIDE DEF T
    <2>1. QED
      BY <1>1, IndexIn, IndexNone
  <1>4. \A i \in 1..Len(apps) : groups[apps[i].name] = IF apps[i].name = appName THEN {group} ELSE {}
    BY <1>1 DEF ServedApps
  <1> HIDE DEF groups
  <1>5. CASE at = 0
    <2>1. grown = apps
      BY <1>5 DEF AddOneGroup
    <2> HIDE DEF grown, apps
    <2>2. \A i \in 1..Len(apps) : groups[apps[i].name] = {}
      BY <1>3, <1>4, <1>5
    <2>3. QED
      BY <2>1, <2>2 DEF Grown, grown, apps, groups
  <1>6. CASE at # 0
    <2> DEFINE grouped == [apps[at] EXCEPT !.groups = @ \cup {group}]
    <2>1. at \in 1..Len(apps) /\ apps[at] \in T
      BY <1>1, <1>3, <1>6
    <2>2. apps[at].groups \in SUBSET GroupNames
      BY <2>1 DEF ServedApps
    <2>3. apps[at].groups # NoGroups
      BY <2>2, ContentsAssumption
    <2>4. /\ grouped.name = apps[at].name /\ grouped.type = apps[at].type
          /\ grouped.url = apps[at].url /\ grouped.service = apps[at].service
          /\ grouped.groups = apps[at].groups \cup {group}
      BY <2>1, <2>2 DEF ServedApps
    <2>5. AddOneGroup(r, group, appName) = [r EXCEPT !.apps[at].groups = @ \cup {group}]
      BY <1>2, <1>6, <2>3 DEF AddOneGroup
    <2>6. grown = [apps EXCEPT ![at] = grouped]
      BY <1>2, <2>5
    <2>7. \A i \in 1..Len(apps) : i # at => apps[i].name # appName
      BY <1>1, <1>3, <1>6, <2>1 DEF NamesOnce
    <2> HIDE DEF grouped, T, at, apps, grown
    <2>8. Len(grown) = Len(apps) /\ grown[at] = grouped
          /\ \A j \in 1..Len(apps) : j # at => grown[j] = apps[j]
      BY <1>1, <2>1, <2>6
    <2>9. \A i \in 1..Len(apps) :
            /\ grown[i].name = apps[i].name /\ grown[i].type = apps[i].type
            /\ grown[i].url = apps[i].url /\ grown[i].service = apps[i].service
            /\ grown[i].groups = apps[i].groups \cup groups[apps[i].name]
      <3>1. ASSUME NEW i \in 1..Len(apps), i # at
            PROVE  grown[i] = apps[i] /\ groups[apps[i].name] = {}
        BY <1>4, <2>7, <2>8, <3>1
      <3>2. grown[at] = grouped /\ groups[apps[at].name] = {group}
        BY <1>3, <1>4, <1>6, <2>1, <2>8
      <3>3. QED
        BY <2>4, <3>1, <3>2
    <2>10. QED
      BY <2>8, <2>9 DEF Grown, grown, apps, groups
  <1>7. QED
    BY <1>5, <1>6

(* Groups that are added one after the other.                              *)
LEMMA GrownTwice ==
    ASSUME NEW sources, NEW list \in Seq(ServedApps(sources)), NEW between, NEW apps,
           NEW first, NEW second, NEW all,
           Grown(between, list, first), Grown(apps, between, second),
           \A name \in EntityNames : all[name] = first[name] \cup second[name]
    PROVE  Grown(apps, list, all)
  <1>1. \A i \in 1..Len(list) : list[i] \in ServedApps(sources)
    OBVIOUS
  <1>2. \A i \in 1..Len(list) : list[i].name \in EntityNames
    BY <1>1 DEF ServedApps
  <1>3. QED
    BY <1>2 DEF Grown

(* The names stay as they are, each there once.                            *)
LEMMA GrownOnce ==
    ASSUME NEW sources, NEW list \in Seq(ServedApps(sources)), NamesOnce(list),
           NEW apps \in Seq(ServedApps(sources)), NEW groups, Grown(apps, list, groups)
    PROVE  NamesOnce(apps)
  BY DEF Grown, NamesOnce

(* One group mapping.                                                      *)
LEMMA AddGroupGrows ==
    ASSUME NEW sources, NEW result, IsResult(result), NEW r \in Results(result, sources),
           NamesOnce(r.apps), NEW mapping \in GroupMappings
    PROVE  /\ AddGroup(r, mapping) \in Results(result, sources)
           /\ Grown(AddGroup(r, mapping).apps, r.apps,
                    [name \in EntityNames |->
                        IF \E m \in 1..Len(mapping.apps) : mapping.apps[m] = name
                        THEN {mapping.group} ELSE {}])
  <1> DEFINE n == Len(mapping.apps)
             group == mapping.group
             upTo(i) == [name \in EntityNames |->
                            IF \E m \in 1..i : mapping.apps[m] = name THEN {group} ELSE {}]
             S == Results(result, sources)
             T == ServedApps(sources)
  <1>1. group \in GroupNames /\ mapping.apps \in Seq(EntityNames)
    BY DEF GroupMappings
  <1>2. n \in Nat /\ DOMAIN mapping.apps = 1..n
    BY <1>1
  <1>3. \A s \in S, i \in 1..n : AddOneGroup(s, mapping.group, mapping.apps[i]) \in S
    BY <1>1, AddOneGroupIn
  <1>4. \A s \in S : s.apps \in Seq(T)
    BY DEF Results, IsResult
  <1> HIDE DEF n, S, T
  <1>5. PICK g : MappedAppsRun(g, S, n, r, mapping)
    <2>1. r \in S
      BY DEF S
    <2>2. QED
      BY <1>2, <1>3, <2>1, MappedAppsReached
  <1>6. /\ g \in [0..n -> S] /\ g[0] = r
        /\ \A i \in 1..n : g[i] = AddOneGroup(g[i - 1], group, mapping.apps[i])
        /\ AddGroup(r, mapping) = g[n]
    BY <1>5 DEF MappedAppsRun
  <1> DEFINE grown == {i \in 0..n : Grown(g[i].apps, r.apps, upTo(i))}
  <1>7. 0 \in grown
    <2>1. r.apps \in Seq(T)
      BY <1>4 DEF S
    <2>2. \A i \in 1..Len(r.apps) : r.apps[i] \in T
      BY <2>1
    <2>3. \A i \in 1..Len(r.apps) : /\ r.apps[i].name \in EntityNames
                                    /\ r.apps[i].groups \in SUBSET GroupNames
      BY <2>2 DEF T, ServedApps
    <2>4. \A name \in EntityNames : upTo(0)[name] = {}
      OBVIOUS
    <2> HIDE DEF upTo
    <2>5. Grown(r.apps, r.apps, upTo(0))
      BY <2>3, <2>4 DEF Grown
    <2>6. QED
      BY <1>2, <1>6, <2>5
  <1>8. ASSUME NEW i \in 0..n, i < n, i \in grown PROVE i + 1 \in grown
    <2> DEFINE before == g[i]
               appName == mapping.apps[i + 1]
               after == AddOneGroup(before, group, appName)
               second == [name \in EntityNames |-> IF name = appName THEN {group} ELSE {}]
    <2>1. i + 1 \in 1..n /\ i + 1 \in 0..n /\ (i + 1) - 1 = i
      BY <1>2, <1>8
    <2>2. /\ before \in Results(result, sources) /\ g[i + 1] = after
          /\ Grown(before.apps, r.apps, upTo(i))
      BY <1>6, <1>8, <2>1 DEF S
    <2>3. /\ before.apps \in Seq(ServedApps(sources))
          /\ r.apps \in Seq(ServedApps(sources))
      BY <1>4, <2>2 DEF S, T
    <2> HIDE DEF before, appName, upTo
    <2>4. NamesOnce(before.apps)
      BY <2>2, <2>3, GrownOnce
    <2>5. Grown(after.apps, before.apps, second)
      BY <1>1, <2>2, <2>4, AddOneGroupGrows
    <2> HIDE DEF after
    <2>6. \A m \in 1..(i + 1) : m \in 1..i \/ m = i + 1
      BY <1>2
    <2>7. \A m \in 1..i : m \in 1..(i + 1)
      BY <1>2
    <2>8. \A name \in EntityNames : upTo(i + 1)[name] = upTo(i)[name] \cup second[name]
      <3>1. i + 1 \in 1..(i + 1)
        BY <1>2
      <3>2. ASSUME NEW name \in EntityNames
            PROVE  (\E m \in 1..(i + 1) : mapping.apps[m] = name)
                     <=> (\E m \in 1..i : mapping.apps[m] = name) \/ name = appName
        BY <2>6, <2>7, <3>1 DEF appName
      <3>3. QED
        BY <3>2 DEF upTo
    <2> HIDE DEF second
    <2>9. Grown(after.apps, r.apps, upTo(i + 1))
      BY <2>2, <2>3, <2>5, <2>8, GrownTwice
    <2>10. QED
      BY <2>1, <2>2, <2>9
  <1>9. n \in grown
    <2> HIDE DEF grown
    <2>1. \A i \in 0..n : i \in grown
      BY <1>2, <1>7, <1>8, UpTo
    <2>2. QED
      BY <1>2, <2>1
  <1>10. g[n] \in S
    BY <1>2, <1>6
  <1>11. QED
    BY <1>6, <1>9, <1>10 DEF S, n

(* All the group mappings.                                                 *)
LEMMA GroupsAddedGrow ==
    ASSUME NEW sources, NEW result, IsResult(result), result.apps \in Seq(ServedApps(sources)),
           NamesOnce(result.apps), NEW groupMappings \in Seq(GroupMappings)
    PROVE  Grown(AddGroupToApp(result, groupMappings).apps, result.apps,
                 AddedGroups(groupMappings))
  <1> DEFINE n == Len(groupMappings)
             upTo(i) == [name \in EntityNames |-> MappedTo(groupMappings, i, name)]
             S == Results(result, sources)
  <1>1. n \in Nat /\ DOMAIN groupMappings = 1..n
        /\ \A i \in 1..n : groupMappings[i] \in GroupMappings
    OBVIOUS
  <1>2. result \in S
    <2>1. result = [result EXCEPT !.apps = result.apps]
      BY DEF IsResult
    <2>2. QED
      BY <2>1 DEF Results
  <1>3. ASSUME NEW r \in S, NEW mapping \in GroupMappings PROVE AddGroup(r, mapping) \in S
    <2> DEFINE k == Len(mapping.apps)
    <2>1. mapping.group \in GroupNames /\ mapping.apps \in Seq(EntityNames)
      BY DEF GroupMappings
    <2>2. k \in Nat /\ DOMAIN mapping.apps = 1..k
      BY <2>1
    <2>3. \A q \in S, i \in 1..k : AddOneGroup(q, mapping.group, mapping.apps[i]) \in S
      BY <2>1, AddOneGroupIn
    <2> HIDE DEF k, S
    <2>4. QED
      BY <2>2, <2>3, MappedAppsFold
  <1>4. \A r \in S, i \in 1..n : AddGroup(r, groupMappings[i]) \in S
    BY <1>1, <1>3
  <1>5. \A s \in S : s.apps \in Seq(ServedApps(sources))
    BY DEF Results, IsResult
  <1> HIDE DEF n, S
  <1>6. PICK g : MappingsRun(g, S, n, result, groupMappings)
    BY <1>1, <1>2, <1>4, MappingsReached
  <1>7. /\ g \in [0..n -> S] /\ g[0] = result
        /\ \A i \in 1..n : g[i] = AddGroup(g[i - 1], groupMappings[i])
        /\ AddGroupToApp(result, groupMappings) = g[n]
    BY <1>6 DEF MappingsRun
  <1> DEFINE grown == {i \in 0..n : Grown(g[i].apps, result.apps, upTo(i))}
  <1>8. 0 \in grown
    <2> DEFINE apps == result.apps
    <2>0. \A i \in 1..Len(apps) : apps[i] \in ServedApps(sources)
      OBVIOUS
    <2>1. \A i \in 1..Len(apps) : /\ apps[i].name \in EntityNames
                                  /\ apps[i].groups \in SUBSET GroupNames
      BY <2>0 DEF ServedApps
    <2>2. \A name \in EntityNames : upTo(0)[name] = {}
      BY DEF MappedTo
    <2> HIDE DEF upTo
    <2>3. Grown(result.apps, result.apps, upTo(0))
      BY <2>1, <2>2 DEF Grown
    <2>4. QED
      BY <1>1, <1>7, <2>3
  <1>9. ASSUME NEW i \in 0..n, i < n, i \in grown PROVE i + 1 \in grown
    <2> DEFINE before == g[i]
               mapping == groupMappings[i + 1]
               after == AddGroup(before, mapping)
               second == [name \in EntityNames |->
                            IF \E m \in 1..Len(mapping.apps) : mapping.apps[m] = name
                            THEN {mapping.group} ELSE {}]
    <2>1. i + 1 \in 1..n /\ i + 1 \in 0..n /\ (i + 1) - 1 = i
      BY <1>1, <1>9
    <2>2. /\ before \in S /\ g[i + 1] = after
          /\ Grown(before.apps, result.apps, upTo(i))
      BY <1>7, <1>9, <2>1
    <2>3. before.apps \in Seq(ServedApps(sources)) /\ before \in Results(result, sources)
          /\ mapping \in GroupMappings
      BY <1>1, <1>5, <2>1, <2>2 DEF S
    <2> HIDE DEF before, mapping, upTo
    <2>4. NamesOnce(before.apps)
      BY <2>2, <2>3, GrownOnce
    <2>5. Grown(after.apps, before.apps, second)
      BY <2>3, <2>4, AddGroupGrows
    <2> HIDE DEF after
    <2>6. \A m \in 1..(i + 1) : m \in 1..i \/ m = i + 1
      BY <1>1
    <2>7. (\A m \in 1..i : m \in 1..(i + 1)) /\ i + 1 \in 1..(i + 1)
      BY <1>1
    <2>8. \A name \in EntityNames : upTo(i + 1)[name] = upTo(i)[name] \cup second[name]
      <3>1. ASSUME NEW name \in EntityNames
            PROVE  MappedTo(groupMappings, i + 1, name)
                     = MappedTo(groupMappings, i, name) \cup second[name]
        BY <2>6, <2>7 DEF MappedTo, mapping
      <3>2. QED
        BY <3>1 DEF upTo
    <2> HIDE DEF second
    <2>9. Grown(after.apps, result.apps, upTo(i + 1))
      BY <2>2, <2>3, <2>5, <2>8, GrownTwice
    <2>10. QED
      BY <2>1, <2>2, <2>9
  <1>10. n \in grown
    <2> HIDE DEF grown
    <2>1. \A i \in 0..n : i \in grown
      BY <1>1, <1>8, <1>9, UpTo
    <2>2. QED
      BY <1>1, <2>1
  <1>11. QED
    BY <1>7, <1>10 DEF n, AddedGroups

(* Apps that were alike are the same when the groups were added to both.   *)
LEMMA GrownEqual ==
    ASSUME NEW sources, NEW list \in Seq(ServedApps(sources)),
           NEW other \in Seq(ServedApps(sources)), NEW added, ServedAlike(list, other, added),
           NEW one \in Seq(ServedApps(sources)), NEW two \in Seq(ServedApps(sources)),
           Grown(one, list, added), Grown(two, other, added)
    PROVE  one = two
  <1> DEFINE n == Len(list)
  <1>1. /\ n \in Nat /\ Len(other) = n /\ Len(one) = n /\ Len(two) = n
        /\ \A i \in 1..n : one[i] \in ServedApps(sources) /\ two[i] \in ServedApps(sources)
    BY DEF ServedAlike, AppsAlike, Grown
  <1>2. ASSUME NEW i \in 1..n PROVE one[i] = two[i]
    <2>1. SameApp(list[i], other[i], added) /\ list[i].service = other[i].service
      BY <1>1 DEF ServedAlike, AppsAlike
    <2>2. /\ one[i].name = two[i].name /\ one[i].type = two[i].type /\ one[i].url = two[i].url
          /\ one[i].service = two[i].service /\ one[i].groups = two[i].groups
      BY <1>1, <2>1 DEF Grown, SameApp
    <2> DEFINE a == one[i]
               b == two[i]
    <2>3. a \in ServedApps(sources) /\ b \in ServedApps(sources)
      BY <1>1
    <2> HIDE DEF a, b
    <2>4. /\ a = [name |-> a.name, type |-> a.type, url |-> a.url, groups |-> a.groups,
                  service |-> a.service]
          /\ b = [name |-> b.name, type |-> b.type, url |-> b.url, groups |-> b.groups,
                  service |-> b.service]
      BY <2>3 DEF ServedApps
    <2>5. QED
      BY <2>2, <2>4 DEF a, b
  <1> HIDE DEF n
  <1>3. one = [i \in 1..n |-> one[i]] /\ two = [i \in 1..n |-> two[i]]
    BY <1>1
  <1>4. QED
    BY <1>2, <1>3

\* An app has the groups its service declares for it and those the mappings
\* add, unless an override gave it others.
GroupsDeclared(apps, configs, overrides, added) ==
    \A i \in DOMAIN apps :
        ~GroupsOverridden(apps[i].name, overrides) =>
            \E j \in DOMAIN configs :
                /\ configs[j].name = apps[i].service
                /\ \E k \in DOMAIN configs[j].meta.apps :
                    /\ configs[j].meta.apps[k].name = apps[i].name
                    /\ apps[i].groups
                         = configs[j].meta.apps[k].groups \cup added[apps[i].name]

(* What is calculated from a list is what is calculated from one that is   *)
(* like it.                                                                *)
LEMMA CalculatedAlike ==
    ASSUME NEW sources, NEW configs, NEW others, NEW n, NEW list,
           IsMergeList(configs, n, sources, list), NEW ovr, IsOverridesFile(ovr),
           ListsAlike(configs, others, n, sources, AddedGroups(ovr.groupMappings))
    PROVE  LET calculated == CalculateConfig(configs, ovr)
               fresh == CalculateConfig(others, ovr)
           IN  /\ calculated.apps = fresh.apps
               /\ calculated.groups = fresh.groups
               /\ calculated.components = fresh.components
               /\ calculated.actions = fresh.actions
               /\ calculated.manualApps = list
               /\ NamesOnce(calculated.apps)
               /\ GroupsDeclared(calculated.apps, configs, ovr.overrides,
                                 AddedGroups(ovr.groupMappings))
  <1> DEFINE added == AddedGroups(ovr.groupMappings)
             merged == MergeConfigs(configs)
             mergedTwin == MergeConfigs(others)
             result == OverrideConfig(merged, ovr.overrides)
             resultTwin == OverrideConfig(mergedTwin, ovr.overrides)
             calculated == CalculateConfig(configs, ovr)
             fresh == CalculateConfig(others, ovr)
             T == ServedApps(sources)
  <1>1. /\ n \in Nat /\ DOMAIN configs = 1..n /\ DOMAIN others = 1..n
        /\ \A i \in 1..n : IsConfig(configs[i], sources)
        /\ \A i \in 1..n : IsConfig(others[i], sources)
    BY DEF ListsAlike, IsMergeList
  <1>2. /\ merged.apps \in Seq(T) /\ merged.threw = FALSE
        /\ DOMAIN merged = {"apps", "groups", "components", "actions", "manualApps", "threw"}
    BY <1>1, MergedIn
  <1>3. /\ mergedTwin.apps \in Seq(T) /\ mergedTwin.threw = FALSE
        /\ DOMAIN mergedTwin = {"apps", "groups", "components", "actions", "manualApps", "threw"}
    BY <1>1, MergedIn
  <1>4. ResultsAlike(merged, mergedTwin, added)
    <2> HIDE DEF added
    <2>1. ListsAlike(configs, others, n, sources, added)
      BY DEF added
    <2>2. QED
      BY <1>1, <2>1, MergedAlike
  <1>5. merged.manualApps = list /\ AppsDeclaredIn(merged.apps, configs)
    BY MergedDeclared
  <1>6. /\ calculated = AddGroupToApp(result, ovr.groupMappings)
        /\ fresh = AddGroupToApp(resultTwin, ovr.groupMappings)
    BY DEF CalculateConfig
  <1> HIDE DEF merged, mergedTwin, calculated, fresh, T, added
  <1>7. /\ result.apps = OverrideList(merged.apps, ovr.overrides.apps)
        /\ result.groups = OverrideList(merged.groups, ovr.overrides.groups)
        /\ result.components = OverrideList(merged.components, ovr.overrides.components)
        /\ result.actions = merged.actions
        /\ result.manualApps = merged.manualApps
        /\ IsResult(result)
    BY <1>2 DEF OverrideConfig, IsResult
  <1>8. /\ resultTwin.apps = OverrideList(mergedTwin.apps, ovr.overrides.apps)
        /\ resultTwin.groups = OverrideList(mergedTwin.groups, ovr.overrides.groups)
        /\ resultTwin.components = OverrideList(mergedTwin.components, ovr.overrides.components)
        /\ resultTwin.actions = mergedTwin.actions
        /\ IsResult(resultTwin)
    BY <1>3 DEF OverrideConfig, IsResult
  <1> HIDE DEF result, resultTwin
  <1> DEFINE overrides == ovr.overrides.apps
  <1>9. /\ IsList(overrides) /\ \A i \in DOMAIN overrides : IsAppOverride(overrides[i])
        /\ ovr.groupMappings \in Seq(GroupMappings)
    BY DEF IsOverridesFile
  <1> HIDE DEF overrides
  <1>10. /\ result.apps \in GroupsKept(merged.apps, overrides, sources)
         /\ resultTwin.apps \in GroupsKept(mergedTwin.apps, overrides, sources)
         /\ ServedAlike(result.apps, resultTwin.apps, added)
    <2>1. /\ OverrideList(merged.apps, overrides) \in GroupsKept(merged.apps, overrides, sources)
          /\ OverrideList(mergedTwin.apps, overrides)
               \in GroupsKept(mergedTwin.apps, overrides, sources)
      BY <1>2, <1>3, <1>9, OverridesKeepGroups DEF T
    <2>2. ServedAlike(OverrideList(merged.apps, overrides),
                      OverrideList(mergedTwin.apps, overrides), added)
      BY <1>2, <1>3, <1>4, <1>9, OverridesAlike DEF T, ResultsAlike
    <2>3. QED
      BY <1>7, <1>8, <2>1, <2>2 DEF overrides
  <1>11. /\ result.apps \in Seq(T) /\ Len(result.apps) = Len(merged.apps)
         /\ \A i \in 1..Len(merged.apps) :
               /\ result.apps[i].name = merged.apps[i].name
               /\ result.apps[i].service = merged.apps[i].service
               /\ result.apps[i].groups # merged.apps[i].groups =>
                    \E k \in DOMAIN overrides :
                        /\ overrides[k].name = merged.apps[i].name
                        /\ "groups" \in DOMAIN overrides[k].attributes
    BY <1>10 DEF GroupsKept, SameApps, T
  <1>12. resultTwin.apps \in Seq(T)
    BY <1>10 DEF GroupsKept, SameApps, T
  <1>13. NamesOnce(result.apps) /\ NamesOnce(resultTwin.apps)
    <2>1. NamesOnce(merged.apps) /\ DOMAIN merged.apps = 1..Len(merged.apps)
      BY <1>2, <1>5 DEF AppsDeclaredIn
    <2> DEFINE apps == result.apps
               appsTwin == resultTwin.apps
    <2>a. apps \in Seq(T) /\ appsTwin \in Seq(T) /\ Len(apps) = Len(merged.apps)
          /\ Len(appsTwin) = Len(apps)
      BY <1>10, <1>11, <1>12 DEF ServedAlike, AppsAlike
    <2> HIDE DEF apps, appsTwin
    <2>b. DOMAIN apps = 1..Len(apps) /\ DOMAIN appsTwin = 1..Len(appsTwin)
      BY <2>a
    <2>2. DOMAIN result.apps = 1..Len(merged.apps)
          /\ DOMAIN resultTwin.apps = 1..Len(result.apps)
      BY <2>a, <2>b DEF apps, appsTwin
    <2>3. NamesOnce(result.apps)
      BY <1>11, <2>1, <2>2 DEF NamesOnce
    <2>4. \A i \in 1..Len(result.apps) : result.apps[i].name = resultTwin.apps[i].name
      BY <1>10 DEF ServedAlike, AppsAlike, SameApp
    <2>5. QED
      BY <1>11, <2>2, <2>3, <2>4 DEF NamesOnce
  <1>14. /\ calculated \in Results(result, sources) /\ fresh \in Results(resultTwin, sources)
         /\ Grown(calculated.apps, result.apps, added)
         /\ Grown(fresh.apps, resultTwin.apps, added)
    BY <1>6, <1>7, <1>8, <1>9, <1>11, <1>12, <1>13, GroupsAddedIn, GroupsAddedGrow DEF T, added
  <1>15. /\ calculated.apps \in Seq(T) /\ fresh.apps \in Seq(T)
         /\ calculated.groups = result.groups /\ fresh.groups = resultTwin.groups
         /\ calculated.components = result.components /\ fresh.components = resultTwin.components
         /\ calculated.actions = result.actions /\ fresh.actions = resultTwin.actions
         /\ calculated.manualApps = result.manualApps
    BY <1>7, <1>8, <1>14 DEF Results, IsResult, T
  <1>16. calculated.apps = fresh.apps
    BY <1>10, <1>11, <1>12, <1>14, <1>15, GrownEqual DEF T
  <1>17. /\ calculated.groups = fresh.groups
         /\ calculated.components = fresh.components
         /\ calculated.actions = fresh.actions
    BY <1>4, <1>7, <1>8, <1>15 DEF ResultsAlike
  <1>18. NamesOnce(calculated.apps)
    BY <1>11, <1>13, <1>14, <1>15, GrownOnce DEF T
  <1>19. ASSUME NEW i \in DOMAIN calculated.apps,
                ~GroupsOverridden(calculated.apps[i].name, ovr.overrides)
         PROVE  \E j \in DOMAIN configs :
                    /\ configs[j].name = calculated.apps[i].service
                    /\ \E k \in DOMAIN configs[j].meta.apps :
                        /\ configs[j].meta.apps[k].name = calculated.apps[i].name
                        /\ calculated.apps[i].groups
                             = configs[j].meta.apps[k].groups \cup added[calculated.apps[i].name]
    <2>1. i \in 1..Len(merged.apps) /\ i \in 1..Len(result.apps) /\ i \in DOMAIN merged.apps
      BY <1>2, <1>11, <1>14, <1>15, <1>19 DEF Grown
    <2>2. /\ calculated.apps[i].name = merged.apps[i].name
          /\ calculated.apps[i].service = merged.apps[i].service
          /\ calculated.apps[i].groups = result.apps[i].groups \cup added[merged.apps[i].name]
      BY <1>11, <1>14, <2>1 DEF Grown
    <2>3. result.apps[i].groups = merged.apps[i].groups
      <3>1. ASSUME NEW k \in DOMAIN overrides, overrides[k].name = merged.apps[i].name,
                   "groups" \in DOMAIN overrides[k].attributes
            PROVE  FALSE
        <4>1. overrides[k] \in ToSet(ovr.overrides.apps)
          BY DEF ToSet, overrides
        <4>2. GroupsOverridden(merged.apps[i].name, ovr.overrides)
          BY <3>1, <4>1 DEF GroupsOverridden
        <4>3. QED
          BY <1>19, <2>2, <4>2
      <3>2. QED
        BY <1>11, <2>1, <3>1
    <2>4. PICK j \in DOMAIN configs :
            /\ configs[j].name = merged.apps[i].service
            /\ \E k \in DOMAIN configs[j].meta.apps :
                /\ configs[j].meta.apps[k].name = merged.apps[i].name
                /\ configs[j].meta.apps[k].groups = merged.apps[i].groups
      BY <1>5, <2>1 DEF AppsDeclaredIn
    <2>5. QED
      BY <2>2, <2>3, <2>4
  <1>20. GroupsDeclared(calculated.apps, configs, ovr.overrides, added)
    BY <1>19 DEF GroupsDeclared
  <1>21. QED
    BY <1>5, <1>7, <1>15, <1>16, <1>17, <1>18, <1>20 DEF calculated, fresh, added

--------------------------------------------------------------------------------
(* Apps that are alike have the same names and urls.                       *)
LEMMA AlikeOnce ==
    ASSUME NEW T, NEW list \in Seq(T), NEW U, NEW other \in Seq(U), NEW added,
           AppsAlike(list, other, added)
    PROVE  /\ NamesOnce(other) => NamesOnce(list)
           /\ UrlsAbsolute(other) => UrlsAbsolute(list)
  <1>1. DOMAIN list = 1..Len(list) /\ DOMAIN other = 1..Len(other) /\ Len(list) = Len(other)
    BY DEF AppsAlike
  <1>2. \A i \in 1..Len(list) : list[i].name = other[i].name /\ list[i].url = other[i].url
    BY DEF AppsAlike, SameApp
  <1>3. QED
    BY <1>1, <1>2 DEF NamesOnce, UrlsAbsolute

(* A list is like itself.                                                  *)
LEMMA AlikeItself ==
    ASSUME NEW list, NEW added
    PROVE  AppsAlike(list, list, added)
  BY DEF AppsAlike, SameApp

\* What is held in memory of a file: its apps may have got added groups.
HeldAlike(meta, file, added) ==
    /\ AppsAlike(meta.apps, file.apps, added)
    /\ meta.groups = file.groups
    /\ meta.components = file.components
    /\ meta.actions = file.actions

EntriesAlike(map, added) ==
    \A n \in KnownIn(map) :
        /\ map[n] = [rev |-> map[n].rev, content |-> map[n].content, meta |-> map[n].meta]
        /\ <<n, map[n].content>> \in Uids
        /\ HeldAlike(map[n].meta, MetaOf[<<n, map[n].content>>], added)

ManualAlike(man, added) == AppsAlike(man.apps, man.file.apps, added)

\* The config map of a replica that has just read the same files.
FreshMap(map) ==
    [n \in Names |->
        IF ~IsKnown(map[n]) THEN NoConfig
        ELSE [map[n] EXCEPT !.meta = MetaOf[<<n, map[n].content>>]]]

(* Its entries are complete as well.                                       *)
LEMMA FreshEntries ==
    ASSUME FilesComplete, NEW cMap, NEW cOrder, ConfigMapComplete(cMap, cOrder),
           NEW added, EntriesAlike(cMap, added)
    PROVE  /\ KnownIn(FreshMap(cMap)) = KnownIn(cMap)
           /\ ConfigMapComplete(FreshMap(cMap), cOrder)
           /\ \A n \in KnownIn(cMap) :
                /\ FreshMap(cMap)[n] = [rev |-> cMap[n].rev, content |-> cMap[n].content,
                                        meta |-> MetaOf[<<n, cMap[n].content>>]]
                /\ FreshMap(cMap)[n].rev = cMap[n].rev
                /\ FreshMap(cMap)[n].meta = MetaOf[<<n, cMap[n].content>>]
  <1> DEFINE fresh == FreshMap(cMap)
  <1>1. ASSUME NEW n \in KnownIn(cMap)
        PROVE  fresh[n] = [rev |-> cMap[n].rev, content |-> cMap[n].content,
                           meta |-> MetaOf[<<n, cMap[n].content>>]]
    <2>1. n \in Names /\ IsKnown(cMap[n])
      BY DEF KnownIn
    <2>2. fresh[n] = [cMap[n] EXCEPT !.meta = MetaOf[<<n, cMap[n].content>>]]
      BY <2>1 DEF FreshMap
    <2> DEFINE entry == cMap[n]
               file == MetaOf[<<n, cMap[n].content>>]
    <2>3. entry = [rev |-> entry.rev, content |-> entry.content, meta |-> entry.meta]
      BY DEF EntriesAlike
    <2> HIDE DEF entry, file
    <2>4. [entry EXCEPT !.meta = file] = [rev |-> entry.rev, content |-> entry.content,
                                          meta |-> file]
      BY <2>3
    <2>5. QED
      BY <2>2, <2>4 DEF entry, file
  <1>2. \A n \in Names \ KnownIn(cMap) : fresh[n] = NoConfig
    BY DEF FreshMap, KnownIn
  <1> HIDE DEF fresh
  <1>3. ASSUME NEW n \in KnownIn(cMap)
        PROVE  fresh[n].rev = cMap[n].rev /\ fresh[n].meta = MetaOf[<<n, cMap[n].content>>]
    <2> DEFINE revision == cMap[n].rev
               content == cMap[n].content
               file == MetaOf[<<n, content>>]
    <2>1. fresh[n] = [rev |-> revision, content |-> content, meta |-> file]
      BY <1>1
    <2> HIDE DEF revision, content, file
    <2>2. fresh[n].rev = revision /\ fresh[n].meta = file
      BY <2>1
    <2>3. QED
      BY <2>2 DEF revision, content, file
  <1>4. ~IsKnown(NoConfig) /\ NoConfig.meta \in GroupedMetas
    BY DEF IsKnown, NoConfig, GroupedMetas
  <1>5. KnownIn(fresh) = KnownIn(cMap)
    BY <1>2, <1>3, <1>4 DEF KnownIn, IsKnown
  <1>6. ASSUME NEW n \in Names
        PROVE  fresh[n].meta \in GroupedMetas /\ (IsKnown(fresh[n]) => <<n, fresh[n].rev>> \in Uids)
    <2>1. CASE n \in KnownIn(cMap)
      <3>1. <<n, cMap[n].content>> \in Uids /\ IsKnown(cMap[n])
        BY <2>1 DEF EntriesAlike, KnownIn
      <3>2. MetaOf[<<n, cMap[n].content>>] \in GroupedMetas
        BY <3>1, ContentsAssumption, CompleteMeta DEF FilesComplete
      <3>3. <<n, cMap[n].rev>> \in Uids
        BY <3>1 DEF ConfigMapComplete
      <3>4. QED
        BY <1>3, <2>1, <3>2, <3>3
    <2>2. CASE n \notin KnownIn(cMap)
      BY <1>2, <1>4, <2>2
    <2>3. QED
      BY <2>1, <2>2
  <1>7. ConfigMapComplete(fresh, cOrder)
    BY <1>5, <1>6 DEF ConfigMapComplete
  <1>8. QED
    BY <1>1, <1>3, <1>5, <1>7 DEF fresh

(* The entries of the list updateConfig merges.                            *)
LEMMA Listed ==
    ASSUME NEW cMap, NEW cOrder, NEW man, cOrder \in Seq(Names), man.file \in UiMetas
    PROVE  LET configs == ConfigList(cMap, cOrder, man)
           IN  /\ DOMAIN configs = 1..(Len(cOrder) + 1)
               /\ configs[1].name = Manual /\ configs[1].base = NoBase
               /\ configs[1].meta.apps = man.apps /\ configs[1].meta.components = <<>>
               /\ configs[1].meta.groups = man.file.groups
               /\ configs[1].meta.actions = man.file.actions
               /\ \A i \in 1..Len(cOrder) :
                    /\ configs[i + 1].name = cOrder[i]
                    /\ configs[i + 1].base = BaseOf[<<cOrder[i], cMap[cOrder[i]].rev>>]
                    /\ configs[i + 1].meta = cMap[cOrder[i]].meta
  <1> DEFINE file == man.file
             meta == [file EXCEPT !.apps = man.apps, !.components = <<>>]
             first == [name |-> Manual, base |-> NoBase, meta |-> meta]
             entry(i) == [name |-> cOrder[i],
                          base |-> BaseOf[<<cOrder[i], cMap[cOrder[i]].rev>>],
                          meta |-> cMap[cOrder[i]].meta]
             others == [i \in DOMAIN cOrder |-> entry(i)]
             configs == ConfigList(cMap, cOrder, man)
  <1>1. Len(cOrder) \in Nat /\ DOMAIN cOrder = 1..Len(cOrder)
    OBVIOUS
  <1>2. configs = <<first>> \o others
    BY DEF ConfigList
  <1>3. /\ meta.apps = man.apps /\ meta.components = <<>>
        /\ meta.groups = man.file.groups /\ meta.actions = man.file.actions
    <2>1. file \in UiMetas
      OBVIOUS
    <2> HIDE DEF file
    <2>2. /\ meta.apps = man.apps /\ meta.components = <<>>
          /\ meta.groups = file.groups /\ meta.actions = file.actions
      BY <2>1 DEF UiMetas
    <2>3. QED
      BY <2>2 DEF file
  <1> HIDE DEF meta
  <1>4. first.name = Manual /\ first.base = NoBase /\ first.meta = meta
    OBVIOUS
  <1> HIDE DEF first, entry, configs
  <1>5. /\ DOMAIN configs = 1..(Len(cOrder) + 1) /\ configs[1] = first
        /\ \A i \in 1..Len(cOrder) : configs[i + 1] = entry(i)
    <2>a. others = [i \in 1..Len(cOrder) |-> entry(i)]
      BY <1>1
    <2> DEFINE entries == {entry(i) : i \in 1..Len(cOrder)}
    <2>b. \A i \in 1..Len(cOrder) : entry(i) \in entries
      OBVIOUS
    <2> HIDE DEF entries
    <2>1. others \in Seq(entries) /\ Len(others) = Len(cOrder)
      BY <1>1, <2>a, <2>b
    <2> HIDE DEF others
    <2>2. DOMAIN configs = 1..(Len(cOrder) + 1) /\ configs[1] = first
          /\ \A i \in 1..Len(cOrder) : configs[i + 1] = others[i]
      BY <1>1, <1>2, <2>1
    <2>3. QED
      BY <1>1, <2>2 DEF others
  <1>6. \A i \in 1..Len(cOrder) :
            /\ entry(i).name = cOrder[i]
            /\ entry(i).base = BaseOf[<<cOrder[i], cMap[cOrder[i]].rev>>]
            /\ entry(i).meta = cMap[cOrder[i]].meta
    BY DEF entry
  <1>7. QED
    BY <1>3, <1>4, <1>5, <1>6 DEF configs

(* The list of a replica that has just read the same files is like that of *)
(* this one.                                                               *)
LEMMA FreshListAlike ==
    ASSUME FilesComplete, NothingLeft, NEW cMap, NEW cOrder, NEW man, NEW ovr,
           ConfigMapComplete(cMap, cOrder), ManualComplete(man, ovr),
           NEW added, EntriesAlike(cMap, added), ManualAlike(man, added)
    PROVE  LET configs == ConfigList(cMap, cOrder, man)
               others == ConfigList(FreshMap(cMap), cOrder, Loaded(man.file))
               sources == {Manual} \cup KnownIn(cMap)
           IN  /\ ListsAlike(configs, others, Len(cOrder) + 1, sources, added)
               /\ IsMergeList(configs, Len(cOrder) + 1, sources, man.apps)
  <1> DEFINE configs == ConfigList(cMap, cOrder, man)
             loaded == Loaded(man.file)
             fresh == FreshMap(cMap)
             others == ConfigList(fresh, cOrder, loaded)
             sources == {Manual} \cup KnownIn(cMap)
             n == Len(cOrder) + 1
  <1>1. /\ cOrder \in Seq(Names) /\ Len(cOrder) \in Nat /\ n \in Nat /\ n > 0
        /\ \A i \in 1..Len(cOrder) : cOrder[i] \in KnownIn(cMap)
    BY DEF ConfigMapComplete, Ordered
  <1>2. man.file \in UiMetas /\ man.file \in ManualMetas /\ man.file \in GroupedMetas
        /\ man.apps \in Seq(GroupedApps)
    BY ContentsAssumption, CompleteMeta DEF ManualComplete, FilesComplete
  <1>3. loaded.file = man.file /\ loaded.apps = man.file.apps
    BY DEF Loaded
  <1> HIDE DEF loaded
  <1>4. ManualComplete(loaded, ovr)
    BY <1>2, <1>3 DEF ManualComplete, GroupedMetas
  <1>5. /\ KnownIn(fresh) = KnownIn(cMap) /\ ConfigMapComplete(fresh, cOrder)
        /\ \A m \in KnownIn(cMap) : /\ fresh[m].rev = cMap[m].rev
                                    /\ fresh[m].meta = MetaOf[<<m, cMap[m].content>>]
    BY FreshEntries
  <1> HIDE DEF fresh
  <1>6. DOMAIN configs = 1..n /\ \A i \in 1..n : IsConfig(configs[i], sources)
    BY ConfigListIn
  <1>7. DOMAIN others = 1..n /\ \A i \in 1..n : IsConfig(others[i], sources)
    BY <1>4, <1>5, ConfigListIn
  <1>8. /\ configs[1].name = Manual /\ configs[1].base = NoBase
        /\ configs[1].meta.apps = man.apps /\ configs[1].meta.components = <<>>
        /\ configs[1].meta.groups = man.file.groups
        /\ configs[1].meta.actions = man.file.actions
        /\ \A i \in 1..Len(cOrder) :
             /\ configs[i + 1].name = cOrder[i]
             /\ configs[i + 1].base = BaseOf[<<cOrder[i], cMap[cOrder[i]].rev>>]
             /\ configs[i + 1].meta = cMap[cOrder[i]].meta
    BY <1>1, <1>2, Listed
  <1>9. /\ others[1].name = Manual /\ others[1].base = NoBase
        /\ others[1].meta.apps = man.file.apps /\ others[1].meta.components = <<>>
        /\ others[1].meta.groups = man.file.groups
        /\ others[1].meta.actions = man.file.actions
        /\ \A i \in 1..Len(cOrder) :
             /\ others[i + 1].name = cOrder[i]
             /\ others[i + 1].base = BaseOf[<<cOrder[i], fresh[cOrder[i]].rev>>]
             /\ others[i + 1].meta = fresh[cOrder[i]].meta
    <2>1. loaded.file \in UiMetas
      BY <1>2, <1>3
    <2>2. QED
      BY <1>1, <1>3, <2>1, Listed
  <1> HIDE DEF configs, others, sources
  <1>10. ConfigAlike(configs[1], others[1], added)
    BY <1>8, <1>9 DEF ConfigAlike, ManualAlike
  <1>11. ASSUME NEW i \in 1..Len(cOrder) PROVE ConfigAlike(configs[i + 1], others[i + 1], added)
    <2> DEFINE m == cOrder[i]
    <2>1. m \in KnownIn(cMap)
      BY <1>1
    <2>2. fresh[m].rev = cMap[m].rev /\ fresh[m].meta = MetaOf[<<m, cMap[m].content>>]
      BY <1>5, <2>1
    <2>3. HeldAlike(cMap[m].meta, fresh[m].meta, added)
      BY <2>1, <2>2 DEF EntriesAlike
    <2>4. /\ configs[i + 1].name = m /\ others[i + 1].name = m
          /\ configs[i + 1].base = BaseOf[<<m, cMap[m].rev>>]
          /\ others[i + 1].base = BaseOf[<<m, fresh[m].rev>>]
          /\ configs[i + 1].meta = cMap[m].meta /\ others[i + 1].meta = fresh[m].meta
      BY <1>8, <1>9
    <2> HIDE DEF m
    <2>5. QED
      BY <2>2, <2>3, <2>4 DEF ConfigAlike, HeldAlike
  <1>12. ASSUME NEW i \in 1..n PROVE i = 1 \/ \E k \in 1..Len(cOrder) : i = k + 1
    <2>1. CASE i # 1
      <3>1. i - 1 \in 1..Len(cOrder) /\ i = (i - 1) + 1
        BY <1>1, <2>1
      <3>2. QED
        BY <3>1
    <2>2. QED
      BY <2>1
  <1> HIDE DEF n
  <1>13. ListsAlike(configs, others, n, sources, added)
    BY <1>6, <1>7, <1>10, <1>11, <1>12 DEF ListsAlike
  <1>14. ManualList(configs, man.apps)
    <2>1. NamesOnce(man.apps) /\ UrlsAbsolute(man.apps)
      <3> DEFINE apps == man.apps
                 declared == man.file.apps
      <3>1. apps \in Seq(GroupedApps) /\ declared \in Seq(UiApps)
        BY <1>2 DEF UiMetas
      <3>2. AppsAlike(apps, declared, added) /\ NamesOnce(declared) /\ UrlsAbsolute(declared)
        BY <1>2 DEF ManualAlike, NothingLeft
      <3> HIDE DEF apps, declared
      <3>3. NamesOnce(apps) /\ UrlsAbsolute(apps)
        BY <3>1, <3>2, AlikeOnce
      <3>4. QED
        BY <3>3 DEF apps
    <2>2. ASSUME NEW i \in 1..n, configs[i].name = Manual PROVE configs[i].meta.apps = man.apps
      <3>1. CASE i = 1
        BY <1>8, <3>1
      <3>2. CASE i # 1
        <4>1. PICK k \in 1..Len(cOrder) : i = k + 1
          BY <1>12, <3>2
        <4>2. cOrder[k] \in Names
          BY <1>1
        <4>4. configs[k + 1].name = cOrder[k]
          BY <1>8
        <4>3. QED
          BY <2>2, <4>1, <4>2, <4>4, DiscoveryAssumption
      <3>3. QED
        BY <3>1, <3>2
    <2>3. QED
      BY <1>2, <1>6, <2>1, <2>2 DEF ManualList
  <1>15. IsMergeList(configs, n, sources, man.apps)
    <2>1. n \in Nat /\ n > 0
      BY <1>1 DEF n
    <2>2. QED
      BY <1>6, <1>8, <1>14, <2>1 DEF IsMergeList
  <1>16. QED
    BY <1>13, <1>15 DEF configs, others, sources, n, fresh, loaded

--------------------------------------------------------------------------------
(* What is written back into the apps of a configuration leaves them like  *)
(* those of its file: it is the groups that are added to them anyway.      *)
LEMMA SharedAlike ==
    ASSUME NEW sources, NEW declaredApps \in Seq(GroupedApps), NamesOnce(declaredApps),
           NEW U, NEW file \in Seq(U), NEW added, AppsAlike(declaredApps, file, added),
           NEW source, NEW overrides, NEW configs,
           \A j \in DOMAIN configs : configs[j].name = source => configs[j].meta.apps = declaredApps,
           NEW calculated, calculated.apps \in Seq(ServedApps(sources)),
           GroupsDeclared(calculated.apps, configs, overrides, added)
    PROVE  AppsAlike(ShareGroups(declaredApps, source, calculated, overrides), file, added)
  <1> DEFINE n == Len(declaredApps)
             at(i) == IndexOfName(calculated.apps, declaredApps[i].name)
             shared == ShareGroups(declaredApps, source, calculated, overrides)
             apps == calculated.apps
  <1>1. /\ n \in Nat /\ DOMAIN declaredApps = 1..n /\ Len(file) = n
        /\ \A i \in 1..n : declaredApps[i] \in GroupedApps
        /\ \A i \in 1..n : SameApp(declaredApps[i], file[i], added)
    BY DEF AppsAlike
  <1>2. shared \in Seq(GroupedApps) /\ Len(shared) = n
    <2>1. shared \in Seq(GroupedApps)
      BY SharedIn
    <2>2. DOMAIN shared = 1..n
      BY <1>1 DEF ShareGroups
    <2> HIDE DEF shared, n
    <2>3. QED
      BY <1>1, <2>1, <2>2
  <1>3. ASSUME NEW i \in 1..n PROVE SameApp(shared[i], file[i], added)
    <2> DEFINE app == declaredApps[i]
               name == app.name
    <2>1. app \in GroupedApps /\ SameApp(app, file[i], added)
      BY <1>1
    <2>2. \/ shared[i] = app
          \/ /\ at(i) # 0 /\ apps[at(i)].service = source /\ ~GroupsOverridden(name, overrides)
             /\ shared[i] = [app EXCEPT !.groups = apps[at(i)].groups]
      BY <1>1 DEF ShareGroups
    <2>3. at(i) \in 0..Len(apps) /\ (at(i) # 0 => apps[at(i)].name = name)
      BY IndexIn
    <2>4. CASE shared[i] = app
      BY <2>1, <2>4
    <2>5. CASE /\ at(i) # 0 /\ apps[at(i)].service = source /\ ~GroupsOverridden(name, overrides)
               /\ shared[i] = [app EXCEPT !.groups = apps[at(i)].groups]
      <3> DEFINE k == at(i)
      <3>1. k \in DOMAIN apps /\ apps[k].name = name /\ apps[k].service = source
        BY <2>3, <2>5
      <3>2. ~GroupsOverridden(apps[k].name, overrides)
        BY <2>5, <3>1
      <3>3. shared[i] = [app EXCEPT !.groups = apps[k].groups]
        BY <2>5
      <3> HIDE DEF k, at, shared, apps
      <3>a. GroupsDeclared(apps, configs, overrides, added)
        BY DEF apps
      <3>b. \E j \in DOMAIN configs :
                /\ configs[j].name = apps[k].service
                /\ \E m \in DOMAIN configs[j].meta.apps :
                    /\ configs[j].meta.apps[m].name = apps[k].name
                    /\ apps[k].groups = configs[j].meta.apps[m].groups \cup added[apps[k].name]
        BY <3>1, <3>2, <3>a DEF GroupsDeclared
      <3>4. PICK j \in DOMAIN configs :
                /\ configs[j].name = source
                /\ \E m \in DOMAIN configs[j].meta.apps :
                    /\ configs[j].meta.apps[m].name = name
                    /\ apps[k].groups = configs[j].meta.apps[m].groups \cup added[name]
        BY <3>1, <3>b
      <3>5. PICK m \in DOMAIN declaredApps :
                /\ declaredApps[m].name = name
                /\ apps[k].groups = declaredApps[m].groups \cup added[name]
        BY <3>4
      <3>6. m = i
        BY <1>1, <3>5 DEF NamesOnce
      <3>7. apps[k].groups = app.groups \cup added[name]
        BY <3>5, <3>6
      <3> DEFINE other == shared[i]
                 groups == apps[k].groups
      <3>8. other = [app EXCEPT !.groups = groups]
        BY <3>3
      <3> HIDE DEF other, groups
      <3>9. /\ other.name = app.name /\ other.type = app.type /\ other.url = app.url
            /\ other.groups = groups
        <4> HIDE DEF app, name
        <4>1. QED
          BY <2>1, <3>8 DEF GroupedApps
      <3>10. groups = app.groups \cup added[app.name]
        BY <3>7 DEF groups
      <3> HIDE DEF app, name
      <3>11. SameApp(other, file[i], added)
        BY <2>1, <3>9, <3>10 DEF SameApp
      <3>12. QED
        BY <3>11 DEF other
    <2>6. QED
      BY <2>2, <2>4, <2>5
  <1> HIDE DEF shared
  <1>4. AppsAlike(shared, file, added)
    BY <1>1, <1>2, <1>3 DEF AppsAlike
  <1>5. QED
    BY <1>4 DEF shared

\* The replica holds what it has read, but for the added groups.
FreshMemory(cMap, man, ovr) ==
    /\ EntriesAlike(cMap, AddedGroups(ovr.groupMappings))
    /\ ManualAlike(man, AddedGroups(ovr.groupMappings))

(* updateConfig publishes what a replica would that has just read the same *)
(* files, and leaves in memory what it found there, but for added groups.  *)
LEMMA FreshPublished ==
    ASSUME FilesComplete, NothingLeft, NEW cMap, NEW cOrder, NEW man, NEW ovr,
           ConfigMapComplete(cMap, cOrder), ManualComplete(man, ovr),
           FreshMemory(cMap, man, ovr), UpdateConfig(cMap, cOrder, man, ovr)
    PROVE  /\ FreshMemory(configMap', manual', manualOverrides')
           /\ AsFreshReplica'
  <1> DEFINE configs == ConfigList(cMap, cOrder, man)
             others == ConfigList(FreshMap(cMap), cOrder, Loaded(man.file))
             sources == {Manual} \cup KnownIn(cMap)
             n == Len(cOrder) + 1
             added == AddedGroups(ovr.groupMappings)
             calculated == CalculateConfig(configs, ovr)
             fresh == CalculateConfig(others, ovr)
  <1>1. EntriesAlike(cMap, added) /\ ManualAlike(man, added)
    BY DEF FreshMemory
  <1> HIDE DEF added
  <1>2. /\ ListsAlike(configs, others, n, sources, added)
        /\ IsMergeList(configs, n, sources, man.apps)
    BY <1>1, FreshListAlike
  <1>a. /\ DOMAIN configs = 1..(Len(cOrder) + 1) /\ configs[1].name = Manual
        /\ \A i \in 1..Len(cOrder) : /\ configs[i + 1].name = cOrder[i]
                                     /\ configs[i + 1].meta = cMap[cOrder[i]].meta
    <2>1. cOrder \in Seq(Names) /\ man.file \in UiMetas
      BY ContentsAssumption DEF ConfigMapComplete, Ordered, ManualComplete
    <2>2. /\ DOMAIN configs = 1..(Len(cOrder) + 1)
          /\ configs[1].name = Manual /\ configs[1].base = NoBase
          /\ configs[1].meta.apps = man.apps /\ configs[1].meta.components = <<>>
          /\ configs[1].meta.groups = man.file.groups
          /\ configs[1].meta.actions = man.file.actions
          /\ \A i \in 1..Len(cOrder) :
               /\ configs[i + 1].name = cOrder[i]
               /\ configs[i + 1].base = BaseOf[<<cOrder[i], cMap[cOrder[i]].rev>>]
               /\ configs[i + 1].meta = cMap[cOrder[i]].meta
      BY <2>1, Listed
    <2>3. QED
      BY <2>2
  <1>3. IsOverridesFile(ovr)
    BY DEF ManualComplete
  <1> HIDE DEF configs, others, sources, n
  <1>4. ListsAlike(configs, others, n, sources, AddedGroups(ovr.groupMappings))
    BY <1>2 DEF added
  <1>5. /\ calculated.apps = fresh.apps
        /\ calculated.groups = fresh.groups
        /\ calculated.components = fresh.components
        /\ calculated.actions = fresh.actions
        /\ calculated.manualApps = man.apps
        /\ GroupsDeclared(calculated.apps, configs, ovr.overrides, added)
    BY <1>2, <1>3, <1>4, CalculatedAlike DEF added
  <1>6. /\ calculated.apps \in Seq(ServedApps(sources))
        /\ calculated.threw = FALSE
    <2>1. n \in Nat /\ DOMAIN configs = 1..n /\ \A i \in 1..n : IsConfig(configs[i], sources)
      BY <1>2 DEF IsMergeList
    <2>2. QED
      BY <1>3, <2>1, CalculatedIn
  <1>7. Publish(calculated, cMap, cOrder, man, ovr)
    BY Zenon DEF UpdateConfig, configs
  <1> HIDE DEF calculated, fresh
  <1>8. /\ published' = [apps |-> calculated.apps, groups |-> calculated.groups,
                         components |-> calculated.components, actions |-> calculated.actions]
        /\ configOrder' = cOrder
        /\ manualOverrides' = ovr
        /\ manual'.file = man.file
        /\ manual'.apps = ShareGroups(calculated.manualApps, Manual, calculated, ovr.overrides)
    BY <1>6, <1>7 DEF Publish
  <1>9. \A m \in Names : configMap'[m] =
            [rev |-> cMap[m].rev, content |-> cMap[m].content,
             meta |-> [cMap[m].meta EXCEPT
                         !.apps = ShareGroups(@, m, calculated, ovr.overrides)]]
    BY <1>7 DEF Publish
  <1>10. KnownIn(configMap') = KnownIn(cMap)
    <2>1. \A m \in Names : configMap'[m].rev = cMap[m].rev
      BY <1>7 DEF Publish
    <2>2. QED
      BY <2>1 DEF KnownIn, IsKnown
  <1>11. ManualAlike(manual', added)
    <2> DEFINE apps == man.apps
               declared == man.file.apps
    <2>1. apps \in Seq(GroupedApps) /\ NamesOnce(apps)
      BY <1>2 DEF IsMergeList, ManualList
    <2>2. declared \in Seq(UiApps)
      BY ContentsAssumption DEF ManualComplete, UiMetas
    <2>3. AppsAlike(apps, declared, added)
      BY <1>1 DEF ManualAlike
    <2>4. \A j \in DOMAIN configs : configs[j].name = Manual => configs[j].meta.apps = apps
      BY <1>2 DEF IsMergeList, ManualList
    <2> HIDE DEF apps, declared
    <2>5. AppsAlike(ShareGroups(apps, Manual, calculated, ovr.overrides), declared, added)
      BY <1>5, <1>6, <2>1, <2>2, <2>3, <2>4, SharedAlike
    <2>6. QED
      BY <1>5, <1>8, <2>5 DEF ManualAlike, apps, declared
  <1>12. ASSUME NEW m \in KnownIn(cMap)
         PROVE  /\ configMap'[m].rev = cMap[m].rev
                /\ configMap'[m].content = cMap[m].content
                /\ configMap'[m] = [rev |-> configMap'[m].rev, content |-> configMap'[m].content,
                                    meta |-> configMap'[m].meta]
                /\ HeldAlike(configMap'[m].meta, MetaOf[<<m, cMap[m].content>>], added)
    <2> DEFINE meta == cMap[m].meta
               file == MetaOf[<<m, cMap[m].content>>]
               apps == meta.apps
               shared == ShareGroups(apps, m, calculated, ovr.overrides)
               held == [meta EXCEPT !.apps = shared]
    <2>1. m \in Names /\ <<m, cMap[m].content>> \in Uids /\ HeldAlike(meta, file, added)
      BY <1>1 DEF EntriesAlike, KnownIn
    <2>2. meta \in GroupedMetas
      BY <2>1 DEF ConfigMapComplete
    <2>3. file \in UiMetas /\ NamesOnce(file.apps)
      BY <2>1, ContentsAssumption DEF NothingLeft
    <2>4. configMap'[m] = [rev |-> cMap[m].rev, content |-> cMap[m].content, meta |-> held]
      BY <1>9, <2>1
    <2>5. \A j \in DOMAIN configs : configs[j].name = m => configs[j].meta.apps = apps
      <3>1. /\ DOMAIN configs = 1..(Len(cOrder) + 1) /\ configs[1].name = Manual
            /\ \A i \in 1..Len(cOrder) : /\ configs[i + 1].name = cOrder[i]
                                         /\ configs[i + 1].meta = cMap[cOrder[i]].meta
        BY <1>a
      <3>2. Len(cOrder) \in Nat /\ m # Manual
        BY <2>1, DiscoveryAssumption DEF ConfigMapComplete, Ordered
      <3>3. ASSUME NEW j \in DOMAIN configs, configs[j].name = m
            PROVE  configs[j].meta.apps = apps
        <4>1. j # 1
          BY <3>1, <3>2, <3>3
        <4>2. j - 1 \in 1..Len(cOrder) /\ (j - 1) + 1 = j
          BY <3>1, <3>2, <4>1
        <4>3. cOrder[j - 1] = m /\ configs[j].meta = cMap[cOrder[j - 1]].meta
          BY <3>1, <3>3, <4>2
        <4>4. QED
          BY <4>3
      <3>4. QED
        BY <3>3
    <2> HIDE DEF held
    <2>6. /\ configMap'[m].rev = cMap[m].rev /\ configMap'[m].content = cMap[m].content
          /\ configMap'[m].meta = held
          /\ configMap'[m] = [rev |-> configMap'[m].rev, content |-> configMap'[m].content,
                              meta |-> configMap'[m].meta]
      <3> DEFINE revision == cMap[m].rev
                 content == cMap[m].content
                 entry == configMap'[m]
      <3>1. entry = [rev |-> revision, content |-> content, meta |-> held]
        BY <2>4
      <3> HIDE DEF revision, content, entry
      <3>2. /\ entry.rev = revision /\ entry.content = content /\ entry.meta = held
            /\ entry = [rev |-> entry.rev, content |-> entry.content, meta |-> entry.meta]
        BY <3>1
      <3>3. QED
        BY <3>2 DEF revision, content, entry
    <2> HIDE DEF meta, file, shared
    <2>7. apps \in Seq(GroupedApps) /\ file.apps \in Seq(UiApps) /\ AppsAlike(apps, file.apps, added)
      BY <2>1, <2>2, <2>3 DEF GroupedMetas, UiMetas, HeldAlike
    <2>8. /\ held.apps = shared /\ held.groups = meta.groups
          /\ held.components = meta.components /\ held.actions = meta.actions
      BY <2>2 DEF held, GroupedMetas
    <2> HIDE DEF apps
    <2>9. NamesOnce(apps)
      BY <2>3, <2>7, AlikeOnce
    <2> DEFINE declared == file.apps
    <2>10. declared \in Seq(UiApps) /\ AppsAlike(apps, declared, added)
      BY <2>7
    <2> HIDE DEF declared
    <2>11. AppsAlike(ShareGroups(apps, m, calculated, ovr.overrides), declared, added)
      BY <1>5, <1>6, <2>5, <2>7, <2>9, <2>10, SharedAlike
    <2>12. HeldAlike(held, file, added)
      BY <2>1, <2>8, <2>11 DEF HeldAlike, shared, declared
    <2>13. QED
      BY <2>6, <2>12 DEF file
  <1>13. EntriesAlike(configMap', added)
    <2>1. \A m \in KnownIn(cMap) : <<m, cMap[m].content>> \in Uids
      BY <1>1 DEF EntriesAlike
    <2>2. QED
      BY <1>10, <1>12, <2>1 DEF EntriesAlike
  <1>14. FreshMemory(configMap', manual', manualOverrides')
    BY <1>8, <1>11, <1>13 DEF FreshMemory, added
  <1>15. FreshMap(configMap') = FreshMap(cMap)
    <2>1. ASSUME NEW m \in Names PROVE FreshMap(configMap')[m] = FreshMap(cMap)[m]
      <3>1. CASE m \in KnownIn(cMap)
        <4> DEFINE entry == configMap'[m]
                   before == cMap[m]
                   file == MetaOf[<<m, before.content>>]
        <4>1. /\ entry = [rev |-> entry.rev, content |-> entry.content, meta |-> entry.meta]
              /\ entry.rev = before.rev /\ entry.content = before.content
          BY <1>12, <3>1
        <4>2. before = [rev |-> before.rev, content |-> before.content, meta |-> before.meta]
          BY <1>1, <3>1 DEF EntriesAlike
        <4>3. /\ FreshMap(cMap)[m] = [before EXCEPT !.meta = file]
              /\ FreshMap(configMap')[m] = [entry EXCEPT !.meta = MetaOf[<<m, entry.content>>]]
          BY <1>10, <3>1 DEF FreshMap, KnownIn
        <4>4. FreshMap(configMap')[m] = [entry EXCEPT !.meta = file]
          BY <4>1, <4>3
        <4> HIDE DEF entry, before, file
        <4>5. [entry EXCEPT !.meta = file] = [before EXCEPT !.meta = file]
          BY <4>1, <4>2
        <4>6. QED
          BY <4>3, <4>4, <4>5
      <3>2. CASE m \notin KnownIn(cMap)
        BY <1>10, <3>2 DEF FreshMap, KnownIn
      <3>3. QED
        BY <3>1, <3>2
    <2>2. QED
      BY <2>1 DEF FreshMap
  <1>16. FreshList' = others
    <2>1. FreshList' = ConfigList(FreshMap(configMap'), configOrder', Loaded(manual'.file))
      BY Zenon DEF FreshList, FreshMap
    <2>2. QED
      BY <1>8, <1>15, <2>1 DEF others
  <1>17. AsFreshReplica'
    <2>1. CalculateConfig(FreshList, manualOverrides)' = fresh
      BY <1>8, <1>16 DEF fresh
    <2>2. QED
      BY <1>5, <1>8, <2>1 DEF AsFreshReplica
  <1>18. QED
    BY <1>14, <1>17

\* Memory and what is published are those of a fresh replica.
FreshInv == FreshMemory(configMap, manual, manualOverrides) /\ AsFreshReplica

(* Every step that publishes leaves them so.                               *)
LEMMA FreshStep ==
    ASSUME FilesComplete, NothingLeft, FilesLoaded, ConfigInv, EntryForEveryName,
           CollectionTyped, FreshInv, [Next]_vars
    PROVE  FreshInv'
  <1>0. /\ ConfigMapComplete(configMap, configOrder) /\ ManualComplete(manual, manualOverrides)
        /\ FreshMemory(configMap, manual, manualOverrides)
    BY DEF ConfigInv, FreshInv
  <1>1. ASSUME NEW n \in Names, DeleteService(n) PROVE FreshInv'
    <2> DEFINE cMap == [configMap EXCEPT ![n] = NoConfig]
    <2>1. UpdateConfig(cMap, Without(configOrder, n), manual, manualOverrides)
      BY <1>1, Zenon DEF DeleteService
    <2>2. ConfigMapComplete(cMap, Without(configOrder, n))
      BY <1>0, EntryDeleted
    <2>3. /\ cMap[n] = NoConfig /\ ~IsKnown(NoConfig)
          /\ \A m \in Names \ {n} : cMap[m] = configMap[m]
      BY DEF EntryForEveryName, IsKnown, NoConfig
    <2> HIDE DEF cMap
    <2>4. \A m \in KnownIn(cMap) : m \in KnownIn(configMap) /\ cMap[m] = configMap[m]
      BY <2>3 DEF KnownIn
    <2>5. FreshMemory(cMap, manual, manualOverrides)
      BY <1>0, <2>4 DEF FreshMemory, EntriesAlike
    <2>6. QED
      BY <1>0, <2>1, <2>2, <2>5, FreshPublished DEF FreshInv
  <1>2. ASSUME NEW n \in Names, NEW content \in Revisions, FetchConfig(n, content)
        PROVE  FreshInv'
    <2> DEFINE file == MetaOf[<<n, content>>]
               entry == [rev |-> services[n], content |-> content, meta |-> file]
               cMap == [configMap EXCEPT ![n] = entry]
    <2>1. <<n, services[n]>> \in HasProtocol /\ content \in Serves[<<n, services[n]>>]
      BY <1>2 DEF FetchConfig
    <2>2. <<n, content>> \in Uids /\ <<n, services[n]>> \in Uids
      BY <2>1, ContentsAssumption, DiscoveryAssumption
    <2>3. file \in GroupedMetas
      BY <2>2, ContentsAssumption, CompleteMeta DEF FilesComplete
    <2>4. services[n] # NotAnnounced
      BY <2>2, DiscoveryAssumption
    <2>5. entry.meta \in GroupedMetas /\ <<n, entry.rev>> \in Uids /\ IsKnown(entry)
      BY <2>2, <2>3, <2>4 DEF IsKnown
    <2>6. UpdateConfig(cMap, AppendNew(configOrder, configMap, n), manual, manualOverrides)
      BY <1>2, Zenon DEF FetchConfig
    <2>7. /\ entry = [rev |-> entry.rev, content |-> entry.content, meta |-> entry.meta]
          /\ entry.content = content /\ entry.meta = file
      OBVIOUS
    <2> HIDE DEF entry
    <2>8. ConfigMapComplete(cMap, AppendNew(configOrder, configMap, n))
      BY <1>0, <2>5, EntryWritten
    <2>9. cMap[n] = entry /\ \A m \in Names \ {n} : cMap[m] = configMap[m]
      BY DEF EntryForEveryName
    <2> HIDE DEF cMap
    <2>10. FreshMemory(cMap, manual, manualOverrides)
      <3> DEFINE added == AddedGroups(manualOverrides.groupMappings)
      <3>1. EntriesAlike(configMap, added) /\ ManualAlike(manual, added)
        BY <1>0 DEF FreshMemory
      <3> HIDE DEF added
      <3>2. HeldAlike(file, file, added)
        BY AlikeItself DEF HeldAlike
      <3>3. ASSUME NEW m \in KnownIn(cMap)
            PROVE  /\ cMap[m] = [rev |-> cMap[m].rev, content |-> cMap[m].content,
                                 meta |-> cMap[m].meta]
                   /\ <<m, cMap[m].content>> \in Uids
                   /\ HeldAlike(cMap[m].meta, MetaOf[<<m, cMap[m].content>>], added)
        <4>1. CASE m = n
          <5>1. cMap[m] = entry /\ entry.content = content /\ entry.meta = file
            BY <2>7, <2>9, <4>1
          <5>2. cMap[m].content = content /\ cMap[m].meta = file
            BY <5>1
          <5>3. MetaOf[<<m, cMap[m].content>>] = file
            BY <4>1, <5>2
          <5> HIDE DEF file
          <5>4. QED
            BY <2>2, <2>7, <3>2, <4>1, <5>1, <5>2, <5>3
        <4>2. CASE m # n
          <5>1. cMap[m] = configMap[m] /\ m \in KnownIn(configMap)
            BY <2>9, <4>2 DEF KnownIn
          <5>2. QED
            BY <3>1, <5>1 DEF EntriesAlike
        <4>3. QED
          BY <4>1, <4>2
      <3>4. EntriesAlike(cMap, added)
        BY <3>3 DEF EntriesAlike
      <3>5. QED
        BY <3>1, <3>4 DEF FreshMemory, added
    <2>11. QED
      BY <1>0, <2>6, <2>8, <2>10, FreshPublished DEF FreshInv
  <1>3. ASSUME NEW meta \in ManualMetas, ManualConfigChanged(meta) PROVE FreshInv'
    <2>1. UpdateConfig(configMap, configOrder, Loaded(meta), manualOverrides)
      BY <1>3, Zenon DEF ManualConfigChanged
    <2>2. meta \in GroupedMetas
      BY ContentsAssumption, CompleteMeta DEF FilesComplete
    <2>3. ManualComplete(Loaded(meta), manualOverrides)
      BY <2>2 DEF ManualComplete, Loaded, GroupedMetas, ConfigInv
    <2>4. FreshMemory(configMap, Loaded(meta), manualOverrides)
      BY <1>0, AlikeItself DEF FreshMemory, ManualAlike, Loaded
    <2>5. QED
      BY <1>0, <2>1, <2>3, <2>4, FreshPublished DEF FreshInv
  <1>4. ASSUME NEW ovr \in Overrides, ManualOverridesChanged(ovr) PROVE FreshInv'
    <2>1. UpdateConfig(configMap, configOrder, manual, ovr)
      BY <1>4, Zenon DEF ManualOverridesChanged
    <2>2. ManualComplete(manual, ovr)
      BY DEF ManualComplete, ConfigInv, FilesComplete
    <2>3. ovr.groupMappings = manualOverrides.groupMappings
      BY DEF NothingLeft, MappingsStay, FilesLoaded
    <2>4. FreshMemory(configMap, manual, ovr)
      BY <1>0, <2>3 DEF FreshMemory
    <2>5. QED
      BY <1>0, <2>1, <2>2, <2>4, FreshPublished DEF FreshInv
  <1>5. ASSUME UNCHANGED <<configVars, manualVars, published>> PROVE FreshInv'
    BY <1>5 DEF configVars, manualVars, FreshInv, AsFreshReplica, FreshList
  <1>6. QED
    BY <1>1, <1>2, <1>3, <1>4, <1>5
    DEF Next, ServiceEvent, ConfigAnswer, PackageAnswer, AddService, ModifyService,
        ForceUpdateService, EmitService, FetchPackages, PackageFetchFails,
        PackageFetchGivesUp, StorePackages, vars

(* Replicas that read the same files publish the same: what a replica      *)
(* publishes is what one would that has just started and read them in the  *)
(* same order, although updateConfig works on the objects in memory and    *)
(* leaves groups in them, as long as all files are complete, list an app   *)
(* once, have absolute urls in the manual apps, and the group mappings     *)
(* stay.  The run Residue shows that mappings which change do show.        *)
THEOREM StatelessReplicas ==
    ASSUME FilesComplete, NothingLeft
    PROVE  Spec => []AsFreshReplica
  <1>1. Init => FreshInv
    <2> SUFFICES ASSUME Init PROVE FreshInv
      OBVIOUS
    <2>1. KnownIn(configMap) = {} /\ ~ \E n \in Names : IsKnown(configMap[n])
      BY DEF Init, KnownIn, IsKnown, NoConfig
    <2>2. PICK meta \in ManualMetas : manual = Loaded(meta)
      BY DEF Init
    <2>3. FreshMemory(configMap, manual, manualOverrides)
      BY <2>1, <2>2, AlikeItself DEF FreshMemory, EntriesAlike, ManualAlike, Loaded
    <2>4. QED
      BY <2>1, <2>3 DEF FreshInv, AsFreshReplica
  <1>2. FreshInv /\ FilesLoaded /\ ConfigInv /\ EntryForEveryName /\ CollectionTyped
        /\ [Next]_vars => FreshInv'
    BY FreshStep
  <1>3. FreshInv => AsFreshReplica
    BY DEF FreshInv
  <1>4. QED
    BY <1>1, <1>2, <1>3, EntriesStay, CollectionStaysTyped, FilesStayLoaded,
       ContentsInvariant, PTL DEF Spec
================================================================================
