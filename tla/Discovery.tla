------------------------------- MODULE Discovery -------------------------------
(***************************************************************************)
(* One replica of the backend: what happens between a change of a service  *)
(* in the cluster and the apps, import map and proxy routes it serves.     *)
(*                                                                         *)
(*   backend/services/uiServiceCollection.js   services                    *)
(*   backend/services/proxyService.js          serviceMap                  *)
(*   backend/services/configQueryService.js    loops, configMap,           *)
(*                                             packageMap, published,      *)
(*                                             importMap                   *)
(*   backend/config/configManager.js           manual, overrides           *)
(*   backend/utils/probeUtil.js                Ready                       *)
(*                                                                         *)
(* The base classes of @adp/kubernetes are external: the collection keeps  *)
(* one service per name and emits its events, a service event starts one   *)
(* fetch loop per configuration file in place of the loops of that name,   *)
(* an answered fetch is stored and emitted, the config.json loop retries   *)
(* forever and the config.package.json loop stores the default after       *)
(* PackageTryLimit failures.  Listeners run synchronously: an event and    *)
(* all its handlers are one action.                                        *)
(*                                                                         *)
(* A service is announced at a revision; name and revision are its uid.    *)
(* The content of its files is that of one of the revisions its pods may   *)
(* serve at that time, since files also change without any event.          *)
(***************************************************************************)
EXTENDS ConfigMerge, ImportMap

CONSTANTS
    Names,            \* the names of the labelled services
    Revisions,        \* the revisions of a service
    Uids,             \* what the cluster may announce: <<name, revision>>
    NotAnnounced,     \* no revision: the service is not in the collection
    Serves,           \* what the pods may serve when announced: [uid -> revisions]
    HasProtocol,      \* the uids whose protocol is recognised
    BaseOf,           \* the external base url: [uid -> base]
    MetaOf,           \* config.json: [uid -> meta]
    ModulesOf,        \* config.package.json: [uid -> modules]
    PackageTryLimit,  \* CONFIG_PACKAGE_FETCH_TRY_LIMIT
    ManualMetas,      \* the contents the manual configuration file may have
    Overrides,        \* the contents the manual overrides file may have
    OwnService,       \* the service name of the backend itself
    EntityNames,      \* the names of apps, groups and components
    EntityTypes,      \* their types, NoType included
    Urls,             \* the urls of apps and the external base urls
    GroupNames,       \* the names of groups
    ActionIds         \* the ids of actions

ASSUME DiscoveryAssumption ==
    /\ NotAnnounced \notin Revisions
    /\ Manual \notin Names
    /\ Uids \subseteq Names \X Revisions
    /\ Serves \in [Uids -> SUBSET Revisions]
    /\ HasProtocol \subseteq Uids
    /\ PackageTryLimit \in Nat \ {0}

(* What the schemas of the files let through: the contents of config.json, *)
(* of config.package.json and of the manual configuration.                 *)
UiApps ==
    [name : EntityNames, type : EntityTypes, url : Urls,
     groups : {NoGroups} \cup SUBSET GroupNames]

UiEntities == [name : EntityNames, type : EntityTypes]

UiActions == [id : ActionIds]

UiMetas ==
    [apps : Seq(UiApps), groups : Seq(UiEntities), components : Seq(UiEntities),
     actions : Seq(UiActions)]

IsList(list) == Len(list) \in Nat /\ DOMAIN list = 1..Len(list)

IsModule(module) ==
    /\ module.version \in {BadVersion} \cup Nat
    /\ \A name \in DOMAIN module.deps : module.deps[name] \in SUBSET Nat

ASSUME ContentsAssumption ==
    /\ \A groups \in SUBSET GroupNames : groups # NoGroups
    /\ BadVersion \notin Nat
    /\ \A uid \in HasProtocol : \A content \in Serves[uid] : <<uid[1], content>> \in Uids
    /\ BaseOf \in [Uids -> Urls \cup {NoBase}]
    /\ MetaOf \in [Uids -> UiMetas]
    /\ \A uid \in Uids :
        /\ IsList(ModulesOf[uid])
        /\ \A i \in DOMAIN ModulesOf[uid] : IsModule(ModulesOf[uid][i])
    /\ ManualMetas \subseteq UiMetas

VARIABLES
    services,      \* ServiceCollection: name -> revision
    serviceMap,    \* ProxyService: the uids that are proxied
    loops,         \* the fetch loops in progress: name -> [config, package, tries]
    configMap,     \* name -> fetched config.json as held in memory, with its revision
    configOrder,   \* the names in configMap, in insertion order
    packageMap,    \* name -> fetched config.package.json, with its revision
    packageOrder,  \* the names in packageMap, in insertion order
    manual,        \* the manual configuration: its file and its content in memory
    manualOverrides, \* the manual overrides
    published,     \* the cached apps, groups, components and actions
    importMap      \* the cached import map

collectionVars == <<services, serviceMap, loops>>
configVars     == <<configMap, configOrder>>
packageVars    == <<packageMap, packageOrder>>
manualVars     == <<manual, manualOverrides>>
vars == <<collectionVars, configVars, packageVars, manualVars, published, importMap>>

Announced(n) == services[n] # NotAnnounced

NoLoop == [config |-> FALSE, package |-> FALSE, tries |-> 0]

\* No entry in a config map: nothing was read at any revision.
NoConfig ==
    [rev |-> NotAnnounced, content |-> NotAnnounced,
     meta |-> [apps |-> <<>>, groups |-> <<>>, components |-> <<>>, actions |-> <<>>]]

NoPackages == [rev |-> NotAnnounced, modules |-> <<>>]

IsKnown(entry) == entry.rev # NotAnnounced

NothingPublished == [apps |-> <<>>, groups |-> <<>>, components |-> <<>>, actions |-> <<>>]

Loaded(meta) == [file |-> meta, apps |-> meta.apps]

Init ==
    /\ services = [n \in Names |-> NotAnnounced]
    /\ serviceMap = {}
    /\ loops = [n \in Names |-> NoLoop]
    /\ configMap = [n \in Names |-> NoConfig]
    /\ configOrder = <<>>
    /\ packageMap = [n \in Names |-> NoPackages]
    /\ packageOrder = <<>>
    /\ manual \in {Loaded(meta) : meta \in ManualMetas}
    /\ manualOverrides \in Overrides
    /\ published = NothingPublished
    /\ importMap = EmptyImportMap

--------------------------------------------------------------------------------
(* A JavaScript object keeps the place of a key that is assigned again.    *)
AppendNew(order, map, n) ==
    IF IsKnown(map[n]) THEN order ELSE Append(order, n)

\* Mutant: the rest of the list goes as well.
WithoutTail(order, n) ==
    LET at == SelectInSeq(order, LAMBDA m : m = n)
    IN  IF at = 0 THEN order ELSE SubSeq(order, 1, at - 1)

Without(order, n) ==
    LET at == SelectInSeq(order, LAMBDA m : m = n)
    IN  IF at = 0 THEN order ELSE RemoveAt(order, at)

\* The list updateConfig merges: the manual configuration, then the config map.
ConfigList(cMap, cOrder, man) ==
    <<[name |-> Manual, base |-> NoBase,
       meta |-> [man.file EXCEPT !.apps = man.apps, !.components = <<>>]]>>
    \o [i \in DOMAIN cOrder |->
            [name |-> cOrder[i],
             base |-> BaseOf[<<cOrder[i], cMap[cOrder[i]].rev>>],
             meta |-> cMap[cOrder[i]].meta]]

(* updateConfig: nothing is published when the group mappings throw, but   *)
(* what was pushed into the arrays of the configurations before stays.     *)
Publish(calculated, cMap, cOrder, man, ovr) ==
    /\ configMap' = [n \in Names |->
            [rev     |-> cMap[n].rev,
             content |-> cMap[n].content,
             meta    |-> [cMap[n].meta EXCEPT
                            !.apps = ShareGroups(@, n, calculated, ovr.overrides)]]]
    /\ configOrder' = cOrder
    /\ manual' = [file |-> man.file,
                  apps |-> ShareGroups(calculated.manualApps, Manual,
                                       calculated, ovr.overrides)]
    /\ manualOverrides' = ovr
    /\ published' = IF calculated.threw THEN published
                    ELSE [apps       |-> calculated.apps,
                          groups     |-> calculated.groups,
                          components |-> calculated.components,
                          actions    |-> calculated.actions]

UpdateConfig(cMap, cOrder, man, ovr) ==
    Publish(CalculateConfig(ConfigList(cMap, cOrder, man), ovr), cMap, cOrder, man, ovr)

GroupMappingThrows(cMap, cOrder, man, ovr) ==
    CalculateConfig(ConfigList(cMap, cOrder, man), ovr).threw

\* The values of the package map.
PackageList(pMap, pOrder) ==
    [i \in DOMAIN pOrder |->
        [name |-> pOrder[i], uid |-> <<pOrder[i], pMap[pOrder[i]].rev>>,
         modules |-> pMap[pOrder[i]].modules]]

(* updateImportMap: a calculation that throws leaves the cache as it was.  *)
UpdateImportMap(pMap, pOrder) ==
    LET calculated == CalculateImportMap(PackageList(pMap, pOrder))
    IN  importMap' = IF calculated.threw THEN importMap ELSE calculated.map

--------------------------------------------------------------------------------
\* Mutant: the routes of the previous uid stay.
CleanUpNothing(n) == serviceMap

(* proxyService.addService: every entry of that name is replaced, and a    *)
(* service without a protocol is left out.                                 *)
CleanUpPreviousService(n) == {uid \in serviceMap : uid[1] # n}

ProxyAddService(n, rev) ==
    serviceMap' = CleanUpPreviousService(n) \cup ({<<n, rev>>} \cap HasProtocol)

ProxyDeleteService(n, rev) ==
    serviceMap' = serviceMap \ {<<n, rev>>}

\* Mutant: the packages of a service are fetched once.
EmitFetchesPackagesOnce(n, rev) ==
    /\ services' = [services EXCEPT ![n] = rev]
    /\ ProxyAddService(n, rev)
    /\ loops' = [loops EXCEPT ![n] = [config |-> TRUE, package |-> ~IsKnown(packageMap[n]),
                                      tries |-> 0]]
    /\ UNCHANGED <<configVars, packageVars, manualVars, published, importMap>>

\* The collection stores the service and emits it; the fetch loops restart.
EmitService(n, rev) ==
    /\ services' = [services EXCEPT ![n] = rev]
    /\ ProxyAddService(n, rev)
    /\ loops' = [loops EXCEPT ![n] = [config |-> TRUE, package |-> TRUE, tries |-> 0]]
    /\ UNCHANGED <<configVars, packageVars, manualVars, published, importMap>>

AddService(n, rev) ==
    /\ ~Announced(n)
    /\ <<n, rev>> \in Uids
    /\ EmitService(n, rev)

ModifyService(n, rev) ==
    /\ Announced(n)
    /\ <<n, rev>> \in Uids
    /\ services[n] # rev
    /\ EmitService(n, rev)

\* forceUpdateService: a refresh request emits a known service once more.
ForceUpdateService(n) ==
    /\ Announced(n)
    /\ EmitService(n, services[n])

\* Mutant: only the entry of the config map is dropped.
DeleteKeepsPackages(n) ==
    /\ Announced(n)
    /\ services' = [services EXCEPT ![n] = NotAnnounced]
    /\ ProxyDeleteService(n, services[n])
    /\ loops' = [loops EXCEPT ![n] = NoLoop]
    /\ UpdateConfig([configMap EXCEPT ![n] = NoConfig], Without(configOrder, n),
                    manual, manualOverrides)
    /\ UNCHANGED <<packageVars, importMap>>

(* A deletion also drops both configurations, which updates both caches;   *)
(* the second update is not reached when the first one throws.             *)
DeleteService(n) ==
    LET cMap   == [configMap EXCEPT ![n] = NoConfig]
        cOrder == Without(configOrder, n)
    IN  /\ Announced(n)
        /\ services' = [services EXCEPT ![n] = NotAnnounced]
        /\ ProxyDeleteService(n, services[n])
        /\ loops' = [loops EXCEPT ![n] = NoLoop]
        /\ packageMap' = [packageMap EXCEPT ![n] = NoPackages]
        /\ packageOrder' = Without(packageOrder, n)
        /\ UpdateConfig(cMap, cOrder, manual, manualOverrides)
        /\ IF GroupMappingThrows(cMap, cOrder, manual, manualOverrides)
           THEN UNCHANGED importMap
           ELSE UpdateImportMap(packageMap', packageOrder')

--------------------------------------------------------------------------------
\* config.json arrives, with the content of a revision the pods serve.
FetchConfig(n, content) ==
    LET entry == [rev |-> services[n], content |-> content, meta |-> MetaOf[<<n, content>>]]
    IN  /\ loops[n].config
        /\ <<n, services[n]>> \in HasProtocol
        /\ content \in Serves[<<n, services[n]>>]
        /\ loops' = [loops EXCEPT ![n].config = FALSE]
        /\ UpdateConfig([configMap EXCEPT ![n] = entry],
                        AppendNew(configOrder, configMap, n), manual, manualOverrides)
        /\ UNCHANGED <<services, serviceMap, packageVars, importMap>>

\* Mutant: the import map is not calculated anew.
StorePackagesOnly(n, modules) ==
    /\ loops' = [loops EXCEPT ![n].package = FALSE, ![n].tries = 0]
    /\ packageMap' = [packageMap EXCEPT ![n] = [rev |-> services[n], modules |-> modules]]
    /\ packageOrder' = AppendNew(packageOrder, packageMap, n)
    /\ importMap' = IF IsKnown(packageMap[n]) THEN importMap
                    ELSE CalculateImportMap(PackageList(packageMap', packageOrder')).map
    /\ UNCHANGED <<services, serviceMap, configVars, manualVars, published>>

StorePackages(n, modules) ==
    /\ loops' = [loops EXCEPT ![n].package = FALSE, ![n].tries = 0]
    /\ packageMap' = [packageMap EXCEPT ![n] = [rev |-> services[n], modules |-> modules]]
    /\ packageOrder' = AppendNew(packageOrder, packageMap, n)
    /\ UpdateImportMap(packageMap', packageOrder')
    /\ UNCHANGED <<services, serviceMap, configVars, manualVars, published>>

FetchPackages(n, content) ==
    /\ loops[n].package
    /\ <<n, services[n]>> \in HasProtocol
    /\ content \in Serves[<<n, services[n]>>]
    /\ StorePackages(n, ModulesOf[<<n, content>>])

\* Mutant: one try too many.
PackageFetchFailsOnceMore(n) ==
    /\ loops[n].package
    /\ loops[n].tries < PackageTryLimit
    /\ loops' = [loops EXCEPT ![n].tries = @ + 1]
    /\ UNCHANGED <<services, serviceMap, configVars, packageVars, manualVars,
                   published, importMap>>

\* A failed try of config.package.json, not the last one.
PackageFetchFails(n) ==
    /\ loops[n].package
    /\ loops[n].tries + 1 < PackageTryLimit
    /\ loops' = [loops EXCEPT ![n].tries = @ + 1]
    /\ UNCHANGED <<services, serviceMap, configVars, packageVars, manualVars,
                   published, importMap>>

\* The last try fails: DEFAULT_PACKAGE_CONFIG is stored.
PackageFetchGivesUp(n) ==
    /\ loops[n].package
    /\ loops[n].tries + 1 >= PackageTryLimit
    /\ StorePackages(n, <<>>)

\* A changed manual configuration or overrides file is loaded anew.
ManualConfigChanged(meta) ==
    /\ meta # manual.file
    /\ UpdateConfig(configMap, configOrder, Loaded(meta), manualOverrides)
    /\ UNCHANGED <<collectionVars, packageVars, importMap>>

ManualOverridesChanged(ovr) ==
    /\ ovr # manualOverrides
    /\ UpdateConfig(configMap, configOrder, manual, ovr)
    /\ UNCHANGED <<collectionVars, packageVars, importMap>>

ServiceEvent(n) ==
    \/ \E rev \in Revisions : AddService(n, rev)
    \/ \E rev \in Revisions : ModifyService(n, rev)
    \/ ForceUpdateService(n)
    \/ DeleteService(n)

ConfigAnswer(n) == \E content \in Revisions : FetchConfig(n, content)

PackageAnswer(n) ==
    \/ \E content \in Revisions : FetchPackages(n, content)
    \/ PackageFetchFails(n)
    \/ PackageFetchGivesUp(n)

Next ==
    \/ \E n \in Names : ServiceEvent(n) \/ ConfigAnswer(n) \/ PackageAnswer(n)
    \/ \E meta \in ManualMetas : ManualConfigChanged(meta)
    \/ \E ovr \in Overrides : ManualOverridesChanged(ovr)

Spec == Init /\ [][Next]_vars

--------------------------------------------------------------------------------
\* The uids the import map sends a browser to.
ImportedUids ==
    {importMap.imports[key][1] : key \in DOMAIN importMap.imports} \cup
    UNION {{importMap.scopes[url][name][1] : name \in DOMAIN importMap.scopes[url]} :
              url \in DOMAIN importMap.scopes}

(* probeUtil.js: the readiness probe answers 200.                          *)
Ready == \E app \in ToSet(published.apps) : app.service = OwnService

\* The types of the state the collection, the proxy and the fetch loops keep.
TypeOK ==
    /\ services \in [Names -> Revisions \cup {NotAnnounced}]
    /\ serviceMap \subseteq Uids
    /\ loops \in [Names -> [config  : BOOLEAN, package : BOOLEAN,
                            tries   : 0..(PackageTryLimit - 1)]]
    /\ DOMAIN configMap = Names /\ DOMAIN packageMap = Names
    /\ \A n \in Names :
        /\ configMap[n].rev \in Revisions \cup {NotAnnounced}
        /\ packageMap[n].rev \in Revisions \cup {NotAnnounced}
    /\ manual.file \in ManualMetas
    /\ manualOverrides \in Overrides

(* What the schemas of the overrides say.  Of an override they are not     *)
(* enforced: ui.manual.overrides.json gives "items" to an object, which    *)
(* the validator looks at in an array only, and no attribute of a group    *)
(* mapping is required.                                                    *)
IsAppOverride(override) ==
    /\ DOMAIN override.attributes \subseteq {"type", "url", "groups"}
    /\ \A f \in DOMAIN override.attributes :
        \/ f = "type"   /\ override.attributes[f] \in EntityTypes
        \/ f = "url"    /\ override.attributes[f] \in Urls
        \/ f = "groups" /\ override.attributes[f] \in SUBSET GroupNames

GroupMappings == [group : GroupNames, apps : Seq(EntityNames)]

IsOverridesFile(ovr) ==
    /\ IsList(ovr.overrides.apps)
    /\ \A i \in DOMAIN ovr.overrides.apps : IsAppOverride(ovr.overrides.apps[i])
    /\ ovr.groupMappings \in Seq(GroupMappings)

(* groupNames is optional for an app, and any string passes for the        *)
(* version of a module, which need not have a main either: files are       *)
(* complete when no calculation throws because of them, and no override    *)
(* replaces the service of an app.                                         *)
AppsHaveGroups(meta) == \A i \in DOMAIN meta.apps : meta.apps[i].groups # NoGroups

ModulesReadable(modules) ==
    \A i \in DOMAIN modules : modules[i].version # BadVersion /\ modules[i].hasMain

FilesComplete ==
    /\ \A uid \in Uids : AppsHaveGroups(MetaOf[uid]) /\ ModulesReadable(ModulesOf[uid])
    /\ \A meta \in ManualMetas : AppsHaveGroups(meta)
    /\ \A ovr \in Overrides : IsOverridesFile(ovr)

\* The backend's own service has an app, in any of its contents, that no
\* other service and no manual configuration has.
Declares(apps, name) == \E i \in DOMAIN apps : apps[i].name = name

OwnAppDeclared ==
    /\ OwnService \in Names
    /\ \E name \in EntityNames :
        /\ \A uid \in Uids : Declares(MetaOf[uid].apps, name) <=> uid[1] = OwnService
        /\ \A meta \in ManualMetas : ~Declares(meta.apps, name)

(* What a calculation writes into what it was calculated from can be seen  *)
(* in the next one when a group mapping is taken away (the run Residue),   *)
(* when a relative url of a manual app was resolved against the base of a  *)
(* service it won over, and when a file lists an app name twice.           *)
NamesOnce(appList) == \A i, j \in DOMAIN appList : appList[i].name = appList[j].name => i = j

UrlsAbsolute(appList) == \A i \in DOMAIN appList : appList[i].url # Relative

MappingsStay(files) == \A one, other \in files : one.groupMappings = other.groupMappings

NothingLeft ==
    /\ \A uid \in Uids : NamesOnce(MetaOf[uid].apps)
    /\ \A meta \in ManualMetas : NamesOnce(meta.apps) /\ UrlsAbsolute(meta.apps)
    /\ MappingsStay(Overrides)

(* The proxy routes exactly the current uid of every service of the        *)
(* collection that has a protocol: no route survives a modification or a   *)
(* deletion, although deleteService removes by uid and addService by name. *)
ProxyMirrorsCollection ==
    serviceMap = {<<n, services[n]>> : n \in {m \in Names : Announced(m)}} \cap HasProtocol

(* A module the import map sends a browser to can be fetched through the   *)
(* proxy (checkURL knows the uid), except while the package list of its    *)
(* service is being fetched anew: the proxy drops the old uid at once, the *)
(* import map only when that fetch has ended.                              *)
ImportMapServable ==
    \A uid \in ImportedUids : uid \in serviceMap \/ loops[uid[1]].package

(* "can remove apps, components, groups and packages from                  *)
(* configQueryService when a service was deleted" (configQueryService      *)
(* test): nothing of a service that is gone is published or imported.      *)
DeletedServicesGone ==
    /\ \A app \in ToSet(published.apps) : app.service = Manual \/ Announced(app.service)
    /\ \A uid \in ImportedUids : Announced(uid[1])

(* "GAS is stateless, but runs in a multi-pod replica-set": what a replica *)
(* publishes is what a replica would that has just read the same files in  *)
(* the same order.  updateConfig works on the fetched objects themselves,  *)
(* so what an earlier run left in them must not show, as long as it could  *)
(* leave only what comes back every time (NothingLeft).                    *)
FreshList ==
    ConfigList([n \in Names |->
                    IF ~IsKnown(configMap[n]) THEN NoConfig
                    ELSE [configMap[n] EXCEPT !.meta = MetaOf[<<n, configMap[n].content>>]]],
               configOrder, Loaded(manual.file))

AsFreshReplica ==
    (\E n \in Names : IsKnown(configMap[n])) =>
        LET fresh == CalculateConfig(FreshList, manualOverrides)
        IN  published = [apps       |-> fresh.apps,
                         groups     |-> fresh.groups,
                         components |-> fresh.components,
                         actions    |-> fresh.actions]

(* A replica that has become ready stays ready while its own configuration *)
(* is known: other services that come, change, collide and go, and new     *)
(* manual files, never take its own apps off the list isReady looks at, as *)
(* long as one of these apps is declared by nobody else (OwnAppDeclared).  *)
ReadinessKept ==
    [][Ready /\ IsKnown(configMap'[OwnService]) => Ready']_vars

RevisionsIn(map) == [n \in Names |-> map[n].rev]

FL == INSTANCE FetchLoops
        WITH configRev <- RevisionsIn(configMap), packageRev <- RevisionsIn(packageMap)

(* Every handler keeps the promise of the fetch loops: whatever the merge, *)
(* the overrides and the import map do, and where they throw, the entries  *)
(* of the two config maps follow the collection as in FetchLoops.          *)
ImplementsFetchLoops == FL!Spec

(* No announced service is forgotten and no deleted one remembered         *)
(* (FetchLoops!NoServiceForgotten) in the maps updateConfig and            *)
(* updateImportMap work from.                                              *)
NoServiceForgotten == FL!NoServiceForgotten
================================================================================
