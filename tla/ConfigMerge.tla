------------------------------ MODULE ConfigMerge ------------------------------
(***************************************************************************)
(* The aggregation of the discovered UI metadata: the collision resolver   *)
(* of backend/utils/configUtil.js, the override and group-mapping passes   *)
(* of backend/services/configQueryService.js and the url helper of         *)
(* backend/utils/URLUtil.js, as pure operators.                            *)
(*                                                                         *)
(* A service configuration is [name, base, meta]: the service it came      *)
(* from, the external base url of that service (NoBase when the annotation *)
(* is missing) and its config.json.  meta holds sequences of apps          *)
(* [name, type, url, groups], groups and components [name, type] and       *)
(* actions [id].  The manual configuration has the name Manual: the code   *)
(* leaves its name and base undefined.                                     *)
(*                                                                         *)
(* A store of the resolver is a JavaScript object keyed by entity name: a  *)
(* sequence of [component, source] items in insertion order, in which an   *)
(* assignment to a known key keeps the position of the key.                *)
(***************************************************************************)
EXTENDS Naturals, Sequences, SequencesExt

CONSTANTS
    Manual,       \* the undefined name (and source) of the manual configuration
    NoType,       \* a missing or empty entity type
    EuisdkTypes,  \* the types that start with 'euisdk'
    NoBase,       \* no external base url
    NoUrl,        \* an app without a url attribute
    Relative,     \* a url that is not absolute yet
    NoGroups      \* an app without a groupNames attribute

\* The position of the entity with that name, 0 when there is none.
IndexOfName(list, name) ==
    SelectInSeq(list, LAMBDA entity : entity.name = name)

StoreIndex(store, name) ==
    SelectInSeq(store, LAMBDA item : item.component.name = name)

--------------------------------------------------------------------------------
(* URLUtil.js: a relative url is resolved against the base; resolving      *)
(* against an undefined base throws, which leaves the url as it was.       *)
\* Mutant: an absolute url is rebased as well.
RebaseAlways(url, base) == IF base # NoBase THEN base ELSE url

UpdateToAbsoluteUrl(url, base) ==
    IF url = Relative /\ base # NoBase THEN base ELSE url

(* configUtil.js: the default is the newer item, 'type' is the only        *)
(* resolver.  Two types draw when they are equal or both euisdk.           *)
\* Mutant: one euisdk type is enough for a draw.
DrawWithAnyEuisdk(old, new) ==
    old = new \/ {old, new} \cap EuisdkTypes # {}

Draw(old, new) ==
    old = new \/ {old, new} \subseteq EuisdkTypes

\* Mutant: an old item without a type is not given up.
ResolveKeepsUntyped(oldItem, newItem) ==
    IF Draw(oldItem.component.type, newItem.component.type)
       \/ newItem.component.type \in EuisdkTypes
    THEN newItem
    ELSE oldItem

ResolveEntityByType(oldItem, newItem) ==
    LET old == oldItem.component.type
        new == newItem.component.type
    IN  IF Draw(old, new) \/ old = NoType \/ new \in EuisdkTypes
        THEN newItem
        ELSE oldItem

\* The updater of apps: the base is that of the configuration being processed.
UpdateItemToAbsoluteUrl(item, config) ==
    [item EXCEPT !.component =
        [name    |-> @.name,
         type    |-> @.type,
         url     |-> UpdateToAbsoluteUrl(@.url, config.base),
         groups  |-> @.groups,
         service |-> item.source]]

\* The updater of components.
UpdateItemWithSource(item, config) ==
    [item EXCEPT !.component =
        [name |-> @.name, type |-> @.type, service |-> item.source]]

(* addEntity: the item to store for a component, before its updater, and   *)
(* its place in the store.                                                 *)
ResolvedItem(store, component, config) ==
    LET new == [component |-> component, source |-> config.name]
        at  == StoreIndex(store, component.name)
    IN  IF at = 0 THEN new ELSE ResolveEntityByType(store[at], new)

PutItem(store, item) ==
    LET at == StoreIndex(store, item.component.name)
    IN  IF at = 0 THEN Append(store, item) ELSE [store EXCEPT ![at] = item]

(* The lookup by id compares with a field the store items do not have, so  *)
(* no stored action is ever found and every action is appended.            *)
AddAction(store, action, config) ==
    Append(store, [component |-> action, source |-> config.name])

--------------------------------------------------------------------------------
(* An item of the manual configuration is updated in place, not copied:    *)
(* manualApps is the array of the manual configuration after the updates.  *)
PutByName(list, entity) ==
    LET at == IndexOfName(list, entity.name)
    IN  IF at = 0 THEN Append(list, entity) ELSE [list EXCEPT ![at] = entity]

WithoutService(app) ==
    [name |-> app.name, type |-> app.type, url |-> app.url, groups |-> app.groups]

PutApp(stores, item) ==
    [stores EXCEPT
        !.apps = PutItem(@, item),
        !.manualApps = IF item.source = Manual
                       THEN PutByName(@, WithoutService(item.component))
                       ELSE @]

AddApp(stores, app, config) ==
    PutApp(stores, UpdateItemToAbsoluteUrl(ResolvedItem(stores.apps, app, config), config))

ResolveApps(stores, config) ==
    FoldLeft(LAMBDA s, app : AddApp(s, app, config), stores, config.meta.apps)

ResolveGroups(store, config) ==
    FoldLeft(LAMBDA s, group : PutItem(s, ResolvedItem(s, group, config)),
             store, config.meta.groups)

ResolveComponents(store, config) ==
    FoldLeft(LAMBDA s, component :
                PutItem(s, UpdateItemWithSource(ResolvedItem(s, component, config), config)),
             store, config.meta.components)

ResolveActions(store, config) ==
    FoldLeft(LAMBDA s, action : AddAction(s, action, config),
             store, config.meta.actions)

ProcessConfig(stores, config) ==
    [ResolveApps(stores, config) EXCEPT
        !.groups     = ResolveGroups(@, config),
        !.components = ResolveComponents(@, config),
        !.actions    = ResolveActions(@, config)]

EmptyStores ==
    [apps |-> <<>>, groups |-> <<>>, components |-> <<>>, actions |-> <<>>,
     manualApps |-> <<>>]

Components(store) == [i \in DOMAIN store |-> store[i].component]

(* mergeConfigs: the lists it returns, and the manual apps as it leaves    *)
(* them; nothing has thrown so far.                                        *)
ListsOf(stores) ==
    [apps       |-> Components(stores.apps),
     groups     |-> Components(stores.groups),
     components |-> Components(stores.components),
     actions    |-> Components(stores.actions),
     manualApps |-> stores.manualApps,
     threw      |-> FALSE]

MergeConfigs(configs) == ListsOf(FoldLeft(ProcessConfig, EmptyStores, configs))

--------------------------------------------------------------------------------
(* configQueryService.js: an override replaces the attributes it lists of  *)
(* the entity it names and is ignored (logged) when there is none.         *)
Overlay(entity, attributes) ==
    [f \in DOMAIN entity \cup DOMAIN attributes |->
        IF f \in DOMAIN attributes THEN attributes[f] ELSE entity[f]]

OverrideEntity(list, override) ==
    LET at == IndexOfName(list, override.name)
    IN  IF at = 0 THEN list
        ELSE [list EXCEPT ![at] = Overlay(@, override.attributes)]

OverrideList(list, overrides) == FoldLeft(OverrideEntity, list, overrides)

OverrideConfig(result, overrides) ==
    [result EXCEPT
        !.apps       = OverrideList(@, overrides.apps),
        !.groups     = OverrideList(@, overrides.groups),
        !.components = OverrideList(@, overrides.components)]

(* addGroupToApp: whether the group exists is not asked; an app without    *)
(* groupNames throws, which ends the pass where it stands.                 *)
AddOneGroup(result, group, appName) ==
    LET at == IndexOfName(result.apps, appName)
    IN  IF result.threw \/ at = 0 THEN result
        ELSE IF result.apps[at].groups = NoGroups THEN [result EXCEPT !.threw = TRUE]
        ELSE [result EXCEPT !.apps[at].groups = @ \cup {group}]

AddGroup(result, mapping) ==
    FoldLeft(LAMBDA r, appName : AddOneGroup(r, mapping.group, appName), result, mapping.apps)

AddGroupToApp(result, groupMappings) == FoldLeft(AddGroup, result, groupMappings)

(* updateConfig up to the assignment of the caches: the lists to publish,  *)
(* the manual apps as the merge leaves them, and whether the pass threw.   *)
CalculateConfig(configs, manualOverrides) ==
    AddGroupToApp(OverrideConfig(MergeConfigs(configs), manualOverrides.overrides),
                  manualOverrides.groupMappings)

(* The groupNames array of a published app is the very array of the        *)
(* configuration that declared it, unless an override supplied another:    *)
(* what the group mappings push into it stays in that configuration.       *)
GroupsOverridden(name, overrides) ==
    \E o \in ToSet(overrides.apps) : o.name = name /\ "groups" \in DOMAIN o.attributes

\* Mutant: the arrays are shared by name, whoever declared the app.
ShareGroupsByName(declaredApps, source, calculated, overrides) ==
    [i \in DOMAIN declaredApps |->
        LET at == IndexOfName(calculated.apps, declaredApps[i].name)
        IN  IF at # 0 /\ ~GroupsOverridden(declaredApps[i].name, overrides)
            THEN [declaredApps[i] EXCEPT !.groups = calculated.apps[at].groups]
            ELSE declaredApps[i]]

ShareGroups(declaredApps, source, calculated, overrides) ==
    [i \in DOMAIN declaredApps |->
        LET name == declaredApps[i].name
            at   == IndexOfName(calculated.apps, name)
        IN  IF /\ at # 0
               /\ calculated.apps[at].service = source
               /\ ~GroupsOverridden(name, overrides)
            THEN [declaredApps[i] EXCEPT !.groups = calculated.apps[at].groups]
            ELSE declaredApps[i]]
================================================================================
