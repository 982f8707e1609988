---------------------------- MODULE MCConfigMerge ----------------------------
(***************************************************************************)
(* ConfigMerge over every list of up to MaxServices service configurations *)
(* behind a manual one, against definitions that look at the whole list    *)
(* instead of folding over it.  configs is what updateConfig hands to      *)
(* mergeConfigs; a step is one more service in the config map.             *)
(***************************************************************************)
EXTENDS ConfigMerge, FiniteSets

CONSTANTS
    ServiceNames, MaxServices,
    AppNames,
    PlainTypes,   \* the types that are given and do not start with 'euisdk'
    AppLists,     \* what one configuration may declare
    ActionIds

VARIABLE configs

Types == {NoType} \cup PlainTypes \cup EuisdkTypes

Apps == [name : AppNames, type : Types, url : {Relative}, groups : {{}}]

ASSUME MergeAssumption ==
    /\ Manual \notin ServiceNames
    /\ Relative \notin ServiceNames
    /\ NoType \notin EuisdkTypes
    /\ MaxServices \in Nat
    /\ AppLists \subseteq Seq(Apps)

\* No app or one: two services meet in every name.
SingleAppLists == {<<>>} \cup {<<app>> : app \in Apps}

\* The other entities follow the app list: one group and one component alike
\* (updateConfig takes no components from the manual configuration).
MetaOf(apps, actions) ==
    [apps       |-> apps,
     groups     |-> [i \in DOMAIN apps |-> [name |-> apps[i].name, type |-> apps[i].type]],
     components |-> [i \in DOMAIN apps |-> [name |-> apps[i].name, type |-> apps[i].type]],
     actions    |-> actions]

ActionLists == {<<>>} \cup {<<[id |-> a]>> : a \in ActionIds}

ManualConfigs ==
    {[name |-> Manual, base |-> NoBase, meta |-> [MetaOf(apps, <<>>) EXCEPT !.components = <<>>]] :
        apps \in AppLists}

\* A service without an external base url, or with one of its own.
ServiceConfigs(service) ==
    {[name |-> service, base |-> base, meta |-> MetaOf(apps, actions)] :
        base \in {NoBase, service}, apps \in AppLists, actions \in ActionLists}

Named == {configs[i].name : i \in DOMAIN configs}

Init == \E m \in ManualConfigs : configs = <<m>>

AddConfig ==
    /\ Len(configs) <= MaxServices
    /\ \E service \in ServiceNames \ Named :
        \E config \in ServiceConfigs(service) : configs' = Append(configs, config)

Next == AddConfig

Spec == Init /\ [][Next]_configs

--------------------------------------------------------------------------------
\* Every app declared in the list, in processing order, with its declarer.
AppDeclarations(list) ==
    FlattenSeq([i \in DOMAIN list |->
        [j \in DOMAIN list[i].meta.apps |->
            [app |-> list[i].meta.apps[j], source |-> list[i].name, base |-> list[i].base]]])

Declared(list) == {d.app.name : d \in ToSet(AppDeclarations(list))}

Tier(type) ==
    CASE type = NoType        -> 0
      [] type \in EuisdkTypes -> 2
      [] OTHER                -> 1

TopTier(list, name) ==
    Max({Tier(d.app.type) : d \in {e \in ToSet(AppDeclarations(list)) : e.app.name = name}})

LastWhere(s, Test(_)) == s[SelectLastInSeq(s, Test)]

(* The declaration the resolver is left with: the last of the best tier,   *)
(* except that in the middle tier the first declaration fixes the type.    *)
WinningDeclaration(list, name) ==
    LET all  == AppDeclarations(list)
        top  == TopTier(list, name)
        InTop(d) == d.app.name = name /\ Tier(d.app.type) = top
        kind == all[SelectInSeq(all, InTop)].app.type
    IN  IF top = 1
        THEN LastWhere(all, LAMBDA d : InTop(d) /\ d.app.type = kind)
        ELSE LastWhere(all, InTop)

Published(list) == ToSet(MergeConfigs(list).apps)

PublishedApp(list, name) == CHOOSE app \in Published(list) : app.name = name

\* The declarations of a name that no other of that name outranks, by position.
BestDeclarations(list, name) ==
    LET all == AppDeclarations(list)
    IN  {i \in DOMAIN all : all[i].app.name = name /\ Tier(all[i].app.type) = TopTier(list, name)}

\* An entity is what one of the best declarations says, and a later one that
\* is as good is of another type of the middle tier.
IsSelected(entity, list) ==
    LET all  == AppDeclarations(list)
        best == BestDeclarations(list, entity.name)
    IN  \E i \in best :
            /\ entity.type = all[i].app.type
            /\ "service" \in DOMAIN entity => entity.service = all[i].source
            /\ \A later \in best :
                later > i => Tier(all[i].app.type) = 1 /\ all[later].app.type # all[i].app.type

EachSelectedOnce(entities, list) ==
    /\ {entities[k].name : k \in DOMAIN entities} = Declared(list)
    /\ Len(entities) = Cardinality(Declared(list))
    /\ \A k \in DOMAIN entities : IsSelected(entities[k], list)

(* No app, group or component is lost or listed twice, in whatever order   *)
(* their configurations are merged.  What is published under a name was    *)
(* declared so by the service it names, not by the one processed last; no  *)
(* declaration of the name has a better type (_resolveEntityByType); and a *)
(* later one that is as good replaces it, unless two types of the middle   *)
(* tier differ, where code and guide disagree (EqualPrecedenceNewest).     *)
(* The manual configuration, the first, declares no components.            *)
WinnerIsSelected ==
    LET merged == MergeConfigs(configs)
    IN  /\ EachSelectedOnce(merged.apps, configs)
        /\ EachSelectedOnce(merged.groups, configs)
        /\ EachSelectedOnce(merged.components, Tail(configs))

(* A url is resolved against the base of the service that declared the app *)
(* whenever that service has one, whatever was merged after it             *)
(* (_updateItemToAbsoluteUrl runs again on the retained item at every      *)
(* later collision).                                                       *)
OwnBasePreferred ==
    \A app \in Published(configs) :
        LET base == WinningDeclaration(configs, app.name).base
        IN  base # NoBase => app.url = base

(* Two replicas that know the same services publish the same winner for    *)
(* every app whose best tier holds one declaration only, in whatever order *)
(* the fetched configurations arrived in the config map of each.           *)
ReplicaOrders ==
    {<<configs[1]>> \o [i \in 1..(Len(configs) - 1) |-> configs[p[i] + 1]] :
        p \in {f \in [1..(Len(configs) - 1) -> 1..(Len(configs) - 1)] : IsInjective(f)}}

SoleInTopTier(name) == Cardinality(BestDeclarations(configs, name)) = 1

ReplicasAgreeOnSoleWinner ==
    \A name \in Declared(configs) :
        SoleInTopTier(name) =>
            \A other \in ReplicaOrders :
                /\ PublishedApp(other, name).service = PublishedApp(configs, name).service
                /\ PublishedApp(other, name).type = PublishedApp(configs, name).type

(* "Components of equal precedence are resolved in favor of new component" *)
(* (application developers guide): the published component is the last     *)
(* declared one of the best tier.  The resolver keeps the old one when two *)
(* types of the middle tier differ.                                        *)
EqualPrecedenceNewest ==
    LET services == Tail(configs)
    IN  \A component \in ToSet(MergeConfigs(configs).components) :
            component.service =
                LastWhere(AppDeclarations(services),
                          LAMBDA d : /\ d.app.name = component.name
                                     /\ Tier(d.app.type) = TopTier(services, component.name)).source

(* addAction "resolves conflicts": however many services declare an action *)
(* id, it is published once.  The code looks for the id in a field the     *)
(* entries of its store do not have.                                       *)
ActionIdsUnique ==
    IsInjective([i \in DOMAIN MergeConfigs(configs).actions |->
                    MergeConfigs(configs).actions[i].id])

--------------------------------------------------------------------------------
\* No service is special to the merge: only its place in the list counts.
Symmetry == Permutations(ServiceNames)
================================================================================
