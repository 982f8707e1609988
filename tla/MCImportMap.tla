----------------------------- MODULE MCImportMap -----------------------------
(***************************************************************************)
(* ImportMap over every package map of up to MaxPublishers services, in    *)
(* every order in which their package lists may arrive.  packageList is    *)
(* what calculateImportMap gets; a step adds the list of one more service  *)
(* or replaces the list of a known one, which keeps its position.          *)
(***************************************************************************)
EXTENDS ImportMap, FiniteSets

CONSTANTS
    Publishers, MaxPublishers,   \* the services
    ModuleNames, Versions, Paths,
    ModuleLists                  \* what one service may publish

VARIABLES packageList, importMap

packageVars == <<packageList, importMap>>

ModuleType ==
    [name : ModuleNames, version : Versions, path : Paths, hasMain : {TRUE},
     deps : UNION {[names -> SUBSET Versions] : names \in SUBSET ModuleNames}]

ASSUME ImportMapAssumption ==
    /\ MaxPublishers \in Nat
    /\ Versions \subseteq Nat
    /\ BadVersion \notin Nat
    /\ \A modules \in ModuleLists :
        /\ modules \in Seq(ModuleType)
        /\ \A i, j \in DOMAIN modules : modules[i].path = modules[j].path => i = j

\* A version is named, or is the least that will do.
Ranges == {{v} : v \in Versions} \cup {{w \in Versions : w >= v} : v \in Versions}

Dependencies ==
    {[n \in {} |-> {}]} \cup
    {[n \in {m} |-> range] : m \in ModuleNames, range \in Ranges}

\* No module or one: two services meet in every name and version.
SingleModuleLists ==
    {<<>>} \cup
    {<<[name |-> n, version |-> v, path |-> n, hasMain |-> TRUE, deps |-> d]>> :
        n \in ModuleNames, v \in Versions, d \in Dependencies}

PackageConfigs(service) ==
    {[name |-> service, uid |-> service, modules |-> modules] : modules \in ModuleLists}

PositionOf(service) ==
    SelectInSeq(packageList, LAMBDA e : e.name = service)

NoPackages == packageList = <<>> /\ importMap = EmptyImportMap

UpdatePackages(service) ==
    /\ \/ /\ PositionOf(service) = 0
          /\ Len(packageList) < MaxPublishers
          /\ \E config \in PackageConfigs(service) :
                packageList' = Append(packageList, config)
       \/ /\ PositionOf(service) > 0
          /\ \E config \in PackageConfigs(service) :
                packageList' = [packageList EXCEPT ![PositionOf(service)] = config]
    /\ importMap' = CalculateImportMap(packageList').map

PackagesArrive == \E service \in Publishers : UpdatePackages(service)

ImportSpec == NoPackages /\ [][PackagesArrive]_packageVars

--------------------------------------------------------------------------------
Provided == ToSet(Modules(packageList))

Providing(name) == {e \in Provided : e.module.name = name}

VersionsOf(name) == {e.module.version : e \in Providing(name)}

(* "In case of naming conflict, the highest version is used at the top     *)
(* level import map": a bare name leads to a module of that name whose     *)
(* version no other service exceeds, and every declared name is there.     *)
TopLevelIsHighest ==
    /\ {key[1] : key \in DOMAIN importMap.imports} = {e.module.name : e \in Provided}
    /\ \A name \in {e.module.name : e \in Provided} :
        \E e \in Providing(name) :
            /\ e.module.version = Max(VersionsOf(name))
            /\ importMap.imports[<<name>>] = Url(e)

(* A dependency is mapped in the scope of its dependent exactly when some  *)
(* service offers a version in the range, to a version in the range, and   *)
(* to the highest of those, even where the bare name leads elsewhere.      *)
ScopesSatisfyRanges ==
    \A url \in DOMAIN importMap.scopes : \E dependent \in Provided :
        /\ Url(dependent) = url
        /\ \A name \in DOMAIN dependent.module.deps :
            LET offered == VersionsOf(name) \cap dependent.module.deps[name]
            IN  IF offered = {}
                THEN name \notin DOMAIN importMap.scopes[url]
                ELSE \E e \in Providing(name) :
                        /\ e.module.version = Max(offered)
                        /\ importMap.scopes[url][name] = Url(e)

(* A module the map leads a browser to, from a bare or a pinned name or    *)
(* from another module, is one that some service still publishes, and it   *)
(* finds in a scope of its own each of its dependencies that some service  *)
(* offers: also the older versions, and where two services publish the     *)
(* same package version and only one of them is kept.                      *)
Targets(entries) == {entries[key] : key \in DOMAIN entries}

ReachableUrls ==
    Targets(importMap.imports) \cup
    UNION {Targets(importMap.scopes[url]) : url \in DOMAIN importMap.scopes}

ReachableModulesResolve ==
    \A url \in ReachableUrls : \E e \in Provided :
        /\ Url(e) = url
        /\ \A name \in DOMAIN e.module.deps :
            VersionsOf(name) \cap e.module.deps[name] # {} =>
                /\ url \in DOMAIN importMap.scopes
                /\ name \in DOMAIN importMap.scopes[url]

PackageSymmetry == Permutations(Publishers) \cup Permutations(ModuleNames)
================================================================================
