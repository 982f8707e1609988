------------------------------- MODULE ImportMap -------------------------------
(***************************************************************************)
(* The import map built from the fetched package lists: ImportMapUtil of   *)
(* backend/utils/ImportMapUtil.js, as pure operators.                      *)
(*                                                                         *)
(* A package list entry is [name, uid, modules]: the service, its uid and  *)
(* the modules of its config.package.json.  A module is [name, version,    *)
(* path, hasMain, deps]; deps maps a package name to the set of versions   *)
(* its semver range accepts, a singleton for a plain version.  Versions    *)
(* are compared as numbers; BadVersion is any string semver rejects, which *)
(* the schema of the file lets through, as it does a missing main.  The    *)
(* modules of one service have paths of their own.                         *)
(*                                                                         *)
(* A package id name@version is the pair <<name, version>>.  A url of the  *)
(* map is the pair <<uid, path>> it is put together from: the entries name,*)
(* name.js and name/ are one key <<name>>, name@version and name@version/  *)
(* one key <<name, version>>.                                              *)
(***************************************************************************)
EXTENDS Naturals, Sequences, SequencesExt

CONSTANT BadVersion

Modules(packageList) ==
    FlattenSeq([i \in DOMAIN packageList |->
        [j \in DOMAIN packageList[i].modules |->
            [module |-> packageList[i].modules[j], uid |-> packageList[i].uid]]])

PackageId(entry) == <<entry.module.name, entry.module.version>>

\* Of two modules with the same id the one processed last is kept.
MergePackageList(packageList) ==
    LET all == Modules(packageList)
    IN  [id \in {PackageId(e) : e \in ToSet(all)} |->
            all[SelectLastInSeq(all, LAMBDA e : PackageId(e) = id)]]

Url(package) == <<package.uid, package.module.path>>

(* semver.compare throws on a version it cannot parse: as soon as there is *)
(* a second package to compare it with, the whole calculation fails.  So   *)
(* does the path of a package without a main entry.                        *)
Malformed(packages) ==
    \/ /\ \E id \in DOMAIN packages : id[2] = BadVersion
       /\ \E id1, id2 \in DOMAIN packages : id1 # id2
    \/ \E id \in DOMAIN packages : ~packages[id].module.hasMain

(* resolveVersion: the exact id if there is one, or else the highest       *)
(* version in the range.                                                   *)
Satisfying(name, range, packages) ==
    {id \in DOMAIN packages : id[1] = name /\ id[2] # BadVersion /\ id[2] \in range}

Resolvable(name, range, packages) ==
    \/ \E v \in range : range = {v} /\ <<name, v>> \in DOMAIN packages
    \/ Satisfying(name, range, packages) # {}

\* Mutant: the lowest version of the range.
ResolveLowest(name, range, packages) ==
    packages[<<name, Min({id[2] : id \in Satisfying(name, range, packages)})>>]

ResolveVersion(name, range, packages) ==
    IF \E v \in range : range = {v} /\ <<name, v>> \in DOMAIN packages
    THEN packages[<<name, CHOOSE v \in range : TRUE>>]
    ELSE packages[<<name, Max({id[2] : id \in Satisfying(name, range, packages)})>>]

(* The imports are written in ascending order of the versions, so that the *)
(* last write to a bare name is that of its highest version.               *)
AddImport(imports, id, package) ==
    [key \in DOMAIN imports \cup {<<id[1]>>, id} |->
        IF key \in {<<id[1]>>, id} THEN Url(package) ELSE imports[key]]

NoEntries == [key \in {} |-> <<>>]

ImportAll(packages, order) ==
    FoldLeft(LAMBDA imports, id : AddImport(imports, id, packages[id]), NoEntries, order)

\* Mutant: descending order.
ImportsNewestFirst(packages) ==
    ImportAll(packages, CHOOSE order \in SetToSeqs(DOMAIN packages) :
                            \A i, j \in DOMAIN order : i < j => order[i][2] >= order[j][2])

InVersionOrder(order) ==
    \A i, j \in DOMAIN order : i < j => order[i][2] <= order[j][2]

Imports(packages) ==
    ImportAll(packages, CHOOSE order \in SetToSeqs(DOMAIN packages) : InVersionOrder(order))

Scope(package, packages) ==
    LET deps == package.module.deps
        found == {name \in DOMAIN deps : Resolvable(name, deps[name], packages)}
    IN  [name \in found |-> Url(ResolveVersion(name, deps[name], packages))]

\* Mutant: only the highest version of a package gets a scope.
ScopesOfHighest(packages) ==
    LET dependent == {id \in DOMAIN packages :
                        /\ DOMAIN packages[id].module.deps # {}
                        /\ \A other \in DOMAIN packages :
                               other[1] = id[1] => other[2] <= id[2]}
    IN  [url \in {Url(packages[id]) : id \in dependent} |->
            Scope(packages[CHOOSE id \in dependent : Url(packages[id]) = url], packages)]

Scopes(packages) ==
    LET dependent == {id \in DOMAIN packages : DOMAIN packages[id].module.deps # {}}
    IN  [url \in {Url(packages[id]) : id \in dependent} |->
            Scope(packages[CHOOSE id \in dependent : Url(packages[id]) = url], packages)]

EmptyImportMap == [imports |-> NoEntries, scopes |-> NoEntries]

(* calculateImportMap: the map, or threw with no map.                      *)
CalculateImportMap(packageList) ==
    LET packages == MergePackageList(packageList)
    IN  IF Malformed(packages)
        THEN [threw |-> TRUE, map |-> EmptyImportMap]
        ELSE [threw |-> FALSE,
              map   |-> [imports |-> Imports(packages), scopes |-> Scopes(packages)]]
================================================================================
