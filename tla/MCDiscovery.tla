----------------------------- MODULE MCDiscovery -----------------------------
(***************************************************************************)
(* Discovery with the backend's own service gas, and a service s2 that     *)
(* collides with an app of gas, changes its content between revisions, may *)
(* serve a new file before it is announced, and at its last revision has   *)
(* no recognisable protocol.                                               *)
(***************************************************************************)
EXTENDS Discovery

CONSTANTS gas, s2, x, own, m, g1, g2

App(name, type, groups) ==
    [name |-> name, type |-> type, url |-> Relative, groups |-> groups]

Meta(apps) == [apps |-> apps, groups |-> <<>>, components |-> <<>>, actions |-> <<>>]

Module(name, version, deps) ==
    [name |-> name, version |-> version, path |-> name, hasMain |-> TRUE, deps |-> deps]

NoDeps == [n \in {} |-> {}]

MCNames == {gas, s2}

MCRevisions == 1..3

MCUids == {<<gas, 1>>} \cup ({s2} \X MCRevisions)

\* gas has one revision only; s2 may run ahead of its first announcement.
MCServes ==
    [uid \in MCUids |->
        IF uid[1] = gas THEN {1}
        ELSE IF uid[2] = 1 THEN {1, 2} ELSE {uid[2]}]

MCHasProtocol == {<<gas, 1>>, <<s2, 1>>, <<s2, 2>>}

MCBaseOf == [uid \in MCUids |-> IF uid[1] = gas THEN NoBase ELSE s2]

MCMetaOf ==
    [uid \in MCUids |->
        IF uid[1] = gas THEN Meta(<<App(own, "euisdk", {}), App(x, "external", {g1})>>)
        ELSE IF uid[2] = 1 THEN Meta(<<App(x, NoType, {})>>)
        ELSE Meta(<<App(x, "euisdk:app", {})>>)]

\* groupNames is optional in ui.app.json: here s2 leaves it out.
MCOptionalGroupsMetaOf ==
    [uid \in MCUids |->
        IF uid[1] = gas THEN Meta(<<App(own, "euisdk", {})>>)
        ELSE Meta(<<App(x, "external", NoGroups)>>)]

MCModulesOf ==
    [uid \in MCUids |->
        IF uid[1] = gas THEN <<Module(m, 1, NoDeps)>>
        ELSE IF uid[2] = 1 THEN <<Module(m, 2, [n \in {m} |-> {1}])>>
        ELSE <<>>]

MCEntityNames == {x, own}
MCEntityTypes == {NoType, "external", "internal"} \cup EuisdkTypes
MCUrls == {Relative, "absolute", s2}
MCGroupNames == {g1, g2}

NoOverrides == [apps |-> <<>>, groups |-> <<>>, components |-> <<>>]

Mapping == <<[group |-> g2, apps |-> <<x>>]>>

\* A manual entry for x that wins over the x of gas and the untyped x, or none.
MCManualMetas ==
    {Meta(<<>>), Meta(<<[App(x, "internal", {}) EXCEPT !.url = "absolute"]>>)}

MCNoManual == {Meta(<<>>)}

\* The file may override the groups of x as well as mapping x to g2.
GroupsOverride == [NoOverrides EXCEPT
    !.apps = <<[name |-> x, attributes |-> [groups |-> {g1}]]>>]

ChangingOverride ==
    {[overrides |-> o, groupMappings |-> Mapping] : o \in {NoOverrides, GroupsOverride}}

\* One mapping that never changes; or a mapping that may be taken away.
OneMapping == {[overrides |-> NoOverrides, groupMappings |-> Mapping]}
ChangingMapping == OneMapping \cup {[overrides |-> NoOverrides, groupMappings |-> <<>>]}

\* Every file of the run Discovery is complete; one of the run Frozen is not.
ASSUME MCFilesComplete ==
    /\ \A uid \in MCUids : AppsHaveGroups(MCMetaOf[uid]) /\ ModulesReadable(MCModulesOf[uid])
    /\ \A meta \in MCManualMetas : AppsHaveGroups(meta)
    /\ \A ovr \in ChangingOverride : IsOverridesFile(ovr)

\* In all of them the app own is declared by gas alone.
ASSUME MCOwnAppDeclared == OwnAppDeclared

\* In the run Discovery the mapping stays, and the manual url is absolute.
ASSUME MCNothingLeft ==
    /\ \A uid \in MCUids : NamesOnce(MCMetaOf[uid].apps)
    /\ \A meta \in MCManualMetas : NamesOnce(meta.apps) /\ UrlsAbsolute(meta.apps)
    /\ MappingsStay(ChangingOverride)
================================================================================
