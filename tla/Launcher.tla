-------------------------------- MODULE Launcher --------------------------------
(***************************************************************************)
(* What the launcher of the portal makes of the apps and groups it got     *)
(* from the backend and of the user's app states, as pure operators:       *)
(* frontend/src/utils/appUtils.js, the lists of launcher-component.js and  *)
(* the sections of app-view.js and product-view.js.                        *)
(*                                                                         *)
(* An app is [name, childNames, hidden, route, groups, isChild,            *)
(* isFavorite]; route is the sequence of the segments of its route, empty  *)
(* when it has none, and no segment ends with another one.  A group is     *)
(* [name, type, groups, hidden].  The app states give every app name       *)
(* [isFavorite, lastOpened]; an app without a state has NoState.           *)
(***************************************************************************)
EXTENDS Naturals, Sequences, SequencesExt

CONSTANTS
    AllApps,    \* the product name of the 'All Apps' view
    Others,     \* the heading of the apps without a category
    Undefined,  \* the first segment below a parent without a route
    Initial,    \* app name -> the first character of its display name
    Collation   \* the names and initials in the order their texts are sorted in

NoState == [isFavorite |-> FALSE, lastOpened |-> 0]

IndexOfApp(apps, name) == SelectInSeq(apps, LAMBDA app : app.name = name)

Positions(list) == [i \in DOMAIN list |-> i]

\* The elements that pass a test, in the order of the list.
Filter(list, Test(_)) ==
    LET kept[i \in 0..Len(list)] ==
            IF i = 0 THEN <<>>
            ELSE IF Test(list[i]) THEN Append(kept[i - 1], list[i]) ELSE kept[i - 1]
    IN  kept[Len(list)]

--------------------------------------------------------------------------------
(* appUtils.js: one pass in the order of the list.                         *)
HideApps(apps, names) ==
    [i \in DOMAIN apps |->
        [apps[i] EXCEPT !.hidden = @ \/ apps[i].name \in ToSet(names)]]

\* Mutant: only the children behind their parent are hidden.
HideLaterChildren(apps) ==
    FoldLeft(LAMBDA list, i :
                IF list[i].hidden
                THEN SubSeq(list, 1, i) \o
                     HideApps(SubSeq(list, i + 1, Len(list)), list[i].childNames)
                ELSE list,
             apps, Positions(apps))

UpdateHiddenStates(apps) ==
    FoldLeft(LAMBDA list, i :
                IF list[i].hidden THEN HideApps(list, list[i].childNames) ELSE list,
             apps, Positions(apps))

VisibleApps(apps) ==
    Filter(UpdateHiddenStates(apps), LAMBDA app : ~app.hidden)

\* The route has the prefix somewhere, with a slash behind it.
Includes(route, prefix) ==
    \E i \in 1..Len(route) :
        /\ i + Len(prefix) <= Len(route)
        /\ SubSeq(route, i, i + Len(prefix) - 1) = prefix

PrefixOf(parent) == IF parent.route = <<>> THEN <<Undefined>> ELSE parent.route

\* Mutant: the route of a child is extended every time.
ExtendRoute(route, prefix) ==
    IF route = <<>> THEN route ELSE prefix \o route

RouteBelow(route, prefix) ==
    IF route = <<>> \/ Includes(route, prefix) THEN route ELSE prefix \o route

AdoptChild(apps, prefix, childName) ==
    LET at == IndexOfApp(apps, childName)
    IN  IF at = 0 THEN apps
        ELSE [apps EXCEPT ![at].isChild = TRUE, ![at].route = RouteBelow(@, prefix)]

SetHierarchicAppStructure(apps) ==
    FoldLeft(LAMBDA list, i :
                FoldLeft(LAMBDA l, childName : AdoptChild(l, PrefixOf(l[i]), childName),
                         list, list[i].childNames),
             apps, Positions(apps))

ChildApps(app, apps) ==
    {child \in ToSet(apps) : child.name \in ToSet(app.childNames)}

--------------------------------------------------------------------------------
(* launcher-component.js: render works on the list the last one left.      *)
EnhanceAppListWithFavorite(apps, appState) ==
    [i \in DOMAIN apps |->
        [apps[i] EXCEPT !.isFavorite = appState[apps[i].name].isFavorite]]

Render(apps, appState) ==
    SetHierarchicAppStructure(EnhanceAppListWithFavorite(apps, appState))

RootApps(apps) == Filter(apps, LAMBDA app : ~app.isChild)

FavoriteApps(apps) ==
    Filter(RootApps(apps),
           LAMBDA app : app.isFavorite \/ \E child \in ChildApps(app, apps) : child.isFavorite)

\* The names of the opened apps, the last opened first.
OpenedApps(appState) ==
    LET opened == {name \in DOMAIN appState : appState[name].lastOpened > 0}
    IN  CHOOSE order \in SetToSeqs(opened) :
            \A i, j \in DOMAIN order :
                i < j => appState[order[i]].lastOpened >= appState[order[j]].lastOpened

\* Mutant: the children of a card are not looked at.
RootByName(apps, name) ==
    SelectInSeq(RootApps(apps), LAMBDA app : app.name = name)

\* The first root app that is that app or has it as a child, 0 for a removed app.
RootOf(apps, name) ==
    SelectInSeq(RootApps(apps),
                LAMBDA app :
                    \/ app.name = name
                    \/ ChildApps(app, apps) # {} /\ name \in ToSet(app.childNames))

RecentApps(apps, appState) ==
    FoldLeft(LAMBDA recent, name :
                LET at == RootOf(apps, name)
                IN  IF at = 0 \/ Contains(recent, RootApps(apps)[at].name) THEN recent
                    ELSE Append(recent, RootApps(apps)[at].name),
             <<>>, OpenedApps(appState))

--------------------------------------------------------------------------------
(* app-view.js                                                             *)
IsProduct(group) == group.type \in {"product", "system"}

ProductGroups(groups, productName) ==
    {g.name : g \in {group \in groups :
                        /\ group.type = "category" /\ ~group.hidden
                        /\ productName \in group.groups}}
    \cup {productName}

FilterProductApps(apps, groups, productName, showFavoritesOnly) ==
    LET all == ToSet(IF showFavoritesOnly THEN FavoriteApps(apps) ELSE RootApps(apps))
    IN  IF ProductGroups(groups, productName) = {AllApps} THEN all
        ELSE {app \in all : app.groups \cap ProductGroups(groups, productName) # {}}

CategoryNames(groups) ==
    {g.name : g \in {group \in groups : ~IsProduct(group) /\ ~group.hidden}}

\* Mutant: a category that is hidden still takes its apps.
HeadingsOfAny(app, groups) ==
    LET own == app.groups \cap {g.name : g \in {group \in groups : ~IsProduct(group)}}
    IN  IF own = {} THEN {Others} ELSE own

\* The categories an app is listed under.
Headings(app, groups) ==
    LET own == app.groups \cap CategoryNames(groups)
    IN  IF own = {} THEN {Others} ELSE own

GroupAppsByParentGroup(apps, groups) ==
    [heading \in UNION {Headings(app, groups) : app \in apps} |->
        {app \in apps : heading \in Headings(app, groups)}]

GroupAppsByFirstChar(apps) ==
    [char \in {Initial[app.name] : app \in apps} |-> {app \in apps : Initial[app.name] = char}]

Sorted(names) == Filter(Collation, LAMBDA name : name \in names)

\* A card: an app and the apps below it that can be opened from it.
CardOf(app, all) == [app |-> app.name, children |-> {child.name : child \in ChildApps(app, all)}]

Cards(apps, all) ==
    LET names == Sorted({app.name : app \in apps})
    IN  [i \in DOMAIN names |->
            CardOf(CHOOSE app \in apps : app.name = names[i], all)]

\* The apps without a category come last.
SortGroupsByName(titles) ==
    Sorted(titles \ {Others}) \o (IF Others \in titles THEN <<Others>> ELSE <<>>)

(* The sections of the view of a product, none when it is empty.  A single *)
(* section of apps without a category has no heading.                      *)
AppView(apps, groups, productName, showFavoritesOnly, alphabetical) ==
    LET view     == FilterProductApps(apps, groups, productName, showFavoritesOnly)
        sections == IF alphabetical THEN GroupAppsByFirstChar(view)
                    ELSE GroupAppsByParentGroup(view, groups)
        titles   == SortGroupsByName(DOMAIN sections)
    IN  [i \in DOMAIN titles |->
            [title |-> IF titles = <<Others>> THEN "" ELSE titles[i],
             cards |-> Cards(sections[titles[i]], apps)]]

--------------------------------------------------------------------------------
(* product-view.js: products, then recent and favourite apps, if any; but  *)
(* nothing at all when there is no visible product.                        *)
ProductItems(groups) ==
    Sorted({g.name : g \in {group \in groups : IsProduct(group) /\ ~group.hidden}})

RecentSection(apps, appState) ==
    LET recent == RecentApps(apps, appState)
    IN  [i \in DOMAIN recent |-> CardOf(RootApps(apps)[RootOf(apps, recent[i])], apps)]

FavoriteSection(apps) ==
    [i \in DOMAIN FavoriteApps(apps) |-> CardOf(FavoriteApps(apps)[i], apps)]

ProductView(apps, groups, appState) ==
    IF ProductItems(groups) = <<>> THEN [products |-> <<>>, recent |-> <<>>, favorite |-> <<>>]
    ELSE [products |-> ProductItems(groups), recent |-> RecentSection(apps, appState),
          favorite |-> FavoriteSection(apps)]
================================================================================
