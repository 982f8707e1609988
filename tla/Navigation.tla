------------------------------- MODULE Navigation -------------------------------
(***************************************************************************)
(* What one tab of the portal shows for its url: the app in the container, *)
(* the title and the menu beside it, and within the launcher the selected  *)
(* product, the breadcrumb and the view.                                   *)
(*                                                                         *)
(*   frontend/src/utils/router.js               urls, Goto                 *)
(*   frontend/src/plugins/navigation-plugin     AppTree, ProductOf, menu,  *)
(*                                              StartLoad, GroupsAnswered  *)
(*   frontend/src/components/systembar-title    title, TitleClick          *)
(*   frontend/src/apps/launcher                 launcher, RouteCallBack    *)
(*   frontend/src/components/launcher-component component, FetchesSettle,  *)
(*                                              StatesArrive               *)
(*   frontend/src/components/app-view           view, FavoritesToggle      *)
(*   frontend/src/components/product-view       ViewAllClick,              *)
(*                                              ProductCardClick           *)
(*   frontend/src/apps/wrapper-app              wrapper, Wrapper*          *)
(*                                                                         *)
(* External: the browser, which announces a new url after the turn that    *)
(* set it; the EUI container, which runs onBeforeAppLoad when the url      *)
(* names another app, connects the app once the hook has resolved if the   *)
(* url still names it, and calls the routes of the launcher for every url, *)
(* with the url of that moment; and the answers of the backend.            *)
(***************************************************************************)
EXTENDS Naturals, FiniteSets, SequencesExt

CONSTANTS
    RouteMap,   \* the apps: [name, parent, children, groups]
    Groups,     \* the groups: [name, type, hidden]
    Wrapped,    \* the wrapper apps, and what their options have: "nothing",
                \* "no url" or "url"
    Bookmarks,  \* the urls the user enters or comes back to
    Launcher,   \* the names of the launcher,
    All,        \* of its view of all apps
    None        \* and of nothing

Apps == {app.name : app \in RouteMap}
Products == {g.name : g \in {group \in Groups : group.type \in {"product", "system"}}}
Selections == Products \cup {All, None}

\* The urls that the router makes of an app or a product.
AppUrl(app) == [app |-> app, product |-> None, favorites |-> FALSE]
ProductUrl(product, favorites) ==
    [app |-> Launcher, product |-> product, favorites |-> favorites]

Urls == {AppUrl(app) : app \in Apps}
        \cup {ProductUrl(product, f) : product \in Products \cup {All}, f \in BOOLEAN}

ASSUME NavigationAssumption ==
    /\ Launcher \in Apps
    /\ None \notin Apps \cup Products \cup {All} /\ All \notin Products
    /\ DOMAIN Wrapped \subseteq Apps \ {Launcher}
    /\ \A app \in RouteMap : app.parent \in Apps \cup {None}
    /\ Bookmarks \subseteq Urls

VARIABLES
    url,        \* the address of the page: [app, product, favorites]
    routed,     \* a new url is not announced yet
    loads,      \* the apps whose onBeforeAppLoad waits for the groups
    current,    \* the app in the container
    title,      \* the product in the title of the system bar
    menu,       \* the items of the navigation menu
    launcher,   \* the launcher: product, displayName, showFavoritesOnly
    component,  \* its launcher-component: phase, product, error, groups
    view,       \* its app-view, if one is shown: mounted, showFavoritesOnly
    wrapper,    \* what a wrapper app in the container shows
    left,       \* left while they were loading: the launchers that will go to a url
    chosen,     \* history: the url the user chose last
    marks       \* history: the races since then, see Marks

navVars == <<url, routed, loads, current, title, menu, launcher, component, view,
             wrapper, left, chosen, marks>>
appVars == <<launcher, component, view, wrapper>>

(* pulled:    the launcher went to its product over a url not handled yet, *)
(*            or one that was left went to the product it had              *)
(* missed:    the product changed between the fetches and "ready"          *)
(* outside:   the favourites flag of the url changed under an app-view     *)
(* late:      the launcher became ready while another app was loading      *)
(* disturbed: app loads overlapped, or their groups could not be fetched   *)
Marks == {"pulled", "missed", "outside", "late", "disturbed"}

NoLauncher == [product |-> None, displayName |-> None, favorites |-> FALSE]
NoComponent == [phase |-> "none", product |-> None, error |-> FALSE, groups |-> FALSE]
NoView == [mounted |-> FALSE, favorites |-> FALSE]
NoneLeft == [u \in Urls |-> 0]

NavigationInit ==
    /\ url \in Bookmarks /\ routed = FALSE
    /\ loads = {} /\ current = None /\ title = None /\ menu = {}
    /\ launcher = NoLauncher /\ component = NoComponent /\ view = NoView
    /\ wrapper = "none" /\ left = NoneLeft
    /\ chosen = url
    /\ marks = {}

--------------------------------------------------------------------------------
(* navigation-plugin.js: the tree of an app, from its root, and the first  *)
(* product among the groups of the root.                                   *)
EntryOf(app) == CHOOSE entry \in RouteMap : entry.name = app

Root(app) ==
    LET up[d \in 0..Cardinality(RouteMap)] ==
            IF d = 0 THEN app
            ELSE IF EntryOf(up[d - 1]).parent = None THEN up[d - 1]
            ELSE EntryOf(up[d - 1]).parent
    IN  up[Cardinality(RouteMap)]

Below(app) ==
    LET down[d \in 0..Cardinality(RouteMap)] ==
            IF d = 0 THEN {app}
            ELSE down[d - 1] \cup UNION {EntryOf(name).children : name \in down[d - 1] \cap Apps}
    IN  down[Cardinality(RouteMap)] \cap Apps

AppTree == [app \in Apps |-> Below(Root(app))]

ProductOf ==
    [app \in Apps |->
        LET groups   == EntryOf(Root(app)).groups
            First(i) == groups[i] \in Products /\ \A j \in 1..(i - 1) : groups[j] \notin Products
        IN  IF \E i \in DOMAIN groups : First(i)
            THEN groups[CHOOSE i \in DOMAIN groups : First(i)] ELSE None]

VisibleProducts == {product \in Products : \E g \in Groups : g.name = product /\ ~g.hidden}

\* The local menu of the launcher: itself, all apps and the visible products.
LocalMenu(groupsKnown) ==
    {Launcher, All} \cup (IF groupsKnown THEN VisibleProducts ELSE {})

\* renderContextualBreadcrumb: what the launcher calls its page.
ContextualTitle(l) ==
    IF l.product = None THEN Launcher ELSE IF l.product = All THEN All ELSE l.displayName

--------------------------------------------------------------------------------
(* The app-view exists while the component shows a product without error.  *)
(* A new one takes the favourites flag from the url; when its product is   *)
(* set, also the first time, and the flag is on, it goes to that product.  *)
ShowsProduct(c) == c.phase = "ready" /\ ~c.error /\ c.product # None

\* Mutant: a view that is shown stays.
ViewAfterStays(c, at) ==
    IF view.mounted THEN view
    ELSE IF ShowsProduct(c) THEN [mounted |-> TRUE, favorites |-> at.favorites] ELSE NoView

ViewAfter(c, at) ==
    IF ~ShowsProduct(c) THEN NoView
    ELSE IF view.mounted THEN view ELSE [mounted |-> TRUE, favorites |-> at.favorites]

\* The url after a render that shows c, from the url at.
UrlAfter(c, at) ==
    IF ViewAfter(c, at).favorites /\ (c.product # component.product \/ ~view.mounted)
    THEN ProductUrl(c.product, TRUE) ELSE at

SamePlace(u, v) == u.app = v.app /\ u.product = v.product

(* The launcher goes to the url at and renders with its component c, after *)
(* the user chose a url.  A view that keeps its favourites over the        *)
(* product keeps them for the user.                                        *)
ShowChosen(c, at, choice, newMarks) ==
    LET to == UrlAfter(c, at)
    IN  /\ component' = c
        /\ view' = ViewAfter(c, at)
        /\ url' = to
        /\ chosen' = IF choice = at /\ SamePlace(to, at) THEN to ELSE choice
        /\ marks' = (newMarks \ (IF ShowsProduct(c) THEN {} ELSE {"outside"}))
                        \cup (IF \/ ~SamePlace(to, at)
                                 \/ at \notin {url, choice} /\ (routed \/ loads # {})
                              THEN {"pulled"} ELSE {})

Show(c, at, newMarks) == ShowChosen(c, at, chosen, newMarks)

\* Mutant: the favourites are left with every product selection.
ProductSelectedPlain(product) ==
    IF product = None THEN url ELSE ProductUrl(product, FALSE)

\* handleProductSelection: where the launcher goes to.
ProductSelected(product) ==
    IF product = None THEN url ELSE ProductUrl(product, launcher.favorites)

DisplayName(product, groupsKnown) ==
    IF groupsKnown /\ product \in Products THEN product ELSE None

--------------------------------------------------------------------------------
(* routeCallBack and the handleProductSelection of the component, which is *)
(* bound when the component is ready; before, the product is only set.     *)
RouteCallBack(m) ==
    LET product == url.product
        changes == component.product # product
        bound   == component.phase = "ready"
        to      == IF bound /\ changes /\ product # None
                   THEN ProductUrl(product, url.favorites) ELSE url
        shown   == [component EXCEPT !.product = product]
    IN  /\ UNCHANGED wrapper
        /\ launcher' = [launcher EXCEPT
              !.product = product, !.favorites = url.favorites,
              !.displayName = IF bound /\ changes
                              THEN DisplayName(product, component.groups) ELSE @]
        /\ Show(shown, to,
                IF ~changes THEN m
                ELSE IF bound THEN m \ {"missed"}
                ELSE IF component.phase = "fetched" THEN m \cup {"missed"} ELSE m)

\* Mutant: the menu is left as it is.
StartLoadOnly(app) == loads' = loads \cup {app} /\ UNCHANGED menu

\* onBeforeAppLoad: the menu of the app at once, its product with the groups.
StartLoad(app) ==
    /\ loads' = loads \cup {app}
    /\ menu' = AppTree[app]

MarksAtStart == IF loads = {} THEN marks \ {"late", "disturbed"} ELSE marks \cup {"disturbed"}

\* The new url is announced: to the container, and to a launcher in it.
RouteChanges ==
    LET starts == url.app \notin loads \cup {current}
        m == IF starts THEN MarksAtStart ELSE marks
    IN
    /\ routed
    /\ IF starts THEN StartLoad(url.app) ELSE UNCHANGED <<loads, menu>>
    /\ IF current = Launcher THEN RouteCallBack(m)
       ELSE marks' = m /\ UNCHANGED <<url, appVars, chosen>>
    /\ routed' = (url' # url)
    /\ UNCHANGED <<current, title, left>>

\* The container has loaded.
FirstLoad ==
    /\ current = None /\ loads = {}
    /\ StartLoad(url.app)
    /\ routed' = FALSE
    /\ UNCHANGED <<url, current, title, appVars, left, chosen, marks>>

\* The launcher is constructed, and its route is called with the url.
ConnectLauncher ==
    /\ launcher' = [NoLauncher EXCEPT !.favorites = url.favorites]
    /\ component' = [NoComponent EXCEPT !.phase = "loading"]
    /\ view' = NoView /\ wrapper' = "none"
    /\ routed' = TRUE

\* product-selection-changed, which the title of the system bar hears.
TitleChanges(app) == title' = ProductOf[app]

(* Nothing ends what a launcher still waits for when it is left: with a    *)
(* product, its component will publish it and the launcher go to its url.  *)
LauncherLeft ==
    LET to == ProductUrl(component.product, launcher.favorites)
    IN  left' = IF component.phase = "loading" /\ component.product # None
                THEN [left EXCEPT ![to] = @ + 1] ELSE left

(* The groups, or an error, which leaves the title.  The app the url names *)
(* now is connected.                                                       *)
GroupsAnswered(app, ok) ==
    /\ app \in loads
    /\ loads' = loads \ {app}
    /\ IF ok THEN TitleChanges(app) ELSE UNCHANGED title
    /\ IF url.app = app /\ current # app
       THEN /\ current' = app
            /\ IF app = Launcher THEN ConnectLauncher
               ELSE /\ launcher' = NoLauncher /\ component' = NoComponent /\ view' = NoView
                    /\ wrapper' = IF app \in DOMAIN Wrapped THEN "loading" ELSE "none"
                    /\ UNCHANGED routed
            /\ LauncherLeft
            /\ marks' = (marks \ {"missed", "outside"}) \cup (IF ok THEN {} ELSE {"disturbed"})
       ELSE /\ marks' = marks \cup {"disturbed"}
            /\ UNCHANGED <<current, appVars, left, routed>>
    /\ UNCHANGED <<url, menu, chosen>>

--------------------------------------------------------------------------------
(* didConnect of the component: both fetches have settled.  It publishes   *)
(* the product it has got by then, and the launcher goes to its url.       *)
FetchesSettle(appsOk, groupsOk) ==
    LET product == component.product
        fetched == [component EXCEPT !.phase = "fetched", !.groups = groupsOk,
                                     !.error = ~appsOk \/ ~groupsOk]
    IN  /\ component.phase = "loading"
        /\ launcher' = IF product = None THEN launcher
                       ELSE [launcher EXCEPT !.product = product,
                                             !.displayName = DisplayName(product, groupsOk)]
        /\ Show(fetched, ProductSelected(product), marks \ {"missed"})
        /\ routed' = (routed \/ url' # url)
        /\ UNCHANGED <<loads, current, title, menu, wrapper, left>>

\* The mark of a new url u that the app-view does not know of.
OutsideMarks(u) ==
    IF view.mounted /\ u.product # None /\ u.favorites # view.favorites
    THEN {"outside"} ELSE {}

(* The fetches of a launcher that was left have settled: its events reach  *)
(* nobody but itself, and it goes to its url.                              *)
LeftFetchesSettle(u) ==
    /\ left[u] > 0
    /\ left' = [left EXCEPT ![u] = @ - 1]
    /\ url' = u /\ routed' = (routed \/ u # url)
    /\ marks' = IF u = url THEN marks ELSE marks \cup {"pulled"} \cup OutsideMarks(u)
    /\ UNCHANGED <<loads, current, title, menu, appVars, chosen>>

\* The app states have arrived: "ready", and with it the local menu.
StatesArrive ==
    /\ component.phase = "fetched"
    /\ menu' = LocalMenu(component.groups)
    /\ Show([component EXCEPT !.phase = "ready"], url,
            marks \cup (IF loads = {} THEN {} ELSE {"late"}))
    /\ routed' = (routed \/ url' # url)
    /\ UNCHANGED <<loads, current, title, launcher, wrapper, left>>

(* What a wrapper app shows: an error when the groups could not be fetched *)
(* or its options lack a url, else the page of that url in a frame.        *)
WrapperContent(app, groupsOk) ==
    IF ~groupsOk THEN "groups error"
    ELSE IF Wrapped[app] # "url" THEN "options error"
    ELSE "frame"

\* didConnect of the wrapper app: its fetch of the groups has settled.
WrapperSettles(groupsOk) ==
    /\ wrapper = "loading"
    /\ wrapper' = WrapperContent(current, groupsOk)
    /\ UNCHANGED <<url, routed, loads, current, title, menu, launcher, component, view,
                   left, chosen, marks>>

--------------------------------------------------------------------------------
\* The user goes somewhere: by the address bar, a bookmark, the history, a card.
Visit(u) ==
    /\ current # None /\ u # url
    /\ url' = u /\ routed' = TRUE
    /\ chosen' = u
    /\ marks' = (marks \ {"pulled"}) \cup OutsideMarks(u)
    /\ UNCHANGED <<loads, current, title, menu, appVars, left>>

\* The title of the system bar, with or without a product.
TitleClick == Visit(IF title = None THEN AppUrl(Launcher) ELSE ProductUrl(title, FALSE))

CrumbClick == current = Launcher /\ launcher.product # None /\ Visit(AppUrl(Launcher))

\* An item of the menu goes to its menu path.
MenuItemClick(item) ==
    /\ item \in menu
    /\ Visit(IF item \in Apps THEN AppUrl(item) ELSE ProductUrl(item, FALSE))

ShowsProducts == component.phase = "ready" /\ ~component.error /\ component.product = None

(* The card of a product announces its product to the component, which     *)
(* publishes it, and the launcher goes to its url.                         *)
ProductCardClick(product) ==
    LET to == ProductUrl(product, launcher.favorites)
    IN  /\ ShowsProducts /\ product \in VisibleProducts
        /\ launcher' = [launcher EXCEPT
              !.product = product, !.displayName = DisplayName(product, component.groups)]
        /\ ShowChosen([component EXCEPT !.product = product], to, to,
                      marks \ {"pulled", "missed", "outside"})
        /\ routed' = (routed \/ url' # url)
        /\ UNCHANGED <<loads, current, title, menu, wrapper, left>>

\* View all recent or all favourite apps.
ViewAllClick(favorites) == ShowsProducts /\ Visit(ProductUrl(All, favorites))

\* getActionBarData: the search finds apps and products, also hidden ones.
SearchItems == Apps \cup Products

\* The search of a ready launcher.
SearchSelection(item) ==
    /\ component.phase = "ready" /\ ~component.error
    /\ Visit(IF item \in Products THEN ProductUrl(item, FALSE) ELSE AppUrl(item))

\* handleShowFavoritesOnlyChange by the user: the url follows the view.
FavoritesToggle ==
    LET favorites == ~view.favorites
        to == ProductUrl(component.product, favorites)
    IN  /\ view.mounted
        /\ view' = [view EXCEPT !.favorites = favorites]
        /\ url' = to /\ routed' = (routed \/ to # url)
        /\ chosen' = to
        /\ marks' = marks \ {"pulled", "outside"}
        /\ UNCHANGED <<loads, current, title, menu, launcher, component, wrapper, left>>

--------------------------------------------------------------------------------
\* The types of the navigation.
NavigationTypeOK ==
    /\ url \in Urls /\ routed \in BOOLEAN
    /\ loads \subseteq Apps /\ current \in Apps \cup {None}
    /\ title \in Products \cup {None}
    /\ menu \subseteq Apps \cup Products \cup {All}
    /\ launcher \in [product : Selections, displayName : Products \cup {None}, favorites : BOOLEAN]
    /\ component \in [phase : {"none", "loading", "fetched", "ready"}, product : Selections,
                      error : BOOLEAN, groups : BOOLEAN]
    /\ (component.phase # "none") = (current = Launcher)
    /\ view \in [mounted : BOOLEAN, favorites : BOOLEAN]
    /\ view.mounted = ShowsProduct(component)
    /\ wrapper \in {"none", "loading", "groups error", "options error", "frame"}
    /\ (wrapper # "none") = (current \in DOMAIN Wrapped)
    /\ left \in [Urls -> Nat]
    /\ chosen \in Urls
    /\ marks \subseteq Marks

\* Nothing of the last navigation is under way.
Settled == ~routed /\ loads = {} /\ current = url.app

(* Where the user ends: at the url chosen last, unless a launcher, still   *)
(* loading or left while it was, went to its product over a newer url; and *)
(* a ready launcher shows what the url says: the product in the view, with *)
(* the favourites only if the url has them, and in the breadcrumb.         *)
ViewFollowsUrl ==
    Settled =>
        /\ "pulled" \notin marks => url = chosen
        /\ component.phase = "ready" =>
            /\ component.product = url.product /\ launcher.product = url.product
            /\ view.mounted /\ "outside" \notin marks => view.favorites = url.favorites
            /\ component.groups /\ "missed" \notin marks =>
                  ContextualTitle(launcher) = IF url.product = None THEN Launcher ELSE url.product

(* Title and menu beside an app are those of the tree that the app is in:  *)
(* the menu has it, and the title names the first product among the groups *)
(* of its root; or the menu is the local one of a ready launcher.  Loads   *)
(* of apps that overlapped, a launcher that became ready within one, and   *)
(* groups that could not be fetched are left out.                          *)
NavigationShowsApp ==
    Settled /\ "disturbed" \notin marks =>
        /\ title = ProductOf[current]
        /\ "late" \notin marks =>
            /\ current \in menu
            /\ menu = IF component.phase = "ready" THEN LocalMenu(component.groups)
                      ELSE AppTree[current]

\* The first product among the groups of the app itself.
FirstProduct(app) ==
    LET groups   == EntryOf(app).groups
        First(i) == groups[i] \in Products /\ \A j \in 1..(i - 1) : groups[j] \notin Products
    IN  IF \E i \in DOMAIN groups : First(i)
        THEN groups[CHOOSE i \in DOMAIN groups : First(i)] ELSE None

(* The application developers guide: "When opening an application, the     *)
(* title shows the name of the first matching system group that is         *)
(* configured in the metadata for that application."                       *)
TitleNamesOwnProduct ==
    Settled /\ "disturbed" \notin marks => title = FirstProduct(current)

(* The same guide: the menu has "a logic, to only show that navigation     *)
(* subtree, where the currently opened App is".                            *)
OpenAppIsInMenu == Settled => current \in menu
================================================================================
