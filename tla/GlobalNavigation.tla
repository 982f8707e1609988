---------------------------- MODULE GlobalNavigation ----------------------------
(***************************************************************************)
(* The flyout of the system bar, which holds a launcher component of its   *)
(* own over the page.  It does not follow the url, but its links and its   *)
(* app-view move the page, and the page closes it.                         *)
(*                                                                         *)
(*   frontend/src/components/systembar-global-navigation   flyout.shown    *)
(*   frontend/src/components/global-navigation-panel       flyout.product  *)
(*   frontend/src/components/launcher-component, app-view  the rest        *)
(*                                                                         *)
(* A deployment may leave the flyout out: then its phase stays "none".     *)
(***************************************************************************)
EXTENDS Navigation

VARIABLE flyout   \* shown, the phase, product and error of its component, its view

flyoutVars == <<flyout>>

Flyouts ==
    [shown : BOOLEAN, phase : {"none", "loading", "fetched", "ready"},
     product : Selections, error : BOOLEAN,
     view : [mounted : BOOLEAN, favorites : BOOLEAN]]

FlyoutInit(phase) ==
    [shown |-> FALSE, phase |-> phase, product |-> None, error |-> FALSE, view |-> NoView]

\* The launcher component in the panel fetches as the one of the launcher does.
FlyoutFetchesSettle(appsOk, groupsOk) ==
    /\ flyout.phase = "loading"
    /\ flyout' = [flyout EXCEPT !.phase = "fetched", !.error = ~appsOk \/ ~groupsOk]
    /\ UNCHANGED navVars

FlyoutStatesArrive ==
    /\ flyout.phase = "fetched"
    /\ flyout' = [flyout EXCEPT !.phase = "ready"]
    /\ UNCHANGED navVars

\* toggleFlyoutPanel by the icon, or a close by the button or a click outside.
ToggleFlyoutPanel ==
    /\ flyout.phase # "none"
    /\ flyout' = [flyout EXCEPT !.shown = ~@]
    /\ UNCHANGED navVars

\* locationChangeHandler: a new url closes the panel.
FlyoutAfterLocationChange == [flyout EXCEPT !.shown = FALSE]

LocationChanges == RouteChanges /\ flyout' = FlyoutAfterLocationChange

--------------------------------------------------------------------------------
FlyoutUsable == flyout.shown /\ flyout.phase = "ready" /\ ~flyout.error

\* The user chooses a url for the page in the flyout.
FlyoutVisit(u) == FlyoutUsable /\ Visit(u)

(* A card of a product: the panel shows the apps of that product.  The new *)
(* app-view takes the favourites flag from the url of the page, and if it  *)
(* is on, the view goes to the favourites of its product.                  *)
FlyoutProductClick(product) ==
    /\ FlyoutUsable /\ flyout.product = None /\ product \in VisibleProducts
    /\ flyout' = [flyout EXCEPT !.product = product,
                                !.view = [mounted |-> TRUE, favorites |-> url.favorites]]
    /\ LET to == ProductUrl(product, TRUE)
       IN  IF url.favorites /\ url # to THEN Visit(to) ELSE UNCHANGED navVars

\* handleBackButton
FlyoutBack ==
    /\ FlyoutUsable /\ flyout.product # None
    /\ flyout' = [flyout EXCEPT !.product = None, !.view = NoView]
    /\ UNCHANGED navVars

\* The switch of the view moves the page to the product of the flyout.
FlyoutFavoritesToggle ==
    LET favorites == ~flyout.view.favorites
        to == ProductUrl(flyout.product, favorites)
    IN  /\ FlyoutUsable /\ flyout.view.mounted
        /\ flyout' = [flyout EXCEPT !.view.favorites = favorites]
        /\ IF url # to THEN Visit(to) ELSE UNCHANGED navVars

\* View all, a searched item, or the card of an app.
FlyoutGoTo(u) ==
    /\ \/ flyout.product = None /\ u \in {ProductUrl(All, f) : f \in BOOLEAN}
       \/ u \in {AppUrl(app) : app \in Apps} \cup {ProductUrl(p, FALSE) : p \in Products}
    /\ FlyoutVisit(u)
    /\ UNCHANGED flyout

\* What a user may do in the flyout, or with it.
FlyoutChoices ==
    \/ ToggleFlyoutPanel \/ FlyoutBack \/ FlyoutFavoritesToggle
    \/ \E product \in Products : FlyoutProductClick(product)
    \/ \E u \in Urls : FlyoutGoTo(u)

--------------------------------------------------------------------------------
\* The types of the flyout.
FlyoutTypeOK ==
    /\ flyout \in Flyouts
    /\ flyout.view.mounted = (flyout.product # None)
    /\ flyout.view.mounted => flyout.phase = "ready" /\ ~flyout.error
================================================================================
