--------------------------------- MODULE Portal ---------------------------------
(***************************************************************************)
(* A tab of the portal as a whole: the session, the navigation that begins *)
(* when the container has loaded, and what passes between them.            *)
(*                                                                         *)
(*   - the container loads, and the first app with it, when the hook of    *)
(*     the authentication plugin has resolved;                             *)
(*   - a launcher that is connected reads the login times, and its         *)
(*     component waits for the settings before it is ready;                *)
(*   - a response that is a login form sends the tab to the error app,     *)
(*     from which only a reload leads back;                                *)
(*   - a reload ends everything in the page but its url.                   *)
(*                                                                         *)
(* What the user, other tabs and the expiry of a session do are events, of *)
(* the session or of the navigation; Budgets bounds how many of them and   *)
(* how many failures of requests happen.                                   *)
(***************************************************************************)
EXTENDS Session, GlobalNavigation

CONSTANTS
    SessionExpiration,  \* the error app
    UserAccount,        \* the app that edits the user account, if it is one
    Budgets             \* bounds: how many events and failures may happen

Bounds == [session : Nat, navigation : Nat, flyout : Nat, failures : Nat]

ASSUME PortalAssumption ==
    /\ SessionExpiration \in Apps \ {Launcher}
    /\ UserAccount \in Apps \cup {None}
    /\ Budgets \subseteq Bounds

VARIABLE budget   \* the events that may still happen

pageVars == <<navVars, flyoutVars>>
vars == <<sessionVars, pageVars, budget>>

\* Bound: the system bar has a flyout when there are events for it.
NewFlyout == FlyoutInit(IF budget.flyout = 0 THEN "none" ELSE "loading")

Init ==
    /\ SessionInit /\ NavigationInit
    /\ budget \in Budgets /\ flyout = NewFlyout

SessionEvent == budget.session > 0 /\ budget' = [budget EXCEPT !.session = @ - 1]
NavigationEvent == budget.navigation > 0 /\ budget' = [budget EXCEPT !.navigation = @ - 1]
FlyoutEvent == budget.flyout > 0 /\ budget' = [budget EXCEPT !.flyout = @ - 1]
Failing(ok) ==
    IF ok THEN UNCHANGED budget
    ELSE budget.failures > 0 /\ budget' = [budget EXCEPT !.failures = @ - 1]

OnlySession(A) == A /\ UNCHANGED <<pageVars, budget>>
OnlyPage(A) == A /\ UNCHANGED <<sessionVars, budget>>
OnlyNavigation(A) == OnlyPage(A) /\ UNCHANGED flyoutVars

--------------------------------------------------------------------------------
Authenticate ==
    OnlySession(\/ StartHooks \/ ConfigLoaded \/ UserInfoSettled
                \/ GetLast \/ SetLast \/ SetPrevious)

Theme == OnlySession(ThemeRead \/ ApplyPersistedTheme)

StoreTheme == OnlySession(ThemeStored)

PanelReads == OnlySession(PanelReadsTimestamp \/ PanelReadsTheme)

NoticeReads == OnlySession(ReadPreviousLoginTime \/ ReadLastLoginTime)

ContainerLoads == Loaded /\ OnlyNavigation(FirstLoad)

\* A launcher that comes or goes starts or ends its reads of the login times.
LoadsEnd(ok) ==
    \E app \in Apps :
        /\ GroupsAnswered(app, ok)
        /\ IF current' = current THEN UNCHANGED sessionVars
           ELSE IF current' = Launcher THEN LauncherConnects ELSE LauncherDisconnects
        /\ Failing(ok) /\ UNCHANGED flyoutVars

FetchesEnd ==
    \E appsOk, groupsOk \in BOOLEAN :
        FetchesSettle(appsOk, groupsOk) /\ Failing(appsOk /\ groupsOk)
        /\ UNCHANGED <<sessionVars, flyoutVars>>

LeftFetchesEnd == OnlyNavigation(\E u \in Urls : LeftFetchesSettle(u))

ComponentReady == SettingsReady /\ OnlyNavigation(StatesArrive)

RouteAnnounced == OnlyPage(LocationChanges)

WrapperLoads(ok) == WrapperSettles(ok) /\ Failing(ok) /\ UNCHANGED <<sessionVars, flyoutVars>>

\* The launcher component of the flyout comes with the system bar.
FlyoutFetchesEnd ==
    \E appsOk, groupsOk \in BOOLEAN :
        Loaded /\ FlyoutFetchesSettle(appsOk, groupsOk) /\ Failing(appsOk /\ groupsOk)
        /\ UNCHANGED sessionVars

FlyoutReady == SettingsReady /\ OnlyPage(FlyoutStatesArrive)

--------------------------------------------------------------------------------
UserChoices ==
    \/ \E u \in Bookmarks : Visit(u)
    \/ TitleClick \/ CrumbClick \/ FavoritesToggle
    \/ \E item \in menu \ {SessionExpiration} : MenuItemClick(item)
    \/ \E favorites \in BOOLEAN : ViewAllClick(favorites)
    \/ \E product \in Products : ProductCardClick(product)
    \/ \E item \in SearchItems : SearchSelection(item)

\* user-session-expired
ToSessionExpiration == Visit(AppUrl(SessionExpiration))

\* patchFetch: the login form comes back for any request of the page.
SessionExpires == auth # "starting" /\ ToSessionExpiration

\* The button of the settings panel, when the account is edited in the portal.
OpenUserAccountEditor ==
    PanelShowsUser /\ UserAccount # None /\ Visit(AppUrl(UserAccount))

NewPage(to) ==
    /\ url' = to
    /\ routed' = FALSE /\ loads' = {} /\ current' = None /\ title' = None /\ menu' = {}
    /\ launcher' = NoLauncher /\ component' = NoComponent /\ view' = NoView
    /\ wrapper' = "none" /\ left' = NoneLeft /\ flyout' = NewFlyout
    /\ chosen' = url'
    /\ marks' = {}

\* The error app shows the way back, which is a reload; so does loadPortal.
Reload ==
    /\ PageReloads
    /\ \E to \in {url, AppUrl(Launcher)} :
        NewPage(to) /\ (current = SessionExpiration => to = url)

\* The sign out button of the settings panel: back to the portal in the end.
SignOut == ClearSession /\ \E to \in {url, AppUrl(Launcher)} : NewPage(to)

\* What goes on by itself.
PageStep ==
    \/ Authenticate \/ Theme \/ StoreTheme \/ PanelReads \/ NoticeReads
    \/ ContainerLoads \/ (\E ok \in BOOLEAN : LoadsEnd(ok))
    \/ FetchesEnd \/ LeftFetchesEnd \/ ComponentReady \/ RouteAnnounced
    \/ (\E ok \in BOOLEAN : WrapperLoads(ok)) \/ FlyoutFetchesEnd \/ FlyoutReady

Next ==
    \/ PageStep
    \/ NavigationEvent /\ UserChoices /\ UNCHANGED <<sessionVars, flyoutVars>>
    \/ FlyoutEvent /\ FlyoutChoices /\ UNCHANGED sessionVars
    \/ SessionEvent /\ OpenUserAccountEditor /\ UNCHANGED <<sessionVars, flyoutVars>>
    \/ SessionEvent /\ SessionExpires /\ UNCHANGED <<sessionVars, flyoutVars>>
    \/ SessionEvent /\ (PanelConnects \/ PanelCloses \/ ThemeToggle \/ OtherTabLoads)
            /\ UNCHANGED pageVars
    \/ SessionEvent /\ (Reload \/ SignOut)

(* The page goes on as long as it can: every request is answered in some   *)
(* way, the browser announces urls and the container starts hooks.  The    *)
(* user does nothing of necessity.                                         *)
Fairness == WF_vars(PageStep)

Spec == Init /\ [][Next]_vars /\ Fairness

--------------------------------------------------------------------------------
\* The types of a tab.
TypeOK ==
    /\ SessionTypeOK /\ NavigationTypeOK /\ FlyoutTypeOK
    /\ budget \in Bounds
    /\ current # None => Loaded

\* The login times and the theme of the user are kept (see Session).
SettingsKept == LoginTimesKept /\ ThemeKept

(* The portal always comes up: whatever was stored, whether the user info  *)
(* was answered or not, and however often the page is loaded again, the    *)
(* container loads in the end; and from then on what is shown settles      *)
(* whenever the user lets it, with a launcher that is ready: the url and   *)
(* the product that set each other do not chase one another.               *)
PortalSettles ==
    /\ <>[]Loaded
    /\ <>[](Settled /\ (current = Launcher => component.phase = "ready")
            /\ wrapper # "loading" /\ flyout.phase \in {"none", "ready"})
================================================================================
