-------------------------------- MODULE Session --------------------------------
(***************************************************************************)
(* One tab of the portal from the start of its plugins: the user's login   *)
(* times and theme, which the tab keeps in the settings storage.           *)
(*                                                                         *)
(*   frontend/src/plugins/authentication      auth, login, StartHooks to   *)
(*                                            SetPrevious                  *)
(*   frontend/src/plugins/ui-settings-plugin  settings                     *)
(*   frontend/src/plugins/settings-plugin     themeRead, writes, shown     *)
(*   frontend/src/apps/launcher               notice, Read*                *)
(*   frontend/src/panels/custom-user-settings-panel   panel, Panel*        *)
(*                                                                         *)
(* A get or a set of the settings plugin waits for the user name and then  *)
(* for the storage behind @adp/ui-settings, which is external: requests    *)
(* that are under way at the same time take effect in any order.  Also     *)
(* external: the container, which starts the hooks of all plugins in one   *)
(* turn and loads when all of them have resolved; IAM and the cookies,     *)
(* which may lack the time of the login; and the user's other tabs, which  *)
(* use the same storage and run the same plugins.                          *)
(***************************************************************************)
EXTENDS Naturals, SequencesExt

CONSTANTS
    InitialStores,  \* what the storage may hold before this tab is opened
    NoTheme         \* no theme is stored

Themes == {"dark", "light"}
OtherTheme == [theme \in Themes |-> IF theme = "dark" THEN "light" ELSE "dark"]

\* Login times are numbered from 1 on, 0 is none.
Stores == [last : Nat, previous : Nat, theme : Themes \cup {NoTheme}]

ASSUME SessionAssumption ==
    /\ NoTheme \notin Themes
    /\ \A s \in InitialStores :
        s \in Stores /\ s.previous <= s.last /\ s.last <= 1

VARIABLES
    store,      \* the settings storage of the user
    token,      \* the time of the login the tabs are authorised with
    auth,       \* where the hook of the authentication plugin is
    login,      \* its authTime, and the login time it found stored
    settings,   \* the ui-settings plugin: "unset", "listening" or "ready"
    themeRead,  \* applyPersistedTheme: its phase and the theme read
    shown,      \* the theme of eui-theme
    writes,     \* the theme settings under way
    panel,      \* the settings panel: its phase, timestamp and switch
    notice,     \* the launcher: its phase and the two login times it read
    crossed,    \* history: another tab stored its login times since this one began
    raced       \* history: a theme was chosen while a read or another write was under way

sessionVars == <<store, token, auth, login, settings, themeRead, shown, writes,
                 panel, notice, crossed, raced>>
themeVars == <<themeRead, shown, writes, raced>>

NoLogin == [time |-> 0, before |-> 0]
NoRead == [phase |-> "none", theme |-> NoTheme]
NoNotice == [phase |-> "none", previous |-> 0, last |-> 0]
ClosedPanel == [phase |-> "closed", timestamp |-> 0, theme |-> "dark"]

\* A page that has just been loaded: index.html shows the dark theme.
SessionInit ==
    /\ store \in InitialStores
    /\ token = 2
    /\ auth = "starting" /\ login = NoLogin
    /\ settings = "unset"
    /\ themeRead = NoRead /\ shown = "dark" /\ writes = <<>>
    /\ panel = ClosedPanel /\ notice = NoNotice
    /\ crossed = FALSE /\ raced = FALSE

Loaded == auth = "done"

\* The settings plugin answers once it knows the user.
SettingsReady == settings = "ready"

\* initPlugin hears the one set-username-finished if the hook has run.
InitPlugin == settings' = IF settings = "listening" THEN "ready" ELSE settings

Set(key, value) == SettingsReady /\ store' = [store EXCEPT ![key] = value]

--------------------------------------------------------------------------------
\* Mutant: the settings plugin does not listen for the user name.
StartHooksDeaf ==
    /\ auth = "starting"
    /\ auth' = "config"
    /\ UNCHANGED <<store, token, login, settings, themeVars, panel, notice, crossed>>

(* The hooks start in one turn: the settings plugin listens for the user   *)
(* name before the authentication plugin is past its first await.          *)
StartHooks ==
    /\ auth = "starting"
    /\ auth' = "config"
    /\ settings' = "listening"
    /\ UNCHANGED <<store, token, login, themeVars, panel, notice, crossed>>

(* The user is known, maybe without a login time: set-username-finished is *)
(* dispatched, once, which makes the settings ready and the theme read.    *)
SetUsernameFinished ==
    /\ InitPlugin
    /\ themeRead' = [NoRead EXCEPT !.phase = "sent"]
    /\ \/ auth' = "getLast" /\ login' = [NoLogin EXCEPT !.time = token]
       \/ auth' = "done" /\ login' = NoLogin
    /\ UNCHANGED <<store, token, shown, writes, raced, panel, notice, crossed>>

\* Without user permission there is no user info to wait for.
ConfigLoaded ==
    /\ auth = "config"
    /\ \/ /\ auth' = "userInfo"
          /\ UNCHANGED <<store, token, login, settings, themeVars, panel, notice, crossed>>
       \/ SetUsernameFinished

\* An answer, or an error, which makes the user info empty.
UserInfoSettled ==
    /\ auth = "userInfo"
    /\ SetUsernameFinished

\* The request of the hook takes effect; its next request follows the answer.
GetLast ==
    /\ SettingsReady /\ auth = "getLast"
    /\ login' = [login EXCEPT !.before = store.last]
    /\ auth' = "setLast"
    /\ UNCHANGED <<store, token, settings, themeVars, panel, notice, crossed>>

SetLast ==
    /\ auth = "setLast"
    /\ Set("last", login.time)
    /\ auth' = IF login.before = 0 THEN "done" ELSE "setPrevious"
    /\ UNCHANGED <<token, login, settings, themeVars, panel, notice, crossed>>

\* Mutant: the previous login time is looked up when it is stored.
SetPreviousLate ==
    /\ auth = "setPrevious"
    /\ Set("previous", store.last)
    /\ auth' = "done"
    /\ UNCHANGED <<token, login, settings, themeVars, panel, notice, crossed>>

SetPrevious ==
    /\ auth = "setPrevious"
    /\ Set("previous", login.before)
    /\ auth' = "done"
    /\ UNCHANGED <<token, login, settings, themeVars, panel, notice, crossed>>

--------------------------------------------------------------------------------
\* The theme the user last stored is read ...
ThemeRead ==
    /\ SettingsReady /\ themeRead.phase = "sent"
    /\ themeRead' = [phase |-> "answered", theme |-> store.theme]
    /\ UNCHANGED <<store, token, auth, login, settings, shown, writes, panel, notice,
                   crossed, raced>>

(* ... and shown.  The event is dispatched on eui-theme, beside the        *)
(* container, so that themeChanged does not hear it and stores nothing.    *)
ApplyPersistedTheme ==
    /\ themeRead.phase = "answered"
    /\ themeRead' = NoRead
    /\ shown' = IF themeRead.theme = NoTheme THEN shown ELSE themeRead.theme
    /\ UNCHANGED <<store, token, auth, login, settings, writes, panel, notice, crossed, raced>>

\* The switch of the panel: index.html shows the theme, themeChanged stores it.
ThemeToggle ==
    LET theme == OtherTheme[panel.theme]
    IN  /\ panel.phase # "closed"
        /\ panel' = [panel EXCEPT !.theme = theme]
        /\ shown' = theme
        /\ writes' = Append(writes, theme)
        /\ raced' = (raced \/ writes # <<>> \/ themeRead.phase # "none" \/ panel.phase # "open")
        /\ UNCHANGED <<store, token, auth, login, settings, themeRead, notice, crossed>>

ThemeStored ==
    /\ \E i \in DOMAIN writes :
        /\ Set("theme", writes[i])
        /\ writes' = RemoveAt(writes, i)
    /\ UNCHANGED <<token, auth, login, settings, themeRead, shown, panel, notice,
                   crossed, raced>>

--------------------------------------------------------------------------------
PanelVarsKept == UNCHANGED <<store, token, auth, login, settings, themeVars, notice, crossed>>

PanelConnects ==
    /\ Loaded /\ panel.phase = "closed"
    /\ panel' = [ClosedPanel EXCEPT !.phase = "timestamp"]
    /\ PanelVarsKept

PanelReadsTimestamp ==
    /\ SettingsReady /\ panel.phase = "timestamp"
    /\ panel' = [panel EXCEPT !.phase = "theme", !.timestamp = store.last]
    /\ PanelVarsKept

(* The theme of the panel is "dark" from the start, so that a stored       *)
(* "dark" is no change and leaves the switch as it is.                     *)
PanelReadsTheme ==
    /\ SettingsReady /\ panel.phase = "theme"
    /\ panel' = [panel EXCEPT !.phase = "open",
                              !.theme = IF store.theme = "light" THEN "light" ELSE @]
    /\ raced' = (raced \/ writes # <<>>)
    /\ UNCHANGED <<store, token, auth, login, settings, themeRead, shown, writes, notice,
                   crossed>>

PanelCloses ==
    /\ panel.phase # "closed"
    /\ panel' = ClosedPanel
    /\ PanelVarsKept

--------------------------------------------------------------------------------
\* The launcher reads both login times one after the other.
NoticeVarsKept == UNCHANGED <<store, token, auth, login, settings, themeVars, panel, crossed>>

LauncherConnects == notice' = [NoNotice EXCEPT !.phase = "previous"] /\ NoticeVarsKept

LauncherDisconnects == notice' = NoNotice /\ NoticeVarsKept

ReadPreviousLoginTime ==
    /\ SettingsReady /\ notice.phase = "previous"
    /\ notice' = [notice EXCEPT !.phase = "last", !.previous = store.previous]
    /\ NoticeVarsKept

ReadLastLoginTime ==
    /\ SettingsReady /\ notice.phase = "last"
    /\ notice' = [notice EXCEPT !.phase = "done", !.last = store.last]
    /\ NoticeVarsKept

\* The notification about the last login is shown.
RenderNotification == notice.previous # notice.last

--------------------------------------------------------------------------------
\* Another tab runs its whole hook, maybe after a new login.
OtherTabLoads ==
    /\ token' \in {token, token + 1}
    /\ store' = [store EXCEPT !.last = token',
                              !.previous = IF store.last = 0 THEN @ ELSE store.last]
    /\ crossed' = (auth # "starting")
    /\ UNCHANGED <<auth, login, settings, themeVars, panel, notice>>

(* The page is loaded again: by the user, by the link of the error app,    *)
(* through logout and login, by loadPortal.  Whether a request that was    *)
(* under way still takes effect is open.                                   *)
PageReloads ==
    /\ token' \in {token, token + 1}
    /\ store' \in {store}
            \cup {[store EXCEPT !.theme = writes[i]] : i \in DOMAIN writes}
            \cup (IF auth = "setLast" THEN {[store EXCEPT !.last = login.time]} ELSE {})
            \cup (IF auth = "setPrevious" THEN {[store EXCEPT !.previous = login.before]} ELSE {})
    /\ auth' = "starting" /\ login' = NoLogin
    /\ settings' = "unset"
    /\ themeRead' = NoRead /\ shown' = "dark" /\ writes' = <<>>
    /\ panel' = ClosedPanel /\ notice' = NoNotice
    /\ crossed' = FALSE /\ raced' = FALSE

(* The panel has the user name: its buttons are shown.  Signing out leads  *)
(* through the logout page and a new login back to the portal.             *)
PanelShowsUser == panel.phase \in {"theme", "open"}

ClearSession == PanelShowsUser /\ PageReloads /\ token' = token + 1

--------------------------------------------------------------------------------
\* The types of the session.
SessionTypeOK ==
    /\ store \in Stores /\ token \in Nat
    /\ store.last <= token /\ store.previous <= token
    /\ auth \in {"starting", "config", "userInfo", "getLast", "setLast", "setPrevious", "done"}
    /\ login \in [time : 0..token, before : 0..token]
    /\ settings \in {"unset", "listening", "ready"}
    /\ themeRead \in [phase : {"none", "sent", "answered"}, theme : Themes \cup {NoTheme}]
    /\ shown \in Themes /\ writes \in Seq(Themes)
    /\ panel \in [phase : {"closed", "timestamp", "theme", "open"},
                  timestamp : 0..token, theme : Themes]
    /\ notice \in [phase : {"none", "previous", "last", "done"},
                   previous : 0..token, last : 0..token]
    /\ crossed \in BOOLEAN /\ raced \in BOOLEAN

(* The login times, but for another tab that stored its own meanwhile: a   *)
(* loaded portal has stored its login as the last one and the one it found *)
(* as the previous one, so that the launcher, whenever it is opened,       *)
(* notifies of a login that was not seen before and never twice; and the   *)
(* settings panel shows this login.                                        *)
LoginTimesKept ==
    Loaded /\ login.time # 0 /\ ~crossed =>
        /\ store.last = login.time
        /\ login.before # 0 => store.previous = login.before
        /\ notice.phase = "done" => RenderNotification = (login.before # login.time)
        /\ panel.phase \in {"theme", "open"} => panel.timestamp = login.time

(* The theme: once nothing is under way the theme shown is the stored one, *)
(* so that the next page shows it again, and the switch of an open panel   *)
(* agrees with it; but for a choice made while the stored theme was being  *)
(* read, by the plugin or by the panel, or another choice written.         *)
ThemeKept ==
    Loaded /\ SettingsReady /\ themeRead.phase = "none" /\ writes = <<>> /\ ~raced =>
        /\ store.theme # NoTheme => shown = store.theme
        /\ store.theme = NoTheme => shown = "dark"
        /\ panel.phase = "open" => panel.theme = shown
================================================================================
