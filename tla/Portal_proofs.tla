------------------------------ MODULE Portal_proofs ------------------------------
(***************************************************************************)
(* The login times and the theme of the user are kept, for any number of   *)
(* events of the session, of the navigation and of other tabs, whatever    *)
(* the storage held, and for any apps, groups and urls.  What a tab of the *)
(* portal shows follows its url, and the title and the menu are those of   *)
(* the app shown.                                                          *)
(***************************************************************************)
EXTENDS Portal, SequenceTheorems, TLAPS

(* The storage always has a last login time when it has a previous one;    *)
(* the settings are ready with the user; and nothing but the plugins runs  *)
(* before the container has loaded.                                        *)
OrderInv ==
    /\ token # 0
    /\ store.last = 0 => store.previous = 0
    /\ auth = "starting" => settings = "unset"
    /\ auth \in {"config", "userInfo"} => settings = "listening"
    /\ auth \in {"getLast", "setLast", "setPrevious", "done"} => settings = "ready"
    /\ auth \in {"getLast", "setLast", "setPrevious"} => login.time # 0
    /\ auth = "setPrevious" => store.last # 0 /\ login.before # 0
    /\ ~Loaded => notice.phase = "none" /\ panel.phase = "closed" /\ writes = <<>>

(* Until another tab stores its times, the storage is where the hook of    *)
(* this tab has got to, and what was read of it since is what it holds.    *)
LoginInv ==
    ~crossed =>
        /\ auth = "setLast" => store.last = login.before
        /\ auth = "setPrevious" => store.last = login.time
        /\ Loaded /\ login.time # 0 =>
            /\ store.last = login.time
            /\ store.previous = login.before
            /\ notice.phase \in {"last", "done"} => notice.previous = store.previous
            /\ notice.phase = "done" => notice.last = login.time
            /\ panel.phase \in {"theme", "open"} => panel.timestamp = login.time

Kept(theme) == IF theme = NoTheme THEN "dark" ELSE theme

(* Without a race there is at most one write, of the theme shown, and the  *)
(* theme shown is the stored one but while it is read or written.          *)
ThemeInv ==
    /\ settings # "ready" => themeRead.phase = "none" /\ shown = "dark"
    /\ ~raced =>
        /\ writes # <<>> => themeRead.phase = "none" /\ writes = <<shown>>
        /\ themeRead.phase # "none" => shown = "dark"
        /\ themeRead.phase = "answered" => themeRead.theme = store.theme
        /\ settings = "ready" /\ themeRead.phase = "none" /\ writes = <<>> =>
              shown = Kept(store.theme)
        /\ panel.phase \in {"timestamp", "theme"} => panel.theme = "dark"
        /\ panel.phase = "open" =>
              panel.theme = IF themeRead.phase = "none" THEN shown ELSE Kept(store.theme)

SessionInv == SessionTypeOK /\ OrderInv /\ LoginInv /\ ThemeInv

(* Nothing of the navigation goes on before the container has loaded.      *)
LoadInv ==
    ~Loaded =>
        /\ ~routed /\ loads = {} /\ current = None
        /\ component.phase = "none" /\ ~view.mounted /\ wrapper = "none"
        /\ left = NoneLeft

--------------------------------------------------------------------------------
(* A sequence without one of its elements.                                 *)
LEMMA RemoveAtType ==
    ASSUME NEW S, NEW s \in Seq(S), NEW i \in DOMAIN s
    PROVE  RemoveAt(s, i) \in Seq(S)
  <1>1. i \in 1..Len(s) /\ Len(s) \in Nat
    OBVIOUS
  <1>2. SubSeq(s, 1, i - 1) \in Seq(S) /\ SubSeq(s, i + 1, Len(s)) \in Seq(S)
    BY <1>1
  <1>3. QED
    BY <1>2 DEF RemoveAt

LEMMA RemoveOnly ==
    ASSUME NEW x, NEW i \in DOMAIN <<x>>
    PROVE  RemoveAt(<<x>>, i) = <<>> /\ <<x>>[i] = x
  <1>1. i = 1
    OBVIOUS
  <1>2. SubSeq(<<x>>, 1, 0) = <<>> /\ SubSeq(<<x>>, 2, 1) = <<>>
    OBVIOUS
  <1>3. QED
    BY <1>1, <1>2 DEF RemoveAt


--------------------------------------------------------------------------------
LEMMA SessionInitOK == SessionInit => SessionInv
  <1> SUFFICES ASSUME SessionInit PROVE SessionInv
    OBVIOUS
  <1>1. store \in Stores /\ store.previous <= store.last /\ store.last <= 1
    BY SessionAssumption DEF SessionInit
  <1>2. SessionTypeOK
    <2>1. /\ store \in Stores /\ token = 2 /\ store.last <= token /\ store.previous <= token
      BY <1>1 DEF SessionInit, Stores
    <2>2. /\ themeRead = [phase |-> "none", theme |-> NoTheme] /\ shown = "dark" /\ writes = <<>>
          /\ panel = [phase |-> "closed", timestamp |-> 0, theme |-> "dark"]
          /\ notice = [phase |-> "none", previous |-> 0, last |-> 0]
          /\ login = [time |-> 0, before |-> 0]
          /\ auth = "starting" /\ settings = "unset"
      BY DEF SessionInit, NoLogin, NoRead, ClosedPanel, NoNotice
    <2>3. crossed \in BOOLEAN /\ raced \in BOOLEAN
      BY Zenon DEF SessionInit
    <2>4. shown \in Themes /\ panel.theme \in Themes /\ writes \in Seq(Themes)
      BY <2>2 DEF Themes
    <2>5. QED
      BY <2>1, <2>2, <2>3, <2>4 DEF SessionTypeOK
  <1>3. OrderInv
    BY <1>1 DEF SessionInit, OrderInv, Stores, Loaded, NoNotice, ClosedPanel
  <1>4. LoginInv /\ ThemeInv
    BY DEF SessionInit, LoginInv, ThemeInv, Loaded, NoRead, NoNotice, ClosedPanel
  <1>5. QED
    BY <1>2, <1>3, <1>4 DEF SessionInv

(* The hook of the authentication plugin up to the known user.             *)
LEMMA HookOK ==
    ASSUME SessionInv, StartHooks \/ ConfigLoaded \/ UserInfoSettled
    PROVE  SessionInv'
  <1> USE DEF SessionInv
  <1>1. CASE StartHooks
    <2> USE DEF StartHooks, themeVars
    <2>1. SessionTypeOK'
      BY <1>1 DEF SessionTypeOK
    <2>2. OrderInv' /\ LoginInv'
      BY <1>1 DEF OrderInv, LoginInv, Loaded
    <2>3. ThemeInv'
      BY <1>1 DEF OrderInv, ThemeInv, Kept, Loaded
    <2>4. QED
      BY <2>1, <2>2, <2>3
  <1>2. CASE SetUsernameFinished /\ auth \in {"config", "userInfo"}
    <2>1. settings = "listening" /\ settings' = "ready" /\ notice.phase = "none"
          /\ panel.phase = "closed" /\ writes = <<>> /\ themeRead.phase = "none" /\ shown = "dark"
      BY <1>2 DEF SetUsernameFinished, InitPlugin, OrderInv, ThemeInv, Loaded
    <2>2. themeRead' = [phase |-> "sent", theme |-> NoTheme]
      BY <1>2 DEF SetUsernameFinished, NoRead
    <2>3. \/ auth' = "getLast" /\ login' = [time |-> token, before |-> 0]
          \/ auth' = "done" /\ login' = [time |-> 0, before |-> 0]
      BY <1>2 DEF SetUsernameFinished, NoLogin
    <2>4. UNCHANGED <<store, token, shown, writes, raced, panel, notice, crossed>>
      BY <1>2 DEF SetUsernameFinished
    <2>5. SessionTypeOK'
      BY <2>1, <2>2, <2>3, <2>4 DEF SessionTypeOK
    <2>6. OrderInv' /\ LoginInv'
      BY <2>1, <2>3, <2>4 DEF OrderInv, LoginInv, Loaded, SessionTypeOK
    <2>7. ThemeInv'
      BY <2>1, <2>2, <2>4 DEF ThemeInv
    <2>8. QED
      BY <2>5, <2>6, <2>7
  <1>3. CASE auth = "config" /\ auth' = "userInfo"
             /\ UNCHANGED <<store, token, login, settings, themeVars, panel, notice, crossed>>
    <2>1. SessionTypeOK'
      BY <1>3 DEF SessionTypeOK, themeVars
    <2>2. OrderInv' /\ LoginInv'
      BY <1>3 DEF OrderInv, LoginInv, Loaded, themeVars
    <2>3. ThemeInv'
      BY <1>3 DEF ThemeInv, Kept, themeVars
    <2>4. QED
      BY <2>1, <2>2, <2>3
  <1>4. QED
    BY <1>1, <1>2, <1>3 DEF ConfigLoaded, UserInfoSettled

(* Its requests to the storage.                                            *)
LEMMA LoginStepsOK ==
    ASSUME SessionInv, GetLast \/ SetLast \/ SetPrevious
    PROVE  SessionInv'
  <1> USE DEF SessionInv
  <1>1. ThemeInv'
    <2>1. UNCHANGED <<settings, themeVars, panel>> /\ store'.theme = store.theme
      BY DEF GetLast, SetLast, SetPrevious, Set, SessionTypeOK, Stores
    <2>2. QED
      BY <2>1 DEF ThemeInv, Kept, themeVars
  <1>2. CASE GetLast
    <2>1. /\ auth = "getLast" /\ auth' = "setLast" /\ login' = [login EXCEPT !.before = store.last]
          /\ UNCHANGED <<store, token, settings, themeVars, panel, notice, crossed>>
      BY <1>2 DEF GetLast
    <2>2. login'.time = login.time /\ login'.before = store.last
          /\ login' \in [time : 0..token, before : 0..token]
      BY <2>1 DEF SessionTypeOK, Stores
    <2>3. SessionTypeOK'
      BY <2>1, <2>2 DEF SessionTypeOK, themeVars
    <2>4. OrderInv' /\ LoginInv'
      BY <2>1, <2>2 DEF OrderInv, LoginInv, Loaded, themeVars
    <2>5. QED
      BY <1>1, <2>3, <2>4
  <1>3. CASE SetLast
    <2>1. /\ auth = "setLast" /\ store' = [store EXCEPT !.last = login.time]
          /\ auth' = IF login.before = 0 THEN "done" ELSE "setPrevious"
          /\ UNCHANGED <<token, login, settings, themeVars, panel, notice, crossed>>
      BY <1>3 DEF SetLast, Set
    <2>2. /\ store'.last = login.time /\ store'.previous = store.previous
          /\ store' \in Stores /\ login.time # 0 /\ login.time <= token
      BY <2>1 DEF SessionTypeOK, Stores, OrderInv
    <2>3. notice.phase = "none" /\ panel.phase = "closed" /\ writes = <<>>
      BY <2>1 DEF OrderInv, Loaded
    <2>4. SessionTypeOK'
      BY <2>1, <2>2 DEF SessionTypeOK, themeVars
    <2>5. OrderInv'
      BY <2>1, <2>2, <2>3 DEF OrderInv, Loaded, themeVars
    <2>6. LoginInv'
      BY <2>1, <2>2, <2>3 DEF LoginInv, OrderInv, Loaded
    <2>7. QED
      BY <1>1, <2>4, <2>5, <2>6
  <1>4. CASE SetPrevious
    <2>1. /\ auth = "setPrevious" /\ store' = [store EXCEPT !.previous = login.before]
          /\ auth' = "done"
          /\ UNCHANGED <<token, login, settings, themeVars, panel, notice, crossed>>
      BY <1>4 DEF SetPrevious, Set
    <2>2. /\ store'.last = store.last /\ store'.previous = login.before
          /\ store' \in Stores /\ login.before <= token /\ store.last # 0
      BY <2>1 DEF SessionTypeOK, Stores, OrderInv
    <2>3. notice.phase = "none" /\ panel.phase = "closed" /\ writes = <<>>
      BY <2>1 DEF OrderInv, Loaded
    <2>4. SessionTypeOK'
      BY <2>1, <2>2 DEF SessionTypeOK, themeVars
    <2>5. OrderInv'
      BY <2>1, <2>2, <2>3 DEF OrderInv, Loaded, themeVars
    <2>6. LoginInv'
      BY <2>1, <2>2, <2>3 DEF LoginInv, Loaded
    <2>7. QED
      BY <1>1, <2>4, <2>5, <2>6
  <1>5. QED
    BY <1>2, <1>3, <1>4

(* The theme that is read and written.                                     *)
LEMMA ThemeStepsOK ==
    ASSUME SessionInv, ThemeRead \/ ApplyPersistedTheme \/ ThemeToggle \/ ThemeStored
    PROVE  SessionInv'
  <1> USE DEF SessionInv
  <1>1. CASE ThemeRead
    <2>1. /\ themeRead.phase = "sent" /\ settings = "ready"
          /\ themeRead' = [phase |-> "answered", theme |-> store.theme]
          /\ UNCHANGED <<store, token, auth, login, settings, shown, writes, panel, notice,
                         crossed, raced>>
      BY <1>1 DEF ThemeRead, SettingsReady
    <2>2. SessionTypeOK'
      BY <2>1 DEF SessionTypeOK, Stores
    <2>3. OrderInv' /\ LoginInv'
      BY <2>1 DEF OrderInv, LoginInv, Loaded
    <2>4. ThemeInv'
      BY <2>1 DEF ThemeInv, Kept
    <2>5. QED
      BY <2>2, <2>3, <2>4
  <1>2. CASE ApplyPersistedTheme
    <2>1. /\ themeRead.phase = "answered"
          /\ themeRead' = [phase |-> "none", theme |-> NoTheme]
          /\ shown' = IF themeRead.theme = NoTheme THEN shown ELSE themeRead.theme
          /\ UNCHANGED <<store, token, auth, login, settings, writes, panel, notice,
                         crossed, raced>>
      BY <1>2 DEF ApplyPersistedTheme, NoRead
    <2>2. SessionTypeOK'
      BY <2>1 DEF SessionTypeOK
    <2>3. OrderInv' /\ LoginInv'
      BY <2>1 DEF OrderInv, LoginInv, Loaded
    <2>4. ThemeInv'
      BY <2>1 DEF ThemeInv, Kept
    <2>5. QED
      BY <2>2, <2>3, <2>4
  <1>3. CASE ThemeToggle
    <2> DEFINE theme == OtherTheme[panel.theme]
    <2>1. /\ panel.phase # "closed" /\ panel' = [panel EXCEPT !.theme = theme]
          /\ shown' = theme /\ writes' = Append(writes, theme)
          /\ raced' = (raced \/ writes # <<>> \/ themeRead.phase # "none" \/ panel.phase # "open")
          /\ UNCHANGED <<store, token, auth, login, settings, themeRead, notice, crossed>>
      BY <1>3 DEF ThemeToggle
    <2>2. theme \in Themes
      BY DEF OtherTheme, SessionTypeOK, Themes
    <2> HIDE DEF theme
    <2>3. /\ panel'.phase = panel.phase /\ panel'.timestamp = panel.timestamp
          /\ panel'.theme = theme
          /\ panel' \in [phase : {"closed", "timestamp", "theme", "open"},
                         timestamp : 0..token, theme : Themes]
      BY <2>1, <2>2 DEF SessionTypeOK
    <2>4. SessionTypeOK'
      BY <2>1, <2>2, <2>3 DEF SessionTypeOK
    <2>5. OrderInv' /\ LoginInv'
      BY <2>1, <2>3 DEF OrderInv, LoginInv, Loaded
    <2>6. writes = <<>> => writes' = <<shown'>>
      BY <2>1
    <2>7. Loaded
      BY <2>1 DEF OrderInv
    <2>8. ThemeInv'
      <3>1. ~raced' => ~raced /\ writes = <<>> /\ themeRead.phase = "none" /\ panel.phase = "open"
        BY <2>1
      <3>2. settings' = "ready" /\ themeRead' = themeRead
        BY <2>1, <2>7 DEF OrderInv, Loaded
      <3>3. writes' # <<>>
        BY <2>1, <2>2 DEF SessionTypeOK
      <3>4. QED
        BY <2>1, <2>3, <2>6, <3>1, <3>2, <3>3 DEF ThemeInv
    <2>9. QED
      BY <2>4, <2>5, <2>8
  <1>4. CASE ThemeStored
    <2>1. PICK i \in DOMAIN writes :
              /\ settings = "ready"
              /\ store' = [store EXCEPT !.theme = writes[i]] /\ writes' = RemoveAt(writes, i)
      BY <1>4 DEF ThemeStored, Set, SettingsReady
    <2>2. UNCHANGED <<token, auth, login, settings, themeRead, shown, panel, notice,
                      crossed, raced>>
      BY <1>4 DEF ThemeStored
    <2>3. writes[i] \in Themes /\ writes' \in Seq(Themes)
      BY <2>1, RemoveAtType DEF SessionTypeOK
    <2>4. /\ store'.theme = writes[i] /\ store'.last = store.last
          /\ store'.previous = store.previous /\ store' \in Stores
      BY <2>1, <2>3 DEF SessionTypeOK, Stores
    <2>5. Loaded
      BY <2>1 DEF OrderInv
    <2>6. SessionTypeOK'
      BY <2>2, <2>3, <2>4 DEF SessionTypeOK
    <2>7. OrderInv' /\ LoginInv'
      BY <2>2, <2>4, <2>5 DEF OrderInv, LoginInv, Loaded
    <2>8. ASSUME ~raced PROVE writes' = <<>> /\ writes[i] = shown /\ themeRead.phase = "none"
      <3>1. writes = <<shown>> /\ themeRead.phase = "none"
        BY <2>1, <2>8 DEF ThemeInv
      <3>2. QED
        BY <2>1, <3>1, RemoveOnly
    <2>9. shown \in Themes /\ NoTheme \notin Themes
      BY SessionAssumption DEF SessionTypeOK
    <2>10. ThemeInv'
      BY <2>1, <2>2, <2>4, <2>8, <2>9 DEF ThemeInv, Kept
    <2>11. QED
      BY <2>6, <2>7, <2>10
  <1>5. QED
    BY <1>1, <1>2, <1>3, <1>4

(* The login times stored are those of logins.                             *)
LEMMA TokenBounds ==
    ASSUME SessionTypeOK
    PROVE  store.last \in 0..token /\ store.previous \in 0..token
  <1>1. store.last \in Nat /\ store.previous \in Nat /\ token \in Nat
    BY DEF SessionTypeOK, Stores
  <1>2. store.last <= token /\ store.previous <= token
    BY DEF SessionTypeOK
  <1>3. QED
    BY <1>1, <1>2

(* The settings panel.                                                     *)
LEMMA PanelStepsOK ==
    ASSUME SessionInv,
           PanelConnects \/ PanelReadsTimestamp \/ PanelReadsTheme \/ PanelCloses
    PROVE  SessionInv'
  <1> USE DEF SessionInv
  <1>1. CASE PanelConnects \/ PanelCloses
    <2>1. /\ \/ Loaded /\ panel' = [phase |-> "timestamp", timestamp |-> 0, theme |-> "dark"]
             \/ panel' = [phase |-> "closed", timestamp |-> 0, theme |-> "dark"]
          /\ UNCHANGED <<store, token, auth, login, settings, themeRead, shown, writes, raced,
                         notice, crossed>>
      BY <1>1 DEF PanelConnects, PanelCloses, PanelVarsKept, ClosedPanel, themeVars
    <2>2. SessionTypeOK'
      BY <2>1 DEF SessionTypeOK, Themes
    <2>3. OrderInv' /\ LoginInv'
      BY <2>1 DEF OrderInv, LoginInv, Loaded
    <2>4. ThemeInv'
      BY <2>1 DEF ThemeInv, Kept
    <2>5. QED
      BY <2>2, <2>3, <2>4
  <1>2. CASE PanelReadsTimestamp
    <2>1. /\ panel.phase = "timestamp"
          /\ panel' = [panel EXCEPT !.phase = "theme", !.timestamp = store.last]
          /\ UNCHANGED <<store, token, auth, login, settings, themeRead, shown, writes, raced,
                         notice, crossed>>
      BY <1>2 DEF PanelReadsTimestamp, PanelVarsKept, themeVars
    <2>2. /\ panel'.phase = "theme" /\ panel'.timestamp = store.last
          /\ panel'.theme = panel.theme
          /\ panel' \in [phase : {"closed", "timestamp", "theme", "open"},
                         timestamp : 0..token, theme : Themes]
      <3>1. store.last \in 0..token
        BY TokenBounds
      <3>2. panel \in [phase : {"closed", "timestamp", "theme", "open"},
                       timestamp : 0..token, theme : Themes]
        BY DEF SessionTypeOK
      <3>3. QED
        BY <2>1, <3>1, <3>2
    <2>3. SessionTypeOK'
      BY <2>1, <2>2 DEF SessionTypeOK
    <2>4. OrderInv' /\ LoginInv'
      BY <2>1, <2>2 DEF OrderInv, LoginInv, Loaded
    <2>5. ThemeInv'
      BY <2>1, <2>2 DEF ThemeInv, Kept
    <2>6. QED
      BY <2>3, <2>4, <2>5
  <1>3. CASE PanelReadsTheme
    <2>1. /\ panel.phase = "theme" /\ settings = "ready"
          /\ panel' = [panel EXCEPT !.phase = "open",
                           !.theme = IF store.theme = "light" THEN "light" ELSE panel.theme]
          /\ raced' = (raced \/ writes # <<>>)
          /\ UNCHANGED <<store, token, auth, login, settings, themeRead, shown, writes, notice,
                         crossed>>
      BY <1>3 DEF PanelReadsTheme, SettingsReady
    <2>2. /\ panel'.phase = "open" /\ panel'.timestamp = panel.timestamp
          /\ panel'.theme = IF store.theme = "light" THEN "light" ELSE panel.theme
          /\ panel' \in [phase : {"closed", "timestamp", "theme", "open"},
                         timestamp : 0..token, theme : Themes]
      BY <2>1 DEF SessionTypeOK, Themes
    <2>3. SessionTypeOK'
      BY <2>1, <2>2 DEF SessionTypeOK
    <2>4. OrderInv' /\ LoginInv'
      BY <2>1, <2>2 DEF OrderInv, LoginInv, Loaded
    <2>5. ~raced' => ~raced /\ writes = <<>>
      BY <2>1
    <2>6. ~raced' => panel'.theme = Kept(store.theme)
      <3>1. store.theme \in {"dark", "light", NoTheme} /\ NoTheme \notin {"dark", "light"}
        BY SessionAssumption DEF SessionTypeOK, Stores, Themes
      <3>2. ~raced' => panel.theme = "dark"
        BY <2>1, <2>5 DEF ThemeInv
      <3>3. QED
        BY <2>2, <3>1, <3>2 DEF Kept
    <2>7. ThemeInv'
      BY <2>1, <2>2, <2>5, <2>6 DEF ThemeInv, Kept
    <2>8. QED
      BY <2>3, <2>4, <2>7
  <1>4. QED
    BY <1>1, <1>2, <1>3

(* The login times a launcher reads; it is connected in a loaded page.     *)
LEMMA NoticeStepsOK ==
    ASSUME SessionInv,
           \/ LauncherConnects /\ Loaded
           \/ LauncherDisconnects \/ ReadPreviousLoginTime \/ ReadLastLoginTime
    PROVE  SessionInv'
  <1> USE DEF SessionInv
  <1>1. UNCHANGED <<store, token, auth, login, settings, themeRead, shown, writes, raced,
                    panel, crossed>>
    BY DEF LauncherConnects, LauncherDisconnects, ReadPreviousLoginTime, ReadLastLoginTime,
           NoticeVarsKept, themeVars
  <1>2. ThemeInv'
    BY <1>1 DEF ThemeInv, Kept
  <1>3. CASE (LauncherConnects /\ Loaded) \/ LauncherDisconnects
    <2>1. \/ Loaded /\ notice' = [phase |-> "previous", previous |-> 0, last |-> 0]
          \/ notice' = [phase |-> "none", previous |-> 0, last |-> 0]
      BY <1>3 DEF LauncherConnects, LauncherDisconnects, NoNotice
    <2>2. SessionTypeOK'
      BY <1>1, <2>1 DEF SessionTypeOK
    <2>3. OrderInv' /\ LoginInv'
      BY <1>1, <2>1 DEF OrderInv, LoginInv, Loaded
    <2>4. QED
      BY <1>2, <2>2, <2>3
  <1>4. CASE ReadPreviousLoginTime \/ ReadLastLoginTime
    <2>1. \/ /\ notice.phase = "previous"
             /\ notice' = [notice EXCEPT !.phase = "last", !.previous = store.previous]
          \/ /\ notice.phase = "last"
             /\ notice' = [notice EXCEPT !.phase = "done", !.last = store.last]
      BY <1>4 DEF ReadPreviousLoginTime, ReadLastLoginTime
    <2>2. /\ \/ /\ notice.phase = "previous" /\ notice'.phase = "last"
                /\ notice'.previous = store.previous /\ notice'.last = notice.last
             \/ /\ notice.phase = "last" /\ notice'.phase = "done"
                /\ notice'.last = store.last /\ notice'.previous = notice.previous
          /\ notice' \in [phase : {"none", "previous", "last", "done"},
                          previous : 0..token, last : 0..token]
      <3>1. store.last \in 0..token /\ store.previous \in 0..token
        BY TokenBounds
      <3>2. notice \in [phase : {"none", "previous", "last", "done"},
                        previous : 0..token, last : 0..token]
        BY DEF SessionTypeOK
      <3>3. QED
        BY <2>1, <3>1, <3>2
    <2>3. SessionTypeOK'
      BY <1>1, <2>2 DEF SessionTypeOK
    <2>4. OrderInv' /\ LoginInv'
      BY <1>1, <2>2 DEF OrderInv, LoginInv, Loaded
    <2>5. QED
      BY <1>2, <2>3, <2>4
  <1>5. QED
    BY <1>3, <1>4

(* Another tab that stores its login.                                      *)
LEMMA OtherTabOK ==
    ASSUME SessionInv, OtherTabLoads
    PROVE  SessionInv'
  <1> USE DEF SessionInv
  <1>1. /\ token' \in {token, token + 1} /\ token \in Nat /\ token # 0
        /\ crossed' = (auth # "starting")
        /\ UNCHANGED <<auth, login, settings, themeRead, shown, writes, raced, panel, notice>>
    BY DEF OtherTabLoads, themeVars, SessionTypeOK, OrderInv
  <1>2. /\ store' \in Stores /\ store'.theme = store.theme /\ store'.last = token'
        /\ store'.previous = (IF store.last = 0 THEN store.previous ELSE store.last)
    <2>1. store' = [store EXCEPT !.last = token',
                        !.previous = IF store.last = 0 THEN store.previous ELSE store.last]
      BY DEF OtherTabLoads
    <2>2. store \in [last : Nat, previous : Nat, theme : Themes \cup {NoTheme}]
      BY DEF SessionTypeOK, Stores
    <2>3. token' \in Nat
      BY <1>1
    <2>4. QED
      BY <2>1, <2>2, <2>3 DEF Stores
  <1>3. SessionTypeOK'
    <2>1. token' \in Nat /\ 0..token \subseteq 0..token' /\ token <= token'
      BY <1>1
    <2>2. store'.last <= token' /\ store'.previous <= token'
      BY <1>1, <1>2, <2>1 DEF SessionTypeOK, Stores
    <2>3. crossed' \in BOOLEAN
      BY <1>1
    <2>4. /\ login' \in [time : 0..token', before : 0..token']
          /\ panel' \in [phase : {"closed", "timestamp", "theme", "open"},
                         timestamp : 0..token', theme : Themes]
          /\ notice' \in [phase : {"none", "previous", "last", "done"},
                          previous : 0..token', last : 0..token']
      BY <1>1, <2>1 DEF SessionTypeOK
    <2>5. QED
      BY <1>1, <1>2, <2>1, <2>2, <2>3, <2>4 DEF SessionTypeOK
  <1>4. OrderInv'
    <2>1. token' # 0
      BY <1>1
    <2>2. QED
      BY <1>1, <1>2, <2>1 DEF OrderInv, Loaded
  <1>5. LoginInv'
    <2>1. ~crossed' => auth = "starting"
      BY <1>1
    <2>2. QED
      BY <1>1, <2>1 DEF LoginInv, Loaded
  <1>6. ThemeInv'
    BY <1>1, <1>2 DEF ThemeInv, Kept
  <1>7. QED
    BY <1>3, <1>4, <1>5, <1>6

(* A page that is loaded again, whatever was under way.                    *)
LEMMA ReloadOK ==
    ASSUME SessionInv, PageReloads
    PROVE  SessionInv'
  <1> USE DEF SessionInv
  <1>1. /\ token' \in {token, token + 1} /\ token \in Nat /\ token # 0
        /\ auth' = "starting" /\ settings' = "unset" /\ shown' = "dark" /\ writes' = <<>>
        /\ login' = [time |-> 0, before |-> 0]
        /\ themeRead' = [phase |-> "none", theme |-> NoTheme]
        /\ panel' = [phase |-> "closed", timestamp |-> 0, theme |-> "dark"]
        /\ notice' = [phase |-> "none", previous |-> 0, last |-> 0]
        /\ crossed' = FALSE /\ raced' = FALSE
    BY DEF PageReloads, SessionTypeOK, OrderInv, NoLogin, NoRead, ClosedPanel, NoNotice
  <1>2. /\ store' \in Stores /\ store'.last <= token' /\ store'.previous <= token'
        /\ store'.last = 0 => store'.previous = 0
    <2>1. CASE store' = store
      BY <1>1, <2>1 DEF SessionTypeOK, Stores, OrderInv
    <2>2. CASE \E i \in DOMAIN writes : store' = [store EXCEPT !.theme = writes[i]]
      <3>1. PICK i \in DOMAIN writes : store' = [store EXCEPT !.theme = writes[i]]
        BY <2>2
      <3>2. writes[i] \in Themes
        BY DEF SessionTypeOK
      <3>3. /\ store' \in Stores /\ store'.last = store.last
            /\ store'.previous = store.previous
        BY <3>1, <3>2 DEF SessionTypeOK, Stores
      <3>4. QED
        BY <1>1, <3>3, TokenBounds DEF OrderInv
    <2>3. CASE auth = "setLast" /\ store' = [store EXCEPT !.last = login.time]
      BY <1>1, <2>3 DEF SessionTypeOK, Stores, OrderInv
    <2>4. CASE auth = "setPrevious" /\ store' = [store EXCEPT !.previous = login.before]
      BY <1>1, <2>4 DEF SessionTypeOK, Stores, OrderInv
    <2>5. QED
      <3>1. \/ store' = store
            \/ \E i \in DOMAIN writes : store' = [store EXCEPT !.theme = writes[i]]
            \/ auth = "setLast" /\ store' = [store EXCEPT !.last = login.time]
            \/ auth = "setPrevious" /\ store' = [store EXCEPT !.previous = login.before]
        BY Zenon DEF PageReloads
      <3>2. QED
        BY <2>1, <2>2, <2>3, <2>4, <3>1
  <1>3. SessionTypeOK'
    <2>1. token' \in Nat /\ writes' \in Seq(Themes) /\ shown' \in Themes
      BY <1>1 DEF Themes
    <2>2. /\ login' \in [time : 0..token', before : 0..token']
          /\ themeRead' \in [phase : {"none", "sent", "answered"}, theme : Themes \cup {NoTheme}]
          /\ panel' \in [phase : {"closed", "timestamp", "theme", "open"},
                         timestamp : 0..token', theme : Themes]
          /\ notice' \in [phase : {"none", "previous", "last", "done"},
                          previous : 0..token', last : 0..token']
      BY <1>1, <2>1 DEF Themes
    <2>3. QED
      BY <1>1, <1>2, <2>1, <2>2 DEF SessionTypeOK
  <1>4. OrderInv'
    BY <1>1, <1>2 DEF OrderInv, Loaded
  <1>5. LoginInv' /\ ThemeInv'
    BY <1>1 DEF LoginInv, ThemeInv, Loaded
  <1>6. QED
    BY <1>3, <1>4, <1>5

(* Steps of the navigation alone.                                          *)
LEMMA SameSession ==
    ASSUME SessionInv, UNCHANGED sessionVars
    PROVE  SessionInv' /\ (Loaded' <=> Loaded)
  <1> USE DEF SessionInv, sessionVars
  <1>1. SessionTypeOK'
    BY DEF SessionTypeOK
  <1>2. OrderInv' /\ LoginInv' /\ (Loaded' <=> Loaded)
    BY DEF OrderInv, LoginInv, Loaded
  <1>3. ThemeInv'
    BY DEF ThemeInv, Kept
  <1>4. QED
    BY <1>1, <1>2, <1>3

--------------------------------------------------------------------------------
IInv == SessionInv /\ LoadInv

(* Whatever the session does but a reload, a loaded page stays loaded.     *)
LEMMA StaysLoaded ==
    ASSUME \/ StartHooks \/ ConfigLoaded \/ UserInfoSettled \/ GetLast \/ SetLast \/ SetPrevious
           \/ ThemeRead \/ ApplyPersistedTheme \/ ThemeToggle \/ ThemeStored
           \/ PanelConnects \/ PanelReadsTimestamp \/ PanelReadsTheme \/ PanelCloses
           \/ LauncherConnects \/ LauncherDisconnects
           \/ ReadPreviousLoginTime \/ ReadLastLoginTime \/ OtherTabLoads,
           Loaded
    PROVE  Loaded'
  <1>1. CASE \/ StartHooks \/ ConfigLoaded \/ UserInfoSettled \/ GetLast \/ SetLast \/ SetPrevious
    BY <1>1 DEF Loaded, StartHooks, ConfigLoaded, UserInfoSettled, GetLast, SetLast, SetPrevious
  <1>2. CASE ThemeRead \/ ApplyPersistedTheme \/ ThemeToggle \/ ThemeStored \/ OtherTabLoads
    BY <1>2 DEF Loaded, ThemeRead, ApplyPersistedTheme, ThemeToggle, ThemeStored, OtherTabLoads
  <1>3. CASE PanelConnects \/ PanelReadsTimestamp \/ PanelReadsTheme \/ PanelCloses
    BY <1>3 DEF Loaded, PanelConnects, PanelReadsTimestamp, PanelReadsTheme, PanelCloses,
                PanelVarsKept
  <1>4. CASE \/ LauncherConnects \/ LauncherDisconnects
             \/ ReadPreviousLoginTime \/ ReadLastLoginTime
    BY <1>4 DEF Loaded, LauncherConnects, LauncherDisconnects, ReadPreviousLoginTime,
                ReadLastLoginTime, NoticeVarsKept
  <1>5. QED
    BY <1>1, <1>2, <1>3, <1>4

(* Before the container has loaded nothing of the page moves but the       *)
(* flyout's own component.                                                 *)
LEMMA PageWaits ==
    ASSUME LoadInv, ~Loaded,
           \/ LocationChanges \/ FlyoutStatesArrive \/ StatesArrive \/ UserChoices
           \/ FlyoutChoices \/ SessionExpires \/ OpenUserAccountEditor
           \/ \E appsOk, groupsOk \in BOOLEAN : FetchesSettle(appsOk, groupsOk)
           \/ \E ok \in BOOLEAN : WrapperSettles(ok)
           \/ \E app \in Apps, ok \in BOOLEAN : GroupsAnswered(app, ok)
           \/ \E u \in Urls : LeftFetchesSettle(u)
    PROVE  UNCHANGED navVars
  <1>1. /\ ~routed /\ loads = {} /\ current = None
        /\ component.phase = "none" /\ ~view.mounted /\ wrapper = "none"
    BY DEF LoadInv
  <1>0. \A u \in Urls : ~LeftFetchesSettle(u)
    <2>1. \A u \in Urls : left[u] = 0
      BY DEF LoadInv, NoneLeft
    <2>2. QED
      BY <2>1 DEF LeftFetchesSettle
  <1>2. ~LocationChanges /\ ~StatesArrive
    BY <1>1 DEF LocationChanges, RouteChanges, StatesArrive
  <1>3. \A u : ~Visit(u)
    BY <1>1 DEF Visit
  <1>4. ~UserChoices
    BY <1>1, <1>3 DEF UserChoices, TitleClick, CrumbClick, FavoritesToggle, MenuItemClick,
                      ViewAllClick, ProductCardClick, ShowsProducts, SearchSelection
  <1>5. ~SessionExpires /\ ~OpenUserAccountEditor
    BY <1>3 DEF SessionExpires, ToSessionExpiration, OpenUserAccountEditor
  <1>6. \A appsOk, groupsOk : ~FetchesSettle(appsOk, groupsOk)
    BY <1>1 DEF FetchesSettle
  <1>7. \A ok : ~WrapperSettles(ok)
    BY <1>1 DEF WrapperSettles
  <1>8. \A app, ok : ~GroupsAnswered(app, ok)
    BY <1>1 DEF GroupsAnswered
  <1>9. FlyoutStatesArrive => UNCHANGED navVars
    BY DEF FlyoutStatesArrive
  <1>10. FlyoutChoices => UNCHANGED navVars
    <2>1. ToggleFlyoutPanel \/ FlyoutBack => UNCHANGED navVars
      BY DEF ToggleFlyoutPanel, FlyoutBack
    <2>2. FlyoutFavoritesToggle => UNCHANGED navVars
      BY <1>3 DEF FlyoutFavoritesToggle
    <2>3. \A product : FlyoutProductClick(product) => UNCHANGED navVars
      BY <1>3 DEF FlyoutProductClick
    <2>4. \A u : ~FlyoutGoTo(u)
      BY <1>3 DEF FlyoutGoTo, FlyoutVisit
    <2>5. QED
      BY <2>1, <2>2, <2>3, <2>4 DEF FlyoutChoices
  <1>11. QED
    BY <1>0, <1>2, <1>4, <1>5, <1>6, <1>7, <1>8, <1>9, <1>10

LEMMA LoadStays ==
    ASSUME LoadInv, Loaded => Loaded', ~Loaded => UNCHANGED navVars
    PROVE  LoadInv'
  <1> SUFFICES ASSUME ~Loaded' PROVE LoadInv'
    BY DEF LoadInv
  <1>1. UNCHANGED navVars /\ ~Loaded
    OBVIOUS
  <1>2. QED
    BY <1>1 DEF LoadInv, navVars

(* A step of the session alone.                                            *)
LEMMA SessionStepOK ==
    ASSUME IInv, UNCHANGED pageVars, SessionInv', Loaded => Loaded'
    PROVE  IInv'
  <1>1. UNCHANGED navVars
    BY DEF pageVars
  <1>2. QED
    BY <1>1, LoadStays DEF IInv

(* A step of the page alone.                                               *)
LEMMA PageStepOK ==
    ASSUME IInv, UNCHANGED sessionVars, ~Loaded => UNCHANGED navVars
    PROVE  IInv'
  BY SameSession, LoadStays DEF IInv

(* A page that has just been loaded.                                       *)
LEMMA NewPageOK ==
    ASSUME IInv, PageReloads, NEW to, NewPage(to)
    PROVE  IInv'
  <1>1. SessionInv'
    BY ReloadOK DEF IInv
  <1>2. LoadInv'
    BY DEF NewPage, LoadInv, NoComponent, NoView
  <1>3. QED
    BY <1>1, <1>2 DEF IInv

--------------------------------------------------------------------------------
LEMMA InitOK == Init => IInv
  <1>1. Init => SessionInv
    BY SessionInitOK DEF Init
  <1>2. Init => LoadInv
    BY DEF Init, NavigationInit, LoadInv, NoComponent, NoView
  <1>3. QED
    BY <1>1, <1>2 DEF IInv

(* What goes on by itself.                                                 *)
LEMMA PageStepKeeps ==
    ASSUME IInv, PageStep
    PROVE  IInv'
  <1>0. SessionInv /\ LoadInv
    BY DEF IInv
  <1>1. CASE Authenticate
    <2>1. /\ \/ StartHooks \/ ConfigLoaded \/ UserInfoSettled
             \/ GetLast \/ SetLast \/ SetPrevious
          /\ UNCHANGED pageVars
      BY <1>1 DEF Authenticate, OnlySession
    <2>2. SessionInv'
      BY <1>0, <2>1, HookOK, LoginStepsOK
    <2>3. QED
      BY <2>1, <2>2, StaysLoaded, SessionStepOK
  <1>2. CASE Theme \/ StoreTheme
    <2>1. (ThemeRead \/ ApplyPersistedTheme \/ ThemeStored) /\ UNCHANGED pageVars
      BY <1>2 DEF Theme, StoreTheme, OnlySession
    <2>2. SessionInv'
      BY <1>0, <2>1, ThemeStepsOK
    <2>3. QED
      BY <2>1, <2>2, StaysLoaded, SessionStepOK
  <1>3. CASE PanelReads
    <2>1. (PanelReadsTimestamp \/ PanelReadsTheme) /\ UNCHANGED pageVars
      BY <1>3 DEF PanelReads, OnlySession
    <2>2. SessionInv'
      BY <1>0, <2>1, PanelStepsOK
    <2>3. QED
      BY <2>1, <2>2, StaysLoaded, SessionStepOK
  <1>4. CASE NoticeReads
    <2>1. (ReadPreviousLoginTime \/ ReadLastLoginTime) /\ UNCHANGED pageVars
      BY <1>4 DEF NoticeReads, OnlySession
    <2>2. SessionInv'
      BY <1>0, <2>1, NoticeStepsOK
    <2>3. QED
      BY <2>1, <2>2, StaysLoaded, SessionStepOK
  <1>5. CASE ContainerLoads
    BY <1>5, PageStepOK DEF ContainerLoads, OnlyNavigation, OnlyPage
  <1>6. CASE \E ok \in BOOLEAN : LoadsEnd(ok)
    <2>1. PICK app \in Apps, ok \in BOOLEAN :
              /\ GroupsAnswered(app, ok)
              /\ IF current' = current THEN UNCHANGED sessionVars
                 ELSE IF current' = Launcher THEN LauncherConnects ELSE LauncherDisconnects
      BY <1>6 DEF LoadsEnd
    <2>2. Loaded
      BY <1>0, <2>1 DEF LoadInv, GroupsAnswered
    <2>3. CASE UNCHANGED sessionVars
      BY <2>2, <2>3, PageStepOK
    <2>4. CASE LauncherConnects \/ LauncherDisconnects
      <3>1. SessionInv'
        BY <1>0, <2>2, <2>4, NoticeStepsOK
      <3>2. Loaded'
        BY <2>2, <2>4, StaysLoaded
      <3>3. QED
        BY <1>0, <2>2, <3>1, <3>2, LoadStays DEF IInv
    <2>5. QED
      BY <2>1, <2>3, <2>4
  <1>7. CASE \/ FetchesEnd \/ LeftFetchesEnd \/ ComponentReady \/ RouteAnnounced
             \/ \E ok \in BOOLEAN : WrapperLoads(ok)
    <2>1. UNCHANGED sessionVars
      BY <1>7 DEF FetchesEnd, LeftFetchesEnd, ComponentReady, RouteAnnounced, WrapperLoads,
                  OnlyNavigation, OnlyPage
    <2>2. \/ \E appsOk, groupsOk \in BOOLEAN : FetchesSettle(appsOk, groupsOk)
          \/ StatesArrive \/ LocationChanges
          \/ \E ok \in BOOLEAN : WrapperSettles(ok)
          \/ \E u \in Urls : LeftFetchesSettle(u)
      BY <1>7 DEF FetchesEnd, LeftFetchesEnd, ComponentReady, RouteAnnounced, WrapperLoads,
                  OnlyNavigation, OnlyPage
    <2>3. QED
      BY <1>0, <2>1, <2>2, PageWaits, PageStepOK
  <1>8. CASE FlyoutFetchesEnd \/ FlyoutReady
    BY <1>8, PageStepOK DEF FlyoutFetchesEnd, FlyoutFetchesSettle, FlyoutReady,
                            FlyoutStatesArrive, OnlyPage
  <1>9. QED
    BY <1>1, <1>2, <1>3, <1>4, <1>5, <1>6, <1>7, <1>8 DEF PageStep

(* And what the user, other tabs and the end of a session add to it.       *)
LEMMA StepOK ==
    ASSUME IInv, [Next]_vars
    PROVE  IInv'
  <1>0. SessionInv /\ LoadInv
    BY DEF IInv
  <1>1. CASE PageStep
    BY <1>1, PageStepKeeps
  <1>2. CASE /\ UserChoices \/ FlyoutChoices \/ OpenUserAccountEditor \/ SessionExpires
             /\ UNCHANGED sessionVars
    BY <1>0, <1>2, PageWaits, PageStepOK
  <1>3. CASE (PanelConnects \/ PanelCloses \/ ThemeToggle \/ OtherTabLoads) /\ UNCHANGED pageVars
    <2>1. SessionInv'
      BY <1>0, <1>3, PanelStepsOK, ThemeStepsOK, OtherTabOK
    <2>2. QED
      BY <1>3, <2>1, StaysLoaded, SessionStepOK
  <1>4. CASE Reload \/ SignOut
    <2>1. PageReloads /\ \E to : NewPage(to)
      BY <1>4 DEF Reload, SignOut, ClearSession
    <2>2. QED
      BY <2>1, NewPageOK
  <1>5. CASE UNCHANGED vars
    BY <1>0, <1>5, PageStepOK DEF vars, pageVars
  <1>6. QED
    BY <1>1, <1>2, <1>3, <1>4, <1>5 DEF Next

(* The invariant of a tab of the portal.                                   *)
THEOREM Invariant == Spec => []IInv
  <1>1. IInv /\ [Next]_vars => IInv'
    BY StepOK
  <1>2. QED
    BY InitOK, <1>1, PTL DEF Spec

(* The types of the session, under any number of events.                   *)
THEOREM SessionTypeCorrect == Spec => []SessionTypeOK
  <1>1. IInv => SessionTypeOK
    BY DEF IInv, SessionInv
  <1>2. QED
    BY Invariant, <1>1, PTL

(* A loaded portal has stored its login time and the one before, notifies  *)
(* of a new login and never twice, and the theme shown is the stored one,  *)
(* but for what another tab or an overlapping choice stored meanwhile.     *)
THEOREM SettingsAreKept == Spec => []SettingsKept
  <1>1. IInv => SettingsKept
    <2> SUFFICES ASSUME IInv PROVE SettingsKept
      OBVIOUS
    <2>1. LoginTimesKept
      BY DEF IInv, SessionInv, LoginInv, LoginTimesKept, RenderNotification
    <2>2. ThemeKept
      BY DEF IInv, SessionInv, ThemeInv, ThemeKept, Kept, SettingsReady
    <2>3. QED
      BY <2>1, <2>2 DEF SettingsKept
  <1>2. QED
    BY Invariant, <1>1, PTL

--------------------------------------------------------------------------------
(* What a tab shows.                                                       *)
Launchers == [product : Selections, displayName : Products \cup {None}, favorites : BOOLEAN]
Components == [phase : {"none", "loading", "fetched", "ready"}, product : Selections,
               error : BOOLEAN, groups : BOOLEAN]
Views == [mounted : BOOLEAN, favorites : BOOLEAN]

\* The page has gone where the user went last, unless the launcher pulled it back.
ChosenInv == "pulled" \notin marks => url = chosen

\* A launcher that has heard of the last url has its product, and so has its component.
HeardInv ==
    current = Launcher /\ ~routed =>
        /\ component.product = url.product
        /\ launcher.product = url.product /\ launcher.favorites = url.favorites

\* The view has the favourites of the url, unless they changed outside.
FavouritesInv ==
    view.mounted /\ "outside" \notin marks =>
        url.product = None \/ view.favorites = url.favorites

(* The name of the product is that of the one shown, unless the product    *)
(* changed before the component listened.                                  *)
NameInv ==
    component.groups /\ "missed" \notin marks =>
        (component.phase \in {"fetched", "ready"} /\ component.product \in Products =>
            launcher.displayName = component.product)

FollowInv == HeardInv /\ FavouritesInv /\ NameInv

(* Without a disturbance at most one app is loading, of which the menu is; *)
(* when none is, title and menu are those of the app shown.                *)
MenuInv ==
    "disturbed" \notin marks =>
        /\ \A app \in loads :
              /\ loads = {app} /\ app # current
              /\ "late" \notin marks => menu = AppTree[app]
        /\ loads = {} /\ current # None =>
              /\ title = ProductOf[current]
              /\ "late" \notin marks =>
                    menu = IF component.phase = "ready" THEN LocalMenu(component.groups)
                           ELSE AppTree[current]

NavigationInv == NavigationTypeOK /\ ChosenInv /\ FollowInv /\ MenuInv

--------------------------------------------------------------------------------
(* The trees and the products of apps.                                     *)
LEMMA TreeType ==
    ASSUME NEW app \in Apps
    PROVE  AppTree[app] \subseteq Apps /\ ProductOf[app] \in Products \cup {None}
  <1>1. AppTree[app] = Below(Root(app))
    BY DEF AppTree
  <1>2. Below(Root(app)) \subseteq Apps
    BY DEF Below
  <1>3. ProductOf[app] \in Products \cup {None}
    <2> DEFINE groups == EntryOf(Root(app)).groups
               First(i) == groups[i] \in Products /\ \A j \in 1..(i - 1) : groups[j] \notin Products
    <2>1. ProductOf[app] = IF \E i \in DOMAIN groups : First(i)
                           THEN groups[CHOOSE i \in DOMAIN groups : First(i)] ELSE None
      BY DEF ProductOf
    <2>2. CASE \E i \in DOMAIN groups : First(i)
      <3>1. First(CHOOSE i \in DOMAIN groups : First(i))
        BY <2>2
      <3>2. QED
        BY <2>1, <2>2, <3>1
    <2>3. CASE ~\E i \in DOMAIN groups : First(i)
      BY <2>1, <2>3
    <2>4. QED
      BY <2>2, <2>3
  <1>4. QED
    BY <1>1, <1>2, <1>3

LEMMA LocalMenuType ==
    ASSUME NEW known
    PROVE  LocalMenu(known) \subseteq Apps \cup Products \cup {All}
  <1>1. Launcher \in Apps /\ VisibleProducts \subseteq Products
    BY NavigationAssumption DEF VisibleProducts
  <1>2. QED
    BY <1>1 DEF LocalMenu

(* A url is that of an app, or of a product in the launcher.               *)
LEMMA UrlParts ==
    ASSUME NEW u \in Urls
    PROVE  /\ u.app \in Apps /\ u.product \in Selections /\ u.favorites \in BOOLEAN
           /\ u.product # None => u = ProductUrl(u.product, u.favorites)
           /\ u.product = None => u = AppUrl(u.app)
  <1>1. CASE u \in {AppUrl(app) : app \in Apps}
    <2>1. PICK app \in Apps : u = AppUrl(app)
      BY <1>1
    <2>2. u.app = app /\ u.product = None /\ u.favorites = FALSE
      BY <2>1 DEF AppUrl
    <2>3. QED
      BY <2>1, <2>2 DEF Selections
  <1>2. CASE u \in {ProductUrl(product, f) : product \in Products \cup {All}, f \in BOOLEAN}
    <2>1. PICK product \in Products \cup {All}, f \in BOOLEAN : u = ProductUrl(product, f)
      BY <1>2
    <2>2. u.app = Launcher /\ u.product = product /\ u.favorites = f
      BY <2>1 DEF ProductUrl
    <2>3. product # None /\ Launcher \in Apps
      BY NavigationAssumption
    <2>4. QED
      BY <2>1, <2>2, <2>3 DEF Selections
  <1>3. QED
    BY <1>1, <1>2 DEF Urls

--------------------------------------------------------------------------------
(* What a render of the launcher does to the view and to the url.          *)
LEMMA ShowOK ==
    ASSUME NEW c \in Components, NEW at \in Urls, NEW choice \in Urls,
           NEW m \in SUBSET Marks,
           view \in Views, ShowChosen(c, at, choice, m)
    PROVE  /\ component' = c
           /\ view' \in Views /\ (view'.mounted <=> ShowsProduct(c))
           /\ url' \in Urls /\ chosen' \in Urls /\ marks' \in SUBSET Marks
           /\ url' = at \/ (ShowsProduct(c) /\ view'.favorites /\ url' = ProductUrl(c.product, TRUE))
           /\ ~ShowsProduct(c) => url' = at
           /\ "pulled" \notin marks' => "pulled" \notin m /\ SamePlace(url', at)
           /\ chosen' = IF choice = at /\ SamePlace(url', at) THEN url' ELSE choice
           /\ at \notin {url, choice} /\ (routed \/ loads # {}) => "pulled" \in marks'
           /\ \A x \in {"missed", "late", "disturbed"} : x \in marks' <=> x \in m
           /\ ShowsProduct(c) => ("outside" \in marks' <=> "outside" \in m)
           /\ ShowsProduct(c) /\ view.mounted => view' = view
           /\ ShowsProduct(c) /\ ~view.mounted => view'.favorites = at.favorites
  <1>1. /\ component' = c
        /\ view' = ViewAfter(c, at) /\ url' = UrlAfter(c, at)
        /\ chosen' = IF choice = at /\ SamePlace(url', at) THEN url' ELSE choice
        /\ marks' = (m \ (IF ShowsProduct(c) THEN {} ELSE {"outside"}))
                        \cup (IF \/ ~SamePlace(url', at)
                                 \/ at \notin {url, choice} /\ (routed \/ loads # {})
                              THEN {"pulled"} ELSE {})
    BY DEF ShowChosen
  <1>2. /\ ~ShowsProduct(c) => view' = [mounted |-> FALSE, favorites |-> FALSE]
        /\ ShowsProduct(c) /\ view.mounted => view' = view
        /\ ShowsProduct(c) /\ ~view.mounted => view' = [mounted |-> TRUE, favorites |-> at.favorites]
    BY <1>1 DEF ViewAfter, NoView
  <1>3. at.favorites \in BOOLEAN /\ ShowsProduct(c) \in BOOLEAN
    BY UrlParts DEF ShowsProduct
  <1>4. view' \in Views /\ (view'.mounted <=> ShowsProduct(c))
    <2>1. CASE ~ShowsProduct(c)
      <3>1. view' = [mounted |-> FALSE, favorites |-> FALSE]
        BY <1>2, <2>1
      <3>2. view' \in Views /\ ~view'.mounted
        BY <3>1 DEF Views
      <3>3. QED
        BY <2>1, <3>2
    <2>2. CASE ShowsProduct(c) /\ view.mounted
      BY <1>2, <2>2
    <2>3. CASE ShowsProduct(c) /\ ~view.mounted
      <3>1. view' = [mounted |-> TRUE, favorites |-> at.favorites]
        BY <1>2, <2>3
      <3>2. view' \in Views /\ view'.mounted
        BY <1>3, <3>1 DEF Views
      <3>3. QED
        BY <2>3, <3>2
    <2>4. QED
      BY <2>1, <2>2, <2>3
  <1>5. url' = at \/ (view'.favorites /\ url' = ProductUrl(c.product, TRUE))
    BY <1>1 DEF UrlAfter
  <1>6. view'.favorites /\ url' # at => ShowsProduct(c)
    BY <1>2
  <1>7. ShowsProduct(c) => ProductUrl(c.product, TRUE) \in Urls
    <2>1. ShowsProduct(c) => c.product \in Products \cup {All}
      BY DEF ShowsProduct, Components, Selections
    <2>2. QED
      <3>1. TRUE \in BOOLEAN
        OBVIOUS
      <3>2. \A product \in Products \cup {All} : \A f \in BOOLEAN : ProductUrl(product, f) \in Urls
        BY DEF Urls
      <3>3. QED
        BY <2>1, <3>1, <3>2
  <1>8. url' \in Urls /\ chosen' \in Urls
    BY <1>1, <1>5, <1>6, <1>7
  <1>9. marks' \in SUBSET Marks
    BY <1>1 DEF Marks
  <1>10. /\ "pulled" \notin marks' => "pulled" \notin m /\ SamePlace(url', at)
         /\ at \notin {url, choice} /\ (routed \/ loads # {}) => "pulled" \in marks'
         /\ \A x \in {"missed", "late", "disturbed"} : x \in marks' <=> x \in m
         /\ ShowsProduct(c) => ("outside" \in marks' <=> "outside" \in m)
    <2> DEFINE kept == m \ (IF ShowsProduct(c) THEN {} ELSE {"outside"})
               pull == \/ ~SamePlace(url', at)
                       \/ at \notin {url, choice} /\ (routed \/ loads # {})
    <2>1. \A x : x \in marks' <=> x \in kept \/ (pull /\ x = "pulled")
      BY <1>1
    <2>2. \A x : x \in kept <=> x \in m /\ (ShowsProduct(c) \/ x # "outside")
      OBVIOUS
    <2>3. "pulled" \in marks' <=> "pulled" \in m \/ pull
      BY <2>1, <2>2
    <2>4. \A x \in {"missed", "late", "disturbed"} : x \in marks' <=> x \in m
      BY <2>1, <2>2
    <2>5. ShowsProduct(c) => ("outside" \in marks' <=> "outside" \in m)
      BY <2>1, <2>2
    <2>6. QED
      BY <2>3, <2>4, <2>5
  <1>11. ~ShowsProduct(c) => url' = at
    <2>1. ~ShowsProduct(c) => ~view'.favorites
      <3>1. ~ShowsProduct(c) => view' = [mounted |-> FALSE, favorites |-> FALSE]
        BY <1>2
      <3>2. QED
        BY <3>1
    <2>2. QED
      BY <1>5, <2>1
  <1>12. ShowsProduct(c) /\ ~view.mounted => view'.favorites = at.favorites
    <2>1. ASSUME ShowsProduct(c), ~view.mounted PROVE view'.favorites = at.favorites
      <3>1. view' = [mounted |-> TRUE, favorites |-> at.favorites]
        BY <1>2, <2>1
      <3>2. QED
        BY <3>1
    <2>2. QED
      BY <2>1
  <1>13. /\ component' = c
         /\ chosen' = IF choice = at /\ SamePlace(url', at) THEN url' ELSE choice
         /\ ShowsProduct(c) /\ view.mounted => view' = view
    BY <1>1, <1>2
  <1>14. QED
    BY <1>4, <1>5, <1>6, <1>8, <1>9, <1>10, <1>11, <1>12, <1>13

(* The types, in the form the proofs use them.                             *)
LEMMA TypeFacts ==
    ASSUME NavigationTypeOK
    PROVE  /\ url \in Urls /\ chosen \in Urls /\ marks \in SUBSET Marks
           /\ launcher \in Launchers /\ component \in Components /\ view \in Views
           /\ component.phase # "none" <=> current = Launcher
           /\ view.mounted <=> ShowsProduct(component)
           /\ current \in Apps \cup {None} /\ title \in Products \cup {None}
           /\ loads \subseteq Apps /\ menu \subseteq Apps \cup Products \cup {All}
           /\ wrapper # "none" <=> current \in DOMAIN Wrapped
           /\ left \in [Urls -> Nat]
  BY DEF NavigationTypeOK, Launchers, Components, Views

LEMMA WrapperAgain ==
    ASSUME wrapper' # "none" <=> current' \in DOMAIN Wrapped
    PROVE  (wrapper' # "none") = (current' \in DOMAIN Wrapped)
  OBVIOUS

LEMMA TypeAgain ==
    ASSUME url' \in Urls, chosen' \in Urls, marks' \in SUBSET Marks, routed' \in BOOLEAN,
           launcher' \in Launchers, component' \in Components, view' \in Views,
           component'.phase # "none" <=> current' = Launcher,
           view'.mounted <=> ShowsProduct(component'),
           current' \in Apps \cup {None}, title' \in Products \cup {None},
           loads' \subseteq Apps, menu' \subseteq Apps \cup Products \cup {All},
           wrapper' # "none" <=> current' \in DOMAIN Wrapped,
           wrapper' \in {"none", "loading", "groups error", "options error", "frame"},
           left' \in [Urls -> Nat]
    PROVE  NavigationTypeOK'
  <1>1. (component'.phase # "none") = (current' = Launcher)
    OBVIOUS
  <1>2. view'.mounted = ShowsProduct(component')
    <2>1. view'.mounted \in BOOLEAN
      BY DEF Views
    <2>2. ShowsProduct(component') \in BOOLEAN
      BY DEF ShowsProduct
    <2>3. QED
      BY <2>1, <2>2
  <1>3. (wrapper' # "none") = (current' \in DOMAIN Wrapped)
    BY WrapperAgain
  <1>4. QED
    BY <1>1, <1>2, <1>3 DEF NavigationTypeOK, Launchers, Components, Views

LEMMA ComponentShows ==
    ASSUME NEW product \in Selections, component \in Components
    PROVE  LET c == [component EXCEPT !.product = product]
           IN  /\ c \in Components /\ c.product = product
               /\ c.phase = component.phase /\ c.groups = component.groups
               /\ c.error = component.error
  BY DEF Components

LEMMA DisplayNameType ==
    ASSUME NEW product, NEW known \in BOOLEAN
    PROVE  /\ DisplayName(product, known) \in Products \cup {None}
           /\ known /\ product \in Products => DisplayName(product, known) = product
  BY DEF DisplayName

(* A new url is announced.                                                 *)
LEMMA RouteMarks ==
    ASSUME marks \in SUBSET Marks
    PROVE  /\ MarksAtStart \in SUBSET Marks
           /\ \A x \in {"pulled", "missed", "outside"} : x \in MarksAtStart <=> x \in marks
           /\ loads # {} => "disturbed" \in MarksAtStart
           /\ loads = {} => "disturbed" \notin MarksAtStart /\ "late" \notin MarksAtStart
  BY DEF MarksAtStart, Marks

LEMMA RouteMenu ==
    ASSUME NavigationTypeOK, MenuInv, UNCHANGED <<current, title>>,
           component'.phase = component.phase, component'.groups = component.groups,
           \/ /\ url.app \in loads \cup {current} /\ UNCHANGED <<loads, menu>>
              /\ \A x \in {"late", "disturbed"} : x \in marks' <=> x \in marks
           \/ /\ url.app \notin loads \cup {current} /\ StartLoad(url.app)
              /\ \A x \in {"late", "disturbed"} : x \in marks' <=> x \in MarksAtStart
    PROVE  MenuInv'
  <1>1. CASE /\ url.app \in loads \cup {current} /\ UNCHANGED <<loads, menu>>
             /\ \A x \in {"late", "disturbed"} : x \in marks' <=> x \in marks
    BY <1>1 DEF MenuInv
  <1>2. CASE /\ url.app \notin loads \cup {current} /\ StartLoad(url.app)
             /\ \A x \in {"late", "disturbed"} : x \in marks' <=> x \in MarksAtStart
    <2>1. loads' = loads \cup {url.app} /\ menu' = AppTree[url.app]
      BY <1>2 DEF StartLoad
    <2>2. loads # {} => "disturbed" \in marks'
      BY <1>2, RouteMarks, TypeFacts
    <2>3. QED
      BY <1>2, <2>1, <2>2 DEF MenuInv
  <1>3. QED
    BY <1>1, <1>2

LEMMA RouteChangesOK ==
    ASSUME NavigationInv, RouteChanges
    PROVE  NavigationInv'
  <1> DEFINE starts == url.app \notin loads \cup {current}
             m == IF starts THEN MarksAtStart ELSE marks
  <1>1. NavigationTypeOK /\ ChosenInv /\ FollowInv /\ MenuInv
    BY DEF NavigationInv
  <1>2. /\ routed
        /\ IF starts THEN StartLoad(url.app) ELSE UNCHANGED <<loads, menu>>
        /\ IF current = Launcher THEN RouteCallBack(m)
           ELSE marks' = m /\ UNCHANGED <<url, appVars, chosen>>
        /\ routed' = (url' # url)
        /\ UNCHANGED <<current, title, left>>
    BY DEF RouteChanges
  <1>3. /\ m \in SUBSET Marks
        /\ \A x \in {"pulled", "missed", "outside"} : x \in m <=> x \in marks
    BY <1>1, RouteMarks, TypeFacts
  <1>4. /\ loads' \subseteq Apps /\ menu' \subseteq Apps \cup Products \cup {All}
        /\ left' \in [Urls -> Nat]
    BY <1>1, <1>2, TypeFacts, UrlParts, TreeType DEF StartLoad
  <1>5. routed' \in BOOLEAN /\ (~routed' => url' = url)
    BY <1>2
  <1>6. CASE current # Launcher
    <2>1. marks' = m /\ UNCHANGED <<url, launcher, component, view, wrapper, chosen, current, title>>
      BY <1>2, <1>6 DEF appVars
    <2>2. NavigationTypeOK'
      BY <1>1, <1>3, <1>4, <1>5, <2>1 DEF NavigationTypeOK, ShowsProduct
    <2>3. ChosenInv' /\ FollowInv'
      BY <1>1, <1>3, <1>6, <2>1 DEF ChosenInv, FollowInv, HeardInv, FavouritesInv, NameInv
    <2>4. MenuInv'
      <3>1. starts => StartLoad(url.app)
        BY <1>2
      <3>2. QED
        BY <1>1, <1>2, <2>1, <3>1, RouteMenu
    <2>5. QED
      BY <2>2, <2>3, <2>4 DEF NavigationInv
  <1>7. CASE current = Launcher
    <2> DEFINE product == url.product
               changes == component.product # product
               bound == component.phase = "ready"
               drawn == [component EXCEPT !.product = product]
               m2 == IF ~changes THEN m
                     ELSE IF bound THEN m \ {"missed"}
                     ELSE IF component.phase = "fetched" THEN m \cup {"missed"} ELSE m
    <2>1. /\ UNCHANGED wrapper
          /\ launcher' = [launcher EXCEPT
                !.product = product, !.favorites = url.favorites,
                !.displayName = IF bound /\ changes
                                THEN DisplayName(product, component.groups)
                                ELSE launcher.displayName]
          /\ ShowChosen(drawn,
                        IF bound /\ changes /\ product # None
                        THEN ProductUrl(product, url.favorites) ELSE url, chosen, m2)
      BY <1>2, <1>7 DEF RouteCallBack, Show
    <2>2. ShowChosen(drawn, url, chosen, m2)
      BY <1>1, <2>1, UrlParts, TypeFacts
    <2>3. /\ product \in Selections /\ url.favorites \in BOOLEAN
          /\ drawn \in Components /\ drawn.product = product
          /\ drawn.phase = component.phase /\ drawn.groups = component.groups
      BY <1>1, UrlParts, TypeFacts, ComponentShows
    <2>4. /\ m2 \in SUBSET Marks
          /\ \A x \in {"pulled", "outside", "late", "disturbed"} : x \in m2 <=> x \in m
          /\ "missed" \notin m2 =>
                \/ ~changes /\ "missed" \notin marks
                \/ changes /\ component.phase # "fetched"
      BY <1>3 DEF Marks
    <2> HIDE DEF m2, drawn
    <2>5. /\ component' = drawn
          /\ view' \in Views /\ (view'.mounted <=> ShowsProduct(drawn))
          /\ url' \in Urls /\ chosen' \in Urls /\ marks' \in SUBSET Marks
          /\ url' = url \/ (ShowsProduct(drawn) /\ view'.favorites /\ url' = ProductUrl(product, TRUE))
          /\ "pulled" \notin marks' => "pulled" \notin m2 /\ SamePlace(url', url)
          /\ chosen' = IF chosen = url /\ SamePlace(url', url) THEN url' ELSE chosen
          /\ \A x \in {"missed", "late", "disturbed"} : x \in marks' <=> x \in m2
          /\ ShowsProduct(drawn) => ("outside" \in marks' <=> "outside" \in m2)
          /\ ShowsProduct(drawn) /\ view.mounted => view' = view
          /\ ShowsProduct(drawn) /\ ~view.mounted => view'.favorites = url.favorites
      BY <1>1, <2>2, <2>3, <2>4, ShowOK, TypeFacts
    <2>6. /\ launcher' \in Launchers
          /\ launcher'.product = product /\ launcher'.favorites = url.favorites
          /\ launcher'.displayName = IF bound /\ changes
                                     THEN DisplayName(product, component.groups)
                                     ELSE launcher.displayName
      <3>1. component.groups \in BOOLEAN /\ launcher \in Launchers
        BY <1>1, TypeFacts DEF Components
      <3>2. DisplayName(product, component.groups) \in Products \cup {None}
        BY <3>1, DisplayNameType
      <3>3. QED
        BY <2>1, <2>3, <3>1, <3>2 DEF Launchers
    <2>7. NavigationTypeOK'
      <3>1. component'.phase # "none" <=> current' = Launcher
        BY <1>1, <1>2, <2>3, <2>5, TypeFacts
      <3>2. view'.mounted <=> ShowsProduct(component')
        BY <2>5
      <3>3. title' \in Products \cup {None} /\ current' \in Apps \cup {None}
            /\ (wrapper' # "none" <=> current' \in DOMAIN Wrapped)
            /\ wrapper' \in {"none", "loading", "groups error", "options error", "frame"}
        BY <1>1, <1>2, <2>1 DEF NavigationTypeOK
      <3>4. QED
        BY <1>4, <1>5, <2>3, <2>5, <2>6, <3>1, <3>2, <3>3, TypeAgain
    <2>8. ChosenInv'
      <3>1. "pulled" \notin marks' => url = chosen /\ SamePlace(url', url)
        BY <1>1, <1>3, <2>4, <2>5 DEF ChosenInv
      <3>2. QED
        BY <2>5, <3>1 DEF ChosenInv
    <2>9. FollowInv'
      <3>1. HeardInv'
        BY <1>5, <2>3, <2>5, <2>6 DEF HeardInv
      <3>2. FavouritesInv'
        <4>1. SUFFICES ASSUME view'.mounted, "outside" \notin marks'
                       PROVE  url'.product = None \/ view'.favorites = url'.favorites
          BY DEF FavouritesInv
        <4>2. ShowsProduct(drawn) /\ "outside" \notin marks /\ product # None
          BY <1>3, <2>3, <2>4, <2>5, <4>1 DEF ShowsProduct
        <4>3. view'.favorites = url.favorites
          BY <1>1, <2>5, <4>2 DEF FollowInv, FavouritesInv
        <4>4. CASE url' = url
          BY <4>3, <4>4
        <4>5. CASE view'.favorites /\ url' = ProductUrl(product, TRUE)
          <5>1. url'.favorites = TRUE /\ view'.favorites \in BOOLEAN
            BY <2>5, <4>5 DEF ProductUrl, Views
          <5>2. QED
            BY <4>5, <5>1
        <4>6. QED
          BY <2>5, <4>4, <4>5
      <3>3. NameInv'
        <4>1. SUFFICES ASSUME component'.groups, "missed" \notin marks',
                              component'.phase \in {"fetched", "ready"}, component'.product \in Products
                       PROVE  launcher'.displayName = component'.product
          BY DEF NameInv
        <4>2. component.phase \in {"fetched", "ready"} /\ component.groups /\ product \in Products
          BY <2>3, <2>5, <4>1
        <4>3. CASE ~changes /\ "missed" \notin marks
          BY <1>1, <2>3, <2>5, <2>6, <4>2, <4>3 DEF FollowInv, NameInv
        <4>4. CASE changes /\ bound
          <5>1. component.groups \in BOOLEAN
            BY <1>1, TypeFacts DEF Components
          <5>2. QED
            BY <2>3, <2>5, <2>6, <4>2, <4>4, <5>1, DisplayNameType
        <4>5. QED
          BY <2>4, <2>5, <4>1, <4>2, <4>3, <4>4
      <3>4. QED
        BY <3>1, <3>2, <3>3 DEF FollowInv
    <2>10. MenuInv'
      <3>1. starts => StartLoad(url.app)
        BY <1>2
      <3>2. component'.phase = component.phase /\ component'.groups = component.groups
        BY <2>3, <2>5
      <3>3. \A x \in {"late", "disturbed"} : x \in marks' <=> x \in m
        BY <2>4, <2>5
      <3>4. QED
        BY <1>1, <1>2, <3>1, <3>2, <3>3, RouteMenu
    <2>11. QED
      BY <2>7, <2>8, <2>9, <2>10 DEF NavigationInv
  <1>8. QED
    BY <1>6, <1>7

LEMMA LauncherIsApp ==
    /\ Launcher \in Apps /\ Launcher # None /\ None \notin Apps
    /\ Launcher \notin DOMAIN Wrapped
    /\ None \notin DOMAIN Wrapped
  BY NavigationAssumption

(* The container has loaded and starts the load of the first app.          *)
LEMMA FirstLoadOK ==
    ASSUME NavigationInv, FirstLoad
    PROVE  NavigationInv'
  <1>1. NavigationTypeOK /\ ChosenInv /\ FollowInv /\ MenuInv
    BY DEF NavigationInv
  <1>2. /\ current = None /\ loads = {} /\ routed' = FALSE
        /\ loads' = {url.app} /\ menu' = AppTree[url.app]
        /\ UNCHANGED <<url, current, title, launcher, component, view, wrapper, left, chosen, marks>>
    BY DEF FirstLoad, StartLoad, appVars
  <1>3. url.app \in Apps /\ url.app # current
    BY <1>1, <1>2, TypeFacts, UrlParts, LauncherIsApp
  <1>4. NavigationTypeOK'
    <2>1. loads' \subseteq Apps /\ menu' \subseteq Apps \cup Products \cup {All}
      BY <1>2, <1>3, TreeType
    <2>2. QED
      BY <1>1, <1>2, <2>1 DEF NavigationTypeOK, ShowsProduct
  <1>5. ChosenInv' /\ FavouritesInv' /\ NameInv'
    BY <1>1, <1>2 DEF ChosenInv, FollowInv, FavouritesInv, NameInv
  <1>6. HeardInv'
    BY <1>2, LauncherIsApp DEF HeardInv
  <1>7. MenuInv'
    BY <1>2, <1>3 DEF MenuInv
  <1>8. QED
    BY <1>4, <1>5, <1>6, <1>7 DEF NavigationInv, FollowInv

(* A launcher that is left is counted at the url it will go to.            *)
LEMMA LauncherLeftOK ==
    ASSUME NavigationTypeOK, LauncherLeft
    PROVE  left' \in [Urls -> Nat]
  <1>1. left \in [Urls -> Nat]
    BY TypeFacts
  <1>2. \A u \in Urls : [left EXCEPT ![u] = @ + 1] \in [Urls -> Nat]
    BY <1>1
  <1>3. QED
    BY <1>1, <1>2 DEF LauncherLeft

(* The groups of an app, or the failure of their request, have come.       *)
LEMMA GroupsAnsweredOK ==
    ASSUME NavigationInv, NEW app \in Apps, NEW ok \in BOOLEAN, GroupsAnswered(app, ok)
    PROVE  NavigationInv'
  <1>1. NavigationTypeOK /\ ChosenInv /\ FollowInv /\ MenuInv
    BY DEF NavigationInv
  <1>2. /\ app \in loads /\ loads' = loads \ {app}
        /\ IF ok THEN title' = ProductOf[app] ELSE title' = title
        /\ UNCHANGED <<url, menu, chosen>>
    BY DEF GroupsAnswered, TitleChanges
  <1>3. loads' \subseteq Apps /\ title' \in Products \cup {None}
    BY <1>1, <1>2, TypeFacts, TreeType
  <1>4. CASE ~(url.app = app /\ current # app)
    <2>1. /\ marks' = marks \cup {"disturbed"}
          /\ UNCHANGED <<current, launcher, component, view, wrapper, left, routed>>
      BY <1>4 DEF GroupsAnswered, appVars
    <2>2. NavigationTypeOK'
      <3>1. marks' \subseteq Marks
        BY <1>1, <2>1, TypeFacts DEF Marks
      <3>2. QED
        BY <1>1, <1>2, <1>3, <2>1, <3>1 DEF NavigationTypeOK, ShowsProduct
    <2>3. ChosenInv' /\ FollowInv'
      BY <1>1, <1>2, <2>1 DEF ChosenInv, FollowInv, HeardInv, FavouritesInv, NameInv
    <2>4. MenuInv'
      BY <2>1 DEF MenuInv
    <2>5. QED
      BY <2>2, <2>3, <2>4 DEF NavigationInv
  <1>5. CASE url.app = app /\ current # app
    <2>1. /\ current' = app
          /\ IF app = Launcher THEN ConnectLauncher
             ELSE /\ launcher' = NoLauncher /\ component' = NoComponent /\ view' = NoView
                  /\ wrapper' = IF app \in DOMAIN Wrapped THEN "loading" ELSE "none"
                  /\ UNCHANGED routed
          /\ marks' = (marks \ {"missed", "outside"}) \cup (IF ok THEN {} ELSE {"disturbed"})
          /\ LauncherLeft
      BY <1>5 DEF GroupsAnswered
    <2>2. /\ launcher' \in Launchers /\ component' \in Components /\ view' = NoView
          /\ component'.phase = (IF app = Launcher THEN "loading" ELSE "none")
          /\ routed' \in BOOLEAN /\ (app = Launcher => routed')
      <3>1. CASE app = Launcher
        <4>1. /\ launcher' = [NoLauncher EXCEPT !.favorites = url.favorites]
              /\ component' = [NoComponent EXCEPT !.phase = "loading"]
              /\ view' = NoView /\ routed' = TRUE
          BY <2>1, <3>1 DEF ConnectLauncher
        <4>2. url.favorites \in BOOLEAN
          BY <1>1, TypeFacts, UrlParts
        <4>3. launcher' \in Launchers
          BY <4>1, <4>2 DEF Launchers, NoLauncher, Selections
        <4>4. component' \in Components /\ component'.phase = "loading"
          BY <4>1 DEF Components, NoComponent, Selections
        <4>5. QED
          BY <3>1, <4>1, <4>3, <4>4
      <3>2. CASE app # Launcher
        <4>1. launcher' = NoLauncher /\ component' = NoComponent /\ view' = NoView /\ routed' = routed
          BY <2>1, <3>2
        <4>2. launcher' \in Launchers
          BY <4>1 DEF Launchers, NoLauncher, Selections
        <4>3. component' \in Components /\ component'.phase = "none"
          BY <4>1 DEF Components, NoComponent, Selections
        <4>4. routed \in BOOLEAN
          BY <1>1 DEF NavigationTypeOK
        <4>5. QED
          BY <3>2, <4>1, <4>2, <4>3, <4>4
      <3>3. QED
        BY <3>1, <3>2
    <2>3. view' \in Views /\ ~view'.mounted
      BY <2>2 DEF NoView, Views
    <2>4. ~ShowsProduct(component')
      BY <2>2 DEF ShowsProduct
    <2>5. NavigationTypeOK'
      <3>1. /\ wrapper' # "none" <=> current' \in DOMAIN Wrapped
            /\ wrapper' \in {"none", "loading", "groups error", "options error", "frame"}
        BY <2>1, LauncherIsApp DEF ConnectLauncher
      <3>2. marks' \in SUBSET Marks
        BY <1>1, <2>1, TypeFacts DEF Marks
      <3>3. /\ url' \in Urls /\ chosen' \in Urls /\ current' \in Apps \cup {None}
            /\ menu' \subseteq Apps \cup Products \cup {All}
        BY <1>1, <1>2, <2>1, TypeFacts
      <3>4. component'.phase # "none" <=> current' = Launcher
        BY <2>1, <2>2
      <3>5. view'.mounted <=> ShowsProduct(component')
        BY <2>3, <2>4
      <3>6. left' \in [Urls -> Nat]
        BY <1>1, <2>1, LauncherLeftOK
      <3>7. QED
        BY <1>3, <2>2, <2>3, <3>1, <3>2, <3>3, <3>4, <3>5, <3>6, TypeAgain
    <2>6. ChosenInv'
      BY <1>1, <1>2, <2>1 DEF ChosenInv
    <2>7. FollowInv'
      BY <2>1, <2>2, <2>3 DEF FollowInv, HeardInv, FavouritesInv, NameInv
    <2>8. MenuInv'
      <3>1. SUFFICES ASSUME "disturbed" \notin marks' PROVE MenuInv'
        BY DEF MenuInv
      <3>2. ok /\ "disturbed" \notin marks /\ ("late" \in marks' <=> "late" \in marks)
        BY <2>1, <3>1
      <3>3. loads = {app} /\ ("late" \notin marks => menu = AppTree[app])
        BY <1>1, <1>2, <3>2 DEF MenuInv
      <3>4. loads' = {} /\ title' = ProductOf[app] /\ menu' = menu /\ current' = app
            /\ component'.phase # "ready"
        BY <1>2, <2>1, <2>2, <3>2, <3>3
      <3>5. QED
        BY <3>2, <3>3, <3>4 DEF MenuInv
    <2>9. QED
      BY <2>5, <2>6, <2>7, <2>8 DEF NavigationInv
  <1>6. QED
    BY <1>4, <1>5

(* The component of the launcher has its apps and groups.                  *)
LEMMA FetchesSettleOK ==
    ASSUME NavigationInv, NEW appsOk \in BOOLEAN, NEW groupsOk \in BOOLEAN,
           FetchesSettle(appsOk, groupsOk)
    PROVE  NavigationInv'
  <1> DEFINE product == component.product
             fetched == [component EXCEPT !.phase = "fetched", !.groups = groupsOk,
                                          !.error = ~appsOk \/ ~groupsOk]
             at == ProductSelected(product)
             m == marks \ {"missed"}
  <1>1. NavigationTypeOK /\ ChosenInv /\ FollowInv /\ MenuInv
    BY DEF NavigationInv
  <1>2. /\ component.phase = "loading"
        /\ launcher' = IF product = None THEN launcher
                       ELSE [launcher EXCEPT !.product = product,
                                             !.displayName = DisplayName(product, groupsOk)]
        /\ ShowChosen(fetched, at, chosen, m)
        /\ routed' = (routed \/ url' # url)
        /\ UNCHANGED <<loads, current, title, menu, wrapper, left>>
    BY DEF FetchesSettle, Show
  <1>3. /\ product \in Selections /\ fetched \in Components /\ fetched.product = product
        /\ fetched.phase = "fetched" /\ (fetched.groups <=> groupsOk)
    BY <1>1, TypeFacts DEF Components
  <1>4. launcher \in Launchers /\ launcher.favorites \in BOOLEAN
    BY <1>1, TypeFacts DEF Launchers
  <1>5. at \in Urls
    <2>1. product # None => product \in Products \cup {All}
      BY <1>3 DEF Selections
    <2>2. product # None => ProductUrl(product, launcher.favorites) \in Urls
      BY <1>4, <2>1 DEF Urls
    <2>3. QED
      BY <1>1, <2>2, TypeFacts DEF ProductSelected
  <1>6. m \in SUBSET Marks /\ \A x : x \in m <=> x \in marks /\ x # "missed"
    BY <1>1, TypeFacts
  <1>7. ~ShowsProduct(fetched)
    BY <1>3 DEF ShowsProduct
  <1> HIDE DEF fetched, m, at
  <1>8. /\ component' = fetched
        /\ view' \in Views /\ (view'.mounted <=> ShowsProduct(fetched))
        /\ url' = at /\ chosen' \in Urls /\ marks' \in SUBSET Marks
        /\ "pulled" \notin marks' => "pulled" \notin m
        /\ chosen' = IF chosen = at /\ SamePlace(url', at) THEN url' ELSE chosen
        /\ at \notin {url, chosen} /\ (routed \/ loads # {}) => "pulled" \in marks'
        /\ \A x \in {"missed", "late", "disturbed"} : x \in marks' <=> x \in m
    BY <1>1, <1>2, <1>3, <1>5, <1>6, <1>7, ShowOK, TypeFacts
  <1>9. current = Launcher /\ routed \in BOOLEAN
    BY <1>1, <1>2, TypeFacts DEF NavigationTypeOK
  <1>10. /\ launcher' \in Launchers /\ launcher'.favorites = launcher.favorites
         /\ product # None => launcher'.product = product
                              /\ launcher'.displayName = DisplayName(product, groupsOk)
         /\ product = None => launcher' = launcher
    <2>1. DisplayName(product, groupsOk) \in Products \cup {None}
      BY DisplayNameType
    <2>2. QED
      BY <1>2, <1>3, <1>4, <2>1 DEF Launchers
  <1>11. ~routed => /\ at = url /\ product = url.product
                    /\ launcher.product = url.product /\ launcher.favorites = url.favorites
    <2>1. ~routed => /\ product = url.product
                     /\ launcher.product = url.product /\ launcher.favorites = url.favorites
      BY <1>1, <1>9 DEF FollowInv, HeardInv
    <2>2. url.product # None => url = ProductUrl(url.product, url.favorites)
      BY <1>1, TypeFacts, UrlParts
    <2>3. at = IF product = None THEN url ELSE ProductUrl(product, launcher.favorites)
      BY DEF at, ProductSelected
    <2>4. QED
      BY <2>1, <2>2, <2>3
  <1>12. NavigationTypeOK'
    <2>1. /\ component'.phase # "none" <=> current' = Launcher
          /\ view'.mounted <=> ShowsProduct(component')
      BY <1>2, <1>3, <1>8, <1>9
    <2>2. /\ current' \in Apps \cup {None} /\ title' \in Products \cup {None}
          /\ loads' \subseteq Apps /\ menu' \subseteq Apps \cup Products \cup {All}
          /\ wrapper' # "none" <=> current' \in DOMAIN Wrapped
          /\ wrapper' \in {"none", "loading", "groups error", "options error", "frame"}
          /\ routed' \in BOOLEAN /\ left' \in [Urls -> Nat]
      BY <1>1, <1>2, TypeFacts DEF NavigationTypeOK
    <2>3. QED
      BY <1>3, <1>5, <1>8, <1>10, <2>1, <2>2, TypeAgain
  <1>13. ChosenInv'
    <2>1. SUFFICES ASSUME "pulled" \notin marks' PROVE url' = chosen'
      BY DEF ChosenInv
    <2>2. url = chosen
      BY <1>1, <1>6, <1>8, <2>1 DEF ChosenInv
    <2>3. at = chosen
      BY <1>8, <1>9, <1>11, <2>1, <2>2
    <2>4. QED
      BY <1>8, <2>3
  <1>14. HeardInv'
    <2>1. SUFFICES ASSUME ~routed'
                   PROVE  /\ component'.product = url'.product
                          /\ launcher'.product = url'.product
                          /\ launcher'.favorites = url'.favorites
      BY DEF HeardInv
    <2>2. ~routed /\ url' = url
      BY <1>2, <2>1
    <2>3. QED
      BY <1>3, <1>8, <1>10, <1>11, <2>2
  <1>15. FavouritesInv'
    BY <1>7, <1>8 DEF FavouritesInv
  <1>16. NameInv'
    <2>1. SUFFICES ASSUME component'.groups, component'.product \in Products
                   PROVE  launcher'.displayName = component'.product
      BY DEF NameInv
    <2>2. groupsOk /\ product \in Products /\ product # None
      BY <1>3, <1>8, <2>1, NavigationAssumption
    <2>3. QED
      BY <1>3, <1>8, <1>10, <2>2, DisplayNameType
  <1>17. MenuInv'
    <2>1. component.phase # "ready" /\ component'.phase # "ready"
      BY <1>2, <1>3, <1>8
    <2>2. \A x \in {"late", "disturbed"} : x \in marks' <=> x \in marks
      BY <1>6, <1>8
    <2>3. QED
      BY <1>1, <1>2, <2>1, <2>2 DEF MenuInv
  <1>18. QED
    BY <1>12, <1>13, <1>14, <1>15, <1>16, <1>17 DEF NavigationInv, FollowInv

(* The component of the launcher is ready.                                 *)
LEMMA StatesArriveOK ==
    ASSUME NavigationInv, StatesArrive
    PROVE  NavigationInv'
  <1> DEFINE ready == [component EXCEPT !.phase = "ready"]
             m == marks \cup (IF loads = {} THEN {} ELSE {"late"})
  <1>1. NavigationTypeOK /\ ChosenInv /\ FollowInv /\ MenuInv
    BY DEF NavigationInv
  <1>2. /\ component.phase = "fetched"
        /\ menu' = LocalMenu(component.groups)
        /\ ShowChosen(ready, url, chosen, m)
        /\ routed' = (routed \/ url' # url)
        /\ UNCHANGED <<loads, current, title, launcher, wrapper, left>>
    BY DEF StatesArrive, Show
  <1>3. /\ ready \in Components /\ ready.product = component.product
        /\ ready.phase = "ready" /\ ready.groups = component.groups
    BY <1>1, TypeFacts DEF Components
  <1>4. /\ m \in SUBSET Marks
        /\ \A x \in Marks \ {"late"} : x \in m <=> x \in marks
        /\ "late" \notin m => loads = {}
    BY <1>1, TypeFacts DEF Marks
  <1>5. ~view.mounted
    BY <1>1, <1>2, TypeFacts DEF ShowsProduct
  <1> HIDE DEF ready, m
  <1>6. /\ component' = ready
        /\ view' \in Views /\ (view'.mounted <=> ShowsProduct(ready))
        /\ url' \in Urls /\ chosen' \in Urls /\ marks' \in SUBSET Marks
        /\ url' = url \/ (view'.favorites /\ url' = ProductUrl(component.product, TRUE))
        /\ "pulled" \notin marks' => "pulled" \notin m /\ SamePlace(url', url)
        /\ chosen' = IF chosen = url /\ SamePlace(url', url) THEN url' ELSE chosen
        /\ \A x \in {"missed", "late", "disturbed"} : x \in marks' <=> x \in m
        /\ ShowsProduct(ready) => view'.favorites = url.favorites
    BY <1>1, <1>2, <1>3, <1>4, <1>5, ShowOK, TypeFacts
  <1>7. NavigationTypeOK'
    <2>1. current = Launcher
      BY <1>1, <1>2, TypeFacts
    <2>2. /\ component'.phase # "none" <=> current' = Launcher
          /\ view'.mounted <=> ShowsProduct(component')
      BY <1>2, <1>3, <1>6, <2>1
    <2>3. /\ current' \in Apps \cup {None} /\ title' \in Products \cup {None}
          /\ loads' \subseteq Apps /\ menu' \subseteq Apps \cup Products \cup {All}
          /\ launcher' \in Launchers
          /\ wrapper' # "none" <=> current' \in DOMAIN Wrapped
          /\ wrapper' \in {"none", "loading", "groups error", "options error", "frame"}
          /\ routed' \in BOOLEAN /\ left' \in [Urls -> Nat]
      BY <1>1, <1>2, TypeFacts, LocalMenuType DEF NavigationTypeOK
    <2>4. QED
      BY <1>3, <1>6, <2>2, <2>3, TypeAgain
  <1>8. ChosenInv'
    <2>1. "pulled" \notin marks' => url = chosen /\ SamePlace(url', url)
      BY <1>1, <1>4, <1>6 DEF ChosenInv, Marks
    <2>2. QED
      BY <1>6, <2>1 DEF ChosenInv
  <1>9. HeardInv'
    <2>1. ~routed' => ~routed /\ url' = url
      BY <1>2
    <2>2. QED
      BY <1>1, <1>2, <1>3, <1>6, <2>1 DEF FollowInv, HeardInv
  <1>10. FavouritesInv'
    <2>1. SUFFICES ASSUME view'.mounted PROVE view'.favorites = url'.favorites
      BY DEF FavouritesInv
    <2>2. CASE url' = url
      BY <1>6, <2>1, <2>2
    <2>3. CASE view'.favorites /\ url' = ProductUrl(component.product, TRUE)
      <3>1. url'.favorites = TRUE /\ view'.favorites \in BOOLEAN
        BY <1>6, <2>3 DEF ProductUrl, Views
      <3>2. QED
        BY <2>3, <3>1
    <2>4. QED
      BY <1>6, <2>2, <2>3
  <1>11. NameInv'
    <2>1. SUFFICES ASSUME component'.groups, "missed" \notin marks',
                          component'.product \in Products
                   PROVE  launcher'.displayName = component'.product
      BY DEF NameInv
    <2>2. component.groups /\ "missed" \notin marks /\ component.product \in Products
      BY <1>3, <1>4, <1>6, <2>1 DEF Marks
    <2>3. QED
      BY <1>1, <1>2, <1>3, <1>6, <2>2 DEF FollowInv, NameInv
  <1>12. MenuInv'
    <2>1. /\ "disturbed" \in marks' <=> "disturbed" \in marks
          /\ "late" \notin marks' => loads = {}
      BY <1>4, <1>6 DEF Marks
    <2>2. component'.phase = "ready" /\ component'.groups = component.groups
      BY <1>3, <1>6
    <2>3. QED
      BY <1>1, <1>2, <2>1, <2>2 DEF MenuInv
  <1>13. QED
    BY <1>7, <1>8, <1>9, <1>10, <1>11, <1>12 DEF NavigationInv, FollowInv

(* The fetches of a launcher that was left: the url is pulled back.        *)
LEMMA LeftFetchesSettleOK ==
    ASSUME NavigationInv, NEW u \in Urls, LeftFetchesSettle(u)
    PROVE  NavigationInv'
  <1>1. NavigationTypeOK /\ ChosenInv /\ FollowInv /\ MenuInv
    BY DEF NavigationInv
  <1>2. /\ left[u] > 0 /\ left' = [left EXCEPT ![u] = @ - 1]
        /\ url' = u /\ routed' = (routed \/ u # url)
        /\ marks' = IF u = url THEN marks
                    ELSE marks \cup {"pulled"} \cup
                         (IF view.mounted /\ u.product # None /\ u.favorites # view.favorites
                          THEN {"outside"} ELSE {})
        /\ UNCHANGED <<loads, current, title, menu, launcher, component, view, wrapper, chosen>>
    BY DEF LeftFetchesSettle, OutsideMarks, appVars
  <1>0. left \in [Urls -> Nat] /\ routed \in BOOLEAN
    BY <1>1 DEF NavigationTypeOK
  <1>3. left' \in [Urls -> Nat]
    <2>1. left[u] \in Nat
      BY <1>0
    <2>2. left[u] - 1 \in Nat
      BY <1>2, <2>1
    <2>3. QED
      BY <1>0, <1>2, <2>2
  <1>4. CASE u = url
    <2>1. UNCHANGED <<url, marks>> /\ (routed' <=> routed)
      BY <1>2, <1>4
    <2>2. NavigationTypeOK'
      <3>1. url' \in Urls /\ marks' \in SUBSET Marks /\ routed' \in BOOLEAN
        BY <1>0, <1>1, <1>2, <2>1, TypeFacts
      <3>2. QED
        BY <1>1, <1>2, <1>3, <3>1 DEF NavigationTypeOK, ShowsProduct
    <2>3. ChosenInv' /\ FollowInv' /\ MenuInv'
      BY <1>1, <1>2, <2>1 DEF ChosenInv, FollowInv, HeardInv, FavouritesInv, NameInv, MenuInv
    <2>4. QED
      BY <2>2, <2>3 DEF NavigationInv
  <1>5. CASE u # url
    <2>1. /\ routed' = TRUE /\ "pulled" \in marks' /\ marks' \subseteq Marks
          /\ view.mounted /\ u.product # None /\ u.favorites # view.favorites =>
                "outside" \in marks'
          /\ \A x \in {"missed", "late", "disturbed"} : x \in marks' <=> x \in marks
      BY <1>1, <1>2, <1>5, TypeFacts DEF Marks
    <2>2. NavigationTypeOK'
      BY <1>1, <1>2, <1>3, <2>1 DEF NavigationTypeOK, ShowsProduct
    <2>3. ChosenInv' /\ HeardInv' /\ FavouritesInv'
      BY <1>2, <2>1 DEF ChosenInv, HeardInv, FavouritesInv
    <2>4. NameInv' /\ MenuInv'
      BY <1>1, <1>2, <2>1 DEF FollowInv, NameInv, MenuInv
    <2>5. QED
      BY <2>2, <2>3, <2>4 DEF NavigationInv, FollowInv
  <1>6. QED
    BY <1>4, <1>5

LEMMA WrapperSettlesOK ==
    ASSUME NavigationInv, NEW groupsOk \in BOOLEAN, WrapperSettles(groupsOk)
    PROVE  NavigationInv'
  <1>1. NavigationTypeOK /\ ChosenInv /\ FollowInv /\ MenuInv
    BY DEF NavigationInv
  <1>2. /\ wrapper = "loading" /\ wrapper' = WrapperContent(current, groupsOk)
        /\ UNCHANGED <<url, routed, loads, current, title, menu, launcher, component, view,
                       left, chosen, marks>>
    BY DEF WrapperSettles
  <1>3. wrapper' \in {"groups error", "options error", "frame"}
    BY <1>2 DEF WrapperContent
  <1>4. current \in DOMAIN Wrapped
    BY <1>1, <1>2, TypeFacts
  <1>5. wrapper' # "none" <=> current' \in DOMAIN Wrapped
    BY <1>2, <1>3, <1>4
  <1>6. NavigationTypeOK'
    BY <1>1, <1>2, <1>3, <1>5, TypeAgain, TypeFacts DEF NavigationTypeOK, ShowsProduct
  <1>7. ChosenInv' /\ FollowInv' /\ MenuInv'
    BY <1>1, <1>2 DEF ChosenInv, FollowInv, HeardInv, FavouritesInv, NameInv, MenuInv
  <1>8. QED
    BY <1>6, <1>7 DEF NavigationInv

--------------------------------------------------------------------------------
(* What the user does.                                                     *)
LEMMA VisitOK ==
    ASSUME NavigationInv, NEW u \in Urls, Visit(u)
    PROVE  NavigationInv'
  <1>1. NavigationTypeOK /\ ChosenInv /\ FollowInv /\ MenuInv
    BY DEF NavigationInv
  <1>2. /\ url' = u /\ routed' = TRUE /\ chosen' = u
        /\ marks' = (marks \ {"pulled"}) \cup
                (IF view.mounted /\ u.product # None /\ u.favorites # view.favorites
                 THEN {"outside"} ELSE {})
        /\ UNCHANGED <<loads, current, title, menu, launcher, component, view, wrapper, left>>
    BY DEF Visit, OutsideMarks, appVars
  <1>3. marks' \subseteq Marks
    BY <1>1, <1>2, TypeFacts DEF Marks
  <1>4. NavigationTypeOK'
    BY <1>1, <1>2, <1>3 DEF NavigationTypeOK, ShowsProduct
  <1>5. ChosenInv' /\ HeardInv'
    BY <1>2 DEF ChosenInv, HeardInv
  <1>6. FavouritesInv'
    <2>1. SUFFICES ASSUME view.mounted, "outside" \notin marks', u.product # None
                   PROVE  view.favorites = u.favorites
      BY <1>2 DEF FavouritesInv
    <2>2. QED
      BY <1>2, <2>1
  <1>7. \A x \in {"missed", "late", "disturbed"} : x \in marks' <=> x \in marks
    BY <1>2
  <1>8. NameInv' /\ MenuInv'
    BY <1>1, <1>2, <1>7 DEF FollowInv, NameInv, MenuInv
  <1>9. QED
    BY <1>4, <1>5, <1>6, <1>8 DEF NavigationInv, FollowInv

LEMMA FavoritesToggleOK ==
    ASSUME NavigationInv, FavoritesToggle
    PROVE  NavigationInv'
  <1> DEFINE favorites == ~view.favorites
             to == ProductUrl(component.product, favorites)
  <1>1. NavigationTypeOK /\ ChosenInv /\ FollowInv /\ MenuInv
    BY DEF NavigationInv
  <1>2. /\ view.mounted /\ view' = [view EXCEPT !.favorites = favorites]
        /\ url' = to /\ routed' = (routed \/ to # url) /\ chosen' = to
        /\ marks' = marks \ {"pulled", "outside"}
        /\ UNCHANGED <<loads, current, title, menu, launcher, component, wrapper, left>>
    BY DEF FavoritesToggle
  <1>3. component.product \in Products \cup {All}
    BY <1>1, <1>2, TypeFacts DEF ShowsProduct, Components, Selections
  <1>4. to \in Urls /\ to.favorites = favorites
    <2>1. favorites \in BOOLEAN
      OBVIOUS
    <2>2. \A product \in Products \cup {All} : \A f \in BOOLEAN : ProductUrl(product, f) \in Urls
      BY DEF Urls
    <2>3. to \in Urls
      BY <1>3, <2>1, <2>2
    <2>4. to.favorites = favorites
      BY DEF ProductUrl
    <2>5. QED
      BY <2>3, <2>4
  <1>5. view' \in Views /\ view'.mounted /\ view'.favorites = favorites
    BY <1>1, <1>2, TypeFacts DEF Views
  <1>6. NavigationTypeOK'
    <2>1. /\ component'.phase # "none" <=> current' = Launcher
          /\ view'.mounted <=> ShowsProduct(component')
      BY <1>1, <1>2, <1>5, TypeFacts DEF ShowsProduct
    <2>2. /\ current' \in Apps \cup {None} /\ title' \in Products \cup {None}
          /\ loads' \subseteq Apps /\ menu' \subseteq Apps \cup Products \cup {All}
          /\ launcher' \in Launchers /\ component' \in Components
          /\ marks' \in SUBSET Marks
          /\ wrapper' # "none" <=> current' \in DOMAIN Wrapped
          /\ wrapper' \in {"none", "loading", "groups error", "options error", "frame"}
          /\ routed' \in BOOLEAN /\ left' \in [Urls -> Nat]
      BY <1>1, <1>2, TypeFacts DEF NavigationTypeOK
    <2>3. QED
      BY <1>2, <1>4, <1>5, <2>1, <2>2, TypeAgain
  <1>7. ChosenInv'
    BY <1>2 DEF ChosenInv
  <1>8. HeardInv'
    <2>1. ~routed' => ~routed /\ url' = url
      BY <1>2
    <2>2. QED
      BY <1>1, <1>2, <2>1 DEF FollowInv, HeardInv
  <1>9. FavouritesInv'
    BY <1>2, <1>4, <1>5 DEF FavouritesInv
  <1>10. \A x \in {"missed", "late", "disturbed"} : x \in marks' <=> x \in marks
    BY <1>2
  <1>11. NameInv' /\ MenuInv'
    BY <1>1, <1>2, <1>10 DEF FollowInv, NameInv, MenuInv
  <1>12. QED
    BY <1>6, <1>7, <1>8, <1>9, <1>11 DEF NavigationInv, FollowInv

LEMMA ProductCardOK ==
    ASSUME NavigationInv, NEW product \in Products, ProductCardClick(product)
    PROVE  NavigationInv'
  <1> DEFINE to == ProductUrl(product, launcher.favorites)
             drawn == [component EXCEPT !.product = product]
             m == marks \ {"pulled", "missed", "outside"}
  <1>1. NavigationTypeOK /\ ChosenInv /\ FollowInv /\ MenuInv
    BY DEF NavigationInv
  <1>2. /\ component.phase = "ready" /\ component.product = None
        /\ launcher' = [launcher EXCEPT
              !.product = product, !.displayName = DisplayName(product, component.groups)]
        /\ ShowChosen(drawn, to, to, m)
        /\ routed' = (routed \/ url' # url)
        /\ UNCHANGED <<loads, current, title, menu, wrapper, left>>
    BY DEF ProductCardClick, ShowsProducts
  <1>3. product # None /\ product \in Selections
    BY NavigationAssumption DEF Selections
  <1>4. /\ launcher \in Launchers /\ launcher.favorites \in BOOLEAN
        /\ component.groups \in BOOLEAN
    BY <1>1, TypeFacts DEF Launchers, Components
  <1>5. to \in Urls /\ to.product = product /\ to.favorites = launcher.favorites
    BY <1>4 DEF Urls, ProductUrl
  <1>6. /\ drawn \in Components /\ drawn.product = product /\ drawn.phase = "ready"
        /\ drawn.groups = component.groups
    BY <1>1, <1>2, <1>3, TypeFacts, ComponentShows
  <1>7. /\ m \in SUBSET Marks
        /\ \A x \in {"late", "disturbed"} : x \in m <=> x \in marks
    BY <1>1, TypeFacts
  <1>8. ~view.mounted
    BY <1>1, <1>2, TypeFacts DEF ShowsProduct
  <1> HIDE DEF to, drawn, m
  <1>9. /\ component' = drawn
        /\ view' \in Views /\ (view'.mounted <=> ShowsProduct(drawn))
        /\ url' \in Urls /\ chosen' \in Urls /\ marks' \in SUBSET Marks
        /\ url' = to \/ (view'.favorites /\ url' = ProductUrl(product, TRUE))
        /\ "pulled" \notin marks' => SamePlace(url', to)
        /\ chosen' = IF to = to /\ SamePlace(url', to) THEN url' ELSE to
        /\ \A x \in {"missed", "late", "disturbed"} : x \in marks' <=> x \in m
        /\ ShowsProduct(drawn) => view'.favorites = to.favorites
    BY <1>1, <1>2, <1>5, <1>6, <1>7, <1>8, ShowOK, TypeFacts
  <1>10. /\ launcher' \in Launchers
         /\ launcher'.displayName = DisplayName(product, component.groups)
    <2>1. DisplayName(product, component.groups) \in Products \cup {None}
      BY <1>4, DisplayNameType
    <2>2. QED
      BY <1>2, <1>3, <1>4, <2>1 DEF Launchers
  <1>11. current = Launcher
    BY <1>1, <1>2, TypeFacts
  <1>12. NavigationTypeOK'
    <2>1. /\ component'.phase # "none" <=> current' = Launcher
          /\ view'.mounted <=> ShowsProduct(component')
      BY <1>2, <1>6, <1>9, <1>11
    <2>2. /\ current' \in Apps \cup {None} /\ title' \in Products \cup {None}
          /\ loads' \subseteq Apps /\ menu' \subseteq Apps \cup Products \cup {All}
          /\ wrapper' # "none" <=> current' \in DOMAIN Wrapped
          /\ wrapper' \in {"none", "loading", "groups error", "options error", "frame"}
          /\ routed' \in BOOLEAN /\ left' \in [Urls -> Nat]
      BY <1>1, <1>2, TypeFacts DEF NavigationTypeOK
    <2>3. QED
      BY <1>6, <1>9, <1>10, <2>1, <2>2, TypeAgain
  <1>13. ChosenInv'
    BY <1>9 DEF ChosenInv
  <1>14. HeardInv'
    <2>1. url'.product = product
      BY <1>5, <1>9 DEF ProductUrl
    <2>2. ~routed' => ~routed /\ url' = url
      BY <1>2
    <2>3. ~routed => url.product = None
      BY <1>1, <1>2, <1>11 DEF FollowInv, HeardInv
    <2>4. routed'
      BY <1>3, <2>1, <2>2, <2>3
    <2>5. QED
      BY <2>4 DEF HeardInv
  <1>15. FavouritesInv'
    <2>1. SUFFICES ASSUME view'.mounted PROVE view'.favorites = url'.favorites
      BY DEF FavouritesInv
    <2>2. CASE url' = to
      BY <1>9, <2>1, <2>2
    <2>3. CASE view'.favorites /\ url' = ProductUrl(product, TRUE)
      <3>1. url'.favorites = TRUE /\ view'.favorites \in BOOLEAN
        BY <1>9, <2>3 DEF ProductUrl, Views
      <3>2. QED
        BY <2>3, <3>1
    <2>4. QED
      BY <1>9, <2>2, <2>3
  <1>16. NameInv'
    <2>1. SUFFICES ASSUME component'.groups PROVE launcher'.displayName = component'.product
      BY DEF NameInv
    <2>2. QED
      BY <1>4, <1>6, <1>9, <1>10, <2>1, DisplayNameType
  <1>17. MenuInv'
    <2>1. \A x \in {"late", "disturbed"} : x \in marks' <=> x \in marks
      BY <1>7, <1>9
    <2>2. component'.phase = component.phase /\ component'.groups = component.groups
      BY <1>2, <1>6, <1>9
    <2>3. QED
      BY <1>1, <1>2, <2>1, <2>2 DEF MenuInv
  <1>18. QED
    BY <1>12, <1>13, <1>14, <1>15, <1>16, <1>17 DEF NavigationInv, FollowInv

(* A page as it is loaded.                                                 *)
FreshPage ==
    /\ url \in Urls /\ routed = FALSE /\ loads = {} /\ current = None /\ title = None
    /\ menu = {} /\ launcher = NoLauncher /\ component = NoComponent /\ view = NoView
    /\ wrapper = "none" /\ left = NoneLeft /\ chosen = url /\ marks = {}

LEMMA FreshPageOK == FreshPage => NavigationInv
  <1> SUFFICES ASSUME FreshPage PROVE NavigationInv
    OBVIOUS
  <1> USE DEF FreshPage
  <1>1. NavigationTypeOK
    <2>1. component.phase = "none" /\ current # Launcher /\ ~view.mounted
      BY LauncherIsApp DEF NoComponent, NoView
    <2>2. (component.phase # "none") = (current = Launcher)
      BY <2>1
    <2>3. view.mounted = ShowsProduct(component)
      BY DEF ShowsProduct, NoComponent, NoView
    <2>4. (wrapper # "none") = (current \in DOMAIN Wrapped)
      BY LauncherIsApp
    <2>5. left \in [Urls -> Nat]
      BY DEF NoneLeft
    <2>6. QED
      BY <2>2, <2>3, <2>4, <2>5 DEF NavigationTypeOK, NoLauncher, NoComponent, NoView, Selections
  <1>2. ChosenInv /\ HeardInv /\ FavouritesInv /\ NameInv /\ MenuInv
    BY LauncherIsApp DEF ChosenInv, HeardInv, FavouritesInv, NameInv, MenuInv,
                         NoComponent, NoView
  <1>3. QED
    BY <1>1, <1>2 DEF NavigationInv, FollowInv

LEMMA SameNavigation ==
    ASSUME NavigationInv, UNCHANGED navVars
    PROVE  NavigationInv'
  <1>1. NavigationTypeOK /\ ChosenInv /\ FollowInv /\ MenuInv
    BY DEF NavigationInv
  <1>2. NavigationTypeOK'
    <2>1. UNCHANGED <<url, routed, loads, current, title, menu, launcher, component, view,
                      wrapper, left, chosen, marks>>
      BY DEF navVars
    <2>2. view'.mounted <=> ShowsProduct(component')
      BY <1>1, <2>1, TypeFacts DEF ShowsProduct
    <2>3. /\ routed \in BOOLEAN
          /\ wrapper \in {"none", "loading", "groups error", "options error", "frame"}
      BY <1>1 DEF NavigationTypeOK
    <2>4. QED
      BY <1>1, <2>1, <2>2, <2>3, TypeAgain, TypeFacts
  <1>3. ChosenInv' /\ FollowInv' /\ MenuInv'
    BY <1>1 DEF ChosenInv, FollowInv, HeardInv, FavouritesInv, NameInv, MenuInv, navVars
  <1>4. QED
    BY <1>2, <1>3 DEF NavigationInv

--------------------------------------------------------------------------------
(* The urls that the portal itself makes.                                  *)
LEMMA MadeUrls ==
    /\ \A app \in Apps : AppUrl(app) \in Urls
    /\ \A product \in Products \cup {All} : \A f \in BOOLEAN : ProductUrl(product, f) \in Urls
    /\ AppUrl(Launcher) \in Urls /\ TRUE \in BOOLEAN /\ FALSE \in BOOLEAN
  BY LauncherIsApp DEF Urls

LEMMA UserChoicesOK ==
    ASSUME NavigationInv, UserChoices
    PROVE  NavigationInv'
  <1>1. NavigationTypeOK
    BY DEF NavigationInv
  <1>2. CASE \E u \in Bookmarks : Visit(u)
    BY <1>2, VisitOK, NavigationAssumption
  <1>3. CASE TitleClick
    <2>1. title # None => ProductUrl(title, FALSE) \in Urls
      BY <1>1, TypeFacts, MadeUrls
    <2>2. QED
      BY <1>3, <2>1, MadeUrls, VisitOK DEF TitleClick
  <1>4. CASE CrumbClick
    BY <1>4, MadeUrls, VisitOK DEF CrumbClick
  <1>5. CASE FavoritesToggle
    BY <1>5, FavoritesToggleOK
  <1>6. CASE \E item \in menu \ {SessionExpiration} : MenuItemClick(item)
    <2>1. PICK item \in menu :
              Visit(IF item \in Apps THEN AppUrl(item) ELSE ProductUrl(item, FALSE))
      BY <1>6 DEF MenuItemClick
    <2>2. item \notin Apps => item \in Products \cup {All}
      BY <1>1, TypeFacts
    <2>3. QED
      BY <2>1, <2>2, MadeUrls, VisitOK
  <1>7. CASE \E favorites \in BOOLEAN : ViewAllClick(favorites)
    BY <1>7, MadeUrls, VisitOK DEF ViewAllClick
  <1>8. CASE \E product \in Products : ProductCardClick(product)
    BY <1>8, ProductCardOK
  <1>9. CASE \E item \in SearchItems : SearchSelection(item)
    <2>1. PICK item \in Apps \cup Products :
              Visit(IF item \in Products THEN ProductUrl(item, FALSE) ELSE AppUrl(item))
      BY <1>9 DEF SearchItems, SearchSelection
    <2>2. QED
      BY <2>1, MadeUrls, VisitOK
  <1>10. QED
    BY <1>2, <1>3, <1>4, <1>5, <1>6, <1>7, <1>8, <1>9 DEF UserChoices

LEMMA SessionUrlsOK ==
    ASSUME NavigationInv, SessionExpires \/ OpenUserAccountEditor
    PROVE  NavigationInv'
  <1>1. AppUrl(SessionExpiration) \in Urls
    BY PortalAssumption, MadeUrls
  <1>2. UserAccount # None => AppUrl(UserAccount) \in Urls
    BY PortalAssumption, MadeUrls
  <1>3. QED
    BY <1>1, <1>2, VisitOK DEF SessionExpires, ToSessionExpiration, OpenUserAccountEditor

LEMMA NewPageFresh ==
    ASSUME NavigationInv, NEW to \in {url, AppUrl(Launcher)}, NewPage(to)
    PROVE  NavigationInv'
  <1>1. url \in Urls
    BY TypeFacts DEF NavigationInv
  <1>2. FreshPage'
    BY <1>1, MadeUrls DEF NewPage, FreshPage
  <1>3. QED
    BY <1>2, FreshPageOK, PTL

--------------------------------------------------------------------------------
(* The flyout beside the page.                                             *)
FlyoutInv ==
    /\ flyout \in Flyouts
    /\ flyout.view.mounted <=> flyout.product # None
    /\ flyout.view.mounted => flyout.phase = "ready" /\ ~flyout.error

LEMMA FlyoutFresh ==
    ASSUME NEW phase \in {"none", "loading"}, flyout' = FlyoutInit(phase)
    PROVE  FlyoutInv'
  BY DEF FlyoutInit, FlyoutInv, Flyouts, NoView, Selections

LEMMA FlyoutStepsOK ==
    ASSUME NavigationInv, FlyoutInv,
           \/ \E appsOk, groupsOk \in BOOLEAN : FlyoutFetchesSettle(appsOk, groupsOk)
           \/ FlyoutStatesArrive \/ FlyoutChoices
           \/ flyout' = FlyoutAfterLocationChange
           \/ UNCHANGED flyoutVars
    PROVE  FlyoutInv'
  <1> USE DEF FlyoutInv, Flyouts
  <1>1. CASE \E appsOk, groupsOk \in BOOLEAN : FlyoutFetchesSettle(appsOk, groupsOk)
    BY <1>1 DEF FlyoutFetchesSettle
  <1>2. CASE FlyoutStatesArrive
    BY <1>2 DEF FlyoutStatesArrive
  <1>3. CASE ToggleFlyoutPanel
    BY <1>3 DEF ToggleFlyoutPanel
  <1>4. CASE FlyoutBack
    BY <1>4 DEF FlyoutBack, NoView, Selections
  <1>5. CASE FlyoutFavoritesToggle
    BY <1>5 DEF FlyoutFavoritesToggle
  <1>6. CASE \E product \in Products : FlyoutProductClick(product)
    <2>1. PICK product \in Products : FlyoutProductClick(product)
      BY <1>6
    <2>2. url.favorites \in BOOLEAN /\ product # None /\ product \in Selections
      BY TypeFacts, UrlParts, NavigationAssumption DEF NavigationInv, Selections
    <2>3. QED
      BY <2>1, <2>2 DEF FlyoutProductClick, FlyoutUsable
  <1>7. CASE (\E u \in Urls : FlyoutGoTo(u)) \/ UNCHANGED flyoutVars
    BY <1>7 DEF FlyoutGoTo, flyoutVars
  <1>8. CASE flyout' = FlyoutAfterLocationChange
    BY <1>8 DEF FlyoutAfterLocationChange
  <1>9. QED
    BY <1>1, <1>2, <1>3, <1>4, <1>5, <1>6, <1>7, <1>8 DEF FlyoutChoices

(* What the flyout does to the page.                                       *)
LEMMA FlyoutMovesPage ==
    ASSUME NavigationInv, FlyoutInv, FlyoutChoices
    PROVE  NavigationInv'
  <1>1. CASE ToggleFlyoutPanel \/ FlyoutBack
    BY <1>1, SameNavigation DEF ToggleFlyoutPanel, FlyoutBack
  <1>2. CASE FlyoutFavoritesToggle
    <2> DEFINE to == ProductUrl(flyout.product, ~flyout.view.favorites)
    <2>1. flyout.view.mounted /\ (Visit(to) \/ UNCHANGED navVars)
      BY <1>2 DEF FlyoutFavoritesToggle
    <2>2. flyout.product \in Products \cup {All}
      BY <2>1 DEF FlyoutInv, Flyouts, Selections
    <2>3. (~flyout.view.favorites) \in BOOLEAN
      OBVIOUS
    <2>4. to \in Urls
      BY <2>2, <2>3, MadeUrls
    <2>5. QED
      BY <2>1, <2>4, VisitOK, SameNavigation
  <1>3. CASE \E product \in Products : FlyoutProductClick(product)
    <2>1. PICK product \in Products : Visit(ProductUrl(product, TRUE)) \/ UNCHANGED navVars
      BY <1>3 DEF FlyoutProductClick
    <2>2. QED
      BY <2>1, MadeUrls, VisitOK, SameNavigation
  <1>4. CASE \E u \in Urls : FlyoutGoTo(u)
    BY <1>4, VisitOK DEF FlyoutGoTo, FlyoutVisit
  <1>5. QED
    BY <1>1, <1>2, <1>3, <1>4 DEF FlyoutChoices

--------------------------------------------------------------------------------
PageInv == NavigationInv /\ FlyoutInv /\ budget \in Bounds

LEMMA PageInitOK == Init => PageInv
  <1> SUFFICES ASSUME Init PROVE PageInv
    OBVIOUS
  <1>1. FreshPage
    BY NavigationAssumption DEF Init, NavigationInit, FreshPage
  <1>2. PICK phase \in {"none", "loading"} : flyout = FlyoutInit(phase)
    BY DEF Init, NewFlyout
  <1>3. FlyoutInv
    BY <1>2 DEF FlyoutInit, FlyoutInv, Flyouts, NoView, Selections
  <1>4. budget \in Bounds
    BY PortalAssumption DEF Init
  <1>5. QED
    BY <1>1, <1>3, <1>4, FreshPageOK DEF PageInv

(* Events and failures count down.                                         *)
LEMMA BudgetOK ==
    ASSUME budget \in Bounds,
           \/ SessionEvent \/ NavigationEvent \/ FlyoutEvent \/ (\E ok \in BOOLEAN : Failing(ok))
           \/ UNCHANGED budget
    PROVE  budget' \in Bounds
  BY DEF Bounds, SessionEvent, NavigationEvent, FlyoutEvent, Failing

(* What goes on by itself in the page.                                     *)
LEMMA PageStepFollows ==
    ASSUME PageInv, PageStep
    PROVE  PageInv'
  <1>0. NavigationInv /\ FlyoutInv /\ budget \in Bounds
    BY DEF PageInv
  <1>1. CASE Authenticate \/ Theme \/ StoreTheme \/ PanelReads \/ NoticeReads
    <2>1. UNCHANGED navVars /\ UNCHANGED flyoutVars /\ UNCHANGED budget
      BY <1>1 DEF Authenticate, Theme, StoreTheme, PanelReads, NoticeReads, OnlySession, pageVars
    <2>2. QED
      BY <1>0, <2>1, SameNavigation, FlyoutStepsOK DEF PageInv
  <1>2. CASE ContainerLoads
    <2>1. FirstLoad /\ UNCHANGED flyoutVars /\ UNCHANGED budget
      BY <1>2 DEF ContainerLoads, OnlyNavigation, OnlyPage
    <2>2. QED
      BY <1>0, <2>1, FirstLoadOK, FlyoutStepsOK DEF PageInv
  <1>3. CASE \E ok \in BOOLEAN : LoadsEnd(ok)
    <2>1. PICK app \in Apps, ok \in BOOLEAN :
              GroupsAnswered(app, ok) /\ Failing(ok) /\ UNCHANGED flyoutVars
      BY <1>3 DEF LoadsEnd
    <2>2. QED
      BY <1>0, <2>1, GroupsAnsweredOK, FlyoutStepsOK, BudgetOK DEF PageInv
  <1>4. CASE FetchesEnd
    <2>1. PICK appsOk \in BOOLEAN, groupsOk \in BOOLEAN :
              /\ FetchesSettle(appsOk, groupsOk) /\ Failing(appsOk /\ groupsOk)
              /\ UNCHANGED flyoutVars
      BY <1>4 DEF FetchesEnd
    <2>2. (appsOk /\ groupsOk) \in BOOLEAN
      OBVIOUS
    <2>3. \E ok \in BOOLEAN : Failing(ok)
      BY <2>1, <2>2
    <2>4. QED
      BY <1>0, <2>1, <2>3, FetchesSettleOK, FlyoutStepsOK, BudgetOK DEF PageInv
  <1>5. CASE ComponentReady
    <2>1. StatesArrive /\ UNCHANGED flyoutVars /\ UNCHANGED budget
      BY <1>5 DEF ComponentReady, OnlyNavigation, OnlyPage
    <2>2. QED
      BY <1>0, <2>1, StatesArriveOK, FlyoutStepsOK DEF PageInv
  <1>6. CASE RouteAnnounced
    <2>1. RouteChanges /\ flyout' = FlyoutAfterLocationChange /\ UNCHANGED budget
      BY <1>6 DEF RouteAnnounced, LocationChanges, OnlyPage
    <2>2. QED
      BY <1>0, <2>1, RouteChangesOK, FlyoutStepsOK DEF PageInv
  <1>7. CASE \E ok \in BOOLEAN : WrapperLoads(ok)
    <2>1. PICK ok \in BOOLEAN : WrapperSettles(ok) /\ Failing(ok) /\ UNCHANGED flyoutVars
      BY <1>7 DEF WrapperLoads
    <2>2. QED
      BY <1>0, <2>1, WrapperSettlesOK, FlyoutStepsOK, BudgetOK DEF PageInv
  <1>8. CASE FlyoutFetchesEnd
    <2>1. PICK appsOk \in BOOLEAN, groupsOk \in BOOLEAN :
              FlyoutFetchesSettle(appsOk, groupsOk) /\ Failing(appsOk /\ groupsOk)
      BY <1>8 DEF FlyoutFetchesEnd
    <2>2. (appsOk /\ groupsOk) \in BOOLEAN
      OBVIOUS
    <2>3. (\E ok \in BOOLEAN : Failing(ok)) /\ UNCHANGED navVars
      BY <2>1, <2>2 DEF FlyoutFetchesSettle
    <2>4. QED
      BY <1>0, <2>1, <2>3, SameNavigation, FlyoutStepsOK, BudgetOK DEF PageInv
  <1>9. CASE FlyoutReady
    <2>1. FlyoutStatesArrive /\ UNCHANGED navVars /\ UNCHANGED budget
      BY <1>9 DEF FlyoutReady, FlyoutStatesArrive, OnlyPage
    <2>2. QED
      BY <1>0, <2>1, SameNavigation, FlyoutStepsOK DEF PageInv
  <1>10. CASE LeftFetchesEnd
    <2>1. PICK u \in Urls : LeftFetchesSettle(u) /\ UNCHANGED flyoutVars /\ UNCHANGED budget
      BY <1>10 DEF LeftFetchesEnd, OnlyNavigation, OnlyPage
    <2>2. QED
      BY <1>0, <2>1, LeftFetchesSettleOK, FlyoutStepsOK DEF PageInv
  <1>11. QED
    BY <1>1, <1>2, <1>3, <1>4, <1>5, <1>6, <1>7, <1>8, <1>9, <1>10 DEF PageStep

LEMMA FollowStepOK ==
    ASSUME PageInv, [Next]_vars
    PROVE  PageInv'
  <1>0. NavigationInv /\ FlyoutInv /\ budget \in Bounds
    BY DEF PageInv
  <1>1. CASE PageStep
    BY <1>1, PageStepFollows
  <1>2. CASE NavigationEvent /\ UserChoices /\ UNCHANGED <<sessionVars, flyoutVars>>
    BY <1>0, <1>2, UserChoicesOK, FlyoutStepsOK, BudgetOK DEF PageInv
  <1>3. CASE FlyoutEvent /\ FlyoutChoices /\ UNCHANGED sessionVars
    BY <1>0, <1>3, FlyoutMovesPage, FlyoutStepsOK, BudgetOK DEF PageInv
  <1>4. CASE /\ SessionEvent /\ (SessionExpires \/ OpenUserAccountEditor)
             /\ UNCHANGED <<sessionVars, flyoutVars>>
    BY <1>0, <1>4, SessionUrlsOK, FlyoutStepsOK, BudgetOK DEF PageInv
  <1>5. CASE SessionEvent /\ UNCHANGED pageVars
    <2>1. UNCHANGED navVars /\ UNCHANGED flyoutVars
      BY <1>5 DEF pageVars
    <2>2. QED
      BY <1>0, <1>5, <2>1, SameNavigation, FlyoutStepsOK, BudgetOK DEF PageInv
  <1>6. CASE SessionEvent /\ (Reload \/ SignOut)
    <2>1. PICK to \in {url, AppUrl(Launcher)} : NewPage(to)
      BY <1>6 DEF Reload, SignOut
    <2>2. flyout' = FlyoutInit("none") \/ flyout' = FlyoutInit("loading")
      BY <2>1 DEF NewPage, NewFlyout
    <2>3. QED
      BY <1>0, <1>6, <2>1, <2>2, NewPageFresh, FlyoutFresh, BudgetOK DEF PageInv
  <1>7. CASE UNCHANGED vars
    <2>1. UNCHANGED navVars /\ UNCHANGED flyoutVars /\ UNCHANGED budget
      BY <1>7 DEF vars, pageVars
    <2>2. QED
      BY <1>0, <2>1, SameNavigation, FlyoutStepsOK DEF PageInv
  <1>8. QED
    BY <1>1, <1>2, <1>3, <1>4, <1>5, <1>6, <1>7 DEF Next

(* The invariant of what a tab shows.                                      *)
THEOREM PageInvariant == Spec => []PageInv
  <1>1. PageInv /\ [Next]_vars => PageInv'
    BY FollowStepOK
  <1>2. QED
    BY PageInitOK, <1>1, PTL DEF Spec

(* The types of the whole tab, under any number of events.                 *)
THEOREM TypeCorrect == Spec => []TypeOK
  <1>1. IInv /\ PageInv => TypeOK
    <2> SUFFICES ASSUME IInv, PageInv PROVE TypeOK
      OBVIOUS
    <2>1. SessionTypeOK /\ (current # None => Loaded)
      BY DEF IInv, SessionInv, LoadInv
    <2>2. NavigationTypeOK /\ budget \in Bounds
      BY DEF PageInv, NavigationInv
    <2>3. flyout.view.mounted = (flyout.product # None)
      <3>1. flyout.view.mounted \in BOOLEAN
        BY DEF PageInv, FlyoutInv, Flyouts
      <3>2. flyout.view.mounted <=> flyout.product # None
        BY DEF PageInv, FlyoutInv
      <3>3. QED
        BY <3>1, <3>2
    <2>4. FlyoutTypeOK
      BY <2>3 DEF FlyoutTypeOK, PageInv, FlyoutInv
    <2>5. QED
      BY <2>1, <2>2, <2>4 DEF TypeOK
  <1>2. QED
    BY Invariant, PageInvariant, <1>1, PTL

(* Once nothing of it is under way, the page is where the user went last,  *)
(* and a ready launcher shows the product, the favourites and the name     *)
(* that the url says: for any apps, groups and urls, and any number of     *)
(* events that come while requests, hooks and routes are under way.        *)
THEOREM LauncherFollowsUrl == Spec => []ViewFollowsUrl
  <1>1. PageInv => ViewFollowsUrl
    <2> SUFFICES ASSUME PageInv, Settled PROVE ViewFollowsUrl
      BY DEF ViewFollowsUrl
    <2>1. /\ NavigationTypeOK /\ ChosenInv /\ HeardInv /\ FavouritesInv /\ NameInv
      BY DEF PageInv, NavigationInv, FollowInv
    <2>2. "pulled" \notin marks => url = chosen
      BY <2>1 DEF ChosenInv
    <2>3. ASSUME component.phase = "ready"
          PROVE  /\ component.product = url.product /\ launcher.product = url.product
                 /\ view.mounted /\ "outside" \notin marks => view.favorites = url.favorites
                 /\ component.groups /\ "missed" \notin marks =>
                       ContextualTitle(launcher) = IF url.product = None THEN Launcher ELSE url.product
      <3>1. current = Launcher /\ ~routed
        BY <2>1, <2>3, TypeFacts DEF Settled
      <3>2. component.product = url.product /\ launcher.product = url.product
        BY <2>1, <3>1 DEF HeardInv
      <3>3. view.mounted /\ "outside" \notin marks => view.favorites = url.favorites
        BY <2>1, <3>2, TypeFacts DEF FavouritesInv, ShowsProduct
      <3>4. ASSUME component.groups, "missed" \notin marks
            PROVE  ContextualTitle(launcher) = IF url.product = None THEN Launcher ELSE url.product
        <4>1. url.product \in Products => launcher.displayName = url.product
          BY <2>1, <2>3, <3>2, <3>4 DEF NameInv
        <4>2. url.product \in Products \cup {All, None}
          BY <2>1, TypeFacts, UrlParts DEF Selections
        <4>3. All # None /\ All \notin Products
          BY NavigationAssumption
        <4>4. QED
          BY <3>2, <4>1, <4>2, <4>3 DEF ContextualTitle
      <3>5. QED
        BY <3>2, <3>3, <3>4
    <2>4. QED
      BY <2>2, <2>3 DEF ViewFollowsUrl
  <1>2. QED
    BY PageInvariant, <1>1, PTL

(* While apps load one at a time and their groups are answered, the title  *)
(* names the first product of the root of the tree that the app shown is   *)
(* in, and the menu is this tree or the local menu of a ready launcher:    *)
(* whenever every app is in its own tree, which is computed by recursion.  *)
THEOREM NavigationShows ==
    ASSUME \A app \in Apps : app \in AppTree[app]
    PROVE  Spec => []NavigationShowsApp
  <1>1. PageInv => NavigationShowsApp
    <2> SUFFICES ASSUME PageInv, Settled, "disturbed" \notin marks
                 PROVE  /\ title = ProductOf[current]
                        /\ "late" \notin marks =>
                              /\ current \in menu
                              /\ menu = IF component.phase = "ready"
                                        THEN LocalMenu(component.groups) ELSE AppTree[current]
      BY DEF NavigationShowsApp
    <2>1. NavigationTypeOK /\ MenuInv
      BY DEF PageInv, NavigationInv
    <2>2. loads = {} /\ current \in Apps /\ current # None
      BY <2>1, TypeFacts, UrlParts, LauncherIsApp DEF Settled
    <2>3. /\ title = ProductOf[current]
          /\ "late" \notin marks =>
                menu = IF component.phase = "ready" THEN LocalMenu(component.groups)
                       ELSE AppTree[current]
      BY <2>1, <2>2 DEF MenuInv
    <2>4. component.phase = "ready" => current \in LocalMenu(component.groups)
      BY <2>1, TypeFacts DEF LocalMenu
    <2>5. current \in AppTree[current]
      BY <2>2
    <2>6. QED
      BY <2>3, <2>4, <2>5
  <1>2. QED
    BY PageInvariant, <1>1, PTL
================================================================================
