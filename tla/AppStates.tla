------------------------------- MODULE AppStates -------------------------------
(***************************************************************************)
(* The app states of one user (favourites and the times apps were last     *)
(* opened) between the places that change them and a launcher that shows   *)
(* them: handleAppStateChange of frontend/src/utils/appUtils.js, the       *)
(* appstate plugin, and the loading, the broadcast listener and the        *)
(* rendering of frontend/src/components/launcher-component.                *)
(*                                                                         *)
(* handleAppStateChange runs in every tab of the user and reads all app    *)
(* states, awaits the answer, and writes them all back.  The settings      *)
(* storage behind the ui-settings plugin is external: a read answers with  *)
(* what is stored at one moment, and a write stores and posts the new      *)
(* value on the channel, whose messages arrive in the order of the writes. *)
(***************************************************************************)
EXTENDS Launcher, FiniteSets

CONSTANTS
    AppNames,
    Changes,    \* bound: the events the user causes
    ChangeOf,   \* event -> [app, property, value]; for an opening no value counts
    AppLists,   \* what the backend may list
    Groups,     \* the groups it lists
    GroupNames, \* what an app may name as its groups
    Segments,   \* the segments of the routes
    NoStates    \* an appState that is undefined

\* What can be stored.
States == [AppNames -> [isFavorite : BOOLEAN, lastOpened : Nat]]

\* An app as the backend lists it or a render leaves it.
AppType ==
    [name : AppNames, childNames : Seq(AppNames), hidden : BOOLEAN, route : Seq(Segments),
     groups : SUBSET GroupNames, isChild : BOOLEAN, isFavorite : BOOLEAN]

(* The backend lists an app name once; "only one deep hierarchy is         *)
(* supported" (test specification).                                        *)
IsAppList(list) ==
    /\ list \in Seq(AppType)
    /\ \A i, j \in DOMAIN list : list[i].name = list[j].name => i = j
    /\ \A child, parent \in ToSet(list) :
        child.name \in ToSet(parent.childNames) => child.childNames = <<>>

ASSUME AppStatesAssumption ==
    /\ IsFiniteSet(AppNames)
    /\ \A c \in Changes :
        /\ ChangeOf[c].app \in AppNames
        /\ \/ ChangeOf[c].property = "isFavorite" /\ ChangeOf[c].value \in BOOLEAN
           \/ ChangeOf[c].property = "lastOpened"
    /\ NoStates \notin States
    /\ Undefined \in Segments
    /\ \A list \in AppLists :
        IsAppList(list) /\ \A app \in ToSet(list) : ~app.isChild /\ ~app.isFavorite

(* Everything that is shown has its place in the order of the texts.  The  *)
(* backend lists a group name once (ConfigMerge), and no group takes the   *)
(* name of the 'All Apps' view or of a heading the view has of its own.    *)
ASSUME ViewsAssumption ==
    /\ Collation \in Seq(ToSet(Collation))
    /\ \A i, j \in DOMAIN Collation : Collation[i] = Collation[j] => i = j
    /\ AppNames \cup {Initial[name] : name \in AppNames} \cup {g.name : g \in Groups}
            \subseteq ToSet(Collation)
    /\ \A g, h \in Groups : g.name = h.name => g = h
    /\ \A g \in Groups : g.name \notin {Others, ""} /\ AllApps \notin g.groups

VARIABLES
    stored,    \* the setting appStates of the user
    clock,     \* the openings so far: the time of the next one
    changes,   \* event -> [status, time, states]: when it came, what it has read
    log,       \* history: the events written, in that order
    overlaps,  \* history: the events between whose read and write another one was under way
    metadata,  \* the app list of the backend
    phase,     \* the launcher: closed, fetching, waiting, answered or ready
    apps,      \* its app list, as the last render left it
    appState,  \* the states it shows
    answer,    \* the answer to its read of the states, on the way
    channel,   \* the messages on the way to it
    overtaken  \* history: a message has arrived before an older answer

storeVars == <<stored, clock, changes, log, overlaps>>
viewVars  == <<phase, apps, appState, answer, overtaken>>
vars == <<storeVars, viewVars, metadata, channel>>

Empty == [name \in AppNames |-> NoState]

Init ==
    /\ stored = Empty
    /\ clock = 1
    /\ changes = [c \in Changes |-> [status |-> "none", time |-> 0, states |-> NoStates]]
    /\ log = <<>>
    /\ overlaps = {}
    /\ metadata \in AppLists
    /\ phase = "closed"
    /\ apps = <<>>
    /\ appState = NoStates
    /\ answer = NoStates
    /\ channel = <<>>
    /\ overtaken = FALSE

--------------------------------------------------------------------------------
(* handleAppStateChange: the event, the read, the write.                   *)
IsOpening(c) == ChangeOf[c].property = "lastOpened"

\* What the event changes the property to: an opening carries its time.
NewValue(c) == IF IsOpening(c) THEN changes[c].time ELSE ChangeOf[c].value

AppStatusChange(c) ==
    /\ changes[c].status = "none"
    /\ changes' = [changes EXCEPT ![c].status = "fired",
                                  ![c].time = IF IsOpening(c) THEN clock ELSE @]
    /\ clock' = IF IsOpening(c) THEN clock + 1 ELSE clock
    /\ UNCHANGED <<stored, log, overlaps, viewVars, metadata, channel>>

UnderWay == {c \in Changes : changes[c].status = "read"}

\* Mutant: a change that was written is carried out once more.
ReadStatesAgain(c) ==
    /\ changes[c].status \in {"fired", "written"}
    /\ changes' = [changes EXCEPT ![c].status = "read", ![c].states = stored]
    /\ overlaps' = overlaps \cup UnderWay \cup (IF UnderWay = {} THEN {} ELSE {c})
    /\ UNCHANGED <<stored, clock, log, viewVars, metadata, channel>>

ReadStates(c) ==
    /\ changes[c].status = "fired"
    /\ changes' = [changes EXCEPT ![c].status = "read", ![c].states = stored]
    /\ overlaps' = overlaps \cup UnderWay \cup (IF UnderWay = {} THEN {} ELSE {c})
    /\ UNCHANGED <<stored, clock, log, viewVars, metadata, channel>>

\* Mutant: the other property of the app is not kept.
ReplaceAppState(states, c) ==
    [states EXCEPT ![ChangeOf[c].app] =
        [NoState EXCEPT ![ChangeOf[c].property] = NewValue(c)]]

UpdateAppState(states, c) ==
    [states EXCEPT ![ChangeOf[c].app][ChangeOf[c].property] = NewValue(c)]

\* Mutant: the listener is bound when the launcher is ready.
PostWhenReady(message) ==
    channel' = IF phase # "ready" THEN channel ELSE Append(channel, message)

\* A launcher listens from its construction on.
Post(message) ==
    channel' = IF phase = "closed" THEN channel ELSE Append(channel, message)

WriteStates(c) ==
    /\ changes[c].status = "read"
    /\ stored' = UpdateAppState(changes[c].states, c)
    /\ Post(stored')
    /\ changes' = [changes EXCEPT ![c].status = "written", ![c].states = NoStates]
    /\ log' = Append(log, c)
    /\ UNCHANGED <<clock, overlaps, viewVars, metadata>>

--------------------------------------------------------------------------------
(* The launcher: constructor and didConnect.                               *)
Connect ==
    /\ phase = "closed"
    /\ phase' = "fetching"
    /\ UNCHANGED <<storeVars, apps, appState, answer, overtaken, metadata, channel>>

\* allSettled: a failed fetch leaves the list empty, and the loading goes on.
MetadataSettled ==
    /\ phase = "fetching"
    /\ phase' = "waiting"
    /\ apps' \in {VisibleApps(metadata), <<>>}
    /\ UNCHANGED <<storeVars, appState, answer, overtaken, metadata, channel>>

StatesAnswered ==
    /\ phase = "waiting"
    /\ phase' = "answered"
    /\ answer' = stored
    /\ UNCHANGED <<storeVars, apps, appState, overtaken, metadata, channel>>

\* What is shown changes, and with it the app list, by a render.
Show(states) ==
    /\ appState' = states
    /\ apps' = Render(apps, states)

Ready ==
    /\ phase = "answered"
    /\ phase' = "ready"
    /\ Show(answer)
    /\ answer' = NoStates
    /\ UNCHANGED <<storeVars, overtaken, metadata, channel>>

\* A message, in whatever phase, replaces what is shown.
MessageArrives ==
    /\ channel # <<>>
    /\ Show(Head(channel))
    /\ channel' = Tail(channel)
    /\ overtaken' = (phase = "answered")
    /\ UNCHANGED <<storeVars, phase, answer, metadata>>

\* Another property changes, as when a product is selected.  A render
\* without states throws and leaves everything as it was.
Rerender ==
    /\ appState # NoStates
    /\ Show(appState)
    /\ UNCHANGED <<storeVars, phase, answer, overtaken, metadata, channel>>

Disconnect ==
    /\ phase # "closed"
    /\ phase' = "closed"
    /\ apps' = <<>>
    /\ appState' = NoStates
    /\ answer' = NoStates
    /\ channel' = <<>>
    /\ overtaken' = FALSE
    /\ UNCHANGED <<storeVars, metadata>>

Next ==
    \/ \E c \in Changes : AppStatusChange(c) \/ ReadStates(c) \/ WriteStates(c)
    \/ Connect \/ MetadataSettled \/ StatesAnswered \/ Ready
    \/ MessageArrives \/ Rerender \/ Disconnect

Spec == Init /\ [][Next]_vars

--------------------------------------------------------------------------------
\* The types of the variables.
TypeOK ==
    /\ stored \in States
    /\ clock \in Nat
    /\ changes \in [Changes -> [status : {"none", "fired", "read", "written"},
                                time   : Nat,
                                states : States \cup {NoStates}]]
    /\ \A c \in Changes : (changes[c].states # NoStates) = (changes[c].status = "read")
    /\ log \in Seq(Changes)
    /\ ToSet(log) = {c \in Changes : changes[c].status = "written"}
    /\ overlaps \subseteq Changes
    /\ phase \in {"closed", "fetching", "waiting", "answered", "ready"}
    /\ answer \in States \cup {NoStates} /\ appState \in States \cup {NoStates}
    /\ (answer # NoStates) = (phase = "answered")
    /\ phase = "ready" => appState # NoStates
    /\ channel \in Seq(States)

\* The apps on the cards of the launcher.
Shown ==
    {app.name : app \in UNION {{root} \cup ChildApps(root, apps) : root \in ToSet(RootApps(apps))}}

\* Visible by the metadata alone: neither hidden nor the child of a hidden app.
DeclaredVisible ==
    {app.name : app \in {a \in ToSet(metadata) :
        /\ ~a.hidden
        /\ \A parent \in ToSet(metadata) : a.name \in ToSet(parent.childNames) => ~parent.hidden}}

(* "Fixed the bug with child apps of a hidden app being visible" (release  *)
(* notes), and no app gets lost: whatever the order of the list, and with  *)
(* parents that share a child, a ready launcher shows on its cards or as a *)
(* child on one of them just the apps that are neither hidden themselves   *)
(* nor below a hidden app.                                                 *)
EveryAppShown ==
    phase = "ready" /\ apps # <<>> => Shown = DeclaredVisible

\* The apps a card stands for: its children as it names them, if any is shown.
OnCard(root) ==
    {root.name} \cup (IF ChildApps(root, apps) = {} THEN {} ELSE ToSet(root.childNames))

\* Those of them that were opened, also if they are not shown any more.
OpenedOnCard(name) ==
    {x \in OnCard(apps[IndexOfApp(apps, name)]) : appState[x].lastOpened > 0}

(* The recent cards (_getRecentApps): each once, and just cards with an    *)
(* app that was opened; every opened app of a card is on one of them; and  *)
(* what was opened later than all the apps of a recent card is on a card   *)
(* before it, also where two cards share a child.                          *)
RecentsInOrder ==
    phase = "ready" =>
        LET recent == RecentApps(apps, appState)
            cards  == {root.name : root \in ToSet(RootApps(apps))}
        IN  /\ IsInjective(recent)
            /\ \A i \in DOMAIN recent : recent[i] \in cards /\ OpenedOnCard(recent[i]) # {}
            /\ \A card \in cards : \A x \in OpenedOnCard(card) :
                /\ \E i \in DOMAIN recent : x \in OpenedOnCard(recent[i])
                /\ \A i \in DOMAIN recent :
                    (\A y \in OpenedOnCard(recent[i]) :
                        appState[y].lastOpened < appState[x].lastOpened)
                    => \E j \in DOMAIN recent : j < i /\ x \in OpenedOnCard(recent[j])

(* The routes of a ready launcher stay as they are, however often it is    *)
(* rendered from the list the last render left (setHierarchicAppStructure  *)
(* changes routes in place).                                               *)
Routes == [i \in DOMAIN apps |-> apps[i].route]

RoutesSettle ==
    [][phase = "ready" /\ phase' = "ready" => Routes' = Routes]_vars

\* The cards of a view, and the apps that can be reached from a row of cards.
ListedCards(view) == UNION {ToSet(view[i].cards) : i \in DOMAIN view}

ReachedApps(cards) == UNION {{cards[i].app} \cup cards[i].children : i \in DOMAIN cards}

\* Each section has a card once; by initials a card is in one section, and
\* by categories under visible ones, those without any last.
SectionsInOrder(view, alphabetical) ==
    \A i \in DOMAIN view :
        /\ IsInjective(view[i].cards)
        /\ view[i].title = Others => i = Len(view)
        /\ IF alphabetical
           THEN \A j \in DOMAIN view :
                    i # j => ToSet(view[i].cards) \cap ToSet(view[j].cards) = {}
           ELSE \A g \in Groups : g.name = view[i].title => ~g.hidden

Products == {g.name : g \in {group \in Groups : IsProduct(group)}} \cup {AllApps}

(* The views: every card that belongs to a product, or any card in 'All    *)
(* Apps', is listed in the view of that product ("Apps that are in a       *)
(* hidden group are visible in the 'All Apps' view", application           *)
(* developers guide), in sections that are in order; the favourites of a   *)
(* view are among its cards; and each app the user has marked or opened    *)
(* can be reached on the start page as well, be it as the child of a card. *)
ViewsListEveryCard ==
    /\ \A product \in Products, alphabetical \in BOOLEAN :
        LET view   == AppView(apps, Groups, product, FALSE, alphabetical)
            marked == AppView(apps, Groups, product, TRUE, alphabetical)
        IN  /\ \A app \in ToSet(RootApps(apps)) :
                product = AllApps \/ product \in app.groups
                    => CardOf(app, apps) \in ListedCards(view)
            /\ ListedCards(marked) \subseteq ListedCards(view)
            /\ SectionsInOrder(view, alphabetical) /\ SectionsInOrder(marked, alphabetical)
    /\ phase = "ready" =>
        LET start == ProductView(apps, Groups, appState)
        IN  start.products # <<>> => \A name \in Shown :
                /\ appState[name].isFavorite => name \in ReachedApps(start.favorite)
                /\ appState[name].lastOpened > 0 => name \in ReachedApps(start.recent)

SameEntry(c, d) ==
    ChangeOf[c].app = ChangeOf[d].app /\ ChangeOf[c].property = ChangeOf[d].property

Persists(i) ==
    (\A j \in (i + 1)..Len(log) : ~SameEntry(log[i], log[j])) =>
        stored[ChangeOf[log[i]].app][ChangeOf[log[i]].property] = NewValue(log[i])

(* A change of an app state that overlapped no other one stays until the   *)
(* same property of the same app is changed again, whatever overlapping    *)
(* changes follow it.                                                      *)
IsolatedChangesPersist ==
    \A i \in DOMAIN log : log[i] \notin overlaps => Persists(i)

(* A launcher shows what is stored once no message is on the way to it:    *)
(* the listener and the first read leave no gap.  Only a message that      *)
(* arrived before the older answer to the first read is forgotten, until   *)
(* the next one.                                                           *)
ViewCatchesUp ==
    phase = "ready" /\ channel = <<>> /\ ~overtaken => appState = stored

(* "All application card have more states (eg. favorite, recent state),    *)
(* and they are persisted" (test specification): no change that was        *)
(* written is undone but by a later change of the same property.  Two      *)
(* changes that overlap both write back all states as they had read them.  *)
ChangesPersist == \A i \in DOMAIN log : Persists(i)
================================================================================
