# Verification of the GUI Aggregator Service

TLA+ models of the GUI Aggregator Service (GAS) and of its portal, the TLC configurations that check
them on small instances, and TLAPS proofs of their invariants for every instance.

GAS runs as a set of replicas in a Kubernetes cluster. Each replica discovers the services that carry
the UI label, fetches the `config.json` and `config.package.json` each of them serves, merges what it
got into lists of apps, groups, components and actions and into an import map, serves those to the
portal in the browser, and proxies the portal's requests to the services. There is no shared state:
the replicas are equal because each of them sees the same services. A refresh request makes one
replica fetch the files of a service again and forward the request to the others. The portal shows
the apps as cards of a launcher, opens them in its container, and keeps a user's favourites, recently
opened apps, login times and theme in settings that all tabs of the user share.

Paths below are relative to the repository; `backend/…` and `frontend/src/…` are its two programs.

## The system

### Components, their state and operations

| Component | State | Operations |
|---|---|---|
| Service collection (`uiServiceCollection.js`, `k8sQueryService.js`) | the services of the cluster, one per name, with a uid and a protocol | added, modified and deleted events of the watch; `forceUpdateService`, which emits a known service once more |
| Configuration query (`configQueryService.js`) | two config maps (one per file), the fetch loops in progress, the published config, the import map | an answer, a failed try, the last failed try; `updateConfig`, `updateImportMap`; deletion of a service |
| Configuration merge (`configUtil.js`, `URLUtil.js`) | none: a fold over the config map with four stores | `mergeConfigs` with its collision resolver, `overrideConfig`, `addGroupToApp` |
| Import map (`ImportMapUtil.js`) | none: a function of the package map | `calculateImportMap`, `resolveVersion` |
| Proxy (`proxyService.js`) | the service map by uid, the proxy middleware | added and deleted events, certificate changes, requests |
| Manual configuration (`configManager.js`, `manualServiceConfigHandler.js`) | manual apps and groups, overrides, group mappings, manual services | changes of the files |
| Readiness (`probeUtil.js`) | none: a look at the published apps | the readiness probe |
| Refresh and synchronisation (`metaRoutes.js`, `synchronizationService.js`) | requests and forwarded calls in flight | PUT of a refresh, with or without a Via header |
| User info and permission (`userInfoService.js`, `userPermissionRoutes.js`) | requests in flight to the IAM server | user info, permission query; the answer or failure of IAM |
| Certificates, logging, telemetry, metrics, faults (`config/configManager.js` and their services) | the settings each holds, read from mounted files | change of a file, an unreadable certificate, the event that makes its listeners read again |
| Startup and shutdown (`app.js`, `metricApp.js`, `bin/www.js`) | the two servers, the watch, the process | start of the watch, SIGTERM, close of a server, server errors, unhandled rejections |
| Portal application state (`appUtils.js`, `appstate-plugin`) | the setting `appStates` of the user | the application-status-change event: read all states, write them back |
| Session and settings plugins (`authentication.js`, `ui-settings-plugin.js`, `gas-settings-plugin.js`) | login times, the user name, the theme | the hook of the container, set-username-finished, theme changes |
| Portal navigation (`navigation-plugin.js`, `router.js`) | the menu, the title's product, the url | `onBeforeAppLoad`, the urls of apps and products |
| Container apps (`launcher.js`, `wrapper-app.js`, `error-app.js`) | the launcher's product, name and favourites flag | route callback, product selection, menu, login notification, what a wrapper shows |
| Launcher component (`launcher-component.js`) | app list, shown states, product, phase of loading | load, render, listen to the settings' channel, publish its product |
| Views (`app-view.js`, `product-view.js`) | the favourites flag of the view | filter of a product, grouping by category, favourites switch, cards |
| System bar and global navigation (`systembar-*`, `global-navigation-panel.js`) | title, flyout | title click, flyout toggle, back, its product and view |
| Settings panel (`custom-user-settings-panel.js`) | login time and theme it read | reads, theme switch, account editor, sign out |
| Schema validation, portal logger and REST client, charts, CI, mocks | none | see *Not modelled* |

Interactions. The collection emits to the configuration query and to the proxy, synchronously: an
event and all its listeners are one step of the event loop. The configuration query hands its maps to
the merge and to the import map and publishes the results by assignment; the metadata routes and the
readiness probe read them. The manual configuration emits to the configuration query. The PUT handler
calls the collection and awaits calls to the other replicas, whose PUT handlers do the same without
forwarding. All consumers of settings listen to the events of one configuration manager and one
certificate manager. In the portal, tabs and plugins meet in the external settings storage, and its
channel carries every stored value to every launcher. Within a tab the url is the shared state: the
container, the launcher, its component, its view, the title and the flyout all write it and, all but the
view and the flyout, follow it; the browser announces a new url only after the turn that set it.

### What is hard

- **Interleaving of events and answers.** A service is modified, refreshed or deleted while both of
  its fetches are in progress; the two files are fetched independently; the package fetch gives up.
- **Order of arrival.** The merge folds over the configurations in the order in which they arrived,
  and that differs between replicas.
- **Shared objects.** Overrides and group mappings are applied in place to what was fetched, routes
  of the launcher to what the last render left.
- **Partial failure.** A handler that throws in the middle; a forwarded call that fails.
- **Restarts and readiness.** A replica that starts knows nothing and is not on the list.
- **Read, await, write.** Overlapping changes of app states; an answer overtaken by a message; login
  times read, overwritten and moved in three awaits; a theme chosen while the stored one is read.
- **Configuration during an await.** A request to IAM is sent under one configuration and its answer
  mapped under another; files change, services go and servers close while requests are forwarded.
- **Url and state that set each other.** A launcher that is still loading goes to its product over a newer
  url; groups of an app that was left arrive late; a view keeps its favourites over a product.
- **Events dispatched once.** Whoever listens later waits for ever.

PROJECT.json lists these hazards at their lines, with the properties about them.

## Modules

| Module | Models | State and actions |
|---|---|---|
| `ConfigMerge` | configuration merge | operators only: `MergeConfigs` is the fold, `ResolveEntityByType` the precedence, `PutItem` the resolver with its updaters |
| `ImportMap` | import map | operators only: `CalculateImportMap` yields a map or a throw |
| `FetchLoops` | what discovery promises | collection, loops, revision of each file; one action per event and answer; fairness |
| `Discovery` | one replica of the backend | EXTENDS the two algorithms; collection, proxy, loops, both config maps with their insertion order, manual files, published config, import map; one action per event, with all its listeners |
| `RefreshSync` | refresh over several replicas | cluster, replicas, client requests and forwarded calls; one action per arrival, failure or answer |
| `Launcher` | algorithms of the portal | operators only: hidden apps, hierarchy, routes, favourites, recents, views |
| `AppStates` | app states and the launcher | EXTENDS `Launcher`; the stored states, each change as event, read and write, the launcher's loading, its channel |
| `UserPermission` | user info and permission | configuration, and one request per connection with what was sent, replied and answered; arrival, answer of IAM, give-up |
| `Replica` | one process of the backend | EXTENDS `UserPermission`; process, startup, servers, unread files, who holds older settings, proxied uids; file events, proxied and local requests, SIGTERM, closes, crash, restart |
| `Session` | login times and theme of a tab | the storage, the hook step by step, the theme read, writes under way, the panel, the notification; other tabs, reload |
| `Navigation` | what a tab shows for its url | url, loads waiting for groups, app, title, menu, launcher, component, view, wrapper, and what launchers that were left still wait for; route announced, groups answered, fetches settled, every click |
| `GlobalNavigation` | the flyout | EXTENDS `Navigation`; its component, product and view, whose links move the page |
| `Portal` | a tab | EXTENDS `Session` and `GlobalNavigation`: the order of hook, container and launcher, expiry, account editor, reload, sign out; fairness |
| `MC…` | instances | values of the constants; for the algorithms also the inputs and the reference definitions |
| `Induction` | no code | induction over positions, and what folds, filters and sortings over sequences reach |
| `…_proofs` | theorems | see *Proofs*; `Algorithms_proofs` is about the two algorithms as their `MC` modules specify them |

`Discovery` is shown to implement `FetchLoops`: the instance in it forgets the content of the files
(`services` and `loops` are the same, `configRev` and `packageRev` are the revisions that the entries
of the config maps were read at). TLC checks this on the instance, TLAPS for all.

`MCConfigMerge` and `MCImportMap` are specifications of their own: a state is the list of configurations
(of packages) that a replica has at a moment, a step is one more service or, for packages, other files of
a known one. What one service declares is the constant `AppLists` (`ModuleLists`), any set of lists; the
runs give it `SingleAppLists` (`SingleModuleLists`), and the proofs leave it open. The second one's
specification is `ImportSpec` with `NoPackages` and `PackagesArrive`.

What files may hold is the constants of `Discovery` with `ContentsAssumption`, after the schemas.
`FilesComplete` says more than the schemas do, and is a hypothesis of the theorems that need it: every app
has `groupNames`, every module a `main` and a version semver accepts, and an override touches type, url and
groups with values of their kinds. The last is in it because the schema of the overrides gives `items` to an
object, where the validator does not look at it, and requires no attribute of a group mapping.
`OwnAppDeclared` says that one app of the backend's own service is declared by nobody else,
`NothingLeft` that a calculation leaves only what the next one leaves again.
`ViewsAssumption` of `AppStates` gives every text that is shown a place in the order of texts, and no
two groups one name.

Definitions keep the names of the code. A comment that starts with *Mutant* marks a changed copy of the
definition after it; no run uses it as it stands, PROJECT.json says which property it must break.

### How code becomes state and actions

- Versions of packages are numbers and dependency ranges are sets of numbers; a version string that
  semver rejects is `BadVersion`. A url is `<<uid, path>>`; a relative app url is `Relative` until
  it is resolved, and then the base it was resolved against. Modules of a service have distinct paths.
- A service is a name at a revision; a service without a recognised protocol has no url and never
  answers. A fetch brings the content of one of the revisions the pods may serve at that moment,
  because files change without an event.
- A fetch of `config.json` that fails changes nothing and is tried again: it is a stutter. The tries of
  `config.package.json` are counted, and the last one stores an empty module list.
- A throw inside a listener ends that handler only: what was assigned before it stays, what comes after
  it is not done. The other possible outcome, that the process ends, publishes nothing either.
- Aliasing is kept where it matters: `ShareGroups` says which `groupNames` arrays `addGroupToApp`
  pushes into, and `manual` holds the file and what became of it in memory.
- Until the first event nothing has been published, and the published config has no lists.
- A render that throws because the states are missing leaves everything as it was: a stutter.
- `stale` of `Replica` has the pairs of a consumer and a file of which it holds an older content: reading
  a file adds its readers, the file's event removes its listeners. `Reads` names every consumer that keeps
  settings, `Listeners` what each of them hears, and `FixedAtStart` those that take the container
  configuration when the process starts and never again: the service name of the telemetry
  (`telemetryService.js:8`), the settings of the Kubernetes watch, the synchronisation, the metrics and
  the certificates, the protocol of the servers and the route of the frontend (`app.js:18`). The import map
  has the ingress path of the configuration as it was when the map was computed. What the settings say is
  not modelled, except for the configuration of user permission, which requests read at two moments.
- A launcher that is left goes on waiting for its fetches. Its element is detached, so that its events reach
  nobody but itself, but it still goes to the url of the product it had: `left` counts these by url.
- A handler of the portal is an action from one await to the next. A render, with the view it makes or
  removes and the url that view sets, belongs to the action that causes it (`ShowChosen`).
- A url is the app, the product and the favourites flag that the router puts into it. Urls that name
  neither an app nor a product are not entered: the container shows its own page for them.
- History variables: `crossed` and `raced` of `Session`, `marks` of `Navigation` and
  the logs of `AppStates` record that an overlap happened which the code loses; no guard
  reads them.

### External code, as used

`@adp/kubernetes` keeps one service per name and drops the answers of superseded or deleted fetch loops (the
code numbers its loops, `MAX_LOOP_ID`). The address lookup of the headless service returns ready replicas
only; a lookup or a call may fail, and a failed call fails the request at once while the other calls go on.
IAM may answer anything, something that is not JSON, or not at all; a connection fails with an error without a
status. `@adp/base` watches the mounted files and emits once a changed one is loaded. Node may or may not end
a process after an unhandled rejection. The EUI container starts the hooks of all plugins in one turn, runs
`onBeforeAppLoad` when the url names another app, and connects that app when the hook has resolved if the url
still names it. The settings storage of the portal answers a read with the value of one moment; a write stores
and posts in one step, and messages arrive in the order of the writes.

## Runs

| Run | Instance | What it shows |
|---|---|---|
| `config_merge` | every list of up to 3 services behind a manual configuration, one name, 5 types, with or without a base | nothing is lost or doubled; each published app, group and component is of the best type declared, with its own service and the newest of its type; the url of an app is its service's; replicas agree where one declaration outranks the rest |
| `import_map` | 3 services, 2 module names, 2 versions, every range, in every order, with replacement | bare names lead to the highest version, scopes to the highest in range, and every module the map leads to finds its dependencies |
| `fetch_loops` | 2 services, 3 revisions, 3 tries, fair | nothing is forgotten, nothing deleted remembered, and the last revision is reached |
| `discovery` | the backend's own service and one that collides with it, changes its files and loses its protocol; 2 tries; overrides and the manual file change, whose app wins over those of services | proxy, import map and published config agree with the collection; readiness is kept; `FetchLoops` is implemented |
| `residue` | a group mapping is taken away | **finding**: it stays published |
| `frozen` | an app without `groupNames` under a mapping | **finding**: deleted services stay published |
| `refresh` | 2 replicas, 2 requests, 2 versions of the file, one replica may restart, fair | a request is forwarded once and ends; after a 202 every replica reads again and shows the new file |
| `app_states` | 3 apps in every order, hidden or not, with a shared child; 3 changes; connect, disconnect, renders | visible apps are all shown; recent cards are in the order in which an app of theirs was opened last, a child that is hidden or gone included; routes settle; views list every card; isolated changes persist; the view catches up |
| `lost_update` | the same | **finding**: of two overlapping changes the first is undone |
| `replica` | 2 connections, 8 requests, 2 configurations, 3 files, one unread at a time; failures of watch, server, IAM and services; SIGTERM at any moment, fair | an answer says what IAM said to this request; while requests are served files are watched, and nobody holds old settings but of the container configuration, by `FixedAtStart` or in the import map; forwarded requests end; the shutdown completes |
| `unanswered` | the same with 2 files | **finding**: a permission request whose forwarding fails is never answered |
| `portal` | a parent app of one product with a wrapped child, launcher, error app; no or one earlier login; budgets of events, fair | login times and theme are kept, the launcher follows the url, title and menu are those of the tree of the app, the portal comes up and settles |

`PROJECT.json` quotes, for each finding, the line of a doc, comment or test that says otherwise.

### Why the bounds are enough

Precedence compares two declarations at a time and the fold carries one per name; three services give every
old/new/later combination, and symmetry over the services is sound because only places in the list count. In
the import map a dependent, the version in its range and a higher one out of it need three services. In
`discovery` one foreign service with three revisions meets every pair of event and answer, the loops of
different names being independent; the second name is the backend's own, which readiness is about and which
the first collides with. Two tries distinguish a failed try from the last one. In `replica` the consumers
differ by the files they hear: the container configuration has listeners and `FixedAtStart`, the log control
one listener, and a certificate some that hear it and do not read it; one unread file at a time still lets
files change in any order; the proofs have no such bounds. In `portal` each element of `Budgets` is a number
of session events (panel, theme, other tabs, expiry, reload, sign out), of navigation and of flyout events and
of failed requests; with three navigations one can come between each two steps of a load and of the answers to
it, and the proofs of the safety properties need no budget. The run starts at five urls, with session events
only at the launcher. In `refresh` two replicas show forwarding, and the proofs cover any number. Three
changes in `app_states` are two that overlap and one later; two parents of one child are the hard case of the
hierarchy. `PackageTryLimit` is 10 in the code; `MaxVersion`, `Restartable` and `Changes` are bounds of the
models only, as are `MaxUnread` and `Budgets`.

`CHECK_DEADLOCK FALSE` is set where the state is an input that grows to its bound, and for `portal`,
where a page may rest when its events are used up.

### Fairness

`FetchLoops`: a running loop keeps trying, and a service that has a protocol is in the end answered;
every try of the package file ends. No service has to appear, change or leave. `config.json` converges
even under endless refreshes, because its answer is enabled again at once by the restarted loop; the
package file converges only once refreshes stop, since each of them restarts the counted tries.
`RefreshSync`: a forwarded call arrives or fails, the handler that awaits it goes on, and a fetch loop
is in the end answered. Restarts, file changes and events are never forced. `Replica`: the start of the
watch ends in some way, changed files are loaded, forwarded requests settle (transports time out), a
server without requests closes, and Kubernetes starts a crashed process again. Clients need not give up,
and Node need not end the process after a rejection. `Portal`: `PageStep`, what goes on by itself, goes on
as long as it can, because requests are answered in some way and the browser announces urls and starts
hooks. The user, other tabs and the session do nothing of necessity. `Discovery` and
`AppStates` are checked without fairness, for safety and refinement only.

## Proofs

TLAPS proves the following for every value of the constants, from the assumptions named in the modules.
All safety properties of the passing runs are theorems.

**`Induction`.** What a fold, a filter or a sort computes is proved by induction over the positions of its
list. The induction theorems of the library take a predicate as parameter, which the provers cannot
instantiate; the modules use the set of the positions for which the predicate holds instead. That a set with
0 and all successors is all positions (`UpTo`) follows from finite subsets being well founded under
inclusion. `FoldReaches` then says that a fold goes through a sequence of intermediate values, one for each
position; `FilterReached`, `SortingExists` and `Flattened` say the like of the other operators.

**`Algorithms_proofs`.** The merge: an item of a store is looked at as its claim, of name, type and source.
Then apps, groups and components are placed alike (`Place`), and the invariant of the fold is `Merged`: a
store has one claim per name seen so far, and it is that of the declaration that wins among those seen
(`Wins`: of the best tier, the last there; in the middle tier, the last of the type that came first). The
resolver compares only two declarations at a time, so `MergedNext` shows that the claim kept beats all earlier
ones too. `WinnersArePublished` (for apps, groups and components) and `BasesAreOwn` follow for the lists the
specification reaches (`IsListed`), and `ReplicasAgree` because a sole declaration of the best tier wins in
every order. The import map: `PackagesInv` says that the map is that calculated from the list. The packages of
a list are those some service publishes, one per id (`IsKept`), in the order of their versions; a bare name
leads at any time to the last one written (`LeadsUpto`), so in the end to the highest (`HighestIsImported`).
`RangesAreSatisfied` and `ModulesResolve` follow from what a scope resolves to.

**`FetchLoops_proofs`.** `TypeCorrect`, with the counted tries below the limit; `NothingForgotten`,
inductive together with the types: an event touches the entries of one name only, and it starts both
loops or clears both entries.

**`Discovery_proofs`.** `Refinement`: every handler, whatever merge and import map compute and wherever
they throw, is a step or a stutter of `FetchLoops`. The lemma it rests on is that `UpdateConfig` may
change what entries hold, never at which revision they were read. From it `NothingForgotten` in the
config maps. `ProxyCorrect`: the proxy routes just the current uids that have a protocol; by the
services being one per name, an event removes the old uid of the name and adds the new one.
`TypeCorrect`.

The second half looks into the calculations, while all files are complete. `ConfigInv` says that the insertion
order lists each known name once, that what is in memory is complete, also after the group mappings have
written into it, and that what is published comes from the manual configuration or from a known entry. That
needs `FilesComplete`: a calculation that throws publishes nothing, as the run `frozen` shows. `ImportInv`
says the same of the packages and the import map. With `NothingForgotten` they give `DeletedServicesLeave`,
and with `ProxyCorrect` also `ImportsAreServed`. `ReadinessStays` needs what the merge does with one app:
while only the own service declares it (`OnlyInOwn`), the store holds it only under that service (`HoldsOwn`),
no later declaration removes it, and overrides and group mappings leave every app its place, name and service
(`SameApps`). So each `updateConfig` that knows the own configuration publishes the app. As `updateConfig`
writes into what it merged, `OnlyInOwn` is an invariant to be proved too.

`StatelessReplicas` proves `AsFreshReplica` from `NothingLeft`, by comparing two runs of the merge side by side:
over what is in memory, and over the files as they were read. `FreshMemory`, the invariant, says that the two
differ in group names only, and only in such as the mappings add to every app of that name (`SameApp`,
`AppsAlike`). The groups of an app decide nothing, so lists that are alike are merged into results that are
alike (`MergedAlike`), and after the mappings, which add to each app the same set whatever it had
(`GroupsAddedGrow`), the results are the same (`CalculatedAlike`). For the invariant, each published app is
traced back to its declaration (`GroupsDeclared`): what `updateConfig` writes back there are its own groups and
those of the mappings (`SharedAlike`). The conditions of `NothingLeft` are needed: the property is false when a
mapping may be taken away (the run `residue`), when a file lists a name twice, and when a manual app with a
relative url wins over an app of a service.

**`RefreshSync_proofs`.** `Invariance` proves `IInv`, of which the rest follows:
`TypeOK`, `CallsSound` (every call carries the Via header and comes from the replica its request landed
on), `LoopsOrdered` (a replica that holds a version and reads again started at least there, and none is
ahead of the file) and `BroughtUp` (of a request that is being forwarded or was answered 202, every
replica it is for has a call on the way, reads from the version of the request on, or holds it, unless
it does not know the service). `AcceptedIsReadAgain` alone is not inductive: it says nothing of a
request still being forwarded. `ForwardingOnce` and `AcceptedRead` are its corollaries.

**`AppStates_proofs`.** `TypeCorrect`, by the conjuncts `StoreTyped`, `ViewTyped` and `Logged`.
`IsolatedPersist` needs `PersistInv`: what is stored has the entry of every change no other overlapped,
so have the states every pending change has read (`ReadersKnow`), and of two changes that have read and
not written both are marked as overlapping (`ReadersMarked`). So whoever writes next writes back
states that have the entry. `CatchUp` needs `CaughtUp`: the message sent last, or else the answer on its
way, or else what is shown, is what is stored.

The second half is about what a render makes of the app list. Since it works on the list the last render
left, `AppsInv` says what that list is: the visible apps (`DeclaredVisible`, the reference), each taken for a
child only if a parent lists it, and, when the launcher is ready, with routes a further render would not
move (`Settled`) and just the favourites of the states marked (`Marked`). `AppsAreShown` and
`RoutesStaySettled` follow. `RecentsAreInOrder` proves of the walk over the opened apps, latest first, that
after each of them the cards found are those of the apps so far. `ViewsAreComplete` goes through filter,
sorting, grouping and merging of the sections: what each of them keeps of the cards.

**`Replica_proofs`.** `Invariant` proves that every request is as its handler left it (`CallsOK`, which is
`AnswersFollowIam` with the types), that a consumer holds an old content of the container configuration at
most, and only if it is one of `FixedAtStart` or the import map (`MayBeOld`), and
that watching ends only with the API server, which closes when no request is forwarded. `TypeCorrect`,
`SettingsCurrent` and `AnswersCorrect` follow.

**`Portal_proofs`.** `Invariant` proves `IInv`: `OrderInv` (the settings are ready when the hook gets to
its requests, nothing but plugins runs before it ends), `LoginInv` (what the storage holds at each stage
of the hook, and what was read of it since), `ThemeInv` (without a race there is at most one write, of the
theme shown) and `LoadInv`. `SettingsKept` alone is not inductive: it says nothing before the hook is done.

`PageInvariant` of the same module proves `PageInv`: the types; `ChosenInv` (unless pulled back, by a launcher
that is shown or one that was left, the url is the chosen one); `HeardInv` (a launcher that has heard of the
url has its product and its flag, and so has its component, also while it is loading, which is why its own
product does not move the url then); `FavouritesInv`; `NameInv` (the name was set from the groups for the
product shown); and `MenuInv` (without a disturbance at most one app is loading and the menu is of that app,
else title and menu are of the app shown). The lemma `ShowOK` says once what a render does to view, url and
marks. `LauncherFollowsUrl`, `NavigationShows` and `TypeCorrect` follow, the second for apps that are in their
own trees.

**Only model-checked.** Liveness (`Converges`, `RequestsEnd` twice, `AcceptedShows`, `LifecycleCompletes`,
`PortalSettles`), since it needs fairness and ENABLED, and that the instances satisfy the conditions some
theorems are about (`FilesComplete`, `OwnAppDeclared`, `NothingLeft`), which are assumptions of the runs.

## What the properties leave out, and why

The portal loses some overlaps. The properties exclude exactly these, and hold otherwise:

- `overtaken`: a launcher's first read is overtaken by a message; it shows older states until the next one.
- `crossed`: another tab stored its login times while this one was open.
- `raced`: a theme was chosen while the stored one was read or another choice was written.
- `pulled`: a launcher, still loading, goes back to its product over a newer url; so does a launcher that was
  left while it was loading, when its fetches settle, which takes the user back out of the app opened since.
- `missed`: the product changed between the fetches and "ready", when nobody listens: its name is not shown.
- `outside`: the favourites flag of the url changed under a view, which keeps its own.
- `late`: the launcher became ready while another app was loading, whose menu it overwrites.
- `disturbed`: loads of apps overlapped, and the groups that come last set the title; or they failed.

In these the code differs from what its documents or comments say. The passing runs take no side in them
or state what the code does; a definition states the claim, and TLC finds it violated under its configuration
(with `MCConfigMerge`, `MCReplica` and `MCPortal`):

| Claim | What the code does | Definition, configuration |
|---|---|---|
| components of equal precedence are resolved in favour of the new one (`application_developers_guide.md:545`) | keeps the old one of two different middle types (`configUtil.js:84`); `WinnerIsSelected` allows either | `EqualPrecedenceNewest`, `EqualPrecedence.cfg` |
| `addAction` resolves conflicts (`configUtil.js:181`) | looks for the id in the wrong object (line 192) and publishes an id of two services twice | `ActionIdsUnique`, `ActionIds.cfg` |
| changes of config files at runtime are handled without restarts (`tilt.md:301`) | `FixedAtStart` keeps the old container configuration, as `backend-service.md:403` has it | `ChangesHandledWithoutRestart`, `HeldSettings.cfg` |
| the title names the first matching system group in the metadata of the application (`application_developers_guide.md:319`) | takes the groups of the root of its tree (`navigation-plugin.js:102`), which is what `NavigationShowsApp` says | `TitleNamesOwnProduct`, `TitleNamesOwnProduct.cfg` |
| the menu shows the subtree that the open app is in (`application_developers_guide.md:315`) | a launcher that becomes ready while the app is loading sets its own menu (`launcher.js:142`): `late` | `OpenAppIsInMenu`, `OpenAppIsInMenu.cfg` |

Two more: the relative url of a manual app that wins over an app of a service is resolved against that
service's base and stays so when the service is gone (`NothingLeft` excludes it), and a refresh of a service
that is in the cluster but not discovered yet by the replica asked is answered 404.

## Not modelled

- What is written to logs, audit, telemetry and metrics, and the fault indications: output only. The
  collision log of the merge and the log of overrides that match nothing are left out.
- Schema validation: the models take what the schemas let through. The fallback of a missing file is external.
- Rewriting of a proxied path and its trace spans: data no property tells apart.
- A request for the portal's configuration or the settings that fails in the hook of the authentication plugin
  (`authentication.js:89` and `115-122`): whether the hook then rejects or waits for ever, and what the container
  makes of it, is up to external code. `PortalSettles` is about requests that are answered.
- Layout, sorting by display names, grouping by first character, the stored preferences of grouping and view
  type, the compact view, highlighting in the menu, the user name in the system bar, dialogs, animation.
- App lists are one level deep, as the test specification says. Another tab is present as the changes it
  causes. A route is a sequence of segments of which none is a suffix of another.
- Apps that name each other as children: the recursion of `addChild` would not end; the model has no cycle.
- Portal logger and REST client: plain wrappers. Charts, CI scripts, mocks, page objects and the load and
  integration tests: deployment and test tools.
- A replica that is starting, holds an old file already and is not on the list yet is not refreshed;
  the promise of the documentation is about the replicas that a request is for.

## Plan

Done, in this order, the most important behaviour first: `ConfigMerge`, `ImportMap`, `FetchLoops`,
`Discovery` with its refinement, `RefreshSync`, `AppStates` with `Launcher`, `UserPermission`, `Replica`,
`Session`, `Navigation`, `GlobalNavigation`, `Portal`, and their proofs; then `Induction` and what it makes
provable: the two algorithms for lists of any length, the contents of `Discovery`, the launcher of `AppStates`,
and that a replica publishes what a fresh one would.

Left:

1. The startup of `Replica` composed with the events of `Discovery`: a refused watch and what stays published.
2. The views with their stored preferences, over the settings storage of `Session`.
