--------------------------- MODULE AppStates_proofs ---------------------------
(***************************************************************************)
(* For any app names, changes and app lists: the types of AppStates, that  *)
(* a change no other one overlapped persists, and that the view of a       *)
(* launcher catches up with the store; for these, what a render makes of   *)
(* the app list plays no part.  The second half is about just that: the    *)
(* hierarchy that a render builds has every app that is not hidden, the    *)
(* routes it gives to the apps are those of the render before, the recent  *)
(* cards are in their order, and no view loses a card.                     *)
(***************************************************************************)
EXTENDS AppStates, Induction, SequenceTheorems

Statuses == {"none", "fired", "read", "written"}

Change == [status : Statuses, time : Nat, states : States \cup {NoStates}]

\* The part of TypeOK about the store and the changes, as the steps need it.
StoreTyped ==
    /\ stored \in States
    /\ clock \in Nat
    /\ changes \in [Changes -> Change]
    /\ \A c \in Changes : (changes[c].states # NoStates) = (changes[c].status = "read")
    /\ log \in Seq(Changes)
    /\ overlaps \subseteq Changes

\* The part of TypeOK about the launcher.
ViewTyped ==
    /\ phase \in {"closed", "fetching", "waiting", "answered", "ready"}
    /\ answer \in States \cup {NoStates} /\ appState \in States \cup {NoStates}
    /\ (answer # NoStates) = (phase = "answered")
    /\ phase = "ready" => appState # NoStates
    /\ channel \in Seq(States)

Logged == ToSet(log) = {c \in Changes : changes[c].status = "written"}

(* What a change stores is again a state of every app: the new value of a  *)
(* property has the type of the property.                                  *)
LEMMA UpdateTyped ==
    ASSUME StoreTyped, NEW states \in States, NEW c \in Changes
    PROVE  UpdateAppState(states, c) \in States
  <1>1. ChangeOf[c].app \in AppNames
    BY AppStatesAssumption
  <1>2. CASE ChangeOf[c].property = "isFavorite" /\ ChangeOf[c].value \in BOOLEAN
    <2>1. NewValue(c) \in BOOLEAN
      BY <1>2 DEF NewValue, IsOpening
    <2>2. QED
      BY <1>1, <1>2, <2>1 DEF UpdateAppState, States
  <1>3. CASE ChangeOf[c].property = "lastOpened"
    <2>1. NewValue(c) \in Nat
      BY <1>3 DEF NewValue, IsOpening, StoreTyped, Change
    <2>2. QED
      BY <1>1, <1>3, <2>1 DEF UpdateAppState, States
  <1>4. QED
    BY <1>2, <1>3, AppStatesAssumption

--------------------------------------------------------------------------------
(* No step stores or records anything but states, times and changes.       *)
LEMMA StoreStep ==
    ASSUME StoreTyped, [Next]_vars
    PROVE  StoreTyped'
  <1>1. ASSUME NEW c \in Changes, AppStatusChange(c) PROVE StoreTyped'
    <2> DEFINE time == IF IsOpening(c) THEN clock ELSE changes[c].time
    <2>1. changes[c] \in Change /\ changes[c].status = "none" /\ changes[c].states = NoStates
      BY <1>1 DEF AppStatusChange, StoreTyped
    <2>2. time \in Nat /\ clock' \in Nat
      BY <1>1, <2>1 DEF AppStatusChange, StoreTyped, Change
    <2>3. changes' = [changes EXCEPT ![c].status = "fired", ![c].time = time]
      BY <1>1 DEF AppStatusChange
    <2> HIDE DEF time
    <2>4. changes' \in [Changes -> Change]
      BY <2>1, <2>2, <2>3 DEF StoreTyped, Change, Statuses
    <2>5. \A d \in Changes : (changes'[d].states # NoStates) = (changes'[d].status = "read")
      BY <2>1, <2>3 DEF StoreTyped, Change
    <2>6. QED
      BY <1>1, <2>2, <2>4, <2>5 DEF AppStatusChange, StoreTyped
  <1>2. ASSUME NEW c \in Changes, ReadStates(c) PROVE StoreTyped'
    BY <1>2, AppStatesAssumption DEF ReadStates, UnderWay, StoreTyped, Change, Statuses
  <1>3. ASSUME NEW c \in Changes, WriteStates(c) PROVE StoreTyped'
    <2>1. changes[c].states \in States
      BY <1>3 DEF WriteStates, StoreTyped, Change
    <2>2. stored' \in States
      BY <1>3, <2>1, UpdateTyped DEF WriteStates
    <2>3. QED
      BY <1>3, <2>2 DEF WriteStates, StoreTyped, Change, Statuses
  <1>4. CASE UNCHANGED storeVars
    BY <1>4 DEF storeVars, StoreTyped
  <1>5. QED
    BY <1>1, <1>2, <1>3, <1>4
    DEF Next, Connect, MetadataSettled, StatesAnswered, Ready, MessageArrives, Rerender,
        Disconnect, vars

(* The launcher is only ever sent and shown states.                        *)
LEMMA ViewStep ==
    ASSUME StoreTyped, ViewTyped, [Next]_vars
    PROVE  ViewTyped'
  <1>1. ASSUME NEW c \in Changes, WriteStates(c) PROVE ViewTyped'
    <2>1. stored' \in States
      BY StoreStep DEF StoreTyped
    <2>2. QED
      BY <1>1, <2>1 DEF WriteStates, Post, viewVars, ViewTyped
  <1>2. CASE Connect
    BY <1>2 DEF Connect, ViewTyped
  <1>3. CASE MetadataSettled
    BY <1>3 DEF MetadataSettled, ViewTyped
  <1>4. CASE StatesAnswered
    BY <1>4, AppStatesAssumption DEF StatesAnswered, StoreTyped, ViewTyped
  <1>5. CASE Ready
    BY <1>5 DEF Ready, Show, ViewTyped
  <1>6. CASE MessageArrives
    <2>1. Head(channel) \in States /\ Tail(channel) \in Seq(States)
      BY <1>6 DEF MessageArrives, ViewTyped
    <2>2. Head(channel) # NoStates
      BY <2>1, AppStatesAssumption
    <2>3. QED
      BY <1>6, <2>1, <2>2 DEF MessageArrives, Show, ViewTyped
  <1>7. CASE Rerender
    BY <1>7 DEF Rerender, Show, ViewTyped
  <1>8. CASE Disconnect
    BY <1>8 DEF Disconnect, ViewTyped
  <1>9. CASE UNCHANGED <<viewVars, channel>>
    BY <1>9 DEF viewVars, ViewTyped
  <1>10. QED
    BY <1>1, <1>2, <1>3, <1>4, <1>5, <1>6, <1>7, <1>8, <1>9
    DEF Next, AppStatusChange, ReadStates, vars

(* The log holds just the changes that were written.                       *)
LEMMA LogStep ==
    ASSUME StoreTyped, Logged, [Next]_vars
    PROVE  Logged'
  <1>1. ASSUME NEW c \in Changes, AppStatusChange(c) PROVE Logged'
    BY <1>1 DEF AppStatusChange, StoreTyped, Logged, Change
  <1>2. ASSUME NEW c \in Changes, ReadStates(c) PROVE Logged'
    BY <1>2 DEF ReadStates, StoreTyped, Logged, Change
  <1>3. ASSUME NEW c \in Changes, WriteStates(c) PROVE Logged'
    <2>1. ToSet(log') = ToSet(log) \cup {c}
      BY <1>3 DEF WriteStates, StoreTyped, ToSet
    <2>2. {d \in Changes : changes'[d].status = "written"}
             = {d \in Changes : changes[d].status = "written"} \cup {c}
      BY <1>3 DEF WriteStates, StoreTyped, Change
    <2>3. QED
      BY <2>1, <2>2 DEF Logged
  <1>4. CASE UNCHANGED storeVars
    BY <1>4 DEF storeVars, Logged
  <1>5. QED
    BY <1>1, <1>2, <1>3, <1>4
    DEF Next, Connect, MetadataSettled, StatesAnswered, Ready, MessageArrives, Rerender,
        Disconnect, vars

\* The inductive form of TypeOK.
Typed == StoreTyped /\ ViewTyped /\ Logged

(* A fresh portal is well typed.                                           *)
LEMMA TypedInit == Init => Typed
  <1> SUFFICES ASSUME Init PROVE Typed
    OBVIOUS
  <1>1. Empty \in States
    BY DEF Empty, NoState, States
  <1>2. StoreTyped
    BY <1>1 DEF Init, StoreTyped, Change, Statuses
  <1>3. ViewTyped
    BY DEF Init, ViewTyped
  <1>4. Logged
    BY DEF Init, Logged, ToSet
  <1>5. QED
    BY <1>2, <1>3, <1>4 DEF Typed

(* All variables keep their types.                                         *)
THEOREM TypeCorrect == Spec => []TypeOK
  <1>1. Typed /\ [Next]_vars => Typed'
    BY StoreStep, ViewStep, LogStep DEF Typed
  <1>2. Typed => TypeOK
    BY DEF Typed, StoreTyped, ViewTyped, Logged, TypeOK, Change, Statuses
  <1>3. QED
    BY TypedInit, <1>1, <1>2, PTL DEF Spec

--------------------------------------------------------------------------------
(* Why a change that nothing overlapped persists: whoever is to write next *)
(* has read the states after it was written, or it would be marked.        *)
\* The entry a logged change left, in the given states.
Has(states, i) == states[ChangeOf[log[i]].app][ChangeOf[log[i]].property] = NewValue(log[i])

\* No later change of the log is of the same entry.
IsLatest(i) == \A j \in (i + 1)..Len(log) : ~SameEntry(log[i], log[j])

\* The states have what every change left that nothing overlapped.
HasIsolated(states) ==
    \A i \in DOMAIN log : log[i] \notin overlaps /\ IsLatest(i) => Has(states, i)

ReadersKnow ==
    \A c \in Changes : changes[c].status = "read" => HasIsolated(changes[c].states)

ReadersMarked ==
    \A c, d \in UnderWay : c # d => c \in overlaps

PersistInv == HasIsolated(stored) /\ ReadersKnow /\ ReadersMarked

(* The log says of a change what its states said when it was written.      *)
LEMMA WrittenEntry ==
    ASSUME StoreTyped, NEW c \in Changes, NEW states \in States
    PROVE  /\ UpdateAppState(states, c)[ChangeOf[c].app][ChangeOf[c].property] = NewValue(c)
           /\ \A d \in Changes : ~SameEntry(c, d) =>
                UpdateAppState(states, c)[ChangeOf[d].app][ChangeOf[d].property]
                    = states[ChangeOf[d].app][ChangeOf[d].property]
  <1>1. \A d \in Changes : /\ ChangeOf[d].app \in AppNames
                            /\ ChangeOf[d].property \in {"isFavorite", "lastOpened"}
    BY AppStatesAssumption
  <1>2. \A name \in AppNames : states[name] \in [isFavorite : BOOLEAN, lastOpened : Nat]
    BY DEF States
  <1>3. QED
    BY <1>1, <1>2 DEF UpdateAppState, SameEntry, States

(* A change that was written stays as it is.                               *)
LEMMA LoggedStays ==
    ASSUME Typed, [Next]_vars
    PROVE  \A i \in DOMAIN log : /\ log[i] \in Changes
                                 /\ changes[log[i]].status = "written"
                                 /\ changes'[log[i]] = changes[log[i]]
  <1> SUFFICES ASSUME NEW i \in DOMAIN log
               PROVE  /\ log[i] \in Changes
                      /\ changes[log[i]].status = "written"
                      /\ changes'[log[i]] = changes[log[i]]
    OBVIOUS
  <1>1. log[i] \in Changes /\ changes[log[i]].status = "written"
    BY DEF Typed, StoreTyped, Logged, ToSet
  <1>2. ASSUME NEW c \in Changes, AppStatusChange(c) PROVE changes'[log[i]] = changes[log[i]]
    BY <1>1, <1>2 DEF AppStatusChange, Typed, StoreTyped
  <1>3. ASSUME NEW c \in Changes, ReadStates(c) PROVE changes'[log[i]] = changes[log[i]]
    BY <1>1, <1>3 DEF ReadStates, Typed, StoreTyped
  <1>4. ASSUME NEW c \in Changes, WriteStates(c) PROVE changes'[log[i]] = changes[log[i]]
    BY <1>1, <1>4 DEF WriteStates, Typed, StoreTyped
  <1>5. QED
    BY <1>1, <1>2, <1>3, <1>4
    DEF Next, Connect, MetadataSettled, StatesAnswered, Ready, MessageArrives, Rerender,
        Disconnect, storeVars, vars

(* One step keeps what readers know and who is marked.                     *)
LEMMA PersistStep ==
    ASSUME Typed, PersistInv, [Next]_vars
    PROVE  PersistInv'
  <1>1. ASSUME NEW c \in Changes, AppStatusChange(c) PROVE PersistInv'
    <2>1. /\ UNCHANGED <<stored, log, overlaps>>
          /\ \A d \in Changes : /\ (changes'[d].status = "read") = (changes[d].status = "read")
                                 /\ changes'[d].states = changes[d].states
      BY <1>1 DEF AppStatusChange, Typed, StoreTyped, Change
    <2>2. HasIsolated(stored)'
      BY <2>1, LoggedStays
      DEF PersistInv, HasIsolated, Has, IsLatest, NewValue, IsOpening
    <2>3. ReadersKnow'
      BY <2>1, LoggedStays
      DEF PersistInv, ReadersKnow, HasIsolated, Has, IsLatest, NewValue, IsOpening
    <2>4. ReadersMarked'
      BY <2>1 DEF PersistInv, ReadersMarked, UnderWay
    <2>5. QED
      BY <2>2, <2>3, <2>4 DEF PersistInv
  <1>2. ASSUME NEW c \in Changes, ReadStates(c) PROVE PersistInv'
    <2>1. /\ UNCHANGED <<stored, log>>
          /\ overlaps' = overlaps \cup UnderWay \cup (IF UnderWay = {} THEN {} ELSE {c})
          /\ UnderWay' = UnderWay \cup {c}
          /\ changes'[c].states = stored
          /\ \A d \in Changes \ {c} : changes'[d] = changes[d]
      BY <1>2 DEF ReadStates, UnderWay, Typed, StoreTyped, Change
    <2>2. HasIsolated(stored)'
      BY <2>1, LoggedStays
      DEF PersistInv, HasIsolated, Has, IsLatest, NewValue, IsOpening
    <2>3. ReadersKnow'
      <3> SUFFICES ASSUME NEW d \in Changes, changes'[d].status = "read"
                   PROVE  HasIsolated(changes[d].states)'
        BY DEF ReadersKnow
      <3>1. CASE d = c
        BY <2>1, <2>2, <3>1 DEF HasIsolated, Has
      <3>2. CASE d # c
        <4>1. HasIsolated(changes[d].states) /\ changes'[d] = changes[d]
          BY <2>1, <3>2 DEF PersistInv, ReadersKnow
        <4>2. QED
          BY <2>1, <4>1, LoggedStays DEF HasIsolated, Has, IsLatest, NewValue, IsOpening
      <3>3. QED
        BY <3>1, <3>2
    <2>4. ReadersMarked'
      BY <2>1 DEF PersistInv, ReadersMarked, UnderWay
    <2>5. QED
      BY <2>2, <2>3, <2>4 DEF PersistInv
  <1>3. ASSUME NEW c \in Changes, WriteStates(c) PROVE PersistInv'
    <2> DEFINE read == changes[c].states
    <2>1. /\ changes[c].status = "read" /\ read \in States
          /\ stored' = UpdateAppState(read, c)
          /\ overlaps' = overlaps
          /\ changes'[c].status = "written"
          /\ \A d \in Changes \ {c} : changes'[d] = changes[d]
      BY <1>3 DEF WriteStates, Typed, StoreTyped, Change
    <2>2. /\ DOMAIN log = 1..Len(log) /\ Len(log) \in Nat
          /\ DOMAIN log' = 1..(Len(log) + 1) /\ Len(log') = Len(log) + 1
          /\ log'[Len(log) + 1] = c
          /\ \A i \in 1..Len(log) : log'[i] = log[i]
      BY <1>3 DEF WriteStates, Typed, StoreTyped
    <2>3. \A i \in 1..Len(log) : IsLatest(i)' => IsLatest(i) /\ ~SameEntry(log[i], c)
      BY <2>2 DEF IsLatest, SameEntry
    <2>4. HasIsolated(stored)'
      <3> SUFFICES ASSUME NEW i \in DOMAIN log', log'[i] \notin overlaps', IsLatest(i)'
                   PROVE  Has(stored, i)'
        BY DEF HasIsolated
      <3>1. CASE i = Len(log) + 1
        <4>1. NewValue(c)' = NewValue(c)
          BY <1>3 DEF WriteStates, NewValue, IsOpening, Typed, StoreTyped, Change
        <4>2. QED
          BY <2>1, <2>2, <3>1, <4>1, WrittenEntry DEF Has, Typed
      <3>2. CASE i \in 1..Len(log)
        <4>1. log[i] \in Changes /\ Has(read, i) /\ ~SameEntry(c, log[i])
          BY <2>1, <2>2, <2>3, <3>2, LoggedStays
          DEF PersistInv, ReadersKnow, HasIsolated, SameEntry
        <4>2. QED
          BY <2>1, <2>2, <3>2, <4>1, WrittenEntry, LoggedStays
          DEF Has, NewValue, IsOpening, Typed
      <3>3. QED
        BY <2>2, <3>1, <3>2
    <2>5. ReadersKnow'
      <3> SUFFICES ASSUME NEW d \in Changes, changes'[d].status = "read",
                          NEW i \in DOMAIN log', log'[i] \notin overlaps', IsLatest(i)'
                   PROVE  Has(changes[d].states, i)'
        BY DEF ReadersKnow, HasIsolated
      <3>1. d # c /\ changes'[d] = changes[d]
        BY <2>1
      <3>2. i \in 1..Len(log)
        BY <2>1, <2>2, <3>1 DEF PersistInv, ReadersMarked, UnderWay
      <3>3. Has(changes[d].states, i)
        BY <2>1, <2>2, <2>3, <3>1, <3>2 DEF PersistInv, ReadersKnow, HasIsolated
      <3>4. QED
        BY <2>2, <3>1, <3>2, <3>3, LoggedStays DEF Has, NewValue, IsOpening
    <2>6. ReadersMarked'
      BY <2>1 DEF PersistInv, ReadersMarked, UnderWay
    <2>7. QED
      BY <2>4, <2>5, <2>6 DEF PersistInv
  <1>4. CASE UNCHANGED storeVars
    BY <1>4
    DEF storeVars, PersistInv, HasIsolated, ReadersKnow, ReadersMarked, Has, IsLatest,
        UnderWay, NewValue
  <1>5. QED
    BY <1>1, <1>2, <1>3, <1>4
    DEF Next, Connect, MetadataSettled, StatesAnswered, Ready, MessageArrives, Rerender,
        Disconnect, vars

(* The invariant holds.                                                    *)
LEMMA PersistInvariant == Spec => [](Typed /\ PersistInv)
  <1>1. Init => Typed /\ PersistInv
    <2> SUFFICES ASSUME Init PROVE Typed /\ PersistInv
      OBVIOUS
    <2>1. Typed
      BY TypedInit DEF Typed
    <2>2. PersistInv
      BY DEF Init, PersistInv, HasIsolated, ReadersKnow, ReadersMarked, UnderWay
    <2>3. QED
      BY <2>1, <2>2
  <1>2. (Typed /\ PersistInv) /\ [Next]_vars => (Typed /\ PersistInv)'
    BY StoreStep, ViewStep, LogStep, PersistStep DEF Typed
  <1>3. QED
    BY <1>1, <1>2, PTL DEF Spec

(* A change that no other one overlapped persists.                         *)
THEOREM IsolatedPersist == Spec => []IsolatedChangesPersist
  <1>1. PersistInv => IsolatedChangesPersist
    BY DEF PersistInv, HasIsolated, Has, IsLatest, IsolatedChangesPersist, Persists
  <1>2. QED
    BY <1>1, PersistInvariant, PTL

--------------------------------------------------------------------------------
(* The message sent last, or else the answer on the way, or else what is   *)
(* shown, is what is stored.                                               *)
CaughtUp ==
    /\ phase = "closed" => channel = <<>>
    /\ channel # <<>> => channel[Len(channel)] = stored
    /\ phase = "answered" /\ channel = <<>> /\ ~overtaken => answer = stored
    /\ phase = "ready" /\ channel = <<>> /\ ~overtaken => appState = stored

(* A step of the launcher or a write keeps that.                           *)
LEMMA CatchUpStep ==
    ASSUME Typed, CaughtUp, [Next]_vars
    PROVE  CaughtUp'
  <1>1. ASSUME NEW c \in Changes, WriteStates(c) PROVE CaughtUp'
    <2>1. CASE phase = "closed"
      BY <1>1, <2>1 DEF WriteStates, Post, viewVars, CaughtUp
    <2>2. CASE phase # "closed"
      <3>1. channel' = Append(channel, stored') /\ channel \in Seq(States)
        BY <1>1, <2>2 DEF WriteStates, Post, Typed, ViewTyped
      <3>2. channel' # <<>> /\ channel'[Len(channel')] = stored'
        BY <3>1, StoreStep DEF Typed, StoreTyped
      <3>3. QED
        BY <1>1, <2>2, <3>2 DEF WriteStates, viewVars, CaughtUp
    <2>3. QED
      BY <2>1, <2>2
  <1>2. CASE MessageArrives
    <2>1. /\ channel \in Seq(States) /\ channel # <<>>
          /\ channel' = Tail(channel) /\ appState' = Head(channel)
          /\ overtaken' = (phase = "answered")
          /\ UNCHANGED <<stored, phase, answer>>
      BY <1>2 DEF MessageArrives, Show, storeVars, Typed, ViewTyped
    <2>2. channel' = <<>> => appState' = channel[Len(channel)]
      <3>1. SUFFICES ASSUME Tail(channel) = <<>> PROVE Head(channel) = channel[Len(channel)]
        BY <2>1
      <3>2. Len(channel) \in Nat /\ Len(Tail(channel)) = Len(channel) - 1
        BY <2>1, HeadTailProperties
      <3>3. Len(Tail(channel)) = 0
        BY <2>1, <3>1, HeadTailProperties, EmptySeq
      <3>4. Len(channel) = 1
        BY <3>2, <3>3
      <3>5. Head(channel) = channel[1]
        BY <2>1
      <3>6. QED
        BY <3>4, <3>5
    <2>3. channel' # <<>> => channel'[Len(channel')] = channel[Len(channel)]
      BY <2>1
    <2>4. QED
      BY <2>1, <2>2, <2>3 DEF CaughtUp
  <1>3. CASE Ready
    BY <1>3 DEF Ready, Show, storeVars, CaughtUp
  <1>4. CASE StatesAnswered
    BY <1>4 DEF StatesAnswered, storeVars, CaughtUp
  <1>5. CASE Connect \/ MetadataSettled
    BY <1>5 DEF Connect, MetadataSettled, storeVars, CaughtUp
  <1>6. CASE Rerender
    BY <1>6 DEF Rerender, Show, storeVars, CaughtUp
  <1>7. CASE Disconnect
    BY <1>7 DEF Disconnect, storeVars, CaughtUp
  <1>8. ASSUME NEW c \in Changes, AppStatusChange(c) \/ ReadStates(c) PROVE CaughtUp'
    BY <1>8 DEF AppStatusChange, ReadStates, viewVars, CaughtUp
  <1>9. CASE UNCHANGED vars
    BY <1>9 DEF vars, storeVars, viewVars, CaughtUp
  <1>10. QED
    BY <1>1, <1>2, <1>3, <1>4, <1>5, <1>6, <1>7, <1>8, <1>9 DEF Next

(* A ready launcher with no message on the way shows what is stored,       *)
(* unless a message overtook the answer to its first read.                 *)
THEOREM CatchUp == Spec => []ViewCatchesUp
  <1>1. Init => Typed /\ CaughtUp
    BY TypedInit DEF Init, CaughtUp
  <1>2. (Typed /\ CaughtUp) /\ [Next]_vars => (Typed /\ CaughtUp)'
    BY StoreStep, ViewStep, LogStep, CatchUpStep DEF Typed
  <1>3. CaughtUp => ViewCatchesUp
    BY DEF CaughtUp, ViewCatchesUp
  <1>4. QED
    BY <1>1, <1>2, <1>3, PTL DEF Spec
--------------------------------------------------------------------------------
(* The app lists: what the hiding, the filters and a render make of one.   *)
\* The lists with the same apps, each where it was.
Alike(list) ==
    {l \in [1..Len(list) -> AppType] :
        \A k \in 1..Len(list) : l[k].name = list[k].name /\ l[k].childNames = list[k].childNames}

NamesOf(list) == {list[k].name : k \in DOMAIN list}

IsParent(list, j, k) == list[k].name \in ToSet(list[j].childNames)

(* An app list by its positions.                                           *)
LEMMA AppListFacts ==
    ASSUME NEW list, IsAppList(list)
    PROVE  /\ Len(list) \in Nat /\ DOMAIN list = 1..Len(list)
           /\ list \in Alike(list)
           /\ \A k \in 1..Len(list) : list[k] \in AppType
           /\ \A j, k \in 1..Len(list) : list[j].name = list[k].name => j = k
           /\ \A j, k \in 1..Len(list) : IsParent(list, j, k) => list[k].childNames = <<>>
           /\ \A j, k \in 1..Len(list) : IsParent(list, j, k) => list[j].childNames # <<>>
  <1>1. list \in Seq(AppType)
    BY DEF IsAppList
  <1>2. Len(list) \in Nat /\ DOMAIN list = 1..Len(list) /\ list \in [1..Len(list) -> AppType]
    BY <1>1
  <1>3. list \in Alike(list) /\ \A k \in 1..Len(list) : list[k] \in AppType
    BY <1>2 DEF Alike
  <1>4. ASSUME NEW j \in 1..Len(list), NEW k \in 1..Len(list), IsParent(list, j, k)
        PROVE  list[k].childNames = <<>> /\ list[j].childNames # <<>>
    <2>1. list[j] \in ToSet(list) /\ list[k] \in ToSet(list)
      BY <1>2 DEF ToSet
    <2>2. list[k].childNames = <<>>
      BY <1>4, <2>1 DEF IsAppList, IsParent
    <2>3. list[j].childNames # <<>>
      BY <1>4 DEF IsParent, ToSet
    <2>4. QED
      BY <2>2, <2>3
  <1>5. \A j, k \in 1..Len(list) : list[j].name = list[k].name => j = k
    BY <1>2 DEF IsAppList
  <1>6. QED
    BY <1>2, <1>3, <1>4, <1>5

(* What is alike an app list is one, of the same names.                    *)
LEMMA AlikeIsAppList ==
    ASSUME NEW list, IsAppList(list), NEW l \in Alike(list)
    PROVE  /\ IsAppList(l) /\ Len(l) = Len(list) /\ NamesOf(l) = NamesOf(list)
           /\ \A j, k \in 1..Len(list) : IsParent(l, j, k) <=> IsParent(list, j, k)
  <1> DEFINE n == Len(list)
  <1>1. n \in Nat /\ DOMAIN list = 1..n
    BY AppListFacts
  <1>2. l \in [1..n -> AppType]
    BY DEF Alike
  <1>3. l \in Seq(AppType) /\ Len(l) = n /\ DOMAIN l = 1..n
    BY <1>1, <1>2
  <1>4. \A k \in 1..n : l[k].name = list[k].name /\ l[k].childNames = list[k].childNames
    BY DEF Alike
  <1> HIDE DEF n
  <1>5. \A j, k \in 1..n : IsParent(l, j, k) <=> IsParent(list, j, k)
    BY <1>4 DEF IsParent
  <1>6. NamesOf(l) = NamesOf(list)
    BY <1>1, <1>3, <1>4 DEF NamesOf
  <1>7. \A i, j \in DOMAIN l : l[i].name = l[j].name => i = j
    BY <1>3, <1>4, AppListFacts DEF n
  <1>8. ASSUME NEW child \in ToSet(l), NEW parent \in ToSet(l),
               child.name \in ToSet(parent.childNames)
        PROVE  child.childNames = <<>>
    <2>1. PICK k \in 1..n : child = l[k]
      BY <1>3 DEF ToSet
    <2>2. PICK j \in 1..n : parent = l[j]
      BY <1>3 DEF ToSet
    <2>3. IsParent(list, j, k)
      BY <1>5, <1>8, <2>1, <2>2 DEF IsParent
    <2>4. QED
      BY <1>4, <2>1, <2>3, AppListFacts DEF n
  <1>9. IsAppList(l)
    BY <1>3, <1>7, <1>8 DEF IsAppList
  <1>10. QED
    BY <1>3, <1>5, <1>6, <1>9 DEF n

(* A part of an app list, in its order, is one.                            *)
LEMMA PickedIsAppList ==
    ASSUME NEW list, IsAppList(list), NEW pass \in SUBSET (1..Len(list)),
           NEW kept \in Seq(AppType), Picked(kept, list, pass)
    PROVE  IsAppList(kept) /\ ToSet(kept) = {list[k] : k \in pass}
  <1> DEFINE m == Len(kept)
  <1>1. m \in Nat /\ DOMAIN kept = 1..m
    OBVIOUS
  <1>2. PICK at \in [1..m -> pass] :
          /\ \A j, k \in 1..m : j < k => at[j] < at[k]
          /\ \A k \in 1..m : kept[k] = list[at[k]]
          /\ \A i \in pass : \E k \in 1..m : at[k] = i
    BY DEF Picked
  <1> HIDE DEF m
  <1>3. \A k \in 1..m : at[k] \in pass /\ at[k] \in 1..Len(list)
    BY <1>2
  <1>4. ASSUME NEW j \in 1..m, NEW k \in 1..m, kept[j].name = kept[k].name PROVE j = k
    <2>1. at[j] = at[k]
      BY <1>2, <1>3, <1>4, AppListFacts
    <2>2. at[j] \in Nat /\ at[k] \in Nat
      BY <1>3
    <2>3. ~(j < k) /\ ~(k < j)
      BY <1>2, <2>1, <2>2
    <2>4. QED
      BY <2>3
  <1>5. ToSet(kept) = {list[k] : k \in pass}
    <2>1. \A k \in 1..m : kept[k] \in {list[i] : i \in pass}
      BY <1>2, <1>3
    <2>2. \A i \in pass : \E k \in 1..m : kept[k] = list[i]
      BY <1>2
    <2>3. ToSet(kept) = {kept[k] : k \in 1..m}
      BY <1>1 DEF ToSet
    <2>4. QED
      BY <2>1, <2>2, <2>3
  <1>6. ToSet(kept) \subseteq ToSet(list)
    BY <1>5, AppListFacts DEF ToSet
  <1>7. QED
    BY <1>1, <1>4, <1>5, <1>6 DEF IsAppList

--------------------------------------------------------------------------------
(* The fold of updateHiddenStates, position by position.                   *)
HideStep(l, j) == IF l[j].hidden THEN HideApps(l, l[j].childNames) ELSE l

LEMMA HideRun ==
    ASSUME NEW list, NEW n \in Nat, DOMAIN list = 1..n, NEW S, list \in S,
           NEW step \in [S \X (1..n) -> S],
           \A l \in S, j \in 1..n : step[<<l, j>>] = HideStep(l, j)
    PROVE  \E g : IsRun(g, S, list, n, step) /\ UpdateHiddenStates(list) = g[n]
  <1> DEFINE at == Positions(list)
             Rec(iter) == iter = [s \in SUBSET (1..n) |-> IF s = {} THEN list
                                     ELSE IF iter[s \ {Max(s)}][at[Max(s)]].hidden
                                          THEN HideApps(iter[s \ {Max(s)}],
                                                 iter[s \ {Max(s)}][at[Max(s)]].childNames)
                                          ELSE iter[s \ {Max(s)}]]
             it == CHOOSE iter : Rec(iter)
  <1>1. DOMAIN at = 1..n /\ \A j \in 1..n : at[j] = j
    BY DEF Positions
  <1>2. UpdateHiddenStates(list) = it[1..n]
    BY <1>1, Zenon DEF UpdateHiddenStates, FoldLeft, MapThenFoldSet
  <1>3. \A s \in SUBSET (1..n) : s # {} => Max(s) \in 1..n
    BY MaxPosition
  <1>4. \A iter : Rec(iter) <=> iter = [s \in SUBSET (1..n) |->
                  IF s = {} THEN list ELSE HideStep(iter[s \ {Max(s)}], at[Max(s)])]
    BY DEF HideStep
  <1>5. \A l \in S, j \in 1..n : step[<<l, j>>] = HideStep(l, at[j])
    BY <1>1
  <1> HIDE DEF at, Rec
  <1>6. \E iter : Rec(iter)
    <2>1. PICK iter \in [SUBSET (1..n) -> S] :
              \A s \in SUBSET (1..n) : Folded(iter, s, list, step)
      BY FoldExists
    <2>2. \A s \in SUBSET (1..n) :
            iter[s] = IF s = {} THEN list ELSE HideStep(iter[s \ {Max(s)}], at[Max(s)])
      BY <1>3, <1>5, <2>1 DEF Folded
    <2>3. iter = [s \in SUBSET (1..n) |->
                    IF s = {} THEN list ELSE HideStep(iter[s \ {Max(s)}], at[Max(s)])]
      BY <2>2
    <2>4. QED
      BY <1>4, <2>3
  <1>7. Rec(it)
    BY <1>6
  <1> HIDE DEF it
  <1>8. IsFold(it, S, list, n, step)
    <2>1. it = [s \in SUBSET (1..n) |->
                  IF s = {} THEN list ELSE HideStep(it[s \ {Max(s)}], at[Max(s)])]
      BY <1>4, <1>7
    <2>2. \A s \in SUBSET (1..n) :
            it[s] = IF s = {} THEN list ELSE HideStep(it[s \ {Max(s)}], at[Max(s)])
      BY <2>1
    <2>3. QED
      BY <1>3, <1>5, <2>2 DEF IsFold, Folded
  <1>9. FoldsTo(S, list, n, step, it[1..n])
    BY <1>8, FoldReaches
  <1>10. QED
    BY <1>2, <1>9 DEF FoldsTo

HiddenBelow(list, k, i) ==
    \E j \in 1..i : list[j].hidden /\ IsParent(list, j, k)

(* Hiding the children of an app changes nothing else.                     *)
LEMMA HideStepKeeps ==
    ASSUME NEW list, IsAppList(list), NEW l \in Alike(list), NEW j \in 1..Len(list)
    PROVE  /\ HideStep(l, j) \in Alike(list)
           /\ \A k \in 1..Len(list) :
                /\ HideStep(l, j)[k].isChild = l[k].isChild
                /\ HideStep(l, j)[k].hidden <=> l[k].hidden \/ (l[j].hidden /\ IsParent(list, j, k))
  <1> DEFINE n == Len(list)
  <1>1. /\ DOMAIN l = 1..n
        /\ \A k \in 1..n : /\ l[k] \in AppType /\ l[k].name = list[k].name
                           /\ l[k].childNames = list[k].childNames
    BY DEF Alike
  <1>2. \A k \in 1..n : l[k].hidden \in BOOLEAN
    BY <1>1 DEF AppType
  <1>3. CASE ~l[j].hidden
    BY <1>3 DEF HideStep
  <1>4. CASE l[j].hidden
    <2> DEFINE h == HideApps(l, l[j].childNames)
    <2>1. HideStep(l, j) = h
      BY <1>4 DEF HideStep
    <2>2. ASSUME NEW k \in 1..n
          PROVE  /\ h[k] \in AppType /\ h[k].name = list[k].name
                 /\ h[k].childNames = list[k].childNames /\ h[k].isChild = l[k].isChild
                 /\ h[k].hidden <=> l[k].hidden \/ IsParent(list, j, k)
      <3>1. h[k] = [l[k] EXCEPT !.hidden = @ \/ l[k].name \in ToSet(l[j].childNames)]
        BY <1>1 DEF HideApps
      <3>2. (l[k].hidden \/ l[k].name \in ToSet(l[j].childNames)) \in BOOLEAN
        BY <1>2
      <3>3. l[k].name \in ToSet(l[j].childNames) <=> IsParent(list, j, k)
        BY <1>1 DEF IsParent
      <3>4. QED
        BY <1>1, <3>1, <3>2, <3>3 DEF AppType
    <2>3. DOMAIN h = 1..n
      BY <1>1 DEF HideApps
    <2>4. h = [k \in 1..n |-> h[k]]
      BY <1>1 DEF HideApps
    <2> HIDE DEF h
    <2>5. h \in Alike(list)
      BY <2>2, <2>4 DEF Alike
    <2>6. QED
      BY <1>4, <2>1, <2>2, <2>5
  <1>5. QED
    BY <1>3, <1>4

(* After the pass just those apps are hidden that were, or that are below  *)
(* one that was.                                                           *)
LEMMA Hidden ==
    ASSUME NEW list, IsAppList(list)
    PROVE  /\ UpdateHiddenStates(list) \in Alike(list)
           /\ \A k \in 1..Len(list) :
                /\ UpdateHiddenStates(list)[k].isChild = list[k].isChild
                /\ UpdateHiddenStates(list)[k].hidden
                     <=> list[k].hidden \/ HiddenBelow(list, k, Len(list))
  <1> DEFINE n == Len(list)
             S == Alike(list)
             step == [x \in S \X (1..n) |-> HideStep(x[1], x[2])]
  <1>1. n \in Nat /\ DOMAIN list = 1..n /\ list \in S
    BY AppListFacts
  <1>2. \A l \in S, j \in 1..n : HideStep(l, j) \in S
    BY HideStepKeeps
  <1>3. step \in [S \X (1..n) -> S]
    BY <1>2
  <1>4. \A l \in S, j \in 1..n : step[<<l, j>>] = HideStep(l, j)
    OBVIOUS
  <1> HIDE DEF n, S, step
  <1>5. PICK g : IsRun(g, S, list, n, step) /\ UpdateHiddenStates(list) = g[n]
    BY <1>1, <1>3, <1>4, HideRun
  <1> DEFINE Right(l, i) == \A k \in 1..n : /\ l[k].isChild = list[k].isChild
                                            /\ l[k].hidden <=> list[k].hidden \/ HiddenBelow(list, k, i)
             right == {i \in 0..n : Right(g[i], i)}
  <1>6. 0 \in right
    BY <1>1, <1>5 DEF IsRun, HiddenBelow
  <1>7. ASSUME NEW i \in 0..n, i < n, i \in right PROVE i + 1 \in right
    <2> DEFINE l == g[i]
               h == g[i + 1]
    <2>1. i + 1 \in 1..n /\ i + 1 \in 0..n /\ (i + 1) - 1 = i
      BY <1>1, <1>7
    <2>2. l \in S /\ h = step[<<l, i + 1>>]
      BY <1>5, <2>1 DEF IsRun
    <2>3. h = HideStep(l, i + 1)
      BY <1>4, <2>1, <2>2
    <2>4. Right(l, i)
      BY <1>7
    <2> HIDE DEF l, h
    <2>5. ASSUME NEW k \in 1..n
          PROVE  /\ h[k].isChild = list[k].isChild
                 /\ h[k].hidden <=> list[k].hidden \/ HiddenBelow(list, k, i + 1)
      <3>1. h[k].isChild = l[k].isChild
            /\ (h[k].hidden <=> l[k].hidden \/ (l[i + 1].hidden /\ IsParent(list, i + 1, k)))
        BY <2>1, <2>2, <2>3, HideStepKeeps DEF n, S
      <3>2. HiddenBelow(list, k, i + 1)
              <=> HiddenBelow(list, k, i) \/ (list[i + 1].hidden /\ IsParent(list, i + 1, k))
        BY <1>1, <2>1 DEF HiddenBelow
      <3>3. IsParent(list, i + 1, k) => (l[i + 1].hidden <=> list[i + 1].hidden)
        <4>1. ASSUME IsParent(list, i + 1, k) PROVE ~HiddenBelow(list, i + 1, i)
          <5>1. list[i + 1].childNames # <<>>
            BY <2>1, <4>1, AppListFacts DEF n
          <5>2. \A j \in 1..i : j \in 1..n
            BY <1>1
          <5>3. QED
            BY <2>1, <5>1, <5>2, AppListFacts DEF n, HiddenBelow
        <4>2. QED
          BY <2>1, <2>4, <4>1
      <3>4. QED
        BY <2>4, <3>1, <3>2, <3>3
    <2>6. QED
      BY <2>1, <2>5 DEF h
  <1>8. n \in right
    <2> HIDE DEF right
    <2>1. \A i \in 0..n : i \in right
      BY <1>1, <1>6, <1>7, UpTo
    <2>2. QED
      BY <1>1, <2>1
  <1>9. g[n] \in S
    BY <1>1, <1>5 DEF IsRun
  <1>10. QED
    BY <1>5, <1>8, <1>9 DEF S, n

(* The two filters of app lists that decide what is on a card.             *)
LEMMA VisiblePicked ==
    ASSUME NEW S, NEW list, NEW u \in Seq(S), u = UpdateHiddenStates(list)
    PROVE  /\ VisibleApps(list) \in Seq(S)
           /\ Picked(VisibleApps(list), u, {i \in 1..Len(u) : ~u[i].hidden})
  <1> DEFINE pass == {i \in 1..Len(u) : ~u[i].hidden}
             Rec(kept) == kept = [i \in 0..Len(u) |->
                            IF i = 0 THEN <<>>
                            ELSE IF ~u[i].hidden THEN Append(kept[i - 1], u[i]) ELSE kept[i - 1]]
             it == CHOOSE kept : Rec(kept)
  <1>1. VisibleApps(list) = it[Len(u)]
    BY Zenon DEF VisibleApps, Filter
  <1>2. \A i \in 0..Len(u) : i # 0 => (i \in pass <=> ~u[i].hidden)
    OBVIOUS
  <1> HIDE DEF pass
  <1>3. \A kept : Rec(kept) <=> IsFilter(kept, u, pass)
    BY <1>2 DEF IsFilter
  <1> HIDE DEF Rec
  <1>4. \E kept : Rec(kept)
    BY <1>3, FilterExists
  <1>5. Rec(it)
    BY <1>4
  <1> HIDE DEF it
  <1>6. pass \in SUBSET (1..Len(u))
    BY DEF pass
  <1>7. it[Len(u)] \in Seq(S) /\ Picked(it[Len(u)], u, pass)
    BY <1>3, <1>5, <1>6, FilterReached
  <1>8. QED
    BY <1>1, <1>7 DEF pass

LEMMA RootsPicked ==
    ASSUME NEW S, NEW list \in Seq(S)
    PROVE  /\ RootApps(list) \in Seq(S)
           /\ Picked(RootApps(list), list, {i \in 1..Len(list) : ~list[i].isChild})
  <1> DEFINE pass == {i \in 1..Len(list) : ~list[i].isChild}
             Rec(kept) == kept = [i \in 0..Len(list) |->
                            IF i = 0 THEN <<>>
                            ELSE IF ~list[i].isChild THEN Append(kept[i - 1], list[i])
                            ELSE kept[i - 1]]
             it == CHOOSE kept : Rec(kept)
  <1>1. RootApps(list) = it[Len(list)]
    BY Zenon DEF RootApps, Filter
  <1>2. \A i \in 0..Len(list) : i # 0 => (i \in pass <=> ~list[i].isChild)
    OBVIOUS
  <1> HIDE DEF pass
  <1>3. \A kept : Rec(kept) <=> IsFilter(kept, list, pass)
    BY <1>2 DEF IsFilter
  <1> HIDE DEF Rec
  <1>4. \E kept : Rec(kept)
    BY <1>3, FilterExists
  <1>5. Rec(it)
    BY <1>4
  <1> HIDE DEF it
  <1>6. pass \in SUBSET (1..Len(list))
    BY DEF pass
  <1>7. it[Len(list)] \in Seq(S) /\ Picked(it[Len(list)], list, pass)
    BY <1>3, <1>5, <1>6, FilterReached
  <1>8. QED
    BY <1>1, <1>7 DEF pass

\* Visible by the list alone: neither hidden nor the child of a hidden app.
VisibleNames(list) ==
    {app.name : app \in {a \in ToSet(list) :
        /\ ~a.hidden
        /\ \A parent \in ToSet(list) : a.name \in ToSet(parent.childNames) => ~parent.hidden}}

(* The apps left are those visible by the list alone.                      *)
LEMMA Visible ==
    ASSUME NEW list, IsAppList(list), \A app \in ToSet(list) : ~app.isChild
    PROVE  /\ IsAppList(VisibleApps(list))
           /\ NamesOf(VisibleApps(list)) = VisibleNames(list)
           /\ \A app \in ToSet(VisibleApps(list)) : ~app.isChild
  <1> DEFINE n == Len(list)
             u == UpdateHiddenStates(list)
             v == VisibleApps(list)
             pass == {i \in 1..Len(u) : ~u[i].hidden}
  <1>1. u \in Alike(list) /\ IsAppList(u) /\ Len(u) = n /\ u \in Seq(AppType)
    BY Hidden, AlikeIsAppList DEF IsAppList
  <1>2. v \in Seq(AppType) /\ Picked(v, u, pass)
    <2> HIDE DEF u, v, pass
    <2>1. u \in Seq(AppType) /\ u = UpdateHiddenStates(list)
      BY <1>1 DEF u
    <2>2. QED
      BY <2>1, VisiblePicked DEF v, pass
  <1> HIDE DEF v
  <1>3. IsAppList(v) /\ ToSet(v) = {u[k] : k \in pass}
    BY <1>1, <1>2, PickedIsAppList
  <1>4. n \in Nat /\ DOMAIN list = 1..n /\ \A k \in 1..n : list[k] \in ToSet(list)
    BY AppListFacts DEF ToSet
  <1>5. \A k \in 1..n : /\ u[k].name = list[k].name /\ ~u[k].isChild
                        /\ u[k].hidden <=> list[k].hidden \/ HiddenBelow(list, k, n)
    <2>1. \A k \in 1..n : ~list[k].isChild
      BY <1>4
    <2>2. \A k \in 1..n : u[k].isChild = list[k].isChild /\ u[k].name = list[k].name
      BY <1>1, Hidden DEF Alike
    <2>3. \A k \in 1..n : u[k].hidden <=> list[k].hidden \/ HiddenBelow(list, k, n)
      BY Hidden
    <2> HIDE DEF u, n
    <2>4. QED
      BY <2>1, <2>2, <2>3
  <1> HIDE DEF u, n
  <1>6. pass = {k \in 1..n : ~u[k].hidden}
    BY <1>1
  <1>7. NamesOf(v) = {u[k].name : k \in pass}
    <2>1. NamesOf(v) = {app.name : app \in ToSet(v)}
      BY DEF NamesOf, ToSet
    <2>2. QED
      BY <1>3, <2>1
  <1>8. \A k \in 1..n :
          k \in pass <=> /\ ~list[k].hidden
                         /\ \A parent \in ToSet(list) :
                              list[k].name \in ToSet(parent.childNames) => ~parent.hidden
    <2>1. \A k \in 1..n : HiddenBelow(list, k, n)
            <=> \E parent \in ToSet(list) : parent.hidden /\ list[k].name \in ToSet(parent.childNames)
      <3>1. SUFFICES ASSUME NEW k \in 1..n
                     PROVE  HiddenBelow(list, k, n)
                              <=> \E parent \in ToSet(list) :
                                    parent.hidden /\ list[k].name \in ToSet(parent.childNames)
        OBVIOUS
      <3>2. ASSUME HiddenBelow(list, k, n)
            PROVE  \E parent \in ToSet(list) :
                     parent.hidden /\ list[k].name \in ToSet(parent.childNames)
        BY <1>4, <3>2 DEF HiddenBelow, IsParent
      <3>3. ASSUME NEW parent \in ToSet(list), parent.hidden,
                   list[k].name \in ToSet(parent.childNames)
            PROVE  HiddenBelow(list, k, n)
        <4>1. PICK j \in 1..n : parent = list[j]
          BY <1>4 DEF ToSet
        <4>2. QED
          BY <3>3, <4>1 DEF HiddenBelow, IsParent
      <3>4. QED
        BY <3>2, <3>3
    <2>2. QED
      BY <1>5, <1>6, <2>1
  <1>9. {list[k].name : k \in pass} = VisibleNames(list)
    <2>1. \A k \in 1..n : k \in pass => list[k].name \in VisibleNames(list)
      BY <1>4, <1>8 DEF VisibleNames
    <2>2. \A name \in VisibleNames(list) : \E k \in 1..n : k \in pass /\ name = list[k].name
      BY <1>4, <1>8 DEF VisibleNames, ToSet
    <2>3. pass \subseteq 1..n
      BY <1>6
    <2> HIDE DEF pass
    <2>4. QED
      BY <2>1, <2>2, <2>3
  <1>10. NamesOf(v) = VisibleNames(list)
    BY <1>5, <1>6, <1>7, <1>9
  <1>11. \A app \in ToSet(v) : ~app.isChild
    BY <1>3, <1>5, <1>6
  <1>12. QED
    BY <1>3, <1>10, <1>11 DEF v

--------------------------------------------------------------------------------
(* The route of a child, once it is below its parent, is left alone.       *)
Route == Seq(Segments)

Below(route, prefix) == route = <<>> \/ Includes(route, prefix)

LEMMA IncludesOwn ==
    ASSUME NEW route \in Route, NEW prefix \in Route, route # <<>>
    PROVE  Includes(prefix \o route, prefix)
  <1> DEFINE longer == prefix \o route
  <1>1. /\ Len(prefix) \in Nat /\ Len(route) \in Nat /\ Len(route) # 0
        /\ Len(longer) = Len(prefix) + Len(route) /\ longer \in Route
        /\ \A i \in 1..Len(prefix) : longer[i] = prefix[i]
    BY DEF Route
  <1> HIDE DEF longer
  <1>2. SubSeq(longer, 1, 1 + Len(prefix) - 1) = prefix
    <2>1. 1 + Len(prefix) - 1 = Len(prefix)
      BY <1>1
    <2>2. SubSeq(longer, 1, Len(prefix)) \in Route /\ Len(SubSeq(longer, 1, Len(prefix))) = Len(prefix)
      BY <1>1 DEF Route
    <2>3. \A i \in 1..Len(prefix) : SubSeq(longer, 1, Len(prefix))[i] = prefix[i]
      BY <1>1 DEF Route
    <2>4. SubSeq(longer, 1, Len(prefix)) = prefix
      BY <2>2, <2>3, SeqEqual DEF Route
    <2>5. QED
      BY <2>1, <2>4
  <1>3. 1 \in 1..Len(longer) /\ 1 + Len(prefix) <= Len(longer)
    BY <1>1
  <1>4. QED
    BY <1>2, <1>3 DEF Includes, longer

LEMMA IncludesBelow ==
    ASSUME NEW route \in Route, NEW prefix \in Route, NEW other \in Route, Includes(route, other)
    PROVE  Includes(prefix \o route, other)
  <1> DEFINE longer == prefix \o route
             m == Len(other)
             n == Len(prefix)
  <1>1. /\ n \in Nat /\ Len(route) \in Nat /\ m \in Nat
        /\ Len(longer) = n + Len(route) /\ longer \in Route
        /\ \A i \in 1..Len(route) : longer[n + i] = route[i]
    BY DEF Route
  <1>2. PICK i \in 1..Len(route) : /\ i + m <= Len(route)
                                  /\ SubSeq(route, i, i + m - 1) = other
    BY DEF Includes
  <1> HIDE DEF longer, m, n
  <1>3. SubSeq(longer, n + i, n + i + m - 1) = other
    <2> DEFINE a == SubSeq(route, i, i + m - 1)
               b == SubSeq(longer, n + i, n + i + m - 1)
    <2>1. /\ a \in Seq(Segments) /\ Len(a) = m
          /\ \A j \in 1..m : a[j] = route[i + j - 1]
      BY <1>1, <1>2 DEF Route
    <2>2. /\ b \in Seq(Segments) /\ Len(b) = m
          /\ \A j \in 1..m : b[j] = longer[n + i + j - 1]
      BY <1>1, <1>2 DEF Route
    <2>3. \A j \in 1..m : i + j - 1 \in 1..Len(route) /\ n + (i + j - 1) = n + i + j - 1
      BY <1>1, <1>2
    <2>4. \A j \in 1..m : longer[n + i + j - 1] = route[i + j - 1]
      BY <1>1, <2>3
    <2> HIDE DEF a, b
    <2>5. a = b
      BY <2>1, <2>2, <2>4, SeqEqual
    <2>6. QED
      BY <1>2, <2>5 DEF a, b
  <1>4. n + i \in 1..Len(longer) /\ (n + i) + m <= Len(longer)
    BY <1>1, <1>2
  <1>5. QED
    BY <1>3, <1>4 DEF Includes, longer, m, n

LEMMA RouteBelowFacts ==
    ASSUME NEW route \in Route, NEW prefix \in Route
    PROVE  /\ RouteBelow(route, prefix) \in Route
           /\ RouteBelow(route, prefix) = <<>> <=> route = <<>>
           /\ Below(RouteBelow(route, prefix), prefix)
           /\ \A other \in Route : Below(route, other) => Below(RouteBelow(route, prefix), other)
           /\ Below(route, prefix) => RouteBelow(route, prefix) = route
  <1>1. CASE Below(route, prefix)
    BY <1>1 DEF RouteBelow, Below
  <1>2. CASE ~Below(route, prefix)
    <2>1. RouteBelow(route, prefix) = prefix \o route /\ route # <<>>
      BY <1>2 DEF RouteBelow, Below
    <2>2. prefix \o route \in Route /\ prefix \o route # <<>>
      BY <2>1 DEF Route
    <2>3. QED
      BY <1>2, <2>1, <2>2, IncludesOwn, IncludesBelow DEF Below
  <1>3. QED
    BY <1>1, <1>2

(* The position of an app name in an app list, or 0.                       *)
LEMMA Index ==
    ASSUME NEW list, IsAppList(list), NEW name
    PROVE  \/ /\ IndexOfApp(list, name) = 0
              /\ \A k \in 1..Len(list) : list[k].name # name
           \/ /\ IndexOfApp(list, name) \in 1..Len(list)
              /\ \A k \in 1..Len(list) : list[k].name = name <=> k = IndexOfApp(list, name)
  <1> DEFINE found == {i \in 1..Len(list) : list[i].name = name}
  <1>1. IndexOfApp(list, name) = IF found # {} THEN Min(found) ELSE 0
    BY Zenon DEF IndexOfApp, SelectInSeq
  <1>2. CASE found = {}
    BY <1>1, <1>2
  <1>3. CASE found # {}
    <2>1. found \in SUBSET (1..Len(list)) /\ Len(list) \in Nat
      BY AppListFacts
    <2> HIDE DEF found
    <2>2. Min(found) \in found
      BY <1>3, <2>1, MinPosition
    <2>3. IndexOfApp(list, name) \in found
      BY <1>1, <1>3, <2>2
    <2>4. QED
      BY <2>3, AppListFacts DEF found
  <1>4. QED
    BY <1>2, <1>3

--------------------------------------------------------------------------------
(* The children of one app: the inner fold of setHierarchicAppStructure.   *)
\* What the apps are once the children of the one at i with these names are adopted.
Adopted(l, list, i, names) ==
    \A k \in 1..Len(list) :
        /\ l[k].isChild => list[k].isChild \/ IsParent(list, i, k)
        /\ IsParent(list, i, k) \/ l[k].route = list[k].route
        /\ \A prefix \in Route : Below(list[k].route, prefix) => Below(l[k].route, prefix)
        /\ list[k].name \in names => Below(l[k].route, PrefixOf(list[i]))
        /\ Below(list[k].route, PrefixOf(list[i])) => l[k].route = list[k].route
        /\ l[k].isFavorite = list[k].isFavorite

LEMMA PrefixTyped ==
    ASSUME NEW app \in AppType
    PROVE  PrefixOf(app) \in Route
  <1>1. <<Undefined>> \in Route
    BY AppStatesAssumption DEF Route
  <1>2. QED
    BY <1>1 DEF PrefixOf, AppType, Route

\* What adopting one child changes.
LEMMA AdoptChildFacts ==
    ASSUME NEW list, IsAppList(list), NEW l \in Alike(list), NEW prefix \in Route, NEW name
    PROVE  /\ AdoptChild(l, prefix, name) \in Alike(list)
           /\ \A k \in 1..Len(list) :
                IF list[k].name = name
                THEN AdoptChild(l, prefix, name)[k].route = RouteBelow(l[k].route, prefix)
                ELSE AdoptChild(l, prefix, name)[k] = l[k]
           /\ \A k \in 1..Len(list) : AdoptChild(l, prefix, name)[k].isFavorite = l[k].isFavorite
  <1> DEFINE n == Len(list)
             at == IndexOfApp(l, name)
             r == AdoptChild(l, prefix, name)
  <1>1. IsAppList(l) /\ Len(l) = n
    BY AlikeIsAppList
  <1>2. /\ DOMAIN l = 1..n
        /\ \A k \in 1..n : /\ l[k] \in AppType /\ l[k].name = list[k].name
                           /\ l[k].childNames = list[k].childNames
    BY DEF Alike
  <1>3. r = IF at = 0 THEN l
            ELSE [l EXCEPT ![at].isChild = TRUE, ![at].route = RouteBelow(@, prefix)]
    BY DEF AdoptChild
  <1>4. \/ at = 0 /\ \A k \in 1..n : l[k].name # name
        \/ at \in 1..n /\ \A k \in 1..n : l[k].name = name <=> k = at
    BY <1>1, Index
  <1> HIDE DEF at, r
  <1>5. CASE at = 0
    BY <1>2, <1>3, <1>4, <1>5 DEF r
  <1>6. CASE at # 0
    <2> DEFINE x == [l[at] EXCEPT !.isChild = TRUE, !.route = RouteBelow(@, prefix)]
    <2>1. at \in 1..n /\ \A k \in 1..n : list[k].name = name <=> k = at
      BY <1>2, <1>4, <1>6
    <2>2. RouteBelow(l[at].route, prefix) \in Route
      BY <1>2, <2>1, RouteBelowFacts DEF AppType, Route
    <2>3. /\ x \in AppType /\ x.name = l[at].name /\ x.childNames = l[at].childNames
          /\ x.route = RouteBelow(l[at].route, prefix) /\ x.isFavorite = l[at].isFavorite
      BY <1>2, <2>1, <2>2 DEF AppType, Route
    <2>4. r = [l EXCEPT ![at] = x]
      BY <1>2, <1>3, <1>6, <2>1
    <2> HIDE DEF x
    <2>5. r \in [1..n -> AppType] /\ r[at] = x /\ \A k \in 1..n : k # at => r[k] = l[k]
      BY <1>2, <2>1, <2>3, <2>4 DEF Alike
    <2>6. \A k \in 1..n : r[k].name = list[k].name /\ r[k].childNames = list[k].childNames
      BY <1>2, <2>1, <2>3, <2>5
    <2>7. r \in Alike(list)
      BY <2>5, <2>6 DEF Alike
    <2>8. QED
      BY <2>1, <2>3, <2>5, <2>7 DEF r
  <1>7. QED
    BY <1>5, <1>6

(* One more child is adopted.                                              *)
LEMMA AdoptNext ==
    ASSUME NEW list, IsAppList(list), NEW l \in Alike(list), NEW i \in 1..Len(list), NEW names,
           NEW name \in ToSet(list[i].childNames), Adopted(l, list, i, names)
    PROVE  Adopted(AdoptChild(l, PrefixOf(l[i]), name), list, i, names \cup {name})
  <1> DEFINE n == Len(list)
             prefix == PrefixOf(list[i])
             r == AdoptChild(l, PrefixOf(l[i]), name)
  <1>1. /\ \A k \in 1..n : l[k] \in AppType /\ list[k] \in AppType
        /\ \A k \in 1..n : l[k].route \in Route /\ list[k].route \in Route
    BY AppListFacts DEF Alike, AppType, Route
  <1>2. prefix \in Route /\ PrefixOf(l[i]) \in Route
    BY <1>1, PrefixTyped
  <1>3. PrefixOf(l[i]) = prefix
    <2>1. list[i].childNames # <<>>
      BY DEF ToSet
    <2>2. ~IsParent(list, i, i)
      BY <2>1, AppListFacts
    <2>3. l[i].route = list[i].route
      BY <2>2 DEF Adopted
    <2>4. QED
      BY <2>3 DEF PrefixOf
  <1>4. \A k \in 1..n : IF list[k].name = name THEN r[k].route = RouteBelow(l[k].route, prefix)
                        ELSE r[k] = l[k]
    BY <1>2, <1>3, AdoptChildFacts
  <1>7. \A k \in 1..n : r[k].isFavorite = l[k].isFavorite
    BY <1>2, AdoptChildFacts
  <1> HIDE DEF r, prefix, n
  <1>5. ASSUME NEW k \in 1..n
        PROVE  /\ r[k].isChild => list[k].isChild \/ IsParent(list, i, k)
               /\ IsParent(list, i, k) \/ r[k].route = list[k].route
               /\ \A q \in Route : Below(list[k].route, q) => Below(r[k].route, q)
               /\ list[k].name \in names \cup {name} => Below(r[k].route, prefix)
               /\ Below(list[k].route, prefix) => r[k].route = list[k].route
               /\ r[k].isFavorite = list[k].isFavorite
    <2>1. /\ l[k].isChild => list[k].isChild \/ IsParent(list, i, k)
          /\ IsParent(list, i, k) \/ l[k].route = list[k].route
          /\ \A q \in Route : Below(list[k].route, q) => Below(l[k].route, q)
          /\ list[k].name \in names => Below(l[k].route, prefix)
          /\ Below(list[k].route, prefix) => l[k].route = list[k].route
          /\ l[k].isFavorite = list[k].isFavorite
      BY DEF Adopted, n, prefix
    <2>2. CASE list[k].name # name
      BY <1>4, <2>1, <2>2
    <2>3. CASE list[k].name = name
      <3>1. IsParent(list, i, k)
        BY <2>3 DEF IsParent
      <3>2. r[k].route = RouteBelow(l[k].route, prefix)
        BY <1>4, <2>3
      <3>3. QED
        BY <1>1, <1>2, <1>7, <2>1, <3>1, <3>2, RouteBelowFacts
    <2>4. QED
      BY <2>2, <2>3
  <1>6. QED
    BY <1>5 DEF Adopted, n, prefix, r

\* The fold over the names of the children, name by name.
AdoptStep(l, i, name) == AdoptChild(l, PrefixOf(l[i]), name)

AdoptAll(list, i, names) ==
    FoldLeft(LAMBDA l, childName : AdoptChild(l, PrefixOf(l[i]), childName), list, names)

Adoption(list, i) == AdoptAll(list, i, list[i].childNames)

IsAdoption(g, S, list, i, items, n) ==
    /\ g \in [0..n -> S]
    /\ g[0] = list
    /\ \A j \in 1..n : g[j] = AdoptStep(g[j - 1], i, items[j])

LEMMA AdoptAllRun ==
    ASSUME NEW list, NEW i, NEW items, NEW n \in Nat, DOMAIN items = 1..n,
           NEW S, list \in S, \A l \in S : \A name : AdoptStep(l, i, name) \in S
    PROVE  \E g : IsAdoption(g, S, list, i, items, n) /\ AdoptAll(list, i, items) = g[n]
  <1> DEFINE step == [x \in S \X (1..n) |-> AdoptStep(x[1], i, items[x[2]])]
             Rec(iter) == iter = [s \in SUBSET (1..n) |-> IF s = {} THEN list
                                    ELSE AdoptChild(iter[s \ {Max(s)}],
                                                    PrefixOf(iter[s \ {Max(s)}][i]), items[Max(s)])]
             it == CHOOSE iter : Rec(iter)
  <1>1. AdoptAll(list, i, items) = it[1..n]
    BY Zenon DEF AdoptAll, FoldLeft, MapThenFoldSet
  <1>2. \A s \in SUBSET (1..n) : s # {} => Max(s) \in 1..n
    BY MaxPosition
  <1>3. \A iter : Rec(iter) <=> iter = [s \in SUBSET (1..n) |->
                  IF s = {} THEN list ELSE AdoptStep(iter[s \ {Max(s)}], i, items[Max(s)])]
    BY DEF AdoptStep
  <1>4. step \in [S \X (1..n) -> S] /\ \A j \in 1..n : j - 1 \in 0..n
    OBVIOUS
  <1>5. \A l \in S, j \in 1..n : step[<<l, j>>] = AdoptStep(l, i, items[j])
    OBVIOUS
  <1> HIDE DEF Rec, step
  <1>6. \E iter : Rec(iter)
    <2>1. PICK iter \in [SUBSET (1..n) -> S] :
              \A s \in SUBSET (1..n) : Folded(iter, s, list, step)
      BY <1>4, FoldExists
    <2>2. \A s \in SUBSET (1..n) :
            iter[s] = IF s = {} THEN list ELSE AdoptStep(iter[s \ {Max(s)}], i, items[Max(s)])
      BY <1>2, <1>5, <2>1 DEF Folded
    <2>3. iter = [s \in SUBSET (1..n) |->
                    IF s = {} THEN list ELSE AdoptStep(iter[s \ {Max(s)}], i, items[Max(s)])]
      BY <2>2
    <2>4. QED
      BY <1>3, <2>3
  <1>7. Rec(it)
    BY <1>6
  <1> HIDE DEF it
  <1>8. IsFold(it, S, list, n, step)
    <2>1. it = [s \in SUBSET (1..n) |->
                  IF s = {} THEN list ELSE AdoptStep(it[s \ {Max(s)}], i, items[Max(s)])]
      BY <1>3, <1>7
    <2>2. \A s \in SUBSET (1..n) :
            it[s] = IF s = {} THEN list ELSE AdoptStep(it[s \ {Max(s)}], i, items[Max(s)])
      BY <2>1
    <2>3. QED
      BY <1>2, <1>5, <2>2 DEF IsFold, Folded
  <1>9. PICK g : IsRun(g, S, list, n, step) /\ g[n] = it[1..n]
    <2>1. FoldsTo(S, list, n, step, it[1..n])
      BY <1>4, <1>8, FoldReaches
    <2>2. QED
      BY <2>1 DEF FoldsTo
  <1>10. IsAdoption(g, S, list, i, items, n)
    BY <1>4, <1>5, <1>9 DEF IsRun, IsAdoption
  <1>11. QED
    BY <1>1, <1>9, <1>10

(* All children of one app are adopted.                                    *)
LEMMA AdoptAllFacts ==
    ASSUME NEW list, IsAppList(list), NEW i \in 1..Len(list)
    PROVE  /\ Adoption(list, i) \in Alike(list)
           /\ Adopted(Adoption(list, i), list, i, ToSet(list[i].childNames))
  <1> DEFINE items == list[i].childNames
             n == Len(items)
             S == Alike(list)
  <1>1. items \in Seq(AppNames)
    BY AppListFacts DEF AppType
  <1>2. n \in Nat /\ DOMAIN items = 1..n /\ \A j \in 1..n : items[j] \in ToSet(items)
    BY <1>1 DEF ToSet
  <1>3. list \in S
    BY AppListFacts
  <1>4. ASSUME NEW l \in S, NEW name PROVE AdoptStep(l, i, name) \in S
    <2>1. l[i] \in AppType
      BY DEF Alike
    <2>2. QED
      BY <2>1, PrefixTyped, AdoptChildFacts DEF AdoptStep
  <1>5. items = list[i].childNames
    OBVIOUS
  <1> HIDE DEF items, S, n
  <1>6. PICK g \in [0..n -> S] :
          /\ g[0] = list
          /\ \A j \in 1..n : g[j] = AdoptStep(g[j - 1], i, items[j])
          /\ AdoptAll(list, i, items) = g[n]
    <2>1. PICK g : IsAdoption(g, S, list, i, items, n) /\ AdoptAll(list, i, items) = g[n]
      BY <1>2, <1>3, <1>4, AdoptAllRun
    <2>2. QED
      BY <2>1 DEF IsAdoption
  <1> DEFINE First(j) == {items[m] : m \in 1..j}
             right == {j \in 0..n : Adopted(g[j], list, i, First(j))}
  <1>7. 0 \in right
    <2>1. g[0] = list /\ First(0) = {}
      BY <1>6
    <2>2. Adopted(list, list, i, {})
      BY DEF Adopted
    <2> HIDE DEF First
    <2>3. QED
      BY <1>2, <2>1, <2>2
  <1>8. ASSUME NEW j \in 0..n, j < n, j \in right PROVE j + 1 \in right
    <2>1. j + 1 \in 1..n /\ j + 1 \in 0..n /\ (j + 1) - 1 = j
      BY <1>2, <1>8
    <2>2. g[j] \in S
      OBVIOUS
    <2>3. g[j + 1] = AdoptStep(g[j], i, items[j + 1])
      BY <1>6, <2>1
    <2>4. Adopted(g[j], list, i, First(j)) /\ items[j + 1] \in ToSet(items)
      BY <1>2, <1>8, <2>1
    <2>5. First(j + 1) = First(j) \cup {items[j + 1]}
      BY <1>2, <2>1
    <2> HIDE DEF First
    <2>6. Adopted(g[j + 1], list, i, First(j) \cup {items[j + 1]})
      <3> DEFINE l == g[j]
                 names == First(j)
                 name == items[j + 1]
      <3>1. l \in Alike(list) /\ name \in ToSet(list[i].childNames) /\ Adopted(l, list, i, names)
        BY <1>5, <2>2, <2>4 DEF S
      <3>2. g[j + 1] = AdoptChild(l, PrefixOf(l[i]), name)
        BY <2>3 DEF AdoptStep
      <3> HIDE DEF l, names, name
      <3>3. Adopted(AdoptChild(l, PrefixOf(l[i]), name), list, i, names \cup {name})
        BY <3>1, AdoptNext
      <3>4. QED
        BY <3>2, <3>3 DEF names, name
    <2>7. QED
      BY <2>1, <2>5, <2>6
  <1>9. n \in right
    <2> HIDE DEF right
    <2>1. \A j \in 0..n : j \in right
      BY <1>2, <1>7, <1>8, UpTo
    <2>2. QED
      BY <1>2, <2>1
  <1>10. First(n) = ToSet(items)
    BY <1>2 DEF ToSet
  <1>11. g[n] \in S
    BY <1>2, <1>6
  <1>12. QED
    BY <1>6, <1>9, <1>10, <1>5, <1>11 DEF S, Adoption

--------------------------------------------------------------------------------
(* The whole of setHierarchicAppStructure: app by app.                     *)
LEMMA HierarchyRun ==
    ASSUME NEW list, NEW n \in Nat, DOMAIN list = 1..n, NEW S, list \in S,
           NEW step \in [S \X (1..n) -> S],
           \A l \in S, i \in 1..n : step[<<l, i>>] = Adoption(l, i)
    PROVE  \E g : IsRun(g, S, list, n, step) /\ SetHierarchicAppStructure(list) = g[n]
  <1> DEFINE at == Positions(list)
             Rec(iter) == iter = [s \in SUBSET (1..n) |-> IF s = {} THEN list
                 ELSE FoldLeft(LAMBDA l, childName : AdoptChild(l, PrefixOf(l[at[Max(s)]]), childName),
                               iter[s \ {Max(s)}], iter[s \ {Max(s)}][at[Max(s)]].childNames)]
             it == CHOOSE iter : Rec(iter)
  <1>1. DOMAIN at = 1..n /\ \A j \in 1..n : at[j] = j
    BY DEF Positions
  <1>2. SetHierarchicAppStructure(list) = it[1..n]
    <2> USE DEF MapThenFoldSet
    <2>1. QED
      BY <1>1, Zenon DEF SetHierarchicAppStructure, FoldLeft
  <1>3. \A s \in SUBSET (1..n) : s # {} => Max(s) \in 1..n
    BY MaxPosition
  <1>4. \A iter : Rec(iter) <=> iter = [s \in SUBSET (1..n) |->
                  IF s = {} THEN list ELSE Adoption(iter[s \ {Max(s)}], at[Max(s)])]
    BY Zenon DEF Adoption, AdoptAll
  <1>5. \A l \in S, i \in 1..n : step[<<l, i>>] = Adoption(l, at[i])
    BY <1>1
  <1> HIDE DEF at, Rec
  <1>6. \E iter : Rec(iter)
    <2>1. PICK iter \in [SUBSET (1..n) -> S] :
              \A s \in SUBSET (1..n) : Folded(iter, s, list, step)
      BY FoldExists
    <2>2. \A s \in SUBSET (1..n) :
            iter[s] = IF s = {} THEN list ELSE Adoption(iter[s \ {Max(s)}], at[Max(s)])
      BY <1>3, <1>5, <2>1 DEF Folded
    <2>3. iter = [s \in SUBSET (1..n) |->
                    IF s = {} THEN list ELSE Adoption(iter[s \ {Max(s)}], at[Max(s)])]
      BY <2>2
    <2>4. QED
      BY <1>4, <2>3
  <1>7. Rec(it)
    BY <1>6
  <1> HIDE DEF it
  <1>8. IsFold(it, S, list, n, step)
    <2>1. it = [s \in SUBSET (1..n) |->
                  IF s = {} THEN list ELSE Adoption(it[s \ {Max(s)}], at[Max(s)])]
      BY <1>4, <1>7
    <2>2. \A s \in SUBSET (1..n) :
            it[s] = IF s = {} THEN list ELSE Adoption(it[s \ {Max(s)}], at[Max(s)])
      BY <2>1
    <2>3. QED
      BY <1>3, <1>5, <2>2 DEF IsFold, Folded
  <1>9. FoldsTo(S, list, n, step, it[1..n])
    BY <1>8, FoldReaches
  <1>10. QED
    BY <1>2, <1>9 DEF FoldsTo

\* Every child is below its parents.
Settled(list) ==
    \A j, k \in 1..Len(list) : IsParent(list, j, k) => Below(list[k].route, PrefixOf(list[j]))

HasParent(list, k) == \E j \in 1..Len(list) : IsParent(list, j, k)

\* What the apps of a list are once the first i of them have adopted their children.
Hierarchic(l, list, i) ==
    \A k \in 1..Len(list) :
        /\ l[k].isChild => list[k].isChild \/ HasParent(list, k)
        /\ HasParent(list, k) \/ l[k].route = list[k].route
        /\ \A j \in 1..i : IsParent(list, j, k) => Below(l[k].route, PrefixOf(list[j]))
        /\ Settled(list) => l[k].route = list[k].route
        /\ l[k].isFavorite = list[k].isFavorite

(* One more app adopts its children.  Its own route is still the one it    *)
(* had: an app with children is nobody's child.                            *)
LEMMA HierarchicNext ==
    ASSUME NEW list, IsAppList(list), NEW l \in Alike(list), NEW i \in 1..Len(list),
           Hierarchic(l, list, i - 1)
    PROVE  /\ Adoption(l, i) \in Alike(list)
           /\ Hierarchic(Adoption(l, i), list, i)
  <1> DEFINE n == Len(list)
             r == Adoption(l, i)
             prefix == PrefixOf(list[i])
  <1>1. /\ IsAppList(l) /\ Len(l) = n
        /\ \A j, k \in 1..n : IsParent(l, j, k) <=> IsParent(list, j, k)
    BY AlikeIsAppList
  <1>2. Alike(l) = Alike(list)
    BY <1>1 DEF Alike
  <1>3. r \in Alike(list) /\ Adopted(r, l, i, ToSet(l[i].childNames))
    BY <1>1, <1>2, AdoptAllFacts
  <1>4. /\ n \in Nat /\ i - 1 \in Nat
        /\ \A k \in 1..n : l[k] \in AppType /\ l[k].route \in Route /\ list[k] \in AppType
        /\ \A k \in 1..n : l[k].name = list[k].name /\ l[k].childNames = list[k].childNames
    BY AppListFacts DEF Alike, AppType, Route
  <1>5. \A j \in 1..n : PrefixOf(list[j]) \in Route
    BY <1>4, PrefixTyped
  <1>6. ASSUME NEW k \in 1..n, IsParent(list, i, k) PROVE PrefixOf(l[i]) = prefix
    <2>1. ~HasParent(list, i)
      BY <1>6, AppListFacts DEF HasParent
    <2>2. l[i].route = list[i].route
      BY <2>1 DEF Hierarchic
    <2>3. QED
      BY <2>2 DEF PrefixOf
  <1> HIDE DEF r, prefix, n
  <1>7. ASSUME NEW k \in 1..n
        PROVE  /\ r[k].isChild => list[k].isChild \/ HasParent(list, k)
               /\ HasParent(list, k) \/ r[k].route = list[k].route
               /\ \A j \in 1..i : IsParent(list, j, k) => Below(r[k].route, PrefixOf(list[j]))
               /\ Settled(list) => r[k].route = list[k].route
               /\ r[k].isFavorite = list[k].isFavorite
    <2>1. /\ r[k].isChild => l[k].isChild \/ IsParent(list, i, k)
          /\ IsParent(list, i, k) \/ r[k].route = l[k].route
          /\ \A q \in Route : Below(l[k].route, q) => Below(r[k].route, q)
          /\ l[k].name \in ToSet(l[i].childNames) => Below(r[k].route, PrefixOf(l[i]))
          /\ Below(l[k].route, PrefixOf(l[i])) => r[k].route = l[k].route
          /\ r[k].isFavorite = l[k].isFavorite
      <3>1. k \in 1..Len(l) /\ i \in 1..n
        BY <1>1 DEF n
      <3>2. IsParent(l, i, k) <=> IsParent(list, i, k)
        BY <1>1, <3>1
      <3>3. QED
        BY <1>3, <3>1, <3>2, Zenon DEF Adopted
    <2>2. /\ l[k].isChild => list[k].isChild \/ HasParent(list, k)
          /\ HasParent(list, k) \/ l[k].route = list[k].route
          /\ \A j \in 1..(i - 1) : IsParent(list, j, k) => Below(l[k].route, PrefixOf(list[j]))
          /\ Settled(list) => l[k].route = list[k].route
          /\ l[k].isFavorite = list[k].isFavorite
      BY DEF Hierarchic, n
    <2>3. IsParent(list, i, k) => HasParent(list, k)
      BY DEF HasParent
    <2>4. r[k].isChild => list[k].isChild \/ HasParent(list, k)
      BY <2>1, <2>2, <2>3
    <2>5. HasParent(list, k) \/ r[k].route = list[k].route
      BY <2>1, <2>2, <2>3
    <2>6. ASSUME NEW j \in 1..i, IsParent(list, j, k) PROVE Below(r[k].route, PrefixOf(list[j]))
      <3>1. CASE j = i
        <4>1. l[k].name \in ToSet(l[i].childNames)
          BY <1>4, <2>6, <3>1 DEF IsParent, n
        <4>2. QED
          BY <1>6, <2>1, <2>6, <3>1, <4>1 DEF prefix
      <3>2. CASE j # i
        <4>1. j \in 1..(i - 1) /\ j \in 1..n
          BY <1>4, <3>2 DEF n
        <4>2. QED
          BY <1>5, <2>1, <2>2, <2>6, <4>1
      <3>3. QED
        BY <3>1, <3>2
    <2>7. ASSUME Settled(list) PROVE r[k].route = list[k].route
      <3>1. l[k].route = list[k].route
        BY <2>2, <2>7
      <3>2. CASE IsParent(list, i, k)
        <4>1. Below(list[k].route, prefix)
          BY <2>7, <3>2 DEF Settled, n, prefix
        <4>2. Below(l[k].route, PrefixOf(l[i]))
          BY <1>6, <3>1, <3>2, <4>1
        <4>3. QED
          BY <2>1, <3>1, <4>2
      <3>3. CASE ~IsParent(list, i, k)
        BY <2>1, <3>1, <3>3
      <3>4. QED
        BY <3>2, <3>3
    <2>8. QED
      BY <2>1, <2>2, <2>4, <2>5, <2>6, <2>7
  <1>8. Hierarchic(r, list, i)
    BY <1>7 DEF Hierarchic, n
  <1>9. QED
    BY <1>3, <1>8 DEF r

(* All apps have adopted their children.                                   *)
LEMMA HierarchyFacts ==
    ASSUME NEW list, IsAppList(list)
    PROVE  /\ SetHierarchicAppStructure(list) \in Alike(list)
           /\ Hierarchic(SetHierarchicAppStructure(list), list, Len(list))
  <1> DEFINE n == Len(list)
             S == Alike(list)
             step == [x \in S \X (1..n) |-> Adoption(x[1], x[2])]
  <1>1. n \in Nat /\ DOMAIN list = 1..n /\ list \in S
    BY AppListFacts
  <1>2. ASSUME NEW l \in S, NEW i \in 1..n PROVE Adoption(l, i) \in S
    <2>1. IsAppList(l) /\ Len(l) = n
      BY AlikeIsAppList
    <2>2. Alike(l) = S
      BY <2>1 DEF Alike
    <2>3. QED
      BY <2>1, <2>2, AdoptAllFacts
  <1>3. step \in [S \X (1..n) -> S]
    BY <1>2
  <1>4. \A l \in S, i \in 1..n : step[<<l, i>>] = Adoption(l, i)
    OBVIOUS
  <1> HIDE DEF n, S, step
  <1>5. PICK g : IsRun(g, S, list, n, step) /\ SetHierarchicAppStructure(list) = g[n]
    BY <1>1, <1>3, <1>4, HierarchyRun
  <1> DEFINE right == {i \in 0..n : Hierarchic(g[i], list, i)}
  <1>6. 0 \in right
    <2>1. g[0] = list
      BY <1>5 DEF IsRun
    <2>2. Hierarchic(list, list, 0)
      BY DEF Hierarchic
    <2>3. QED
      BY <1>1, <2>1, <2>2
  <1>7. ASSUME NEW i \in 0..n, i < n, i \in right PROVE i + 1 \in right
    <2> DEFINE l == g[i]
    <2>1. i + 1 \in 1..n /\ i + 1 \in 0..n /\ (i + 1) - 1 = i
      BY <1>1, <1>7
    <2>2. l \in S /\ g[i + 1] = step[<<l, i + 1>>] /\ Hierarchic(l, list, (i + 1) - 1)
      BY <1>5, <1>7, <2>1 DEF IsRun
    <2> HIDE DEF l
    <2>3. Hierarchic(Adoption(l, i + 1), list, i + 1)
      BY <2>1, <2>2, HierarchicNext DEF S, n
    <2>4. g[i + 1] = Adoption(l, i + 1)
      BY <1>4, <2>1, <2>2
    <2>5. QED
      BY <2>1, <2>3, <2>4
  <1>8. n \in right
    <2> HIDE DEF right
    <2>1. \A i \in 0..n : i \in right
      BY <1>1, <1>6, <1>7, UpTo
    <2>2. QED
      BY <1>1, <2>1
  <1>9. g[n] \in S
    BY <1>1, <1>5 DEF IsRun
  <1>10. QED
    BY <1>5, <1>8, <1>9 DEF S, n

--------------------------------------------------------------------------------
(* A render keeps the apps, makes children only of those with a parent,    *)
(* leaves every child below its parents, and moves no route when they      *)
(* already are.                                                            *)
LEMMA EnhanceFacts ==
    ASSUME NEW list, IsAppList(list), NEW states \in States
    PROVE  /\ EnhanceAppListWithFavorite(list, states) \in Alike(list)
           /\ \A k \in 1..Len(list) :
                /\ EnhanceAppListWithFavorite(list, states)[k].route = list[k].route
                /\ EnhanceAppListWithFavorite(list, states)[k].isChild = list[k].isChild
                /\ EnhanceAppListWithFavorite(list, states)[k].isFavorite
                     = states[list[k].name].isFavorite
  <1> DEFINE n == Len(list)
             e == EnhanceAppListWithFavorite(list, states)
  <1>1. DOMAIN list = 1..n /\ \A k \in 1..n : list[k] \in AppType
    BY AppListFacts
  <1>2. e = [k \in 1..n |-> [list[k] EXCEPT !.isFavorite = states[list[k].name].isFavorite]]
    BY <1>1 DEF EnhanceAppListWithFavorite
  <1>3. \A k \in 1..n : states[list[k].name].isFavorite \in BOOLEAN
    BY <1>1 DEF States, AppType
  <1> HIDE DEF e, n
  <1>4. ASSUME NEW k \in 1..n
        PROVE  /\ e[k] \in AppType /\ e[k].name = list[k].name
               /\ e[k].childNames = list[k].childNames
               /\ e[k].route = list[k].route /\ e[k].isChild = list[k].isChild
               /\ e[k].isFavorite = states[list[k].name].isFavorite
    BY <1>1, <1>2, <1>3 DEF AppType
  <1>5. e \in Alike(list)
    BY <1>2, <1>4 DEF Alike, n
  <1>6. QED
    BY <1>4, <1>5 DEF e, n

LEMMA RenderFacts ==
    ASSUME NEW list, IsAppList(list), NEW states \in States
    PROVE  /\ Render(list, states) \in Alike(list)
           /\ \A k \in 1..Len(list) :
                Render(list, states)[k].isChild => list[k].isChild \/ HasParent(list, k)
           /\ Settled(Render(list, states))
           /\ Settled(list) =>
                \A k \in 1..Len(list) : Render(list, states)[k].route = list[k].route
           /\ \A k \in 1..Len(list) :
                Render(list, states)[k].isFavorite = states[list[k].name].isFavorite
  <1> DEFINE n == Len(list)
             e == EnhanceAppListWithFavorite(list, states)
             r == SetHierarchicAppStructure(e)
  <1>1. /\ e \in Alike(list)
        /\ \A k \in 1..n : /\ e[k].route = list[k].route /\ e[k].isChild = list[k].isChild
                           /\ e[k].isFavorite = states[list[k].name].isFavorite
    BY EnhanceFacts
  <1>2. /\ IsAppList(e) /\ Len(e) = n
        /\ \A j, k \in 1..n : IsParent(e, j, k) <=> IsParent(list, j, k)
    BY <1>1, AlikeIsAppList
  <1>3. r \in Alike(e) /\ Hierarchic(r, e, n)
    BY <1>2, HierarchyFacts
  <1>4. Alike(e) = Alike(list)
    BY <1>1, <1>2 DEF Alike
  <1>5. /\ IsAppList(r) /\ Len(r) = n
        /\ \A j, k \in 1..n : IsParent(r, j, k) <=> IsParent(list, j, k)
    BY <1>3, <1>4, AlikeIsAppList
  <1>6. r = Render(list, states)
    BY DEF Render
  <1> HIDE DEF e, r, n
  <1>7. \A k \in 1..n : HasParent(e, k) <=> HasParent(list, k)
    BY <1>2 DEF HasParent, n
  <1>8. \A k \in 1..n : /\ r[k].isChild => e[k].isChild \/ HasParent(e, k)
                        /\ HasParent(e, k) \/ r[k].route = e[k].route
                        /\ \A j \in 1..n : IsParent(e, j, k) => Below(r[k].route, PrefixOf(e[j]))
                        /\ Settled(e) => r[k].route = e[k].route
                        /\ r[k].isFavorite = e[k].isFavorite
    BY <1>2, <1>3 DEF Hierarchic
  <1>9. Settled(r)
    <2>1. SUFFICES ASSUME NEW j \in 1..n, NEW k \in 1..n, IsParent(r, j, k)
                   PROVE  Below(r[k].route, PrefixOf(r[j]))
      BY <1>5 DEF Settled
    <2>2. IsParent(e, j, k)
      BY <1>2, <1>5, <2>1
    <2>3. ~HasParent(e, j)
      BY <1>2, <2>2, AppListFacts DEF HasParent
    <2>4. r[j].route = e[j].route
      BY <1>8, <2>3
    <2>5. PrefixOf(r[j]) = PrefixOf(e[j])
      BY <2>4 DEF PrefixOf
    <2>6. QED
      BY <1>8, <2>2, <2>5
  <1>10. Settled(list) => Settled(e)
    <2>1. \A j \in 1..n : PrefixOf(e[j]) = PrefixOf(list[j])
      BY <1>1 DEF PrefixOf, n
    <2>2. QED
      BY <1>1, <1>2, <2>1 DEF Settled, n
  <1>11. r \in Alike(list)
    BY <1>3, <1>4
  <1>12. \A k \in 1..n : r[k].isChild => list[k].isChild \/ HasParent(list, k)
    BY <1>1, <1>7, <1>8
  <1>13. Settled(list) => \A k \in 1..n : r[k].route = list[k].route
    BY <1>1, <1>8, <1>10
  <1>14. \A k \in 1..n : r[k].isFavorite = states[list[k].name].isFavorite
    BY <1>1, <1>8
  <1>15. QED
    BY <1>6, <1>9, <1>11, <1>12, <1>13, <1>14 DEF n

--------------------------------------------------------------------------------
\* Just the favourite apps of the states are marked as such.
Marked(list, states) ==
    \A k \in 1..Len(list) : list[k].isFavorite = states[list[k].name].isFavorite

(* The app list of the launcher holds the visible apps, just those with a  *)
(* parent among them are taken for children, and when it is ready just the *)
(* favourites of the states it shows are marked as such.                   *)
AppsInv ==
    /\ metadata \in AppLists
    /\ IsAppList(apps)
    /\ apps # <<>> => NamesOf(apps) = DeclaredVisible
    /\ \A k \in 1..Len(apps) : apps[k].isChild => HasParent(apps, k)
    /\ phase = "ready" => Settled(apps) /\ Marked(apps, appState)

(* A render keeps that, and settles the routes.                            *)
LEMMA AppsShown ==
    ASSUME AppsInv, NEW states \in States, metadata' = metadata,
           apps' = Render(apps, states), appState' = states
    PROVE  AppsInv'
  <1> DEFINE n == Len(apps)
             r == Render(apps, states)
  <1>1. IsAppList(apps)
    BY DEF AppsInv
  <1>2. /\ r \in Alike(apps)
        /\ \A k \in 1..n : r[k].isChild => apps[k].isChild \/ HasParent(apps, k)
        /\ Settled(r)
        /\ \A k \in 1..n : r[k].isFavorite = states[apps[k].name].isFavorite
    BY <1>1, RenderFacts
  <1> HIDE DEF r
  <1>3. /\ IsAppList(r) /\ Len(r) = n /\ NamesOf(r) = NamesOf(apps)
        /\ \A j, k \in 1..n : IsParent(r, j, k) <=> IsParent(apps, j, k)
    BY <1>1, <1>2, AlikeIsAppList
  <1>4. r # <<>> => apps # <<>>
    <2>1. SUFFICES ASSUME apps = <<>> PROVE r = <<>>
      OBVIOUS
    <2>2. n = 0 /\ r \in Seq(AppType)
      BY <1>3, <2>1 DEF IsAppList
    <2>3. QED
      BY <1>3, <2>2
  <1>5. \A k \in 1..n : r[k].isChild => HasParent(r, k)
    BY <1>2, <1>3 DEF AppsInv, HasParent
  <1>6. DeclaredVisible' = DeclaredVisible
    BY DEF DeclaredVisible
  <1>7. Marked(r, states)
    BY <1>2, <1>3 DEF Marked, Alike
  <1>8. QED
    BY <1>2, <1>3, <1>4, <1>5, <1>6, <1>7 DEF AppsInv, r

LEMMA NoApps == IsAppList(<<>>) /\ Len(<<>>) = 0
  BY DEF IsAppList, ToSet

LEMMA AppsStep ==
    ASSUME Typed, AppsInv, [Next]_vars
    PROVE  AppsInv'
  <1>1. CASE MetadataSettled
    <2>1. metadata' = metadata /\ phase' = "waiting" /\ apps' \in {VisibleApps(metadata), <<>>}
      BY <1>1 DEF MetadataSettled
    <2>2. DeclaredVisible' = DeclaredVisible
      BY <2>1 DEF DeclaredVisible
    <2>3. CASE apps' = <<>>
      BY <2>1, <2>2, <2>3, NoApps DEF AppsInv
    <2>4. CASE apps' = VisibleApps(metadata)
      <3>1. IsAppList(metadata) /\ \A app \in ToSet(metadata) : ~app.isChild
        BY AppStatesAssumption DEF AppsInv
      <3>2. VisibleNames(metadata) = DeclaredVisible
        BY DEF VisibleNames, DeclaredVisible
      <3> DEFINE v == VisibleApps(metadata)
      <3>3. IsAppList(v) /\ NamesOf(v) = DeclaredVisible /\ \A app \in ToSet(v) : ~app.isChild
        BY <3>1, <3>2, Visible
      <3> HIDE DEF v
      <3>4. \A k \in 1..Len(v) : v[k] \in ToSet(v)
        BY <3>3, AppListFacts DEF ToSet
      <3>5. QED
        BY <2>1, <2>2, <2>4, <3>3, <3>4 DEF AppsInv, v
    <2>5. QED
      BY <2>1, <2>3, <2>4
  <1>2. CASE Ready
    <2>1. answer \in States
      BY <1>2 DEF Ready, Typed, ViewTyped
    <2>2. QED
      BY <1>2, <2>1, AppsShown DEF Ready, Show
  <1>3. CASE MessageArrives
    <2>1. Head(channel) \in States
      BY <1>3 DEF MessageArrives, Typed, ViewTyped
    <2>2. QED
      BY <1>3, <2>1, AppsShown DEF MessageArrives, Show
  <1>4. CASE Rerender
    <2>1. appState \in States
      BY <1>4 DEF Rerender, Typed, ViewTyped
    <2>2. QED
      BY <1>4, <2>1, AppsShown DEF Rerender, Show
  <1>5. CASE Disconnect
    BY <1>5, NoApps DEF Disconnect, AppsInv, DeclaredVisible
  <1>6. CASE Connect \/ StatesAnswered
    BY <1>6 DEF Connect, StatesAnswered, AppsInv, DeclaredVisible
  <1>7. CASE UNCHANGED <<apps, appState, metadata, phase>>
    BY <1>7 DEF AppsInv, DeclaredVisible
  <1>8. QED
    BY <1>1, <1>2, <1>3, <1>4, <1>5, <1>6, <1>7
    DEF Next, AppStatusChange, ReadStates, WriteStates, viewVars, vars

LEMMA AppsInvariant == Spec => [](Typed /\ AppsInv)
  <1>1. Init => Typed /\ AppsInv
    BY TypedInit, NoApps DEF Init, AppsInv
  <1>2. (Typed /\ AppsInv) /\ [Next]_vars => (Typed /\ AppsInv)'
    BY StoreStep, ViewStep, LogStep, AppsStep DEF Typed
  <1>3. QED
    BY <1>1, <1>2, PTL DEF Spec

(* The cards and their children are all the apps of the list.             *)
LEMMA ShownNames ==
    ASSUME AppsInv
    PROVE  Shown = NamesOf(apps)
  <1> DEFINE n == Len(apps)
             pass == {k \in 1..n : ~apps[k].isChild}
             roots == ToSet(RootApps(apps))
  <1>1. IsAppList(apps) /\ \A k \in 1..n : apps[k].isChild => HasParent(apps, k)
    BY DEF AppsInv
  <1>2. roots = {apps[k] : k \in pass}
    <2>1. apps \in Seq(AppType)
      BY <1>1 DEF IsAppList
    <2>2. RootApps(apps) \in Seq(AppType) /\ Picked(RootApps(apps), apps, pass)
      BY <2>1, RootsPicked
    <2>3. QED
      BY <1>1, <2>2, PickedIsAppList
  <1>3. DOMAIN apps = 1..n /\ ToSet(apps) = {apps[k] : k \in 1..n}
    BY <1>1, AppListFacts DEF ToSet
  <1> HIDE DEF roots, n
  <1>4. Shown \subseteq NamesOf(apps)
    <2>1. SUFFICES ASSUME NEW root \in roots, NEW app \in {root} \cup ChildApps(root, apps)
                   PROVE  app.name \in NamesOf(apps)
      BY DEF Shown, roots
    <2>2. app \in ToSet(apps)
      BY <1>2, <1>3, <2>1 DEF ChildApps
    <2>3. QED
      BY <1>3, <2>2 DEF NamesOf
  <1>5. ASSUME NEW k \in 1..n PROVE apps[k].name \in Shown
    <2>1. CASE ~apps[k].isChild
      <3>1. apps[k] \in roots
        BY <1>2, <2>1
      <3>2. QED
        BY <3>1 DEF Shown, roots
    <2>2. CASE apps[k].isChild
      <3>1. PICK j \in 1..n : IsParent(apps, j, k)
        BY <1>1, <2>2 DEF HasParent, n
      <3>2. ~HasParent(apps, j)
        BY <1>1, <3>1, AppListFacts DEF HasParent, n
      <3>3. apps[j] \in roots
        BY <1>1, <1>2, <3>2
      <3>4. apps[k] \in ChildApps(apps[j], apps)
        BY <1>3, <3>1 DEF ChildApps, IsParent
      <3>5. QED
        BY <3>3, <3>4 DEF Shown, roots
    <2>3. QED
      BY <2>1, <2>2
  <1>6. QED
    BY <1>3, <1>4, <1>5 DEF NamesOf

(* Whatever the app list, its order and the parents that share a child, a  *)
(* ready launcher shows just the apps that are neither hidden themselves   *)
(* nor below a hidden app.                                                 *)
THEOREM AppsAreShown == Spec => []EveryAppShown
  <1>1. AppsInv => EveryAppShown
    BY ShownNames DEF AppsInv, EveryAppShown
  <1>2. QED
    BY <1>1, AppsInvariant, PTL

(* Once the launcher is ready no route moves any more, however often it is *)
(* rendered.                                                               *)
THEOREM RoutesStaySettled == Spec => RoutesSettle
  <1>1. ASSUME Typed, AppsInv, Next, phase = "ready", phase' = "ready" PROVE Routes' = Routes
    <2>1. ASSUME NEW states \in States, apps' = Render(apps, states) PROVE Routes' = Routes
      <3> DEFINE n == Len(apps)
                 r == Render(apps, states)
      <3>1. IsAppList(apps) /\ Settled(apps)
        BY <1>1 DEF AppsInv
      <3>2. r \in Alike(apps) /\ \A k \in 1..n : r[k].route = apps[k].route
        BY <3>1, RenderFacts
      <3> HIDE DEF r
      <3>3. DOMAIN apps = 1..n /\ DOMAIN r = 1..n
        BY <3>1, <3>2, AppListFacts DEF Alike
      <3>4. QED
        BY <2>1, <3>2, <3>3 DEF Routes, r
    <2>2. CASE MessageArrives
      <3>1. Head(channel) \in States
        BY <1>1, <2>2 DEF MessageArrives, Typed, ViewTyped
      <3>2. QED
        BY <2>1, <2>2, <3>1 DEF MessageArrives, Show
    <2>3. CASE Rerender
      <3>1. appState \in States
        BY <1>1, <2>3 DEF Rerender, Typed, ViewTyped
      <3>2. QED
        BY <2>1, <2>3, <3>1 DEF Rerender, Show
    <2>4. CASE UNCHANGED apps
      BY <2>4 DEF Routes
    <2>5. QED
      BY <1>1, <2>2, <2>3, <2>4
      DEF Next, AppStatusChange, ReadStates, WriteStates, Connect, MetadataSettled,
          StatesAnswered, Ready, Disconnect, viewVars
  <1>2. (Typed /\ AppsInv) /\ [Next]_vars
            => [phase = "ready" /\ phase' = "ready" => Routes' = Routes]_vars
    BY <1>1
  <1>3. QED
    BY <1>2, AppsInvariant, PTL DEF Spec, RoutesSettle

--------------------------------------------------------------------------------
(* The opened apps, the last opened first: each of them, in that order.    *)
IsOpenedOrder(order, states) ==
    /\ order \in Seq(AppNames)
    /\ \A name \in AppNames : states[name].lastOpened > 0
                                  <=> \E i \in 1..Len(order) : order[i] = name
    /\ \A i, j \in 1..Len(order) :
        i < j => states[order[i]].lastOpened >= states[order[j]].lastOpened

LEMMA OpenedInOrder ==
    ASSUME NEW states \in States
    PROVE  IsOpenedOrder(OpenedApps(states), states)
  <1> DEFINE K == {name \in DOMAIN states : states[name].lastOpened > 0}
             n == Cardinality(K)
             rank == [name \in K |-> states[name].lastOpened]
             Descends(order) == \A i, j \in DOMAIN order :
                i < j => states[order[i]].lastOpened >= states[order[j]].lastOpened
             result == CHOOSE order \in SetToSeqs(K) : Descends(order)
  <1>1. OpenedApps(states) = result
    BY Zenon DEF OpenedApps
  <1>2. /\ K \subseteq AppNames
        /\ \A name \in AppNames : name \in K <=> states[name].lastOpened > 0
        /\ rank \in [K -> Nat]
        /\ \A name \in K : rank[name] = states[name].lastOpened
    BY DEF States
  <1> HIDE DEF K, rank
  <1>3. IsFiniteSet(K) /\ n \in Nat
    BY <1>2, AppStatesAssumption, FS_Subset, FS_CardinalityType
  <1>4. PICK f : IsSorting(f, K, rank)
    BY <1>2, <1>3, SortingExists
  <1> DEFINE order == [i \in 1..n |-> f[n + 1 - i]]
  <1>5. /\ f \in [1..n -> K]
        /\ \A i, j \in 1..n : i # j => f[i] # f[j]
        /\ \A i, j \in 1..n : i < j => rank[f[i]] <= rank[f[j]]
    BY <1>4 DEF IsSorting
  <1>6. SetToSeqs(K) = {g \in [1..n -> K] : \A i, j \in 1..n : i # j => g[i] # g[j]}
    BY Zenon DEF SetToSeqs
  <1> HIDE DEF n
  <1>7. \A i \in 1..n : n + 1 - i \in 1..n
    BY <1>3
  <1>8. order \in SetToSeqs(K)
    <2>1. order \in [1..n -> K]
      BY <1>5, <1>7
    <2>2. ASSUME NEW i \in 1..n, NEW j \in 1..n, i # j PROVE order[i] # order[j]
      <3>1. n + 1 - i # n + 1 - j
        BY <1>3, <2>2
      <3>2. QED
        BY <1>5, <1>7, <3>1
    <2> HIDE DEF order
    <2>3. QED
      BY <1>6, <2>1, <2>2
  <1>9. Descends(order)
    <2> SUFFICES ASSUME NEW i \in 1..n, NEW j \in 1..n, i < j
                 PROVE  states[order[i]].lastOpened >= states[order[j]].lastOpened
      OBVIOUS
    <2>1. n + 1 - j < n + 1 - i
      BY <1>3
    <2>2. order[i] = f[n + 1 - i] /\ order[j] = f[n + 1 - j]
      OBVIOUS
    <2>3. order[i] \in K /\ order[j] \in K /\ rank[order[j]] <= rank[order[i]]
      BY <1>5, <1>7, <2>1, <2>2
    <2> HIDE DEF order
    <2>4. rank[order[i]] \in Nat /\ rank[order[j]] \in Nat
      BY <1>2, <2>3
    <2>5. QED
      BY <1>2, <2>3, <2>4
  <1> HIDE DEF order, Descends
  <1>10. result \in SetToSeqs(K) /\ Descends(result)
    BY <1>8, <1>9
  <1> HIDE DEF result
  <1>11. /\ result \in [1..n -> K]
         /\ \A i, j \in 1..n : i # j => result[i] # result[j]
    BY <1>6, <1>10
  <1>12. result \in Seq(AppNames) /\ Len(result) = n /\ DOMAIN result = 1..n
    BY <1>2, <1>3, <1>11
  <1>13. \A name \in K : \E i \in 1..n : result[i] = name
    <2>1. IsFiniteSet(1..n) /\ Cardinality(1..n) = n /\ Cardinality(K) = n
      BY <1>3, FS_Interval DEF n
    <2>2. result \in Injection(1..n, K)
      BY <1>11 DEF Injection, IsInjective
    <2>3. result \in Surjection(1..n, K)
      BY <1>3, <2>1, <2>2, FS_Injection DEF n
    <2>4. QED
      BY <2>3 DEF Surjection
  <1>14. QED
    BY <1>1, <1>2, <1>10, <1>11, <1>12, <1>13 DEF IsOpenedOrder, Descends
(* The card an opened app belongs to is that of the first root app that    *)
(* stands for it.                                                          *)
StandsFor(root, name, list) ==
    \/ root.name = name
    \/ ChildApps(root, list) # {} /\ name \in ToSet(root.childNames)

HasCard(list, name) == RootOf(list, name) # 0

CardFor(list, name) == RootApps(list)[RootOf(list, name)].name

LEMMA RootOfFacts ==
    ASSUME NEW list, IsAppList(list), NEW name
    PROVE  IF HasCard(list, name)
           THEN /\ RootApps(list)[RootOf(list, name)] \in ToSet(RootApps(list))
                /\ StandsFor(RootApps(list)[RootOf(list, name)], name, list)
           ELSE \A root \in ToSet(RootApps(list)) : ~StandsFor(root, name, list)
  <1> DEFINE roots == RootApps(list)
             n == Len(roots)
             found == {i \in 1..n :
                        \/ roots[i].name = name
                        \/ ChildApps(roots[i], list) # {} /\ name \in ToSet(roots[i].childNames)}
             at == RootOf(list, name)
  <1>1. at = IF found # {} THEN Min(found) ELSE 0
    BY Zenon DEF RootOf, SelectInSeq
  <1>2. list \in Seq(AppType)
    BY DEF IsAppList
  <1>3. roots \in Seq(AppType)
    BY <1>2, RootsPicked
  <1>4. n \in Nat /\ ToSet(roots) = {roots[i] : i \in 1..n}
    BY <1>3 DEF ToSet
  <1>5. \A i \in 1..n : i \in found <=> StandsFor(roots[i], name, list)
    BY DEF StandsFor
  <1>6. found \in SUBSET (1..n)
    OBVIOUS
  <1> HIDE DEF found, roots, n, at
  <1>7. found # {} => Min(found) \in found
    BY <1>4, <1>6, MinPosition
  <1>8. CASE found = {}
    <2>1. \A i \in 1..n : ~StandsFor(roots[i], name, list)
      BY <1>5, <1>8
    <2>2. at = 0
      BY <1>1, <1>8
    <2>3. QED
      BY <1>4, <2>1, <2>2 DEF HasCard, at, roots
  <1>9. CASE found # {}
    <2>1. at \in 1..n /\ StandsFor(roots[at], name, list)
      BY <1>1, <1>5, <1>6, <1>7, <1>9
    <2>2. at # 0
      BY <1>4, <2>1
    <2>3. QED
      BY <1>4, <2>1, <2>2 DEF HasCard, at, roots
  <1>10. QED
    BY <1>8, <1>9

RecentStep(recent, name, list) ==
    IF RootOf(list, name) = 0 \/ Contains(recent, RootApps(list)[RootOf(list, name)].name)
    THEN recent
    ELSE Append(recent, RootApps(list)[RootOf(list, name)].name)

RecentCards(list, order) ==
    FoldLeft(LAMBDA recent, name : RecentStep(recent, name, list), <<>>, order)

(* The recent cards are reached by looking for the card of one opened app  *)
(* after the other.                                                        *)
RecentsRun(g, S, n, list, order) ==
    /\ g \in [0..n -> S]
    /\ g[0] = <<>>
    /\ \A i \in 1..n : g[i] = RecentStep(g[i - 1], order[i], list)
    /\ RecentCards(list, order) = g[n]

LEMMA RecentsReached ==
    ASSUME NEW S, NEW list, NEW order, <<>> \in S, NEW n \in Nat,
           DOMAIN order = 1..n,
           \A s \in S, i \in 1..n : RecentStep(s, order[i], list) \in S
    PROVE  \E g : RecentsRun(g, S, n, list, order)
  <1> DEFINE items == order
             step == [p \in S \X (1..n) |-> RecentStep(p[1], items[p[2]], list)]
             Rec(iter) == iter = [s \in SUBSET (1..n) |->
                IF s = {} THEN <<>>
                ELSE RecentStep(iter[s \ {Max(s)}], items[Max(s)], list)]
             it == CHOOSE iter : Rec(iter)
  <1>1. step \in [S \X (1..n) -> S]
    OBVIOUS
  <1>2. \A s \in S, i \in 1..n : step[<<s, i>>] = RecentStep(s, items[i], list)
    OBVIOUS
  <1>3. RecentCards(list, order) = it[1..n]
    BY Zenon DEF RecentCards, FoldLeft, MapThenFoldSet
  <1>4. \A s \in SUBSET (1..n) : s # {} => Max(s) \in 1..n
    BY MaxPosition
  <1> HIDE DEF items, step
  <1>5. \E iter : Rec(iter)
    <2>1. PICK iter \in [SUBSET (1..n) -> S] :
              \A s \in SUBSET (1..n) : Folded(iter, s, <<>>, step)
      BY <1>1, FoldExists
    <2>2. \A s \in SUBSET (1..n) :
            iter[s] = IF s = {} THEN <<>>
                      ELSE RecentStep(iter[s \ {Max(s)}], items[Max(s)], list)
      BY <1>2, <1>4, <2>1 DEF Folded
    <2>3. QED
      BY <2>2
  <1>6. Rec(it)
    BY <1>5
  <1> HIDE DEF it
  <1>7. \A s \in SUBSET (1..n) :
            it[s] = IF s = {} THEN <<>>
                    ELSE RecentStep(it[s \ {Max(s)}], items[Max(s)], list)
    BY <1>6
  <1> HIDE DEF Rec
  <1>8. IsFold(it, S, <<>>, n, step)
    BY <1>2, <1>4, <1>7 DEF IsFold, Folded
  <1>9. PICK g : IsRun(g, S, <<>>, n, step) /\ g[n] = it[1..n]
    <2>1. FoldsTo(S, <<>>, n, step, it[1..n])
      BY <1>1, <1>8, FoldReaches
    <2>2. QED
      BY <2>1 DEF FoldsTo
  <1>10. /\ g \in [0..n -> S]
         /\ g[0] = <<>>
         /\ \A i \in 1..n : g[i] = step[<<g[i - 1], i>>]
    BY <1>9 DEF IsRun
  <1>11. \A i \in 1..n : g[i] = RecentStep(g[i - 1], items[i], list)
    <2>1. \A i \in 1..n : g[i - 1] \in S
      BY <1>10
    <2>2. QED
      BY <1>2, <1>10, <2>1
  <1>12. QED
    BY <1>3, <1>9, <1>10, <1>11 DEF items, RecentsRun

(* The cards so far: each once, and those of the apps looked at.  An app   *)
(* that brought a card in was looked at when the cards before it were      *)
(* there, and these are the cards of all the apps before it.               *)
BroughtIn(recent, order, list, i, k) ==
    \E j \in 1..i :
        /\ HasCard(list, order[j]) /\ CardFor(list, order[j]) = recent[k]
        /\ \A m \in 1..(j - 1) : HasCard(list, order[m]) =>
             \E l \in 1..(k - 1) : recent[l] = CardFor(list, order[m])

RecentUpto(recent, order, list, i) ==
    /\ \A j, k \in 1..Len(recent) : recent[j] = recent[k] => j = k
    /\ \A j \in 1..i : HasCard(list, order[j]) =>
         \E k \in 1..Len(recent) : recent[k] = CardFor(list, order[j])
    /\ \A k \in 1..Len(recent) : BroughtIn(recent, order, list, i, k)

LEMMA RecentNext ==
    ASSUME NEW list, IsAppList(list), NEW order, NEW i \in Nat, NEW recent \in Seq(AppNames),
           RecentUpto(recent, order, list, i)
    PROVE  RecentUpto(RecentStep(recent, order[i + 1], list), order, list, i + 1)
  <1> DEFINE name == order[i + 1]
             card == CardFor(list, name)
             n == Len(recent)
  <1>1. n \in Nat
    OBVIOUS
  <1>2. Contains(recent, card) <=> \E k \in 1..n : recent[k] = card
    BY Zenon DEF Contains
  <1>3. RecentStep(recent, name, list) =
          IF ~HasCard(list, name) \/ Contains(recent, card) THEN recent ELSE Append(recent, card)
    BY Zenon DEF RecentStep, HasCard, CardFor
  <1>4. /\ \A j \in 1..i : j \in 1..(i + 1)
        /\ \A j \in 1..(i + 1) : j \in 1..i \/ j = i + 1
        /\ \A j \in 1..(i + 1) : \A m \in 1..(j - 1) : m \in 1..i
    OBVIOUS
  <1>5. CASE ~HasCard(list, name) \/ \E k \in 1..n : recent[k] = card
    <2>1. RecentStep(recent, name, list) = recent
      BY <1>2, <1>3, <1>5
    <2>2. \A k \in 1..n : BroughtIn(recent, order, list, i + 1, k)
      BY <1>4 DEF RecentUpto, BroughtIn
    <2>3. \A j \in 1..(i + 1) : HasCard(list, order[j]) =>
             \E k \in 1..n : recent[k] = CardFor(list, order[j])
      BY <1>4, <1>5 DEF RecentUpto
    <2>4. RecentUpto(recent, order, list, i + 1)
      BY <2>2, <2>3 DEF RecentUpto
    <2>5. QED
      BY <2>1, <2>4
  <1>6. CASE HasCard(list, name) /\ \A k \in 1..n : recent[k] # card
    <2> DEFINE r == Append(recent, card)
    <2>1. RecentStep(recent, name, list) = r
      BY <1>2, <1>3, <1>6
    <2>2. Len(r) = n + 1 /\ r[n + 1] = card /\ \A k \in 1..n : r[k] = recent[k]
      OBVIOUS
    <2> HIDE DEF r, n
    <2>3. /\ \A k \in 1..(n + 1) : k \in 1..n \/ k = n + 1
          /\ \A k \in 1..n : k \in 1..(n + 1) /\ \A l \in 1..(k - 1) : l \in 1..n
          /\ n + 1 \in 1..(n + 1) /\ (n + 1) - 1 = n
      BY <1>1
    <2>4. \A j, k \in 1..(n + 1) : r[j] = r[k] => j = k
      BY <1>6, <2>2, <2>3 DEF RecentUpto, n
    <2>5. \A j \in 1..(i + 1) : HasCard(list, order[j]) =>
             \E k \in 1..(n + 1) : r[k] = CardFor(list, order[j])
      BY <1>4, <2>2, <2>3 DEF RecentUpto, n
    <2>6. ASSUME NEW k \in 1..n PROVE BroughtIn(r, order, list, i + 1, k)
      <3>1. BroughtIn(recent, order, list, i, k)
        BY DEF RecentUpto, n
      <3>2. PICK j \in 1..i :
               /\ HasCard(list, order[j]) /\ CardFor(list, order[j]) = recent[k]
               /\ \A m \in 1..(j - 1) : HasCard(list, order[m]) =>
                    \E l \in 1..(k - 1) : recent[l] = CardFor(list, order[m])
        BY <3>1 DEF BroughtIn
      <3>3. \A m \in 1..(j - 1) : HasCard(list, order[m]) =>
              \E l \in 1..(k - 1) : r[l] = CardFor(list, order[m])
        BY <2>2, <2>3, <3>2
      <3>4. CardFor(list, order[j]) = r[k] /\ j \in 1..(i + 1)
        BY <1>4, <2>2, <3>2
      <3>5. QED
        BY <3>2, <3>3, <3>4 DEF BroughtIn
    <2>7. BroughtIn(r, order, list, i + 1, n + 1)
      <3>1. \A m \in 1..i : HasCard(list, order[m]) =>
              \E l \in 1..n : r[l] = CardFor(list, order[m])
        BY <2>2 DEF RecentUpto, n
      <3>2. i + 1 \in 1..(i + 1) /\ (i + 1) - 1 = i
        OBVIOUS
      <3>3. QED
        BY <1>6, <2>2, <2>3, <3>1, <3>2 DEF BroughtIn
    <2>8. RecentUpto(r, order, list, i + 1)
      BY <2>2, <2>3, <2>4, <2>5, <2>6, <2>7 DEF RecentUpto
    <2>9. QED
      BY <2>1, <2>8
  <1>7. QED
    BY <1>5, <1>6

LEMMA RecentsAre ==
    ASSUME NEW list, IsAppList(list), NEW states \in States
    PROVE  LET order == OpenedApps(states)
           IN  /\ RecentApps(list, states) \in Seq(AppNames)
               /\ RecentUpto(RecentApps(list, states), order, list, Len(order))
  <1> DEFINE order == OpenedApps(states)
             n == Len(order)
             S == Seq(AppNames)
  <1>1. RecentApps(list, states) = RecentCards(list, order)
    BY Zenon DEF RecentApps, RecentCards, RecentStep
  <1>2. n \in Nat /\ DOMAIN order = 1..n
    BY OpenedInOrder DEF IsOpenedOrder
  <1>3. ASSUME NEW s \in S, NEW name PROVE RecentStep(s, name, list) \in S
    <2>1. CASE HasCard(list, name)
      <3>1. RootApps(list)[RootOf(list, name)] \in ToSet(RootApps(list))
        BY <2>1, RootOfFacts
      <3>2. RootApps(list) \in Seq(AppType)
        BY RootsPicked DEF IsAppList
      <3>3. RootApps(list)[RootOf(list, name)] \in AppType
        BY <3>1, <3>2 DEF ToSet
      <3>4. RootApps(list)[RootOf(list, name)].name \in AppNames
        BY <3>3 DEF AppType
      <3>5. QED
        BY <3>4 DEF RecentStep
    <2>2. CASE ~HasCard(list, name)
      BY <2>2 DEF HasCard, RecentStep
    <2>3. QED
      BY <2>1, <2>2
  <1> HIDE DEF order, n, S
  <1>4. <<>> \in S
    BY DEF S
  <1>5. PICK g : RecentsRun(g, S, n, list, order)
    BY <1>2, <1>3, <1>4, RecentsReached
  <1>6. /\ g \in [0..n -> S]
        /\ g[0] = <<>>
        /\ \A i \in 1..n : g[i] = RecentStep(g[i - 1], order[i], list)
        /\ RecentCards(list, order) = g[n]
    BY <1>5 DEF RecentsRun
  <1> DEFINE right == {i \in 0..n : RecentUpto(g[i], order, list, i)}
  <1>7. 0 \in right
    <2>1. RecentUpto(<<>>, order, list, 0)
      BY DEF RecentUpto
    <2>2. QED
      BY <1>2, <1>6, <2>1
  <1>8. ASSUME NEW i \in 0..n, i < n, i \in right PROVE i + 1 \in right
    <2>1. i \in Nat /\ i + 1 \in 1..n /\ i + 1 \in 0..n /\ (i + 1) - 1 = i
      BY <1>2, <1>8
    <2>2. g[i] \in Seq(AppNames) /\ RecentUpto(g[i], order, list, i)
      BY <1>6, <1>8 DEF S
    <2>3. g[i + 1] = RecentStep(g[i], order[i + 1], list)
      BY <1>6, <2>1
    <2>4. RecentUpto(g[i + 1], order, list, i + 1)
      BY <2>1, <2>2, <2>3, RecentNext
    <2>5. QED
      BY <2>1, <2>4
  <1>9. n \in right
    <2> HIDE DEF right
    <2>1. \A i \in 0..n : i \in right
      BY <1>2, <1>7, <1>8, UpTo
    <2>2. QED
      BY <1>2, <2>1
  <1>10. QED
    BY <1>1, <1>2, <1>6, <1>9 DEF order, n, S

(* What a card stands for, by its name.                                    *)
LEMMA CardIs ==
    ASSUME IsAppList(apps), NEW root \in ToSet(RootApps(apps))
    PROVE  /\ apps[IndexOfApp(apps, root.name)] = root
           /\ \A name : name \in OnCard(root) <=> StandsFor(root, name, apps)
  <1>1. apps \in Seq(AppType)
    BY DEF IsAppList
  <1>2. ToSet(RootApps(apps)) = {apps[k] : k \in {k \in 1..Len(apps) : ~apps[k].isChild}}
    BY <1>1, RootsPicked, PickedIsAppList
  <1>3. PICK k \in 1..Len(apps) : root = apps[k]
    BY <1>2
  <1>4. IndexOfApp(apps, root.name) = k
    BY <1>3, Index
  <1>5. QED
    BY <1>3, <1>4, Zenon DEF OnCard, StandsFor

(* Whatever the apps and the times at which they were opened: the recent   *)
(* cards are each there once, they are those of the opened apps, and they  *)
(* are in the order of the app opened last of each.                        *)
THEOREM RecentsAreInOrder == Spec => []RecentsInOrder
  <1>1. ASSUME Typed, AppsInv PROVE RecentsInOrder
    <2> SUFFICES ASSUME phase = "ready"
                 PROVE  LET recent == RecentApps(apps, appState)
                            cards  == {root.name : root \in ToSet(RootApps(apps))}
                        IN  /\ IsInjective(recent)
                            /\ \A i \in DOMAIN recent :
                                 recent[i] \in cards /\ OpenedOnCard(recent[i]) # {}
                            /\ \A card \in cards : \A x \in OpenedOnCard(card) :
                                /\ \E i \in DOMAIN recent : x \in OpenedOnCard(recent[i])
                                /\ \A i \in DOMAIN recent :
                                    (\A y \in OpenedOnCard(recent[i]) :
                                        appState[y].lastOpened < appState[x].lastOpened)
                                    => \E j \in DOMAIN recent :
                                         j < i /\ x \in OpenedOnCard(recent[j])
      BY DEF RecentsInOrder
    <2>1. IsAppList(apps) /\ appState \in States
      BY <1>1 DEF Typed, ViewTyped, AppsInv
    <2> DEFINE recent == RecentApps(apps, appState)
               roots == ToSet(RootApps(apps))
               cards == {root.name : root \in roots}
               order == OpenedApps(appState)
               n == Len(recent)
               m == Len(order)
               time(x) == appState[x].lastOpened
    <2>2. recent \in Seq(AppNames) /\ RecentUpto(recent, order, apps, m)
      BY <2>1, RecentsAre
    <2>3. IsOpenedOrder(order, appState)
      BY <2>1, OpenedInOrder
    <2>4. n \in Nat /\ DOMAIN recent = 1..n
      BY <2>2
    <2>5. \A name : IF HasCard(apps, name)
                    THEN \E root \in roots : root.name = CardFor(apps, name)
                                             /\ StandsFor(root, name, apps)
                    ELSE \A root \in roots : ~StandsFor(root, name, apps)
      BY <2>1, RootOfFacts DEF CardFor
    <2>6. \A root \in roots : \A name :
            name \in OpenedOnCard(root.name) <=> StandsFor(root, name, apps) /\ time(name) > 0
      BY <2>1, CardIs DEF OpenedOnCard
    <2>7. \A root \in roots : \A name \in OpenedOnCard(root.name) :
            name \in AppNames
      <3>1. RootApps(apps) \in Seq(AppType)
        BY <2>1, RootsPicked DEF IsAppList
      <3>2. roots \subseteq AppType
        BY <3>1 DEF ToSet
      <3>3. \A root \in roots : root.name \in AppNames /\ ToSet(root.childNames) \subseteq AppNames
        BY <3>2 DEF AppType, ToSet
      <3>4. QED
        BY <2>6, <3>3 DEF StandsFor
    <2> HIDE DEF recent, roots, order, n, m, time
    <2>8. \A j \in 1..m : HasCard(apps, order[j]) =>
            /\ CardFor(apps, order[j]) \in cards
            /\ order[j] \in OpenedOnCard(CardFor(apps, order[j]))
      <3>1. \A j \in 1..m : order[j] \in AppNames /\ time(order[j]) > 0
        BY <2>3 DEF IsOpenedOrder, m, time
      <3>2. QED
        BY <2>5, <2>6, <3>1
    <2>9. ASSUME NEW k \in 1..n PROVE recent[k] \in cards /\ OpenedOnCard(recent[k]) # {}
      <3>1. BroughtIn(recent, order, apps, m, k)
        BY <2>2 DEF RecentUpto, n
      <3>2. QED
        BY <2>8, <3>1 DEF BroughtIn
    <2>10. ASSUME NEW card \in cards, NEW x \in OpenedOnCard(card)
           PROVE  \E p \in 1..m : order[p] = x /\ HasCard(apps, x)
      <3>1. PICK root \in roots : root.name = card
        OBVIOUS
      <3>2. StandsFor(root, x, apps) /\ time(x) > 0 /\ x \in AppNames
        BY <2>6, <2>7, <3>1
      <3>3. HasCard(apps, x)
        BY <2>5, <3>2
      <3>4. QED
        BY <2>3, <3>2, <3>3 DEF IsOpenedOrder, m, time
    <2>11. ASSUME NEW card \in cards, NEW x \in OpenedOnCard(card)
           PROVE  \E k \in 1..n : x \in OpenedOnCard(recent[k])
      <3>1. PICK p \in 1..m : order[p] = x /\ HasCard(apps, x)
        BY <2>10
      <3>2. \E k \in 1..n : recent[k] = CardFor(apps, x)
        BY <2>2, <3>1 DEF RecentUpto, n
      <3>3. QED
        BY <2>8, <3>1, <3>2
    <2>12. ASSUME NEW card \in cards, NEW x \in OpenedOnCard(card), NEW k \in 1..n,
                  \A y \in OpenedOnCard(recent[k]) : time(y) < time(x)
           PROVE  \E l \in 1..n : l < k /\ x \in OpenedOnCard(recent[l])
      <3>1. PICK p \in 1..m : order[p] = x /\ HasCard(apps, x)
        BY <2>10
      <3>2. BroughtIn(recent, order, apps, m, k)
        BY <2>2 DEF RecentUpto, n
      <3>3. PICK j \in 1..m :
               /\ HasCard(apps, order[j]) /\ CardFor(apps, order[j]) = recent[k]
               /\ \A q \in 1..(j - 1) : HasCard(apps, order[q]) =>
                    \E l \in 1..(k - 1) : recent[l] = CardFor(apps, order[q])
        BY <3>2 DEF BroughtIn
      <3>4. time(order[j]) < time(order[p])
        BY <2>8, <2>12, <3>1, <3>3
      <3>5. time(order[j]) \in Nat /\ time(order[p]) \in Nat /\ m \in Nat
        BY <2>1, <2>3 DEF IsOpenedOrder, m, time, States
      <3>6. p < j
        <4>1. ~(j < p)
          BY <2>3, <3>4, <3>5 DEF IsOpenedOrder, m, time
        <4>2. j # p
          BY <3>4, <3>5
        <4>3. QED
          BY <3>5, <4>1, <4>2
      <3>7. p \in 1..(j - 1)
        BY <3>5, <3>6
      <3>8. PICK l \in 1..(k - 1) : recent[l] = CardFor(apps, x)
        BY <3>1, <3>3, <3>7
      <3>9. l \in 1..n /\ l < k
        BY <2>4
      <3>10. QED
        BY <2>8, <3>1, <3>8, <3>9
    <2>13. IsInjective(recent)
      BY <2>2, <2>4 DEF RecentUpto, IsInjective, n
    <2> HIDE DEF cards
    <2>14. QED
      BY <2>4, <2>9, <2>11, <2>12, <2>13 DEF recent, cards, roots, time
  <1>2. QED
    BY <1>1, AppsInvariant, PTL

--------------------------------------------------------------------------------
(* The names of a set in the order of the texts: each of them once.        *)
IsListing(list, T) ==
    /\ Len(list) \in Nat /\ DOMAIN list = 1..Len(list)
    /\ \A i \in 1..Len(list) : list[i] \in T
    /\ \A x \in T : \E i \in 1..Len(list) : list[i] = x
    /\ \A i, j \in 1..Len(list) : list[i] = list[j] => i = j

LEMMA SortedPicked ==
    ASSUME NEW names
    PROVE  /\ Sorted(names) \in Seq(ToSet(Collation))
           /\ Picked(Sorted(names), Collation, {i \in 1..Len(Collation) : Collation[i] \in names})
  <1> DEFINE pass == {i \in 1..Len(Collation) : Collation[i] \in names}
             Rec(kept) == kept = [i \in 0..Len(Collation) |->
                            IF i = 0 THEN <<>>
                            ELSE IF Collation[i] \in names THEN Append(kept[i - 1], Collation[i])
                            ELSE kept[i - 1]]
             it == CHOOSE kept : Rec(kept)
             S == ToSet(Collation)
  <1>1. Sorted(names) = it[Len(Collation)]
    BY Zenon DEF Sorted, Filter
  <1>2. Collation \in Seq(S)
    BY ViewsAssumption
  <1>3. \A i \in 0..Len(Collation) : i # 0 => (i \in pass <=> Collation[i] \in names)
    BY <1>2
  <1> HIDE DEF pass
  <1>4. \A kept : Rec(kept) <=> IsFilter(kept, Collation, pass)
    BY <1>3 DEF IsFilter
  <1> HIDE DEF Rec, S
  <1>5. \E kept : Rec(kept)
    BY <1>2, <1>4, FilterExists
  <1>6. Rec(it)
    BY <1>5
  <1> HIDE DEF it
  <1>7. pass \in SUBSET (1..Len(Collation))
    BY DEF pass
  <1>8. it[Len(Collation)] \in Seq(S) /\ Picked(it[Len(Collation)], Collation, pass)
    BY <1>2, <1>4, <1>6, <1>7, FilterReached
  <1>9. QED
    BY <1>1, <1>8 DEF pass, S

LEMMA SortedIs ==
    ASSUME NEW names, names \subseteq ToSet(Collation)
    PROVE  IsListing(Sorted(names), names)
  <1> DEFINE list == Sorted(names)
             n == Len(list)
             pass == {i \in 1..Len(Collation) : Collation[i] \in names}
  <1>1. list \in Seq(ToSet(Collation)) /\ Picked(list, Collation, pass)
    BY SortedPicked
  <1> HIDE DEF list
  <1>2. n \in Nat /\ DOMAIN list = 1..n
    BY <1>1
  <1>3. PICK at \in [1..n -> pass] :
          /\ \A j, k \in 1..n : j < k => at[j] < at[k]
          /\ \A k \in 1..n : list[k] = Collation[at[k]]
          /\ \A i \in pass : \E k \in 1..n : at[k] = i
    BY <1>1 DEF Picked
  <1>4. Collation \in Seq(ToSet(Collation)) /\ DOMAIN Collation = 1..Len(Collation)
    <2> DEFINE S == ToSet(Collation)
    <2>1. Collation \in Seq(S)
      BY ViewsAssumption
    <2> HIDE DEF S
    <2>2. DOMAIN Collation = 1..Len(Collation)
      BY <2>1
    <2>3. QED
      BY <2>1, <2>2 DEF S
  <1>5. \A k \in 1..n : at[k] \in Nat /\ at[k] \in DOMAIN Collation /\ Collation[at[k]] \in names
    BY <1>3, <1>4
  <1>6. \A x \in names : \E i \in pass : Collation[i] = x
    BY <1>4 DEF ToSet
  <1> HIDE DEF n, pass
  <1>7. \A k \in 1..n : list[k] \in names
    BY <1>3, <1>5
  <1>8. \A x \in names : \E k \in 1..n : list[k] = x
    BY <1>3, <1>6
  <1>9. ASSUME NEW j \in 1..n, NEW k \in 1..n, list[j] = list[k] PROVE j = k
    <2>1. at[j] = at[k]
      BY <1>3, <1>5, <1>9, ViewsAssumption
    <2>2. ~(j < k) /\ ~(k < j)
      BY <1>3, <1>5, <2>1
    <2>3. QED
      BY <1>2, <2>2
  <1>10. QED
    BY <1>2, <1>7, <1>8, <1>9 DEF IsListing, n, list

(* The titles: each once, and that of the apps without a category last.    *)
LEMMA TitlesAre ==
    ASSUME NEW T, T \ {Others} \subseteq ToSet(Collation)
    PROVE  /\ IsListing(SortGroupsByName(T), T)
           /\ \A i \in 1..Len(SortGroupsByName(T)) :
                SortGroupsByName(T)[i] = Others => i = Len(SortGroupsByName(T))
  <1> DEFINE list == Sorted(T \ {Others})
             n == Len(list)
             titles == SortGroupsByName(T)
  <1>1. IsListing(list, T \ {Others}) /\ list \in Seq(ToSet(Collation))
    BY SortedIs, SortedPicked
  <1>2. titles = list \o (IF Others \in T THEN <<Others>> ELSE <<>>)
    BY DEF SortGroupsByName
  <1> HIDE DEF list, titles
  <1>3. /\ n \in Nat /\ \A i \in 1..n : list[i] \in T /\ list[i] # Others
        /\ \A x \in T : x # Others => \E i \in 1..n : list[i] = x
        /\ \A i, j \in 1..n : list[i] = list[j] => i = j
    BY <1>1 DEF IsListing
  <1>4. CASE Others \in T
    <2> DEFINE U == ToSet(Collation) \cup {Others}
    <2>1. list \in Seq(U) /\ <<Others>> \in Seq(U)
      BY <1>1
    <2>2. titles = list \o <<Others>>
      BY <1>2, <1>4
    <2> HIDE DEF U
    <2>3. /\ Len(titles) = n + 1 /\ DOMAIN titles = 1..(n + 1)
          /\ titles[n + 1] = Others /\ \A i \in 1..n : titles[i] = list[i]
      BY <2>1, <2>2
    <2> HIDE DEF n
    <2>4. \A i \in 1..(n + 1) : i \in 1..n \/ i = n + 1
      BY <1>3
    <2>5. \A i \in 1..n : i \in 1..(n + 1)
      BY <1>3
    <2>6. \A i \in 1..(n + 1) : titles[i] \in T
      BY <1>3, <1>4, <2>3, <2>4
    <2>7. n + 1 \in 1..(n + 1)
      BY <1>3
    <2>8. \A x \in T : \E i \in 1..(n + 1) : titles[i] = x
      BY <1>3, <2>3, <2>5, <2>7
    <2>9. \A i, j \in 1..(n + 1) : titles[i] = titles[j] => i = j
      BY <1>3, <2>3, <2>4
    <2>10. \A i \in 1..(n + 1) : titles[i] = Others => i = n + 1
      BY <1>3, <2>3, <2>4
    <2>11. QED
      BY <1>3, <2>3, <2>6, <2>8, <2>9, <2>10 DEF IsListing, titles
  <1>5. CASE Others \notin T
    <2>1. titles = list
      BY <1>1, <1>2, <1>5
    <2>2. T \ {Others} = T
      BY <1>5
    <2>3. QED
      BY <1>1, <1>3, <2>1, <2>2 DEF titles
  <1>6. QED
    BY <1>4, <1>5

(* The cards of some apps: one for each of them.                           *)
LEMMA CardsAre ==
    ASSUME NEW all, NEW some, \A a, b \in some : a.name = b.name => a = b,
           \A a \in some : a.name \in ToSet(Collation)
    PROVE  /\ IsInjective(Cards(some, all))
           /\ ToSet(Cards(some, all)) = {CardOf(a, all) : a \in some}
  <1> DEFINE T == {a.name : a \in some}
             names == Sorted(T)
             n == Len(names)
             Named(name) == CHOOSE a \in some : a.name = name
             cards == [i \in DOMAIN names |-> CardOf(Named(names[i]), all)]
  <1>1. Cards(some, all) = cards
    BY Zenon DEF Cards
  <1>2. IsListing(names, T)
    BY SortedIs
  <1> HIDE DEF names
  <1>3. /\ DOMAIN names = 1..n
        /\ \A i \in 1..n : \E a \in some : names[i] = a.name
        /\ \A a \in some : \E i \in 1..n : names[i] = a.name
        /\ \A i, j \in 1..n : names[i] = names[j] => i = j
    BY <1>2 DEF IsListing
  <1>4. \A i \in 1..n : Named(names[i]) \in some /\ Named(names[i]).name = names[i]
    BY <1>3
  <1>5. \A a \in some : Named(a.name) = a
    OBVIOUS
  <1> HIDE DEF Named, n
  <1>6. DOMAIN cards = 1..n /\ \A i \in 1..n : cards[i] = CardOf(Named(names[i]), all)
    BY <1>3
  <1>7. \A a : CardOf(a, all).app = a.name
    BY DEF CardOf
  <1> HIDE DEF cards
  <1>8. \A i, j \in 1..n : cards[i] = cards[j] => i = j
    BY <1>3, <1>4, <1>6, <1>7
  <1>9. ToSet(cards) = {CardOf(a, all) : a \in some}
    <2>1. \A i \in 1..n : cards[i] \in {CardOf(a, all) : a \in some}
      BY <1>4, <1>6
    <2>2. \A a \in some : \E i \in 1..n : cards[i] = CardOf(a, all)
      BY <1>3, <1>5, <1>6
    <2>3. ToSet(cards) = {cards[i] : i \in 1..n}
      BY <1>6 DEF ToSet
    <2>4. QED
      BY <2>1, <2>2, <2>3
  <1>10. IsInjective(cards)
    BY <1>6, <1>8 DEF IsInjective
  <1>11. QED
    BY <1>1, <1>9, <1>10

(* The favourite apps are root apps.                                       *)
IsMarked(root, list) == root.isFavorite \/ \E child \in ChildApps(root, list) : child.isFavorite

LEMMA FavoritesPicked ==
    ASSUME NEW list \in Seq(AppType)
    PROVE  LET roots == RootApps(list)
           IN  /\ FavoriteApps(list) \in Seq(AppType)
               /\ Picked(FavoriteApps(list), roots, {i \in 1..Len(roots) : IsMarked(roots[i], list)})
  <1> DEFINE roots == RootApps(list)
             pass == {i \in 1..Len(roots) : IsMarked(roots[i], list)}
             Rec(kept) == kept = [i \in 0..Len(roots) |->
                            IF i = 0 THEN <<>>
                            ELSE IF IsMarked(roots[i], list) THEN Append(kept[i - 1], roots[i])
                            ELSE kept[i - 1]]
             it == CHOOSE kept : Rec(kept)
  <1>1. FavoriteApps(list) = it[Len(roots)]
    BY Zenon DEF FavoriteApps, Filter, IsMarked
  <1>2. roots \in Seq(AppType)
    BY RootsPicked
  <1> HIDE DEF roots
  <1>3. \A i \in 0..Len(roots) : i # 0 => (i \in pass <=> IsMarked(roots[i], list))
    BY <1>2
  <1> HIDE DEF pass
  <1>4. \A kept : Rec(kept) <=> IsFilter(kept, roots, pass)
    BY <1>3 DEF IsFilter
  <1> HIDE DEF Rec
  <1>5. \E kept : Rec(kept)
    BY <1>2, <1>4, FilterExists
  <1>6. Rec(it)
    BY <1>5
  <1> HIDE DEF it
  <1>7. pass \in SUBSET (1..Len(roots))
    BY DEF pass
  <1>8. it[Len(roots)] \in Seq(AppType) /\ Picked(it[Len(roots)], roots, pass)
    BY <1>2, <1>4, <1>6, <1>7, FilterReached
  <1>9. QED
    BY <1>1, <1>8 DEF pass, roots

LEMMA RootsAre ==
    ASSUME NEW list, IsAppList(list)
    PROVE  /\ IsAppList(RootApps(list))
           /\ ToSet(RootApps(list)) = {app \in ToSet(list) : ~app.isChild}
           /\ ToSet(FavoriteApps(list)) = {app \in ToSet(RootApps(list)) : IsMarked(app, list)}
  <1> DEFINE pass == {i \in 1..Len(list) : ~list[i].isChild}
             roots == RootApps(list)
             marked == {i \in 1..Len(roots) : IsMarked(roots[i], list)}
  <1>1. list \in Seq(AppType)
    BY DEF IsAppList
  <1>2. roots \in Seq(AppType) /\ Picked(roots, list, pass)
    BY <1>1, RootsPicked
  <1>3. IsAppList(roots) /\ ToSet(roots) = {list[k] : k \in pass}
    BY <1>2, PickedIsAppList
  <1>4. ToSet(list) = {list[k] : k \in 1..Len(list)}
    BY AppListFacts DEF ToSet
  <1>5. FavoriteApps(list) \in Seq(AppType) /\ Picked(FavoriteApps(list), roots, marked)
    BY <1>1, FavoritesPicked
  <1> HIDE DEF roots
  <1>6. ToSet(FavoriteApps(list)) = {roots[k] : k \in marked}
    BY <1>3, <1>5, PickedIsAppList
  <1>7. ToSet(roots) = {roots[k] : k \in 1..Len(roots)}
    BY <1>3, AppListFacts DEF ToSet
  <1>8. ToSet(roots) = {app \in ToSet(list) : ~app.isChild}
    BY <1>3, <1>4
  <1>9. ToSet(FavoriteApps(list)) = {app \in ToSet(roots) : IsMarked(app, list)}
    BY <1>6, <1>7
  <1>10. QED
    BY <1>3, <1>8, <1>9 DEF roots

(* The sections of a view: together they have the apps of the view.        *)
SectionsOf(some, alphabetical) ==
    IF alphabetical THEN GroupAppsByFirstChar(some) ELSE GroupAppsByParentGroup(some, Groups)

LEMMA SectionsAre ==
    ASSUME NEW some, some \subseteq AppType, NEW alphabetical \in BOOLEAN
    PROVE  LET sections == SectionsOf(some, alphabetical)
           IN  /\ DOMAIN sections \ {Others} \subseteq ToSet(Collation)
               /\ \A t \in DOMAIN sections : sections[t] \subseteq some
               /\ \A app \in some : \E t \in DOMAIN sections : app \in sections[t]
               /\ \A t \in DOMAIN sections :
                    IF alphabetical THEN \A app \in sections[t] : Initial[app.name] = t
                    ELSE t = Others \/ t \in CategoryNames(Groups)
  <1> DEFINE sections == SectionsOf(some, alphabetical)
  <1>1. \A app \in some : app.name \in AppNames
    BY DEF AppType
  <1>2. \A g \in Groups : g.name \in ToSet(Collation)
    BY ViewsAssumption
  <1>3. \A name \in AppNames : Initial[name] \in ToSet(Collation)
    BY ViewsAssumption
  <1>4. CASE alphabetical
    <2>1. sections = [char \in {Initial[app.name] : app \in some} |->
                        {app \in some : Initial[app.name] = char}]
      BY <1>4 DEF SectionsOf, GroupAppsByFirstChar
    <2>2. DOMAIN sections = {Initial[app.name] : app \in some}
          /\ \A t \in DOMAIN sections : sections[t] = {app \in some : Initial[app.name] = t}
      BY <2>1
    <2> HIDE DEF sections
    <2>3. \A app \in some : Initial[app.name] \in DOMAIN sections
      BY <2>2
    <2>4. \A app \in some : \E t \in DOMAIN sections : app \in sections[t]
      BY <2>2, <2>3
    <2>5. DOMAIN sections \subseteq ToSet(Collation)
      BY <1>1, <1>3, <2>2
    <2>6. \A t \in DOMAIN sections : \A app \in sections[t] : app \in some /\ Initial[app.name] = t
      BY <2>2
    <2>7. QED
      BY <1>4, <2>4, <2>5, <2>6 DEF sections
  <1>5. CASE ~alphabetical
    <2>1. sections = [heading \in UNION {Headings(app, Groups) : app \in some} |->
                        {app \in some : heading \in Headings(app, Groups)}]
      BY <1>5 DEF SectionsOf, GroupAppsByParentGroup
    <2>2. /\ DOMAIN sections = UNION {Headings(app, Groups) : app \in some}
          /\ \A t \in DOMAIN sections : sections[t] = {app \in some : t \in Headings(app, Groups)}
      BY <2>1
    <2> HIDE DEF sections
    <2>3. \A app \in some : /\ Headings(app, Groups) \subseteq CategoryNames(Groups) \cup {Others}
                            /\ \E t : t \in Headings(app, Groups)
      BY DEF Headings
    <2>4. CategoryNames(Groups) \subseteq ToSet(Collation)
      BY <1>2 DEF CategoryNames
    <2>5. \A app \in some : \E t \in DOMAIN sections : app \in sections[t]
      BY <2>2, <2>3
    <2>6. \A t \in DOMAIN sections : t = Others \/ t \in CategoryNames(Groups)
      BY <2>2, <2>3
    <2>7. DOMAIN sections \ {Others} \subseteq ToSet(Collation)
      BY <2>4, <2>6
    <2>8. QED
      BY <1>5, <2>2, <2>5, <2>6, <2>7 DEF sections
  <1>6. QED
    BY <1>4, <1>5

(* A view lists the cards of its apps, in sections that are in order.      *)
LEMMA ViewIs ==
    ASSUME NEW list, IsAppList(list), NEW product, NEW favorites, NEW alphabetical \in BOOLEAN,
           FilterProductApps(list, Groups, product, favorites) \subseteq ToSet(list)
    PROVE  LET some == FilterProductApps(list, Groups, product, favorites)
               view == AppView(list, Groups, product, favorites, alphabetical)
           IN  /\ ListedCards(view) = {CardOf(app, list) : app \in some}
               /\ SectionsInOrder(view, alphabetical)
  <1> DEFINE some == FilterProductApps(list, Groups, product, favorites)
             view == AppView(list, Groups, product, favorites, alphabetical)
             sections == SectionsOf(some, alphabetical)
             T == DOMAIN sections
             titles == SortGroupsByName(T)
             n == Len(titles)
  <1>1. view = [i \in DOMAIN titles |->
                  [title |-> IF titles = <<Others>> THEN "" ELSE titles[i],
                   cards |-> Cards(sections[titles[i]], list)]]
    BY Zenon DEF AppView, SectionsOf
  <1>2. some \subseteq AppType /\ \A a, b \in some : a.name = b.name => a = b
    <2>1. ToSet(list) = {list[k] : k \in 1..Len(list)}
      BY AppListFacts DEF ToSet
    <2>2. QED
      BY <2>1, AppListFacts
  <1>3. \A a \in some : a.name \in ToSet(Collation)
    BY <1>2, ViewsAssumption DEF AppType
  <1> HIDE DEF some
  <1>4. /\ T \ {Others} \subseteq ToSet(Collation)
        /\ \A t \in T : sections[t] \subseteq some
        /\ \A app \in some : \E t \in T : app \in sections[t]
        /\ \A t \in T : IF alphabetical THEN \A app \in sections[t] : Initial[app.name] = t
                        ELSE t = Others \/ t \in CategoryNames(Groups)
    BY <1>2, SectionsAre
  <1>5. IsListing(titles, T) /\ \A i \in 1..n : titles[i] = Others => i = n
    BY <1>4, TitlesAre
  <1> HIDE DEF sections, titles, n, view
  <1>6. /\ n \in Nat /\ DOMAIN titles = 1..n
        /\ \A i \in 1..n : titles[i] \in T
        /\ \A t \in T : \E i \in 1..n : titles[i] = t
        /\ \A i, j \in 1..n : titles[i] = titles[j] => i = j
    BY <1>5 DEF IsListing, n
  <1>7. DOMAIN view = 1..n /\ Len(view) = n
    <2>1. DOMAIN view = DOMAIN titles
      BY <1>1
    <2>2. DOMAIN view = 1..n
      BY <1>6, <2>1
    <2>3. QED
      BY <1>6, <2>2
  <1>8. \A i \in 1..n : /\ view[i].title = IF titles = <<Others>> THEN "" ELSE titles[i]
                        /\ view[i].cards = Cards(sections[titles[i]], list)
    BY <1>1, <1>6
  <1>9. ASSUME NEW i \in 1..n
        PROVE  /\ IsInjective(view[i].cards)
               /\ ToSet(view[i].cards) = {CardOf(a, list) : a \in sections[titles[i]]}
    <2> DEFINE part == sections[titles[i]]
    <2>1. part \subseteq some
      BY <1>4, <1>6
    <2>2. view[i].cards = Cards(part, list)
      BY <1>8
    <2> HIDE DEF part
    <2>3. (\A a, b \in part : a.name = b.name => a = b) /\ \A a \in part : a.name \in ToSet(Collation)
      BY <1>2, <1>3, <2>1
    <2>4. QED
      BY <2>2, <2>3, CardsAre DEF part
  <1>10. ListedCards(view) = {CardOf(app, list) : app \in some}
    <2>1. ListedCards(view) = UNION {ToSet(view[i].cards) : i \in 1..n}
      BY <1>7 DEF ListedCards
    <2>2. ASSUME NEW i \in 1..n, NEW c \in ToSet(view[i].cards)
          PROVE  c \in {CardOf(app, list) : app \in some}
      <3>1. PICK a \in sections[titles[i]] : c = CardOf(a, list)
        BY <1>9, <2>2
      <3>2. a \in some
        BY <1>4, <1>6
      <3>3. QED
        BY <3>1, <3>2
    <2>3. ASSUME NEW app \in some PROVE \E i \in 1..n : CardOf(app, list) \in ToSet(view[i].cards)
      <3>1. PICK t \in T : app \in sections[t]
        BY <1>4
      <3>2. PICK i \in 1..n : titles[i] = t
        BY <1>6
      <3>3. QED
        BY <1>9, <3>1, <3>2
    <2>4. QED
      BY <2>1, <2>2, <2>3
  <1>11. ASSUME NEW i \in 1..n, view[i].title = Others PROVE i = n
    <2>1. CASE titles = <<Others>>
      <3>1. n = 1
        BY <2>1 DEF n
      <3>2. QED
        BY <3>1
    <2>2. CASE titles # <<Others>>
      BY <1>5, <1>8, <1>11, <2>2
    <2>3. QED
      BY <2>1, <2>2
  <1>12. ASSUME alphabetical, NEW i \in 1..n, NEW j \in 1..n, i # j
         PROVE  ToSet(view[i].cards) \cap ToSet(view[j].cards) = {}
    <2> SUFFICES ASSUME NEW a \in sections[titles[i]], NEW b \in sections[titles[j]],
                        CardOf(a, list) = CardOf(b, list)
                 PROVE  FALSE
      BY <1>9
    <2>1. a.name = b.name
      BY DEF CardOf
    <2>2. Initial[a.name] = titles[i] /\ Initial[b.name] = titles[j]
      BY <1>4, <1>6, <1>12
    <2>3. QED
      BY <1>6, <1>12, <2>1, <2>2
  <1>13. ASSUME ~alphabetical, NEW i \in 1..n, NEW g \in Groups, g.name = view[i].title
         PROVE  ~g.hidden
    <2>1. g.name # "" /\ g.name # Others
      BY ViewsAssumption
    <2>2. g.name = titles[i]
      BY <1>8, <1>13, <2>1
    <2>3. g.name \in CategoryNames(Groups)
      BY <1>4, <1>6, <1>13, <2>1, <2>2
    <2>4. PICK h \in Groups : h.name = g.name /\ ~h.hidden
      BY <2>3 DEF CategoryNames
    <2>5. h = g
      BY <2>4, ViewsAssumption
    <2>6. QED
      BY <2>4, <2>5
  <1>14. SectionsInOrder(view, alphabetical)
    BY <1>7, <1>9, <1>11, <1>12, <1>13 DEF SectionsInOrder
  <1>15. QED
    BY <1>10, <1>14 DEF some, view

(* Every app of the list is on a card or the child of one.                 *)
LEMMA OnACard ==
    ASSUME AppsInv, NEW name \in NamesOf(apps)
    PROVE  \E root \in ToSet(RootApps(apps)) : \E app \in {root} \cup ChildApps(root, apps) :
              app.name = name /\ app \in ToSet(apps)
  <1>1. name \in Shown
    BY ShownNames
  <1>2. PICK root \in ToSet(RootApps(apps)) :
            \E app \in {root} \cup ChildApps(root, apps) : app.name = name
    BY <1>1 DEF Shown
  <1>3. PICK app \in {root} \cup ChildApps(root, apps) : app.name = name
    BY <1>2
  <1>4. root \in ToSet(apps)
    BY RootsAre DEF AppsInv
  <1>5. app \in ToSet(apps)
    BY <1>4 DEF ChildApps
  <1>6. QED
    BY <1>3, <1>5

\* The app can be opened from the card.
Reaches(card, name) == name \in {card.app} \cup card.children

(* A card reaches the apps of the list that it stands for.                 *)
LEMMA CardReaches ==
    ASSUME AppsInv, NEW name \in NamesOf(apps), NEW root, StandsFor(root, name, apps)
    PROVE  Reaches(CardOf(root, apps), name)
  <1>1. /\ CardOf(root, apps).app = root.name
        /\ CardOf(root, apps).children = {child.name : child \in ChildApps(root, apps)}
    BY DEF CardOf
  <1>2. CASE root.name = name
    BY <1>1, <1>2 DEF Reaches
  <1>3. CASE root.name # name
    <2>1. PICK k \in DOMAIN apps : apps[k].name = name
      BY DEF NamesOf
    <2>2. apps[k] \in ToSet(apps) /\ name \in ToSet(root.childNames)
      BY <1>3 DEF StandsFor, ToSet
    <2>3. apps[k] \in ChildApps(root, apps)
      BY <2>1, <2>2 DEF ChildApps
    <2>4. QED
      BY <1>1, <2>1, <2>3 DEF Reaches
  <1>4. QED
    BY <1>2, <1>3

LEMMA ReachedBy ==
    ASSUME NEW cards, NEW i \in DOMAIN cards, NEW name, Reaches(cards[i], name)
    PROVE  name \in ReachedApps(cards)
  BY DEF Reaches, ReachedApps

(* A favourite app can be reached from a favourite card.                   *)
LEMMA FavoriteReached ==
    ASSUME AppsInv, phase = "ready", NEW name \in NamesOf(apps), appState[name].isFavorite
    PROVE  name \in ReachedApps(FavoriteSection(apps))
  <1> DEFINE favorites == FavoriteApps(apps)
             section == FavoriteSection(apps)
  <1>1. IsAppList(apps) /\ Marked(apps, appState)
    BY DEF AppsInv
  <1>2. PICK root \in ToSet(RootApps(apps)) : \E app \in {root} \cup ChildApps(root, apps) :
              app.name = name /\ app \in ToSet(apps)
    BY OnACard
  <1>3. PICK app \in {root} \cup ChildApps(root, apps) : app.name = name /\ app \in ToSet(apps)
    BY <1>2
  <1>4. app.isFavorite
    <2>1. PICK k \in 1..Len(apps) : app = apps[k]
      BY <1>1, <1>3, AppListFacts DEF ToSet
    <2>2. QED
      BY <1>1, <1>3, <2>1 DEF Marked
  <1>5. root \in ToSet(favorites)
    BY <1>1, <1>3, <1>4, RootsAre DEF IsMarked
  <1>6. section = [i \in DOMAIN favorites |-> CardOf(favorites[i], apps)]
    BY DEF FavoriteSection
  <1> HIDE DEF favorites, section
  <1>7. PICK i \in DOMAIN favorites : favorites[i] = root
    BY <1>5 DEF ToSet
  <1>8. i \in DOMAIN section /\ section[i] = CardOf(root, apps)
    BY <1>6, <1>7
  <1>9. /\ CardOf(root, apps).app = root.name
        /\ CardOf(root, apps).children = {child.name : child \in ChildApps(root, apps)}
    BY DEF CardOf
  <1>10. Reaches(section[i], name)
    BY <1>3, <1>8, <1>9 DEF Reaches
  <1>11. QED
    BY <1>8, <1>10, ReachedBy DEF section

(* An opened app can be reached from a recent card, whichever of the cards *)
(* that share it comes first.                                              *)
LEMMA RecentReached ==
    ASSUME Typed, AppsInv, phase = "ready", NEW name \in NamesOf(apps),
           appState[name].lastOpened > 0
    PROVE  name \in ReachedApps(RecentSection(apps, appState))
  <1> DEFINE recent == RecentApps(apps, appState)
             section == RecentSection(apps, appState)
             roots == ToSet(RootApps(apps))
             order == OpenedApps(appState)
             Card(x) == RootApps(apps)[RootOf(apps, x)]
  <1>1. IsAppList(apps) /\ appState \in States
    BY DEF AppsInv, Typed, ViewTyped
  <1>2. recent \in Seq(AppNames) /\ RecentUpto(recent, order, apps, Len(order))
    BY <1>1, RecentsAre
  <1>3. \A x : IF HasCard(apps, x) THEN Card(x) \in roots /\ StandsFor(Card(x), x, apps)
               ELSE \A root \in roots : ~StandsFor(root, x, apps)
    BY <1>1, RootOfFacts
  <1>4. \A x : CardFor(apps, x) = Card(x).name
    BY DEF CardFor
  <1>5. section = [i \in DOMAIN recent |-> CardOf(Card(recent[i]), apps)]
    BY DEF RecentSection
  <1>6. IsOpenedOrder(order, appState)
    BY <1>1, OpenedInOrder
  <1>7. PICK k \in 1..Len(apps) : apps[k].name = name
    BY <1>1, AppListFacts DEF NamesOf
  <1>8. name \in AppNames
    BY <1>1, <1>7, AppListFacts DEF AppType
  <1>9. \A a, b \in roots : a.name = b.name => a = b
    <2>1. IsAppList(RootApps(apps))
      BY <1>1, RootsAre
    <2>2. roots = {RootApps(apps)[i] : i \in 1..Len(RootApps(apps))}
      BY <2>1, AppListFacts DEF ToSet
    <2>3. QED
      BY <2>1, <2>2, AppListFacts
  <1>10. \A a, b \in roots : a.name \in ToSet(b.childNames) => a.childNames = <<>>
    BY <1>1, RootsAre DEF IsAppList
  <1>11. \E root \in roots : StandsFor(root, name, apps)
    <2>1. PICK root \in roots : \E app \in {root} \cup ChildApps(root, apps) :
              app.name = name /\ app \in ToSet(apps)
      BY OnACard
    <2>2. StandsFor(root, name, apps)
      BY <2>1 DEF StandsFor, ChildApps
    <2>3. QED
      BY <2>2
  <1> HIDE DEF recent, section, roots, order, Card
  <1>12. HasCard(apps, name)
    BY <1>3, <1>11
  <1>13. PICK p \in 1..Len(order) : order[p] = name
    BY <1>6, <1>8 DEF IsOpenedOrder
  <1>14. PICK i \in 1..Len(recent) : recent[i] = CardFor(apps, name)
    BY <1>2, <1>12, <1>13 DEF RecentUpto
  <1>15. i \in DOMAIN section /\ section[i] = CardOf(Card(recent[i]), apps)
    BY <1>2, <1>5, <1>14
  <1> DEFINE r == Card(name)
             q == Card(r.name)
  <1>16. r \in roots /\ StandsFor(r, name, apps)
    BY <1>3, <1>12
  <1>17. StandsFor(r, r.name, apps)
    BY DEF StandsFor
  <1>18. q \in roots /\ StandsFor(q, r.name, apps)
    BY <1>3, <1>16, <1>17
  <1>19. section[i] = CardOf(q, apps)
    BY <1>4, <1>14, <1>15
  <1> HIDE DEF r, q
  <1>20. StandsFor(q, name, apps)
    <2>1. CASE q.name = r.name
      BY <1>9, <1>16, <1>18, <2>1
    <2>2. CASE q.name # r.name
      <3>1. r.name \in ToSet(q.childNames)
        BY <1>18, <2>2 DEF StandsFor
      <3>2. r.childNames = <<>>
        BY <1>10, <1>16, <1>18, <3>1
      <3>3. r.name = name
        BY <1>16, <3>2 DEF StandsFor, ToSet
      <3>4. QED
        BY <1>18, <3>3
    <2>3. QED
      BY <2>1, <2>2
  <1>21. Reaches(section[i], name)
    BY <1>19, <1>20, CardReaches
  <1>22. QED
    BY <1>15, <1>21, ReachedBy DEF section

(* The groups whose apps a product's view has.                             *)
LEMMA FilteredAre ==
    ASSUME IsAppList(apps), NEW product, NEW favorites \in BOOLEAN
    PROVE  LET some == FilterProductApps(apps, Groups, product, favorites)
               all == ToSet(IF favorites THEN FavoriteApps(apps) ELSE RootApps(apps))
           IN  /\ some \subseteq all /\ all \subseteq ToSet(RootApps(apps))
               /\ ToSet(RootApps(apps)) \subseteq ToSet(apps)
               /\ \A app \in all : product = AllApps \/ product \in app.groups => app \in some
               /\ \A app \in some :
                    app \in FilterProductApps(apps, Groups, product, FALSE)
  <1> DEFINE some == FilterProductApps(apps, Groups, product, favorites)
             all == ToSet(IF favorites THEN FavoriteApps(apps) ELSE RootApps(apps))
             any == FilterProductApps(apps, Groups, product, FALSE)
             roots == ToSet(RootApps(apps))
             groups == ProductGroups(Groups, product)
  <1>1. some = IF groups = {AllApps} THEN all ELSE {app \in all : app.groups \cap groups # {}}
    BY DEF FilterProductApps
  <1>2. any = IF groups = {AllApps} THEN roots ELSE {app \in roots : app.groups \cap groups # {}}
    BY DEF FilterProductApps
  <1>3. all \subseteq roots /\ roots \subseteq ToSet(apps)
    BY RootsAre
  <1>4. product \in groups
    BY DEF ProductGroups
  <1>5. ASSUME product = AllApps PROVE groups = {AllApps}
    <2>1. \A g \in Groups : product \notin g.groups
      BY <1>5, ViewsAssumption
    <2>2. {group \in Groups : /\ group.type = "category" /\ ~group.hidden
                              /\ product \in group.groups} = {}
      BY <2>1
    <2>3. QED
      BY <1>5, <2>2 DEF ProductGroups
  <1> HIDE DEF some, all, any, roots, groups
  <1>6. QED
    BY <1>1, <1>2, <1>3, <1>4, <1>5 DEF some, all, any, roots

(* Whatever the apps, the groups and the states: no view loses a card, its *)
(* sections are in order, its favourites are among its cards, and what the *)
(* user has marked or opened can be reached from the start page.           *)
THEOREM ViewsAreComplete == Spec => []ViewsListEveryCard
  <1>1. ASSUME Typed, AppsInv PROVE ViewsListEveryCard
    <2>1. IsAppList(apps)
      BY <1>1 DEF AppsInv
    <2>2. ASSUME NEW product \in Products, NEW alphabetical \in BOOLEAN
          PROVE  LET view   == AppView(apps, Groups, product, FALSE, alphabetical)
                     marked == AppView(apps, Groups, product, TRUE, alphabetical)
                 IN  /\ \A app \in ToSet(RootApps(apps)) :
                         product = AllApps \/ product \in app.groups
                             => CardOf(app, apps) \in ListedCards(view)
                     /\ ListedCards(marked) \subseteq ListedCards(view)
                     /\ SectionsInOrder(view, alphabetical)
                     /\ SectionsInOrder(marked, alphabetical)
      <3> DEFINE any == FilterProductApps(apps, Groups, product, FALSE)
                 some == FilterProductApps(apps, Groups, product, TRUE)
                 view == AppView(apps, Groups, product, FALSE, alphabetical)
                 marked == AppView(apps, Groups, product, TRUE, alphabetical)
      <3>1. /\ any \subseteq ToSet(apps)
            /\ \A app \in ToSet(RootApps(apps)) :
                 product = AllApps \/ product \in app.groups => app \in any
        BY <2>1, FilteredAre
      <3>2. some \subseteq ToSet(apps) /\ some \subseteq any
        BY <2>1, FilteredAre
      <3>3. ListedCards(view) = {CardOf(app, apps) : app \in any} /\ SectionsInOrder(view, alphabetical)
        BY <2>1, <3>1, ViewIs
      <3>4. /\ ListedCards(marked) = {CardOf(app, apps) : app \in some}
            /\ SectionsInOrder(marked, alphabetical)
        BY <2>1, <3>2, ViewIs
      <3> HIDE DEF any, some, view, marked
      <3>5. ListedCards(marked) \subseteq ListedCards(view)
        BY <3>2, <3>3, <3>4
      <3>6. \A app \in ToSet(RootApps(apps)) :
                product = AllApps \/ product \in app.groups
                    => CardOf(app, apps) \in ListedCards(view)
        BY <3>1, <3>3
      <3>7. QED
        BY <3>3, <3>4, <3>5, <3>6 DEF view, marked
    <2>3. ASSUME phase = "ready", ProductView(apps, Groups, appState).products # <<>>,
                 NEW name \in Shown
          PROVE  LET start == ProductView(apps, Groups, appState)
                 IN  /\ appState[name].isFavorite => name \in ReachedApps(start.favorite)
                     /\ appState[name].lastOpened > 0 => name \in ReachedApps(start.recent)
      <3>1. name \in NamesOf(apps)
        BY <1>1, <2>3, ShownNames
      <3>2. ProductView(apps, Groups, appState) =
              [products |-> ProductItems(Groups), recent |-> RecentSection(apps, appState),
               favorite |-> FavoriteSection(apps)]
        BY <2>3 DEF ProductView
      <3>3. /\ ProductView(apps, Groups, appState).favorite = FavoriteSection(apps)
            /\ ProductView(apps, Groups, appState).recent = RecentSection(apps, appState)
        BY <3>2
      <3>4. QED
        BY <1>1, <2>3, <3>1, <3>3, FavoriteReached, RecentReached
    <2>4. QED
      BY <2>2, <2>3 DEF ViewsListEveryCard
  <1>2. QED
    BY <1>1, AppsInvariant, PTL
================================================================================
