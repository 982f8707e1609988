--------------------------- MODULE Algorithms_proofs ---------------------------
(***************************************************************************)
(* The two pure calculations of the backend, for any services, names,      *)
(* types, versions and lists, of any length and in any order.              *)
(*                                                                         *)
(* The merge of the configurations publishes what the declarations select, *)
(* looked at as a whole.  A store is seen through the claims of its items: *)
(* name, type and source.  Seen so, adding an app, a group or a component  *)
(* is one and the same step (Place), which keeps one claim per name.       *)
(* After any number of declarations, the claim kept of a name is of the    *)
(* declaration that wins among those seen so far (Wins): it is of the best *)
(* tier, and the last one there, or the last of the first type in the      *)
(* middle tier.  That is the invariant of the fold (Merged), and each step *)
(* keeps it (MergedNext).  The folds of the model reach what their steps   *)
(* reach (Induction), so a merge publishes the winners of all the          *)
(* declarations of its list, and every list the specification reaches      *)
(* (IsListed), and every order of its services, is one the argument holds  *)
(* for.                                                                    *)
(*                                                                         *)
(* The import map, in the last part, is calculated from the packages,      *)
(* one for each id that some service publishes (IsKept).  They are written *)
(* in the order of their versions, and a bare name leads at any time to    *)
(* the last one written of that name (LeadsUpto), so in the end to the     *)
(* highest.                                                                *)
(***************************************************************************)
EXTENDS MCConfigMerge, MCImportMap, Induction

Sources == ServiceNames \cup {Manual}

Declarations == [app : Apps, source : Sources, base : ServiceNames \cup {NoBase}]

(* What a declaration claims, and what a store says of each of its items:  *)
(* a name, its type and the source it is from.                             *)
Claims == [name : AppNames, type : Types, source : Sources]

Claim(d) == [name |-> d.app.name, type |-> d.app.type, source |-> d.source]

ClaimsOf(store) ==
    [i \in DOMAIN store |-> [name   |-> store[i].component.name,
                             type   |-> store[i].component.type,
                             source |-> store[i].source]]

(* How a claim finds its place, whatever the store holds besides.          *)
Beats(old, new) ==
    Draw(old.type, new.type) \/ old.type = NoType \/ new.type \in EuisdkTypes

Place(view, claim) ==
    LET at == IndexOfName(view, claim.name)
    IN  IF at = 0 THEN Append(view, claim)
        ELSE IF Beats(view[at], claim) THEN [view EXCEPT ![at] = claim]
        ELSE view

(* A lookup by name finds the name at the position it answers, and finds   *)
(* it when it is there.                                                    *)
LEMMA Lookup ==
    ASSUME NEW T, NEW list \in Seq(T), NEW name
    PROVE  /\ IndexOfName(list, name) \in 0..Len(list)
           /\ IndexOfName(list, name) # 0 => list[IndexOfName(list, name)].name = name
           /\ IndexOfName(list, name) = 0 => \A i \in 1..Len(list) : list[i].name # name
  <1> DEFINE found == {i \in 1..Len(list) : list[i].name = name}
  <1>1. IndexOfName(list, name) = IF found # {} THEN Min(found) ELSE 0
    BY Zenon DEF IndexOfName, SelectInSeq
  <1>2. found \in SUBSET (1..Len(list)) /\ Len(list) \in Nat
    OBVIOUS
  <1>3. CASE found = {}
    <2>1. IndexOfName(list, name) = 0
      BY <1>1, <1>3
    <2>2. \A i \in 1..Len(list) : list[i].name # name
      BY <1>3
    <2>3. QED
      BY <1>2, <2>1, <2>2
  <1>4. CASE found # {}
    <2>1. Min(found) \in found
      <3> HIDE DEF found
      <3>1. QED
        BY <1>2, <1>4, MinPosition
    <2>2. Min(found) \in 1..Len(list) /\ list[Min(found)].name = name
      BY <2>1
    <2>3. IndexOfName(list, name) = Min(found)
      BY <1>1, <1>4
    <2>4. QED
      BY <1>2, <2>2, <2>3
  <1>5. QED
    BY <1>3, <1>4

(* A store is looked up as what it says is.                                *)
LEMMA StoreLookup ==
    ASSUME NEW T, NEW store \in Seq(T), NEW name
    PROVE  StoreIndex(store, name) = IndexOfName(ClaimsOf(store), name)
  <1> DEFINE view == ClaimsOf(store)
             there == {i \in 1..Len(store) : store[i].component.name = name}
             here == {i \in 1..Len(view) : view[i].name = name}
  <1>1. DOMAIN view = 1..Len(store) /\ Len(store) \in Nat
        /\ \A i \in 1..Len(store) : view[i].name = store[i].component.name
    BY DEF ClaimsOf
  <1>2. Len(view) = Len(store)
    BY <1>1
  <1>3. there = here
    BY <1>1, <1>2
  <1>4. StoreIndex(store, name) = IF there # {} THEN Min(there) ELSE 0
    BY Zenon DEF StoreIndex, SelectInSeq
  <1>5. IndexOfName(view, name) = IF here # {} THEN Min(here) ELSE 0
    BY Zenon DEF IndexOfName, SelectInSeq
  <1> HIDE DEF there, here
  <1>6. QED
    BY <1>3, <1>4, <1>5

(* Whatever the updater, an item of the resolver that keeps its name, type *)
(* and source is put where its claim belongs.                              *)
LEMMA ItemPlaced ==
    ASSUME NEW T, NEW store \in Seq(T), NEW item \in T, NEW entity, NEW config,
           NEW V, ClaimsOf(store) \in Seq(V),
           NEW claim \in V,
           claim = [name |-> entity.name, type |-> entity.type, source |-> config.name],
           item.component.name = ResolvedItem(store, entity, config).component.name,
           item.component.type = ResolvedItem(store, entity, config).component.type,
           item.source = ResolvedItem(store, entity, config).source
    PROVE  ClaimsOf(PutItem(store, item)) = Place(ClaimsOf(store), claim)
  <1> DEFINE view == ClaimsOf(store)
             at == IndexOfName(view, entity.name)
             new == [component |-> entity, source |-> config.name]
             resolved == ResolvedItem(store, entity, config)
             n == Len(store)
             put == PutItem(store, item)
  <1>1. n \in Nat /\ DOMAIN store = 1..n /\ Len(view) = n /\ DOMAIN view = 1..n
    BY DEF ClaimsOf
  <1>2. \A i \in 1..n : view[i] = [name |-> store[i].component.name,
                                   type |-> store[i].component.type,
                                   source |-> store[i].source]
    BY DEF ClaimsOf
  <1>3. StoreIndex(store, entity.name) = at
    BY StoreLookup
  <1>4. at \in 0..n /\ (at # 0 => view[at].name = entity.name)
    <2> HIDE DEF view
    <2>1. QED
      BY <1>1, Lookup DEF view
  <1>5. resolved = IF at = 0 THEN new ELSE ResolveEntityByType(store[at], new)
    BY <1>3 DEF ResolvedItem
  <1> HIDE DEF at, view
  <1>6. at # 0 => resolved = IF Beats(view[at], claim) THEN new ELSE store[at]
    <2>1. SUFFICES ASSUME at # 0
                   PROVE  resolved = IF Beats(view[at], claim) THEN new ELSE store[at]
      OBVIOUS
    <2>2. view[at].type = store[at].component.type /\ claim.type = new.component.type
      BY <1>1, <1>2, <1>4, <2>1
    <2>3. resolved = ResolveEntityByType(store[at], new)
      BY <1>5, <2>1
    <2> HIDE DEF new, resolved
    <2>4. QED
      BY <2>2, <2>3 DEF ResolveEntityByType, Beats
  <1>7. resolved.component.name = entity.name
    <2>1. at # 0 => store[at].component.name = entity.name
      BY <1>1, <1>2, <1>4
    <2>2. new.component.name = entity.name
      OBVIOUS
    <2>3. resolved \in {new, store[at]} /\ (at = 0 => resolved = new)
      BY <1>5, <1>6
    <2> HIDE DEF new, resolved
    <2>4. QED
      BY <2>1, <2>2, <2>3
  <1>8. put = IF at = 0 THEN Append(store, item) ELSE [store EXCEPT ![at] = item]
    <2>1. StoreIndex(store, item.component.name) = at
      BY <1>3, <1>7
    <2>2. QED
      BY <2>1 DEF PutItem
  <1>9. claim = [name |-> entity.name, type |-> entity.type, source |-> config.name]
    OBVIOUS
  <1>10. Place(view, claim) = IF at = 0 THEN Append(view, claim)
                              ELSE IF Beats(view[at], claim) THEN [view EXCEPT ![at] = claim]
                              ELSE view
    BY <1>9 DEF Place, at
  <1> HIDE DEF resolved, put
  <1> DEFINE says == [name |-> item.component.name, type |-> item.component.type,
                      source |-> item.source]
  <1>11. says = IF at = 0 \/ Beats(view[at], claim) THEN claim ELSE view[at]
    <2>1. says = [name |-> resolved.component.name, type |-> resolved.component.type,
                  source |-> resolved.source]
      BY DEF resolved
    <2>2. CASE at = 0
      BY <1>5, <1>9, <2>1, <2>2
    <2>3. CASE at # 0 /\ Beats(view[at], claim)
      BY <1>6, <1>9, <2>1, <2>3
    <2>4. CASE at # 0 /\ ~Beats(view[at], claim)
      BY <1>2, <1>4, <1>6, <2>1, <2>4
    <2>5. QED
      BY <2>2, <2>3, <2>4
  <1> HIDE DEF says
  <1>12. ClaimsOf(put) = IF at = 0 THEN Append(view, says) ELSE [view EXCEPT ![at] = says]
    <2>0. view \in Seq(V) /\ says \in V
      <3>1. view \in Seq(V)
        BY DEF view
      <3>2. at # 0 => view[at] \in V
        BY <1>1, <1>4, <3>1
      <3>3. QED
        BY <1>11, <3>1, <3>2
    <2>1. CASE at = 0
      <3>1. put = Append(store, item)
        BY <1>8, <2>1
      <3>2. /\ DOMAIN put = 1..(n + 1)
            /\ put[n + 1] = item
            /\ \A i \in 1..n : put[i] = store[i]
        BY <1>1, <3>1
      <3>3. /\ DOMAIN ClaimsOf(put) = 1..(n + 1)
            /\ \A i \in 1..(n + 1) : ClaimsOf(put)[i] = IF i = n + 1 THEN says ELSE view[i]
        BY <1>1, <1>2, <3>2 DEF ClaimsOf, says
      <3>4. ClaimsOf(put) = [i \in 1..(n + 1) |-> IF i = n + 1 THEN says ELSE view[i]]
        BY <3>3 DEF ClaimsOf
      <3>5. Append(view, says) = [i \in 1..(n + 1) |-> IF i = n + 1 THEN says ELSE view[i]]
        <4>1. /\ Append(view, says) \in Seq(V)
              /\ Len(Append(view, says)) = n + 1
              /\ \A i \in 1..(n + 1) : Append(view, says)[i] = IF i = n + 1 THEN says ELSE view[i]
          BY <1>1, <2>0
        <4>2. \A s \in Seq(V) : s = [i \in 1..Len(s) |-> s[i]]
          OBVIOUS
        <4>3. QED
          BY <4>1, <4>2
      <3>6. QED
        BY <2>1, <3>4, <3>5
    <2>2. CASE at # 0
      <3>1. put = [store EXCEPT ![at] = item] /\ at \in 1..n
        BY <1>1, <1>4, <1>8, <2>2
      <3>2. /\ DOMAIN put = 1..n
            /\ \A i \in 1..n : put[i] = IF i = at THEN item ELSE store[i]
        BY <1>1, <3>1
      <3>3. ClaimsOf(put) = [i \in 1..n |-> IF i = at THEN says ELSE view[i]]
        <4>1. \A i \in 1..n : [name   |-> put[i].component.name,
                               type   |-> put[i].component.type,
                               source |-> put[i].source] = IF i = at THEN says ELSE view[i]
          BY <1>2, <3>2 DEF says
        <4>2. QED
          BY <3>2, <4>1 DEF ClaimsOf
      <3>4. [view EXCEPT ![at] = says] = [i \in 1..n |-> IF i = at THEN says ELSE view[i]]
        BY <1>1
      <3>5. QED
        BY <2>2, <3>3, <3>4
    <2>3. QED
      BY <2>1, <2>2
  <1>13. [view EXCEPT ![at] = view[at]] = view
    <2>1. view \in Seq(V)
      BY DEF view
    <2>2. view = [i \in 1..n |-> view[i]]
      BY <1>1, <2>1
    <2>3. QED
      BY <1>1, <2>2
  <1>14. QED
    BY <1>10, <1>11, <1>12, <1>13 DEF put, view

--------------------------------------------------------------------------------
(* The view a list of declarations makes of an earlier one.                *)
Placed(view, ds, result) ==
    \E g \in [0..Len(ds) -> Seq(Claims)] :
        /\ g[0] = view
        /\ \A i \in 1..Len(ds) : g[i] = Place(g[i - 1], Claim(ds[i]))
        /\ g[Len(ds)] = result

(* There is one only.                                                      *)
LEMMA PlacedOnce ==
    ASSUME NEW ds \in Seq(Declarations), NEW view, NEW r1, NEW r2,
           Placed(view, ds, r1), Placed(view, ds, r2)
    PROVE  r1 = r2
  <1> DEFINE n == Len(ds)
  <1>1. PICK g : /\ g[0] = view
                 /\ \A i \in 1..n : g[i] = Place(g[i - 1], Claim(ds[i]))
                 /\ g[n] = r1
    BY DEF Placed
  <1>2. PICK h : /\ h[0] = view
                 /\ \A i \in 1..n : h[i] = Place(h[i - 1], Claim(ds[i]))
                 /\ h[n] = r2
    BY DEF Placed
  <1> DEFINE same == {i \in 0..n : g[i] = h[i]}
  <1>3. n \in Nat
    OBVIOUS
  <1> HIDE DEF n
  <1>4. 0 \in same
    BY <1>1, <1>2, <1>3
  <1>5. ASSUME NEW i \in 0..n, i < n, i \in same PROVE i + 1 \in same
    <2>1. i + 1 \in 1..n /\ i + 1 \in 0..n /\ (i + 1) - 1 = i
      BY <1>3, <1>5
    <2>2. g[i + 1] = Place(g[i], Claim(ds[i + 1])) /\ h[i + 1] = Place(h[i], Claim(ds[i + 1]))
      BY <1>1, <1>2, <2>1
    <2>3. QED
      BY <1>5, <2>1, <2>2
  <1>6. \A i \in 0..n : i \in same
    <2> HIDE DEF same
    <2>1. QED
      BY <1>3, <1>4, <1>5, UpTo
  <1>7. QED
    BY <1>1, <1>2, <1>3, <1>6

--------------------------------------------------------------------------------
LEMMA Tiers ==
    \A type : /\ Tier(type) \in 0..2
              /\ Tier(type) = 0 <=> type = NoType
              /\ Tier(type) = 2 <=> type \in EuisdkTypes
  BY MergeAssumption DEF Tier

(* The position of the declaration that wins its name among all of them.   *)
Rival(all, w, i) == all[i].app.name = all[w].app.name

TierAt(all, i) == Tier(all[i].app.type)

LastOfTier(all, w) ==
    \A i \in (w + 1)..Len(all) : Rival(all, w, i) => TierAt(all, i) # TierAt(all, w)

LastOfFirstType(all, w) ==
    /\ \A i \in (w + 1)..Len(all) : Rival(all, w, i) => all[i].app.type # all[w].app.type
    /\ \E f \in 1..w :
        /\ Rival(all, w, f) /\ all[f].app.type = all[w].app.type
        /\ \A i \in 1..(f - 1) : Rival(all, w, i) => TierAt(all, i) # 1

Wins(all, w) ==
    /\ w \in 1..Len(all)
    /\ \A i \in 1..Len(all) : Rival(all, w, i) => TierAt(all, i) <= TierAt(all, w)
    /\ TierAt(all, w) = 1 => LastOfFirstType(all, w)
    /\ TierAt(all, w) # 1 => LastOfTier(all, w)

(* One more declaration.                                                   *)
LEMMA Longer ==
    ASSUME NEW T, NEW all \in Seq(T), NEW d \in T
    PROVE  /\ Append(all, d) \in Seq(T) /\ Len(all) \in Nat
           /\ Len(Append(all, d)) = Len(all) + 1
           /\ Append(all, d)[Len(all) + 1] = d
           /\ \A i \in 1..Len(all) : Append(all, d)[i] = all[i]
  OBVIOUS

(* It changes nothing where it is for another name or does not beat.       *)
LEMMA StillWins ==
    ASSUME NEW all \in Seq(Declarations), NEW d \in Declarations, NEW w, Wins(all, w),
           d.app.name # all[w].app.name \/ ~Beats(Claim(all[w]), Claim(d))
    PROVE  Wins(Append(all, d), w)
  <1> DEFINE n == Len(all)
             more == Append(all, d)
  <1>1. /\ n \in Nat /\ Len(more) = n + 1 /\ more[n + 1] = d
        /\ \A i \in 1..n : more[i] = all[i]
    BY Longer
  <1>2. w \in 1..n
    BY DEF Wins
  <1> HIDE DEF n, more
  <1>3. /\ more[w] = all[w]
        /\ \A i \in 1..(n + 1) : i \in 1..n \/ i = n + 1
        /\ \A i \in (w + 1)..(n + 1) : i \in (w + 1)..n \/ i = n + 1
        /\ \A i \in (w + 1)..n : i \in 1..n
        /\ \A i \in 1..w : i \in 1..n /\ \A j \in 1..(i - 1) : j \in 1..n
        /\ w \in 1..(n + 1)
    BY <1>1, <1>2
  <1>4. /\ \A i \in 1..n : Rival(more, w, i) = Rival(all, w, i)
        /\ \A i \in 1..n : TierAt(more, i) = TierAt(all, i)
        /\ TierAt(more, w) = TierAt(all, w)
    BY <1>1, <1>2, <1>3 DEF Rival, TierAt
  <1>5. Rival(more, w, n + 1) => /\ TierAt(more, n + 1) <= TierAt(all, w)
                                 /\ more[n + 1].app.type # all[w].app.type
                                 /\ TierAt(all, w) # 1 => TierAt(more, n + 1) # TierAt(all, w)
    <2>1. SUFFICES ASSUME d.app.name = all[w].app.name
                   PROVE  /\ Tier(d.app.type) <= Tier(all[w].app.type)
                          /\ d.app.type # all[w].app.type
                          /\ Tier(all[w].app.type) # 1 => Tier(d.app.type) # Tier(all[w].app.type)
      BY <1>1, <1>3 DEF Rival, TierAt
    <2>2. /\ ~Draw(all[w].app.type, d.app.type)
          /\ all[w].app.type # NoType
          /\ d.app.type \notin EuisdkTypes
      BY <2>1 DEF Beats, Claim
    <2>3. d.app.type # all[w].app.type
      BY <2>2 DEF Draw
    <2>4. Tier(d.app.type) \in 0..1 /\ Tier(all[w].app.type) \in 1..2
      BY <2>2, Tiers
    <2>5. QED
      BY <2>3, <2>4
  <1>6. \A i \in 1..(n + 1) : Rival(more, w, i) => TierAt(more, i) <= TierAt(more, w)
    BY <1>3, <1>4, <1>5 DEF Wins, n
  <1>7. TierAt(all, w) # 1 => LastOfTier(more, w)
    <2>1. ASSUME TierAt(all, w) # 1, NEW i \in (w + 1)..(n + 1), Rival(more, w, i)
          PROVE  TierAt(more, i) # TierAt(more, w)
      <3>1. CASE i = n + 1
        BY <1>4, <1>5, <2>1, <3>1
      <3>2. CASE i \in (w + 1)..n
        <4>1. LastOfTier(all, w)
          BY <2>1 DEF Wins
        <4>2. QED
          BY <1>3, <1>4, <2>1, <3>2, <4>1 DEF LastOfTier, n
      <3>3. QED
        BY <1>3, <3>1, <3>2
    <2>2. QED
      BY <1>1, <2>1 DEF LastOfTier
  <1>8. TierAt(all, w) = 1 => LastOfFirstType(more, w)
    <2>1. SUFFICES ASSUME TierAt(all, w) = 1 PROVE LastOfFirstType(more, w)
      OBVIOUS
    <2>2. LastOfFirstType(all, w)
      BY <2>1 DEF Wins
    <2>3. ASSUME NEW i \in (w + 1)..(n + 1), Rival(more, w, i)
          PROVE  more[i].app.type # more[w].app.type
      <3>1. CASE i = n + 1
        BY <1>3, <1>5, <2>3, <3>1
      <3>2. CASE i \in (w + 1)..n
        BY <1>1, <1>3, <1>4, <2>2, <2>3, <3>2 DEF LastOfFirstType, n
      <3>3. QED
        BY <1>3, <3>1, <3>2
    <2>4. PICK f \in 1..w : /\ Rival(all, w, f) /\ all[f].app.type = all[w].app.type
                            /\ \A i \in 1..(f - 1) : Rival(all, w, i) => TierAt(all, i) # 1
      BY <2>2 DEF LastOfFirstType
    <2>5. /\ Rival(more, w, f) /\ more[f].app.type = more[w].app.type
          /\ \A i \in 1..(f - 1) : Rival(more, w, i) => TierAt(more, i) # 1
      BY <1>1, <1>3, <1>4, <2>4
    <2>6. QED
      BY <1>1, <2>3, <2>5 DEF LastOfFirstType
  <1>9. QED
    BY <1>1, <1>3, <1>4, <1>6, <1>7, <1>8 DEF Wins, more

(* It wins where it beats the winner so far.                               *)
LEMMA LastWins ==
    ASSUME NEW all \in Seq(Declarations), NEW d \in Declarations, NEW w, Wins(all, w),
           d.app.name = all[w].app.name, Beats(Claim(all[w]), Claim(d))
    PROVE  Wins(Append(all, d), Len(all) + 1)
  <1> DEFINE n == Len(all)
             more == Append(all, d)
             v == n + 1
  <1>1. /\ n \in Nat /\ Len(more) = n + 1 /\ more[v] = d
        /\ \A i \in 1..n : more[i] = all[i]
    BY Longer
  <1>2. w \in 1..n
    BY DEF Wins
  <1> HIDE DEF n, more
  <1>3. /\ \A i \in 1..v : i \in 1..n \/ i = v
        /\ v \in 1..v /\ w \in 1..v
        /\ \A i \in (v + 1)..v : FALSE
        /\ \A f \in 1..w : f \in 1..n /\ f \in 1..v /\ \A i \in 1..(f - 1) : i \in 1..n
    BY <1>1, <1>2
  <1> HIDE DEF v
  <1>4. /\ \A i \in 1..n : Rival(more, v, i) = Rival(all, w, i)
        /\ \A i \in 1..n : TierAt(more, i) = TierAt(all, i)
        /\ TierAt(more, v) = Tier(d.app.type) /\ TierAt(all, w) = Tier(all[w].app.type)
        /\ Rival(more, v, v) /\ Rival(more, v, w)
    BY <1>1, <1>2 DEF Rival, TierAt
  <1>5. /\ TierAt(all, w) <= TierAt(more, v)
        /\ TierAt(all, w) = TierAt(more, v) /\ TierAt(more, v) = 1
             => all[w].app.type = d.app.type
        /\ \A i \in 1..n : TierAt(all, i) \in 0..2
        /\ TierAt(more, v) \in 0..2
        /\ TierAt(all, w) # TierAt(more, v) /\ TierAt(more, v) = 1 => TierAt(all, w) = 0
    <2>1. \/ Draw(all[w].app.type, d.app.type)
          \/ all[w].app.type = NoType
          \/ d.app.type \in EuisdkTypes
      BY DEF Beats, Claim
    <2>2. Tier(all[w].app.type) <= Tier(d.app.type)
      BY <2>1, Tiers DEF Draw
    <2>3. Tier(all[w].app.type) = Tier(d.app.type) /\ Tier(d.app.type) = 1
            => all[w].app.type = d.app.type
      BY <2>1, Tiers DEF Draw
    <2>4. QED
      BY <1>2, <1>4, <2>2, <2>3, Tiers DEF TierAt
  <1>6. \A i \in 1..n : Rival(all, w, i) => TierAt(all, i) <= TierAt(all, w)
    BY DEF Wins, n
  <1>7. \A i \in 1..v : Rival(more, v, i) => TierAt(more, i) <= TierAt(more, v)
    <2>1. ASSUME NEW i \in 1..n, Rival(all, w, i) PROVE TierAt(all, i) <= TierAt(more, v)
      BY <1>2, <1>5, <1>6, <2>1
    <2>2. QED
      BY <1>3, <1>4, <1>5, <2>1
  <1>8. LastOfTier(more, v)
    BY <1>1, <1>3 DEF LastOfTier, v
  <1>9. TierAt(more, v) = 1 => LastOfFirstType(more, v)
    <2>1. SUFFICES ASSUME TierAt(more, v) = 1
                   PROVE  \E f \in 1..v :
                            /\ Rival(more, v, f) /\ more[f].app.type = more[v].app.type
                            /\ \A i \in 1..(f - 1) : Rival(more, v, i) => TierAt(more, i) # 1
      BY <1>1, <1>3 DEF LastOfFirstType, v
    <2>2. CASE TierAt(all, w) = 1
      <3>1. PICK f \in 1..w : /\ Rival(all, w, f) /\ all[f].app.type = all[w].app.type
                              /\ \A i \in 1..(f - 1) : Rival(all, w, i) => TierAt(all, i) # 1
        BY <2>2 DEF Wins, LastOfFirstType
      <3>2. /\ Rival(more, v, f) /\ more[f].app.type = more[v].app.type
            /\ \A i \in 1..(f - 1) : Rival(more, v, i) => TierAt(more, i) # 1
        BY <1>1, <1>3, <1>4, <1>5, <2>1, <2>2, <3>1
      <3>3. QED
        BY <1>3, <3>2
    <2>3. CASE TierAt(all, w) # 1
      <3>1. \A i \in 1..n : Rival(all, w, i) => TierAt(all, i) = 0
        BY <1>2, <1>5, <1>6, <2>1, <2>3
      <3>2. \A i \in 1..(v - 1) : i \in 1..n
        BY <1>1 DEF v
      <3>3. QED
        BY <1>3, <1>4, <3>1, <3>2
    <2>4. QED
      BY <2>2, <2>3
  <1>10. QED
    BY <1>1, <1>3, <1>7, <1>8, <1>9 DEF Wins, more, v, n

(* And it wins a name that is new.                                         *)
LEMMA FirstWins ==
    ASSUME NEW all \in Seq(Declarations), NEW d \in Declarations,
           \A i \in 1..Len(all) : all[i].app.name # d.app.name
    PROVE  Wins(Append(all, d), Len(all) + 1)
  <1> DEFINE n == Len(all)
             more == Append(all, d)
             v == n + 1
  <1>1. /\ n \in Nat /\ Len(more) = n + 1 /\ more[v] = d
        /\ \A i \in 1..n : more[i] = all[i]
    BY Longer
  <1> HIDE DEF n, more
  <1>2. /\ \A i \in 1..v : i \in 1..n \/ i = v
        /\ v \in 1..v
        /\ \A i \in (v + 1)..v : FALSE
        /\ \A i \in 1..(v - 1) : i \in 1..n
    BY <1>1
  <1> HIDE DEF v
  <1>3. /\ \A i \in 1..n : ~Rival(more, v, i)
        /\ Rival(more, v, v)
    BY <1>1 DEF Rival, n
  <1>4. TierAt(more, v) <= TierAt(more, v)
    BY Tiers DEF TierAt
  <1>5. LastOfTier(more, v)
    BY <1>1, <1>2 DEF LastOfTier, v
  <1>6. LastOfFirstType(more, v)
    <2>1. \A i \in (v + 1)..Len(more) : FALSE
      BY <1>1, <1>2 DEF v
    <2>2. QED
      BY <1>2, <1>3, <2>1 DEF LastOfFirstType
  <1>7. QED
    BY <1>1, <1>2, <1>3, <1>4, <1>5, <1>6 DEF Wins, more, v, n

--------------------------------------------------------------------------------
(* A view is right for what was declared: every declared name once, each   *)
(* with the type and the source of the declaration that wins it.           *)
Merged(view, all) ==
    /\ view \in Seq(Claims)
    /\ \A i, j \in 1..Len(view) : view[i].name = view[j].name => i = j
    /\ \A k \in 1..Len(all) : \E i \in 1..Len(view) : view[i].name = all[k].app.name
    /\ \A i \in 1..Len(view) : \E w \in 1..Len(all) : Wins(all, w) /\ view[i] = Claim(all[w])

LEMMA ClaimIn ==
    ASSUME NEW d \in Declarations
    PROVE  Claim(d) \in Claims /\ Claim(d).name = d.app.name
  BY DEF Claim, Claims, Declarations, Apps

(* The next declaration finds its place, and the view is right again.      *)
LEMMA MergedNext ==
    ASSUME NEW all \in Seq(Declarations), NEW d \in Declarations, NEW view, Merged(view, all)
    PROVE  Merged(Place(view, Claim(d)), Append(all, d))
  <1> DEFINE n == Len(all)
             m == Len(view)
             more == Append(all, d)
             claim == Claim(d)
             at == IndexOfName(view, claim.name)
             next == Place(view, claim)
  <1>1. /\ n \in Nat /\ Len(more) = n + 1 /\ more[n + 1] = d
        /\ \A i \in 1..n : more[i] = all[i]
    BY Longer
  <1>2. claim \in Claims /\ claim.name = d.app.name
    BY ClaimIn
  <1>3. /\ view \in Seq(Claims) /\ m \in Nat
        /\ \A i, j \in 1..m : view[i].name = view[j].name => i = j
        /\ \A k \in 1..n : \E i \in 1..m : view[i].name = all[k].app.name
        /\ \A i \in 1..m : \E w \in 1..n : Wins(all, w) /\ view[i] = Claim(all[w])
    BY DEF Merged
  <1>4. /\ at \in 0..m
        /\ at # 0 => view[at].name = claim.name
        /\ at = 0 => \A i \in 1..m : view[i].name # claim.name
    BY <1>3, Lookup
  <1>5. next = IF at = 0 THEN Append(view, claim)
               ELSE IF Beats(view[at], claim) THEN [view EXCEPT ![at] = claim]
               ELSE view
    BY DEF Place
  <1>6. \A w \in 1..n : all[w] \in Declarations
    OBVIOUS
  <1>7. \A w \in 1..n : Claim(all[w]).name = all[w].app.name
    BY <1>6, ClaimIn
  <1> HIDE DEF n, m, more, claim, at, next
  <1>8. \A k \in 1..(n + 1) : k \in 1..n \/ k = n + 1
    BY <1>1
  <1>9. \A w \in 1..n : w \in 1..(n + 1)
    BY <1>1
  <1>10. n + 1 \in 1..(n + 1)
    BY <1>1
  <1>11. ASSUME NEW i \in 1..m, i # at \/ ~Beats(view[at], claim)
         PROVE  \E w \in 1..(n + 1) : Wins(more, w) /\ view[i] = Claim(more[w])
    <2>1. PICK w \in 1..n : Wins(all, w) /\ view[i] = Claim(all[w])
      BY <1>3
    <2>2. d.app.name # all[w].app.name \/ ~Beats(Claim(all[w]), Claim(d))
      <3>1. CASE i = at
        BY <1>11, <2>1, <3>1 DEF claim
      <3>2. CASE i # at
        <4>1. view[i].name = all[w].app.name
          BY <1>7, <2>1
        <4>2. view[i].name # claim.name
          <5>1. CASE at = 0
            BY <1>4, <5>1
          <5>2. CASE at # 0
            <6>1. at \in 1..m /\ view[at].name = claim.name
              BY <1>3, <1>4, <5>2
            <6>2. QED
              BY <1>3, <3>2, <6>1
          <5>3. QED
            BY <5>1, <5>2
        <4>3. QED
          BY <1>2, <4>1, <4>2
      <3>3. QED
        BY <3>1, <3>2
    <2>3. Wins(more, w)
      BY <2>1, <2>2, StillWins DEF more
    <2>4. QED
      BY <1>1, <1>9, <2>1, <2>3
  <1>12. CASE at = 0
    <2>1. next = Append(view, claim)
      BY <1>5, <1>12
    <2>2. /\ next \in Seq(Claims) /\ Len(next) = m + 1 /\ next[m + 1] = claim
          /\ \A i \in 1..m : next[i] = view[i]
      BY <1>2, <1>3, <2>1, Longer DEF m
    <2>3. \A i \in 1..(m + 1) : i \in 1..m \/ i = m + 1
      BY <1>3
    <2>4. m + 1 \in 1..(m + 1) /\ \A i \in 1..m : i \in 1..(m + 1)
      BY <1>3
    <2>5. ASSUME NEW i \in 1..(m + 1), NEW j \in 1..(m + 1), next[i].name = next[j].name
          PROVE  i = j
      BY <1>3, <1>4, <1>12, <2>2, <2>3, <2>5
    <2>6. ASSUME NEW k \in 1..(n + 1)
          PROVE  \E i \in 1..(m + 1) : next[i].name = more[k].app.name
      <3>1. CASE k = n + 1
        BY <1>1, <1>2, <2>2, <2>4, <3>1
      <3>2. CASE k \in 1..n
        BY <1>1, <1>3, <2>2, <2>4, <3>2
      <3>3. QED
        BY <1>8, <3>1, <3>2
    <2>7. Wins(more, n + 1)
      <3>1. \A k \in 1..n : all[k].app.name # d.app.name
        BY <1>2, <1>3, <1>4, <1>12
      <3>2. QED
        BY <3>1, FirstWins DEF n, more
    <2>8. ASSUME NEW i \in 1..(m + 1)
          PROVE  \E w \in 1..(n + 1) : Wins(more, w) /\ next[i] = Claim(more[w])
      <3>1. CASE i = m + 1
        BY <1>1, <1>10, <2>2, <2>7, <3>1 DEF claim
      <3>2. CASE i \in 1..m
        <4>1. i # at
          BY <1>12, <3>2
        <4>2. QED
          BY <1>11, <2>2, <3>2, <4>1
      <3>3. QED
        BY <2>3, <3>1, <3>2
    <2>9. Merged(next, more)
      BY <1>1, <2>2, <2>5, <2>6, <2>8 DEF Merged
    <2>10. QED
      BY <2>9 DEF next, more, claim
  <1>13. CASE at # 0 /\ Beats(view[at], claim)
    <2>1. next = [view EXCEPT ![at] = claim] /\ at \in 1..m
      BY <1>3, <1>4, <1>5, <1>13
    <2>2. /\ next \in Seq(Claims) /\ Len(next) = m
          /\ \A i \in 1..m : next[i] = IF i = at THEN claim ELSE view[i]
      BY <1>2, <1>3, <2>1 DEF m
    <2>3. \A i \in 1..m : next[i].name = view[i].name
      BY <1>4, <1>13, <2>2
    <2>4. \A i, j \in 1..m : next[i].name = next[j].name => i = j
      BY <1>3, <2>3
    <2>5. ASSUME NEW k \in 1..(n + 1)
          PROVE  \E i \in 1..m : next[i].name = more[k].app.name
      <3>1. CASE k = n + 1
        BY <1>1, <1>2, <2>1, <2>2, <3>1
      <3>2. CASE k \in 1..n
        BY <1>1, <1>3, <2>3, <3>2
      <3>3. QED
        BY <1>8, <3>1, <3>2
    <2>6. Wins(more, n + 1)
      <3>1. PICK w \in 1..n : Wins(all, w) /\ view[at] = Claim(all[w])
        BY <1>3, <2>1
      <3>2. d.app.name = all[w].app.name
        BY <1>2, <1>4, <1>7, <1>13, <3>1
      <3>3. Beats(Claim(all[w]), Claim(d))
        BY <1>13, <3>1 DEF claim
      <3>4. QED
        BY <3>1, <3>2, <3>3, LastWins DEF n, more
    <2>7. ASSUME NEW i \in 1..m
          PROVE  \E w \in 1..(n + 1) : Wins(more, w) /\ next[i] = Claim(more[w])
      <3>1. CASE i = at
        BY <1>1, <1>10, <2>2, <2>6, <3>1 DEF claim
      <3>2. CASE i # at
        BY <1>11, <2>2, <3>2
      <3>3. QED
        BY <3>1, <3>2
    <2>8. Merged(next, more)
      BY <1>1, <2>2, <2>4, <2>5, <2>7 DEF Merged
    <2>9. QED
      BY <2>8 DEF next, more, claim
  <1>14. CASE at # 0 /\ ~Beats(view[at], claim)
    <2>1. next = view /\ at \in 1..m
      BY <1>3, <1>4, <1>5, <1>14
    <2>2. ASSUME NEW k \in 1..(n + 1)
          PROVE  \E i \in 1..m : view[i].name = more[k].app.name
      <3>1. CASE k = n + 1
        BY <1>1, <1>2, <1>4, <1>14, <2>1, <3>1
      <3>2. CASE k \in 1..n
        BY <1>1, <1>3, <3>2
      <3>3. QED
        BY <1>8, <3>1, <3>2
    <2>3. \A i \in 1..m : \E w \in 1..(n + 1) : Wins(more, w) /\ view[i] = Claim(more[w])
      BY <1>11, <1>14
    <2>4. Merged(view, more)
      BY <1>1, <1>3, <2>2, <2>3 DEF Merged, m
    <2>5. QED
      BY <2>1, <2>4 DEF next, more, claim
  <1>15. QED
    BY <1>12, <1>13, <1>14

(* The first i of a list of declarations, behind all the earlier ones.     *)
Upto(all, ds, i) == all \o [j \in 1..i |-> ds[j]]

LEMMA UptoNext ==
    ASSUME NEW T, NEW all \in Seq(T), NEW ds \in Seq(T)
    PROVE  /\ Upto(all, ds, 0) = all
           /\ Upto(all, ds, Len(ds)) = all \o ds
           /\ \A i \in 0..Len(ds) : Upto(all, ds, i) \in Seq(T)
           /\ \A i \in 0..Len(ds) : i < Len(ds) =>
                Upto(all, ds, i + 1) = Append(Upto(all, ds, i), ds[i + 1])
  <1> DEFINE n == Len(ds)
             First(i) == [j \in 1..i |-> ds[j]]
  <1>1. n \in Nat /\ \A i \in 1..n : ds[i] \in T
    OBVIOUS
  <1>2. \A i \in 0..n : First(i) \in Seq(T) /\ Len(First(i)) = i
    BY <1>1
  <1>3. First(0) = <<>> /\ First(n) = ds
    BY <1>1
  <1>4. \A i \in 0..n : i < n => First(i + 1) = Append(First(i), ds[i + 1])
    BY <1>1
  <1> HIDE DEF First
  <1>5. \A i \in 0..n : i < n =>
          all \o First(i + 1) = Append(all \o First(i), ds[i + 1])
    <2>1. SUFFICES ASSUME NEW i \in 0..n, i < n
                   PROVE  all \o First(i + 1) = Append(all \o First(i), ds[i + 1])
      OBVIOUS
    <2>2. \A s \in Seq(T), e \in T : all \o Append(s, e) = Append(all \o s, e)
      OBVIOUS
    <2>3. ds[i + 1] \in T /\ First(i) \in Seq(T)
      BY <1>1, <1>2, <2>1
    <2>4. QED
      BY <1>4, <2>1, <2>2, <2>3
  <1>6. \A s \in Seq(T) : all \o s \in Seq(T) /\ all \o <<>> = all
    OBVIOUS
  <1>7. \A i : Upto(all, ds, i) = all \o First(i)
    BY DEF Upto, First
  <1>8. QED
    BY <1>1, <1>2, <1>3, <1>5, <1>6, <1>7

(* The view that a list of declarations makes of a right one is right.     *)
LEMMA MergedAll ==
    ASSUME NEW all \in Seq(Declarations), NEW ds \in Seq(Declarations),
           NEW view, NEW result, Merged(view, all), Placed(view, ds, result)
    PROVE  Merged(result, all \o ds)
  <1> DEFINE n == Len(ds)
  <1>1. PICK g : /\ g[0] = view
                 /\ \A i \in 1..n : g[i] = Place(g[i - 1], Claim(ds[i]))
                 /\ g[n] = result
    BY DEF Placed
  <1> DEFINE right == {i \in 0..n : Merged(g[i], Upto(all, ds, i))}
  <1>2. n \in Nat /\ \A i \in 1..n : ds[i] \in Declarations
    OBVIOUS
  <1>3. /\ Upto(all, ds, 0) = all
        /\ Upto(all, ds, n) = all \o ds
        /\ \A i \in 0..n : Upto(all, ds, i) \in Seq(Declarations)
        /\ \A i \in 0..n : i < n => Upto(all, ds, i + 1) = Append(Upto(all, ds, i), ds[i + 1])
    BY UptoNext
  <1> HIDE DEF n
  <1>4. 0 \in right
    BY <1>1, <1>2, <1>3
  <1>5. ASSUME NEW i \in 0..n, i < n, i \in right PROVE i + 1 \in right
    <2>1. i + 1 \in 1..n /\ i + 1 \in 0..n /\ (i + 1) - 1 = i
      BY <1>2, <1>5
    <2>2. g[i + 1] = Place(g[i], Claim(ds[i + 1]))
      BY <1>1, <2>1
    <2>3. Merged(g[i], Upto(all, ds, i)) /\ Upto(all, ds, i) \in Seq(Declarations)
          /\ ds[i + 1] \in Declarations
      BY <1>2, <1>3, <1>5, <2>1
    <2>4. Merged(g[i + 1], Append(Upto(all, ds, i), ds[i + 1]))
      BY <2>2, <2>3, MergedNext
    <2>5. QED
      BY <1>3, <1>5, <2>1, <2>4
  <1>6. \A i \in 0..n : i \in right
    <2> HIDE DEF right
    <2>1. QED
      BY <1>2, <1>4, <1>5, UpTo
  <1>7. Merged(g[n], Upto(all, ds, n))
    BY <1>2, <1>6
  <1>8. QED
    BY <1>1, <1>3, <1>7

--------------------------------------------------------------------------------
(* The best tier of a name is that of the declaration that wins it.        *)
LEMMA TopTierIs ==
    ASSUME NEW list, NEW all \in Seq(Declarations), all = AppDeclarations(list),
           NEW w, Wins(all, w)
    PROVE  TopTier(list, all[w].app.name) = TierAt(all, w)
  <1> DEFINE named == {e \in ToSet(all) : e.app.name = all[w].app.name}
             tiers == {Tier(d.app.type) : d \in named}
             top == Max(tiers)
  <1>1. TopTier(list, all[w].app.name) = top
    BY DEF TopTier
  <1>2. w \in 1..Len(all) /\ ToSet(all) = {all[i] : i \in 1..Len(all)}
    BY DEF Wins, ToSet
  <1>3. TierAt(all, w) \in tiers
    BY <1>2 DEF TierAt
  <1>4. \A t \in tiers : t \in 0..2
    BY Tiers
  <1>5. \A t \in tiers : TierAt(all, w) >= t
    <2>1. SUFFICES ASSUME NEW d \in named PROVE TierAt(all, w) >= Tier(d.app.type)
      OBVIOUS
    <2>2. PICK i \in 1..Len(all) : all[i] = d
      BY <1>2
    <2>3. TierAt(all, i) <= TierAt(all, w) /\ TierAt(all, i) = Tier(d.app.type)
      BY <2>1, <2>2 DEF Wins, Rival, TierAt
    <2>4. TierAt(all, i) \in 0..2 /\ TierAt(all, w) \in 0..2
      BY Tiers DEF TierAt
    <2>5. QED
      BY <2>3, <2>4
  <1> HIDE DEF tiers
  <1>6. top \in tiers /\ \A t \in tiers : top >= t
    BY <1>3, <1>5, Zenon DEF Max
  <1> HIDE DEF top
  <1>7. top = TierAt(all, w)
    <2>1. /\ top >= TierAt(all, w)
          /\ TierAt(all, w) >= top /\ top \in 0..2 /\ TierAt(all, w) \in 0..2
      BY <1>3, <1>4, <1>5, <1>6
    <2>2. QED
      BY <2>1
  <1>8. QED
    BY <1>1, <1>7

(* The first and the last position at which a list has a property.         *)
LEMMA LastPosition ==
    ASSUME NEW n \in Nat, NEW T \in SUBSET (1..n), NEW w \in T,
           \A i \in (w + 1)..n : i \notin T
    PROVE  Max(T) = w
  <1>1. Max(T) \in T /\ \A k \in T : k <= Max(T)
    BY MaxPosition
  <1>2. w <= Max(T) /\ Max(T) \in 1..n /\ w \in 1..n
    BY <1>1
  <1>3. ~(Max(T) \in (w + 1)..n)
    BY <1>1
  <1>4. QED
    BY <1>2, <1>3

LEMMA FirstPosition ==
    ASSUME NEW n \in Nat, NEW T \in SUBSET (1..n), NEW f \in T,
           \A i \in 1..(f - 1) : i \notin T
    PROVE  Min(T) = f
  <1>1. Min(T) \in T /\ \A k \in T : Min(T) <= k
    BY MinPosition
  <1>2. Min(T) <= f /\ Min(T) \in 1..n /\ f \in 1..n
    BY <1>1
  <1>3. ~(Min(T) \in 1..(f - 1))
    BY <1>1
  <1>4. QED
    BY <1>2, <1>3

\* The positions WinningDeclaration selects from, as sets.
InTop(all, name, top) ==
    {i \in 1..Len(all) : all[i].app.name = name /\ Tier(all[i].app.type) = top}

KindOf(all, name, top) ==
    all[IF InTop(all, name, top) # {} THEN Min(InTop(all, name, top)) ELSE 0].app.type

OfKind(all, name, top) ==
    {i \in 1..Len(all) : /\ all[i].app.name = name /\ Tier(all[i].app.type) = top
                         /\ all[i].app.type = KindOf(all, name, top)}

LastIn(all, positions) == all[IF positions # {} THEN Max(positions) ELSE 0]

LEMMA Selected ==
    ASSUME NEW list, NEW name
    PROVE  WinningDeclaration(list, name) =
              IF TopTier(list, name) = 1
              THEN LastIn(AppDeclarations(list),
                          OfKind(AppDeclarations(list), name, TopTier(list, name)))
              ELSE LastIn(AppDeclarations(list),
                          InTop(AppDeclarations(list), name, TopTier(list, name)))
  BY Zenon DEF WinningDeclaration, LastWhere, SelectInSeq, SelectLastInSeq, InTop, KindOf,
               OfKind, LastIn

(* What the whole list selects is the declaration that wins.               *)
LEMMA WinningIs ==
    ASSUME NEW list, NEW all \in Seq(Declarations), all = AppDeclarations(list),
           NEW w, Wins(all, w)
    PROVE  WinningDeclaration(list, all[w].app.name) = all[w]
  <1> DEFINE name == all[w].app.name
             n == Len(all)
             top == TierAt(all, w)
             inTop == InTop(all, name, top)
             kind == KindOf(all, name, top)
             ofKind == OfKind(all, name, top)
  <1>1. TopTier(list, name) = top
    BY TopTierIs
  <1>2. WinningDeclaration(list, name) =
          IF top = 1 THEN LastIn(all, ofKind) ELSE LastIn(all, inTop)
    BY <1>1, Selected
  <1>3. n \in Nat /\ w \in 1..n /\ inTop \in SUBSET (1..n) /\ ofKind \in SUBSET (1..n)
    BY DEF Wins, InTop, OfKind
  <1>4. \A i \in 1..n : i \in inTop <=> Rival(all, w, i) /\ TierAt(all, i) = top
    BY DEF Rival, TierAt, InTop
  <1>5. w \in inTop
    BY <1>3, <1>4 DEF Rival
  <1>6. \A i \in 1..n : i \in ofKind <=> i \in inTop /\ all[i].app.type = kind
    BY DEF InTop, OfKind
  <1>7. kind = all[IF inTop # {} THEN Min(inTop) ELSE 0].app.type
    BY DEF KindOf
  <1> HIDE DEF name, n, top, inTop, kind, ofKind
  <1>8. \A i \in (w + 1)..n : i \in 1..n
    BY <1>3
  <1>9. CASE top # 1
    <2>1. \A i \in (w + 1)..n : i \notin inTop
      BY <1>4, <1>8, <1>9 DEF Wins, LastOfTier, n, top
    <2>2. Max(inTop) = w
      BY <1>3, <1>5, <2>1, LastPosition
    <2>3. QED
      BY <1>2, <1>5, <1>9, <2>2 DEF name, LastIn
  <1>10. CASE top = 1
    <2>1. LastOfFirstType(all, w)
      BY <1>10 DEF Wins, top
    <2>2. PICK f \in 1..w : /\ Rival(all, w, f) /\ all[f].app.type = all[w].app.type
                            /\ \A i \in 1..(f - 1) : Rival(all, w, i) => TierAt(all, i) # 1
      BY <2>1 DEF LastOfFirstType
    <2>3. f \in 1..n /\ \A i \in 1..(f - 1) : i \in 1..n
      BY <1>3
    <2>4. TierAt(all, f) = top
      BY <2>2 DEF TierAt, top
    <2>5. f \in inTop /\ \A i \in 1..(f - 1) : i \notin inTop
      BY <1>4, <1>10, <2>2, <2>3, <2>4
    <2>6. Min(inTop) = f
      BY <1>3, <2>5, FirstPosition
    <2>7. kind = all[w].app.type
      BY <1>5, <1>7, <2>2, <2>6
    <2>8. w \in ofKind /\ \A i \in (w + 1)..n : i \notin ofKind
      <3>1. w \in ofKind
        BY <1>3, <1>5, <1>6, <2>7
      <3>2. \A i \in (w + 1)..n : Rival(all, w, i) => all[i].app.type # kind
        BY <2>1, <2>7 DEF LastOfFirstType, n
      <3>3. QED
        BY <1>4, <1>6, <1>8, <3>1, <3>2
    <2>9. Max(ofKind) = w
      BY <1>3, <2>8, LastPosition
    <2>10. QED
      BY <1>2, <1>10, <2>8, <2>9 DEF name, LastIn
  <1>11. QED
    BY <1>9, <1>10

--------------------------------------------------------------------------------
(* The stores while configurations are processed whose sources have the    *)
(* given bases: an item is from the service it names, and at its base.     *)
Bases == [Sources -> ServiceNames \cup {NoBase}]

StoredApps(bases) ==
    {item \in [component : [name : AppNames, type : Types, url : ServiceNames \cup {Relative},
                            groups : {{}}, service : Sources],
               source    : Sources] :
        /\ item.component.service = item.source
        /\ bases[item.source] # NoBase => item.component.url = bases[item.source]}

StoredGroups == [component : [name : AppNames, type : Types], source : Sources]

StoredComponents ==
    {item \in [component : [name : AppNames, type : Types, service : Sources],
               source    : Sources] : item.component.service = item.source}

StoredActions == [component : [id : ActionIds], source : Sources]

ManualApps == [name : AppNames, type : Types, url : ServiceNames \cup {Relative}, groups : {{}}]

Stores(bases) ==
    [apps       : Seq(StoredApps(bases)),
     groups     : Seq(StoredGroups),
     components : Seq(StoredComponents),
     actions    : Seq(StoredActions),
     manualApps : Seq(ManualApps)]

\* One configuration, and what it declares.
NamesOf(apps) == [i \in DOMAIN apps |-> [name |-> apps[i].name, type |-> apps[i].type]]

IsConfig(config, bases) ==
    /\ config.name \in Sources
    /\ config.base = bases[config.name]
    /\ config.meta.apps \in Seq(Apps)
    /\ config.meta.groups = NamesOf(config.meta.apps)
    /\ config.meta.components \in {<<>>, NamesOf(config.meta.apps)}
    /\ config.meta.actions \in Seq([id : ActionIds])

DeclarationsOf(config) ==
    [j \in DOMAIN config.meta.apps |->
        [app |-> config.meta.apps[j], source |-> config.name, base |-> config.base]]

LEMMA DeclarationsIn ==
    ASSUME NEW bases \in Bases, NEW config, IsConfig(config, bases)
    PROVE  /\ DeclarationsOf(config) \in Seq(Declarations)
           /\ Len(DeclarationsOf(config)) = Len(config.meta.apps)
           /\ \A j \in 1..Len(config.meta.apps) :
                /\ DeclarationsOf(config)[j] = [app |-> config.meta.apps[j],
                                                source |-> config.name, base |-> config.base]
                /\ Claim(DeclarationsOf(config)[j]) = [name |-> config.meta.apps[j].name,
                                                       type |-> config.meta.apps[j].type,
                                                       source |-> config.name]
  <1> DEFINE apps == config.meta.apps
             d(j) == [app |-> apps[j], source |-> config.name, base |-> config.base]
  <1>1. /\ apps \in Seq(Apps) /\ config.name \in Sources
        /\ config.base \in ServiceNames \cup {NoBase}
    BY DEF IsConfig, Bases
  <1>2. DeclarationsOf(config) = [j \in 1..Len(apps) |-> d(j)]
    BY <1>1 DEF DeclarationsOf
  <1> HIDE DEF apps
  <1>3. Len(apps) \in Nat /\ \A j \in 1..Len(apps) : apps[j] \in Apps
    BY <1>1
  <1>4. \A j \in 1..Len(apps) : d(j) \in Declarations
    BY <1>1, <1>3 DEF Declarations
  <1>5. \A j \in 1..Len(apps) : Claim(d(j)) = [name |-> apps[j].name, type |-> apps[j].type,
                                               source |-> config.name]
    BY DEF Claim
  <1> HIDE DEF d
  <1>6. /\ DeclarationsOf(config) \in Seq(Declarations)
        /\ Len(DeclarationsOf(config)) = Len(apps)
        /\ \A j \in 1..Len(apps) : DeclarationsOf(config)[j] = d(j)
    BY <1>2, <1>3, <1>4
  <1>7. QED
    BY <1>5, <1>6 DEF d, apps

LEMMA ClaimsIn ==
    ASSUME NEW bases
    PROVE  /\ \A s \in Seq(StoredApps(bases)) : ClaimsOf(s) \in Seq(Claims)
           /\ \A s \in Seq(StoredGroups) : ClaimsOf(s) \in Seq(Claims)
           /\ \A s \in Seq(StoredComponents) : ClaimsOf(s) \in Seq(Claims)
  <1>1. ASSUME NEW T, NEW s \in Seq(T),
               \A item \in T : /\ item.component.name \in AppNames
                               /\ item.component.type \in Types
                               /\ item.source \in Sources
        PROVE  ClaimsOf(s) \in Seq(Claims)
    <2>1. Len(s) \in Nat /\ DOMAIN s = 1..Len(s) /\ \A i \in 1..Len(s) : s[i] \in T
      OBVIOUS
    <2>2. \A i \in 1..Len(s) : [name |-> s[i].component.name, type |-> s[i].component.type,
                                source |-> s[i].source] \in Claims
      BY <1>1, <2>1 DEF Claims
    <2>3. QED
      BY <2>1, <2>2 DEF ClaimsOf
  <1>2. \A item \in StoredApps(bases) : /\ item.component.name \in AppNames
                                        /\ item.component.type \in Types
                                        /\ item.source \in Sources
    BY DEF StoredApps
  <1>3. \A item \in StoredGroups : /\ item.component.name \in AppNames
                                   /\ item.component.type \in Types
                                   /\ item.source \in Sources
    BY DEF StoredGroups
  <1>4. \A item \in StoredComponents : /\ item.component.name \in AppNames
                                       /\ item.component.type \in Types
                                       /\ item.source \in Sources
    BY DEF StoredComponents
  <1>5. QED
    BY <1>1, <1>2, <1>3, <1>4

LEMMA StoreIndexIn ==
    ASSUME NEW T, NEW store \in Seq(T), NEW name
    PROVE  StoreIndex(store, name) \in 0..Len(store)
  <1>1. DOMAIN ClaimsOf(store) = 1..Len(store) /\ Len(ClaimsOf(store)) = Len(store)
    BY DEF ClaimsOf
  <1> DEFINE V == {ClaimsOf(store)[i] : i \in 1..Len(store)}
  <1>2. ClaimsOf(store) \in Seq(V)
    <2>1. ClaimsOf(store) = [i \in 1..Len(store) |-> ClaimsOf(store)[i]] /\ Len(store) \in Nat
      BY <1>1 DEF ClaimsOf
    <2>2. QED
      BY <2>1
  <1> HIDE DEF V
  <1>3. IndexOfName(ClaimsOf(store), name) \in 0..Len(ClaimsOf(store))
    BY <1>2, Lookup
  <1>4. QED
    BY <1>1, <1>3, StoreLookup

LEMMA PutItemIn ==
    ASSUME NEW T, NEW store \in Seq(T), NEW item \in T
    PROVE  PutItem(store, item) \in Seq(T)
  <1>1. StoreIndex(store, item.component.name) \in 0..Len(store)
    BY StoreIndexIn
  <1>2. QED
    BY <1>1 DEF PutItem

LEMMA PutByNameIn ==
    ASSUME NEW T, NEW list \in Seq(T), NEW entity \in T
    PROVE  PutByName(list, entity) \in Seq(T)
  <1>1. IndexOfName(list, entity.name) \in 0..Len(list)
    BY Lookup
  <1>2. QED
    BY <1>1 DEF PutByName

(* The resolver keeps the stored item or takes the new one.                *)
LEMMA ResolvedIn ==
    ASSUME NEW T, NEW store \in Seq(T), NEW entity, NEW config
    PROVE  \/ ResolvedItem(store, entity, config) \in T
           \/ ResolvedItem(store, entity, config) = [component |-> entity, source |-> config.name]
  <1> DEFINE at == StoreIndex(store, entity.name)
             new == [component |-> entity, source |-> config.name]
  <1>1. at \in 0..Len(store)
    BY StoreIndexIn
  <1>2. ResolvedItem(store, entity, config)
          = IF at = 0 THEN new ELSE ResolveEntityByType(store[at], new)
    BY DEF ResolvedItem
  <1> HIDE DEF at
  <1>3. at # 0 => store[at] \in T
    BY <1>1
  <1>4. ResolvedItem(store, entity, config) \in {new, store[at]}
        /\ (at = 0 => ResolvedItem(store, entity, config) = new)
    BY <1>2 DEF ResolveEntityByType
  <1>5. QED
    BY <1>3, <1>4

(* An app is stored with the service and at the base it is from, in the    *)
(* place of its claim.                                                     *)
LEMMA AppPlaced ==
    ASSUME NEW bases \in Bases, NEW stores \in Stores(bases), NEW app \in Apps,
           NEW config, config.name \in Sources, config.base = bases[config.name]
    PROVE  /\ AddApp(stores, app, config) \in Stores(bases)
           /\ ClaimsOf(AddApp(stores, app, config).apps)
                = Place(ClaimsOf(stores.apps),
                        [name |-> app.name, type |-> app.type, source |-> config.name])
           /\ AddApp(stores, app, config).groups = stores.groups
           /\ AddApp(stores, app, config).components = stores.components
           /\ AddApp(stores, app, config).actions = stores.actions
  <1> DEFINE resolved == ResolvedItem(stores.apps, app, config)
             item == UpdateItemToAbsoluteUrl(resolved, config)
             T == StoredApps(bases)
             new == [component |-> app, source |-> config.name]
             url == UpdateToAbsoluteUrl(resolved.component.url, config.base)
             claim == [name |-> app.name, type |-> app.type, source |-> config.name]
  <1>1. stores.apps \in Seq(T) /\ stores.manualApps \in Seq(ManualApps)
    BY DEF Stores
  <1>2. resolved \in T \/ resolved = new
    <2> HIDE DEF T
    <2>1. QED
      BY <1>1, ResolvedIn
  <1> HIDE DEF resolved
  <1>3. /\ resolved.source \in Sources
        /\ resolved.component.name \in AppNames
        /\ resolved.component.type \in Types
        /\ resolved.component.url \in ServiceNames \cup {Relative}
        /\ resolved.component.groups = {}
    BY <1>1, <1>2 DEF StoredApps, Apps
  <1>4. /\ config.base \in ServiceNames \cup {NoBase}
        /\ bases[resolved.source] \in ServiceNames \cup {NoBase}
    BY <1>3 DEF Bases
  <1>5. url \in ServiceNames \cup {Relative}
        /\ (bases[resolved.source] # NoBase => url = bases[resolved.source])
    <2>1. url \in ServiceNames \cup {Relative}
      BY <1>3, <1>4 DEF UpdateToAbsoluteUrl
    <2>2. CASE resolved \in T
      <3>1. bases[resolved.source] # NoBase => resolved.component.url = bases[resolved.source]
        BY <2>2 DEF StoredApps
      <3>2. Relative \notin ServiceNames
        BY MergeAssumption
      <3>3. QED
        BY <1>4, <2>1, <3>1, <3>2 DEF UpdateToAbsoluteUrl
    <2>3. CASE resolved = new
      <3>1. resolved.source = config.name /\ resolved.component.url = Relative
        BY <2>3 DEF Apps
      <3>2. QED
        BY <2>1, <3>1 DEF UpdateToAbsoluteUrl
    <2>4. QED
      BY <1>2, <2>2, <2>3
  <1>6. item = [component |-> [name |-> resolved.component.name, type |-> resolved.component.type,
                               url |-> url, groups |-> resolved.component.groups,
                               service |-> resolved.source],
                source |-> resolved.source]
    BY <1>2 DEF UpdateItemToAbsoluteUrl, StoredApps
  <1> HIDE DEF item, url
  <1>7. item \in T
    BY <1>3, <1>5, <1>6 DEF StoredApps
  <1>8. /\ item.component.name = resolved.component.name
        /\ item.component.type = resolved.component.type
        /\ item.source = resolved.source
    BY <1>6
  <1>9. claim \in Claims
    BY DEF Claims, Apps
  <1>10. ClaimsOf(stores.apps) \in Seq(Claims)
    BY <1>1, ClaimsIn
  <1>11. ClaimsOf(PutItem(stores.apps, item)) = Place(ClaimsOf(stores.apps), claim)
    <2> HIDE DEF T, claim
    <2>1. claim = [name |-> app.name, type |-> app.type, source |-> config.name]
      BY DEF claim
    <2>2. QED
      BY <1>1, <1>7, <1>8, <1>9, <1>10, <2>1, ItemPlaced DEF resolved
  <1>12. WithoutService(item.component) \in ManualApps
    BY <1>3, <1>5, <1>6 DEF WithoutService, ManualApps
  <1>13. /\ PutItem(stores.apps, item) \in Seq(T)
         /\ PutByName(stores.manualApps, WithoutService(item.component)) \in Seq(ManualApps)
    <2> HIDE DEF T
    <2>1. QED
      BY <1>1, <1>7, <1>12, PutItemIn, PutByNameIn
  <1> HIDE DEF T
  <1>14. AddApp(stores, app, config) = PutApp(stores, item)
    BY DEF AddApp, item, resolved
  <1>15. /\ PutApp(stores, item) \in Stores(bases)
         /\ PutApp(stores, item).apps = PutItem(stores.apps, item)
         /\ PutApp(stores, item).groups = stores.groups
         /\ PutApp(stores, item).components = stores.components
         /\ PutApp(stores, item).actions = stores.actions
    BY <1>13 DEF PutApp, Stores, T
  <1>16. QED
    BY <1>11, <1>14, <1>15

(* So are a group and a component, each with its own updater.              *)
LEMMA GroupPlaced ==
    ASSUME NEW store \in Seq(StoredGroups), NEW config, config.name \in Sources,
           NEW group \in [name : AppNames, type : Types]
    PROVE  /\ PutItem(store, ResolvedItem(store, group, config)) \in Seq(StoredGroups)
           /\ ClaimsOf(PutItem(store, ResolvedItem(store, group, config)))
                = Place(ClaimsOf(store),
                        [name |-> group.name, type |-> group.type, source |-> config.name])
  <1> DEFINE item == ResolvedItem(store, group, config)
             claim == [name |-> group.name, type |-> group.type, source |-> config.name]
  <1>1. item \in StoredGroups
    <2>1. item \in StoredGroups \/ item = [component |-> group, source |-> config.name]
      BY ResolvedIn
    <2>2. QED
      BY <2>1 DEF StoredGroups
  <1>2. claim \in Claims
    BY DEF Claims
  <1>3. ClaimsOf(store) \in Seq(Claims)
    BY ClaimsIn
  <1>4. PutItem(store, item) \in Seq(StoredGroups)
    BY <1>1, PutItemIn
  <1>5. claim = [name |-> group.name, type |-> group.type, source |-> config.name]
    OBVIOUS
  <1> HIDE DEF claim, item
  <1>6. ClaimsOf(PutItem(store, item)) = Place(ClaimsOf(store), claim)
    BY <1>1, <1>2, <1>3, <1>5, ItemPlaced DEF item
  <1>7. QED
    BY <1>4, <1>5, <1>6 DEF item

LEMMA ComponentPlaced ==
    ASSUME NEW store \in Seq(StoredComponents), NEW config, config.name \in Sources,
           NEW component \in [name : AppNames, type : Types]
    PROVE  LET put == PutItem(store,
                              UpdateItemWithSource(ResolvedItem(store, component, config),
                                                          config))
           IN  /\ put \in Seq(StoredComponents)
               /\ ClaimsOf(put) = Place(ClaimsOf(store),
                                        [name |-> component.name, type |-> component.type,
                                         source |-> config.name])
  <1> DEFINE resolved == ResolvedItem(store, component, config)
             item == UpdateItemWithSource(resolved, config)
             claim == [name |-> component.name, type |-> component.type, source |-> config.name]
  <1>1. \/ resolved \in StoredComponents
        \/ resolved = [component |-> component, source |-> config.name]
    BY ResolvedIn
  <1> HIDE DEF resolved
  <1>2. /\ resolved.source \in Sources
        /\ resolved.component.name \in AppNames
        /\ resolved.component.type \in Types
    BY <1>1 DEF StoredComponents
  <1>3. item = [component |-> [name |-> resolved.component.name,
                               type |-> resolved.component.type,
                               service |-> resolved.source],
                source |-> resolved.source]
    BY <1>1 DEF UpdateItemWithSource, StoredComponents
  <1> HIDE DEF item
  <1>4. item \in StoredComponents
    BY <1>2, <1>3 DEF StoredComponents
  <1>5. /\ item.component.name = resolved.component.name
        /\ item.component.type = resolved.component.type
        /\ item.source = resolved.source
    BY <1>3
  <1>6. claim \in Claims
    BY DEF Claims
  <1>7. ClaimsOf(store) \in Seq(Claims)
    BY ClaimsIn
  <1>8. PutItem(store, item) \in Seq(StoredComponents)
    BY <1>4, PutItemIn
  <1>9. claim = [name |-> component.name, type |-> component.type, source |-> config.name]
    OBVIOUS
  <1> HIDE DEF claim
  <1>10. ClaimsOf(PutItem(store, item)) = Place(ClaimsOf(store), claim)
    BY <1>4, <1>5, <1>6, <1>7, <1>9, ItemPlaced DEF resolved
  <1>11. QED
    BY <1>8, <1>9, <1>10 DEF item, resolved

--------------------------------------------------------------------------------
(* What the folds add to the stores of the groups and of the components.   *)
AddNamed(store, group, config) == PutItem(store, ResolvedItem(store, group, config))

AddComponent(store, component, config) ==
    PutItem(store, UpdateItemWithSource(ResolvedItem(store, component, config), config))

(* ResolveApps is reached by adding one app after the other.               *)
AppsRun(g, S, n, stores, config) ==
    /\ g \in [0..n -> S]
    /\ g[0] = stores
    /\ \A i \in 1..n : g[i] = AddApp(g[i - 1], config.meta.apps[i], config)
    /\ ResolveApps(stores, config) = g[n]

LEMMA AppsReached ==
    ASSUME NEW S, NEW stores, NEW config, stores \in S, NEW n \in Nat,
           DOMAIN config.meta.apps = 1..n,
           \A s \in S, i \in 1..n : AddApp(s, config.meta.apps[i], config) \in S
    PROVE  \E g : AppsRun(g, S, n, stores, config)
  <1> DEFINE items == config.meta.apps
             step == [p \in S \X (1..n) |-> AddApp(p[1], items[p[2]], config)]
             Rec(iter) == iter = [s \in SUBSET (1..n) |->
                IF s = {} THEN stores
                ELSE AddApp(iter[s \ {Max(s)}], items[Max(s)], config)]
             it == CHOOSE iter : Rec(iter)
  <1>1. step \in [S \X (1..n) -> S]
    OBVIOUS
  <1>2. \A s \in S, i \in 1..n : step[<<s, i>>] = AddApp(s, items[i], config)
    OBVIOUS
  <1>3. ResolveApps(stores, config) = it[1..n]
    BY Zenon DEF ResolveApps, FoldLeft, MapThenFoldSet
  <1>4. \A s \in SUBSET (1..n) : s # {} => Max(s) \in 1..n
    BY MaxPosition
  <1> HIDE DEF items, step
  <1>5. \E iter : Rec(iter)
    <2>1. PICK iter \in [SUBSET (1..n) -> S] :
              \A s \in SUBSET (1..n) : Folded(iter, s, stores, step)
      BY <1>1, FoldExists
    <2>2. \A s \in SUBSET (1..n) :
            iter[s] = IF s = {} THEN stores
                      ELSE AddApp(iter[s \ {Max(s)}], items[Max(s)], config)
      BY <1>2, <1>4, <2>1 DEF Folded
    <2>3. QED
      BY <2>2
  <1>6. Rec(it)
    BY <1>5
  <1> HIDE DEF it
  <1>7. \A s \in SUBSET (1..n) :
            it[s] = IF s = {} THEN stores
                    ELSE AddApp(it[s \ {Max(s)}], items[Max(s)], config)
    BY <1>6
  <1> HIDE DEF Rec
  <1>8. IsFold(it, S, stores, n, step)
    BY <1>2, <1>4, <1>7 DEF IsFold, Folded
  <1>9. PICK g : IsRun(g, S, stores, n, step) /\ g[n] = it[1..n]
    <2>1. FoldsTo(S, stores, n, step, it[1..n])
      BY <1>1, <1>8, FoldReaches
    <2>2. QED
      BY <2>1 DEF FoldsTo
  <1>10. /\ g \in [0..n -> S]
         /\ g[0] = stores
         /\ \A i \in 1..n : g[i] = step[<<g[i - 1], i>>]
    BY <1>9 DEF IsRun
  <1>11. \A i \in 1..n : g[i] = AddApp(g[i - 1], items[i], config)
    <2>1. \A i \in 1..n : g[i - 1] \in S
      BY <1>10
    <2>2. QED
      BY <1>2, <1>10, <2>1
  <1>12. QED
    BY <1>3, <1>9, <1>10, <1>11 DEF items, AppsRun

(* The same for its groups.                                                *)
GroupsRun(g, S, n, store, config) ==
    /\ g \in [0..n -> S]
    /\ g[0] = store
    /\ \A i \in 1..n : g[i] = AddNamed(g[i - 1], config.meta.groups[i], config)
    /\ ResolveGroups(store, config) = g[n]

LEMMA GroupsReached ==
    ASSUME NEW S, NEW store, NEW config, store \in S, NEW n \in Nat,
           DOMAIN config.meta.groups = 1..n,
           \A s \in S, i \in 1..n : AddNamed(s, config.meta.groups[i], config) \in S
    PROVE  \E g : GroupsRun(g, S, n, store, config)
  <1> DEFINE items == config.meta.groups
             step == [p \in S \X (1..n) |-> AddNamed(p[1], items[p[2]], config)]
             Rec(iter) == iter = [s \in SUBSET (1..n) |->
                IF s = {} THEN store
                ELSE AddNamed(iter[s \ {Max(s)}], items[Max(s)], config)]
             it == CHOOSE iter : Rec(iter)
  <1>1. step \in [S \X (1..n) -> S]
    OBVIOUS
  <1>2. \A s \in S, i \in 1..n : step[<<s, i>>] = AddNamed(s, items[i], config)
    OBVIOUS
  <1>3. ResolveGroups(store, config) = it[1..n]
    BY Zenon DEF ResolveGroups, AddNamed, FoldLeft, MapThenFoldSet
  <1>4. \A s \in SUBSET (1..n) : s # {} => Max(s) \in 1..n
    BY MaxPosition
  <1> HIDE DEF items, step
  <1>5. \E iter : Rec(iter)
    <2>1. PICK iter \in [SUBSET (1..n) -> S] :
              \A s \in SUBSET (1..n) : Folded(iter, s, store, step)
      BY <1>1, FoldExists
    <2>2. \A s \in SUBSET (1..n) :
            iter[s] = IF s = {} THEN store
                      ELSE AddNamed(iter[s \ {Max(s)}], items[Max(s)], config)
      BY <1>2, <1>4, <2>1 DEF Folded
    <2>3. QED
      BY <2>2
  <1>6. Rec(it)
    BY <1>5
  <1> HIDE DEF it
  <1>7. \A s \in SUBSET (1..n) :
            it[s] = IF s = {} THEN store
                    ELSE AddNamed(it[s \ {Max(s)}], items[Max(s)], config)
    BY <1>6
  <1> HIDE DEF Rec
  <1>8. IsFold(it, S, store, n, step)
    BY <1>2, <1>4, <1>7 DEF IsFold, Folded
  <1>9. PICK g : IsRun(g, S, store, n, step) /\ g[n] = it[1..n]
    <2>1. FoldsTo(S, store, n, step, it[1..n])
      BY <1>1, <1>8, FoldReaches
    <2>2. QED
      BY <2>1 DEF FoldsTo
  <1>10. /\ g \in [0..n -> S]
         /\ g[0] = store
         /\ \A i \in 1..n : g[i] = step[<<g[i - 1], i>>]
    BY <1>9 DEF IsRun
  <1>11. \A i \in 1..n : g[i] = AddNamed(g[i - 1], items[i], config)
    <2>1. \A i \in 1..n : g[i - 1] \in S
      BY <1>10
    <2>2. QED
      BY <1>2, <1>10, <2>1
  <1>12. QED
    BY <1>3, <1>9, <1>10, <1>11 DEF items, GroupsRun

(* The same for its components.                                            *)
ComponentsRun(g, S, n, store, config) ==
    /\ g \in [0..n -> S]
    /\ g[0] = store
    /\ \A i \in 1..n : g[i] = AddComponent(g[i - 1], config.meta.components[i], config)
    /\ ResolveComponents(store, config) = g[n]

LEMMA ComponentsReached ==
    ASSUME NEW S, NEW store, NEW config, store \in S, NEW n \in Nat,
           DOMAIN config.meta.components = 1..n,
           \A s \in S, i \in 1..n : AddComponent(s, config.meta.components[i], config) \in S
    PROVE  \E g : ComponentsRun(g, S, n, store, config)
  <1> DEFINE items == config.meta.components
             step == [p \in S \X (1..n) |-> AddComponent(p[1], items[p[2]], config)]
             Rec(iter) == iter = [s \in SUBSET (1..n) |->
                IF s = {} THEN store
                ELSE AddComponent(iter[s \ {Max(s)}], items[Max(s)], config)]
             it == CHOOSE iter : Rec(iter)
  <1>1. step \in [S \X (1..n) -> S]
    OBVIOUS
  <1>2. \A s \in S, i \in 1..n : step[<<s, i>>] = AddComponent(s, items[i], config)
    OBVIOUS
  <1>3. ResolveComponents(store, config) = it[1..n]
    BY Zenon DEF ResolveComponents, AddComponent, FoldLeft, MapThenFoldSet
  <1>4. \A s \in SUBSET (1..n) : s # {} => Max(s) \in 1..n
    BY MaxPosition
  <1> HIDE DEF items, step
  <1>5. \E iter : Rec(iter)
    <2>1. PICK iter \in [SUBSET (1..n) -> S] :
              \A s \in SUBSET (1..n) : Folded(iter, s, store, step)
      BY <1>1, FoldExists
    <2>2. \A s \in SUBSET (1..n) :
            iter[s] = IF s = {} THEN store
                      ELSE AddComponent(iter[s \ {Max(s)}], items[Max(s)], config)
      BY <1>2, <1>4, <2>1 DEF Folded
    <2>3. QED
      BY <2>2
  <1>6. Rec(it)
    BY <1>5
  <1> HIDE DEF it
  <1>7. \A s \in SUBSET (1..n) :
            it[s] = IF s = {} THEN store
                    ELSE AddComponent(it[s \ {Max(s)}], items[Max(s)], config)
    BY <1>6
  <1> HIDE DEF Rec
  <1>8. IsFold(it, S, store, n, step)
    BY <1>2, <1>4, <1>7 DEF IsFold, Folded
  <1>9. PICK g : IsRun(g, S, store, n, step) /\ g[n] = it[1..n]
    <2>1. FoldsTo(S, store, n, step, it[1..n])
      BY <1>1, <1>8, FoldReaches
    <2>2. QED
      BY <2>1 DEF FoldsTo
  <1>10. /\ g \in [0..n -> S]
         /\ g[0] = store
         /\ \A i \in 1..n : g[i] = step[<<g[i - 1], i>>]
    BY <1>9 DEF IsRun
  <1>11. \A i \in 1..n : g[i] = AddComponent(g[i - 1], items[i], config)
    <2>1. \A i \in 1..n : g[i - 1] \in S
      BY <1>10
    <2>2. QED
      BY <1>2, <1>10, <2>1
  <1>12. QED
    BY <1>3, <1>9, <1>10, <1>11 DEF items, ComponentsRun

(* The same for its actions.                                               *)
ActionsRun(g, S, n, store, config) ==
    /\ g \in [0..n -> S]
    /\ g[0] = store
    /\ \A i \in 1..n : g[i] = AddAction(g[i - 1], config.meta.actions[i], config)
    /\ ResolveActions(store, config) = g[n]

LEMMA ActionsReached ==
    ASSUME NEW S, NEW store, NEW config, store \in S, NEW n \in Nat,
           DOMAIN config.meta.actions = 1..n,
           \A s \in S, i \in 1..n : AddAction(s, config.meta.actions[i], config) \in S
    PROVE  \E g : ActionsRun(g, S, n, store, config)
  <1> DEFINE items == config.meta.actions
             step == [p \in S \X (1..n) |-> AddAction(p[1], items[p[2]], config)]
             Rec(iter) == iter = [s \in SUBSET (1..n) |->
                IF s = {} THEN store
                ELSE AddAction(iter[s \ {Max(s)}], items[Max(s)], config)]
             it == CHOOSE iter : Rec(iter)
  <1>1. step \in [S \X (1..n) -> S]
    OBVIOUS
  <1>2. \A s \in S, i \in 1..n : step[<<s, i>>] = AddAction(s, items[i], config)
    OBVIOUS
  <1>3. ResolveActions(store, config) = it[1..n]
    BY Zenon DEF ResolveActions, FoldLeft, MapThenFoldSet
  <1>4. \A s \in SUBSET (1..n) : s # {} => Max(s) \in 1..n
    BY MaxPosition
  <1> HIDE DEF items, step
  <1>5. \E iter : Rec(iter)
    <2>1. PICK iter \in [SUBSET (1..n) -> S] :
              \A s \in SUBSET (1..n) : Folded(iter, s, store, step)
      BY <1>1, FoldExists
    <2>2. \A s \in SUBSET (1..n) :
            iter[s] = IF s = {} THEN store
                      ELSE AddAction(iter[s \ {Max(s)}], items[Max(s)], config)
      BY <1>2, <1>4, <2>1 DEF Folded
    <2>3. QED
      BY <2>2
  <1>6. Rec(it)
    BY <1>5
  <1> HIDE DEF it
  <1>7. \A s \in SUBSET (1..n) :
            it[s] = IF s = {} THEN store
                    ELSE AddAction(it[s \ {Max(s)}], items[Max(s)], config)
    BY <1>6
  <1> HIDE DEF Rec
  <1>8. IsFold(it, S, store, n, step)
    BY <1>2, <1>4, <1>7 DEF IsFold, Folded
  <1>9. PICK g : IsRun(g, S, store, n, step) /\ g[n] = it[1..n]
    <2>1. FoldsTo(S, store, n, step, it[1..n])
      BY <1>1, <1>8, FoldReaches
    <2>2. QED
      BY <2>1 DEF FoldsTo
  <1>10. /\ g \in [0..n -> S]
         /\ g[0] = store
         /\ \A i \in 1..n : g[i] = step[<<g[i - 1], i>>]
    BY <1>9 DEF IsRun
  <1>11. \A i \in 1..n : g[i] = AddAction(g[i - 1], items[i], config)
    <2>1. \A i \in 1..n : g[i - 1] \in S
      BY <1>10
    <2>2. QED
      BY <1>2, <1>10, <2>1
  <1>12. QED
    BY <1>3, <1>9, <1>10, <1>11 DEF items, ActionsRun

(* The merge is reached by processing one configuration after the other.   *)
ConfigsRun(g, S, n, list) ==
    /\ g \in [0..n -> S]
    /\ g[0] = EmptyStores
    /\ \A i \in 1..n : g[i] = ProcessConfig(g[i - 1], list[i])
    /\ FoldLeft(ProcessConfig, EmptyStores, list) = g[n]

LEMMA ConfigsReached ==
    ASSUME NEW S, NEW list, EmptyStores \in S, NEW n \in Nat,
           DOMAIN list = 1..n,
           \A s \in S, i \in 1..n : ProcessConfig(s, list[i]) \in S
    PROVE  \E g : ConfigsRun(g, S, n, list)
  <1> DEFINE items == list
             step == [p \in S \X (1..n) |-> ProcessConfig(p[1], items[p[2]])]
             Rec(iter) == iter = [s \in SUBSET (1..n) |->
                IF s = {} THEN EmptyStores
                ELSE ProcessConfig(iter[s \ {Max(s)}], items[Max(s)])]
             it == CHOOSE iter : Rec(iter)
  <1>1. step \in [S \X (1..n) -> S]
    OBVIOUS
  <1>2. \A s \in S, i \in 1..n : step[<<s, i>>] = ProcessConfig(s, items[i])
    OBVIOUS
  <1>3. FoldLeft(ProcessConfig, EmptyStores, list) = it[1..n]
    BY Zenon DEF FoldLeft, MapThenFoldSet
  <1>4. \A s \in SUBSET (1..n) : s # {} => Max(s) \in 1..n
    BY MaxPosition
  <1> HIDE DEF items, step
  <1>5. \E iter : Rec(iter)
    <2>1. PICK iter \in [SUBSET (1..n) -> S] :
              \A s \in SUBSET (1..n) : Folded(iter, s, EmptyStores, step)
      BY <1>1, FoldExists
    <2>2. \A s \in SUBSET (1..n) :
            iter[s] = IF s = {} THEN EmptyStores
                      ELSE ProcessConfig(iter[s \ {Max(s)}], items[Max(s)])
      BY <1>2, <1>4, <2>1 DEF Folded
    <2>3. QED
      BY <2>2
  <1>6. Rec(it)
    BY <1>5
  <1> HIDE DEF it
  <1>7. \A s \in SUBSET (1..n) :
            it[s] = IF s = {} THEN EmptyStores
                    ELSE ProcessConfig(it[s \ {Max(s)}], items[Max(s)])
    BY <1>6
  <1> HIDE DEF Rec
  <1>8. IsFold(it, S, EmptyStores, n, step)
    BY <1>2, <1>4, <1>7 DEF IsFold, Folded
  <1>9. PICK g : IsRun(g, S, EmptyStores, n, step) /\ g[n] = it[1..n]
    <2>1. FoldsTo(S, EmptyStores, n, step, it[1..n])
      BY <1>1, <1>8, FoldReaches
    <2>2. QED
      BY <2>1 DEF FoldsTo
  <1>10. /\ g \in [0..n -> S]
         /\ g[0] = EmptyStores
         /\ \A i \in 1..n : g[i] = step[<<g[i - 1], i>>]
    BY <1>9 DEF IsRun
  <1>11. \A i \in 1..n : g[i] = ProcessConfig(g[i - 1], items[i])
    <2>1. \A i \in 1..n : g[i - 1] \in S
      BY <1>10
    <2>2. QED
      BY <1>2, <1>10, <2>1
  <1>12. QED
    BY <1>3, <1>9, <1>10, <1>11 DEF items, ConfigsRun

--------------------------------------------------------------------------------
(* A configuration's apps are placed in their order, and nothing else is   *)
(* touched.                                                                *)
LEMMA AppsPlaced ==
    ASSUME NEW bases \in Bases, NEW stores \in Stores(bases),
           NEW config, IsConfig(config, bases)
    PROVE  /\ ResolveApps(stores, config) \in Stores(bases)
           /\ Placed(ClaimsOf(stores.apps), DeclarationsOf(config),
                     ClaimsOf(ResolveApps(stores, config).apps))
           /\ ResolveApps(stores, config).groups = stores.groups
           /\ ResolveApps(stores, config).components = stores.components
           /\ ResolveApps(stores, config).actions = stores.actions
  <1> DEFINE apps == config.meta.apps
             n == Len(apps)
             S == Stores(bases)
             ds == DeclarationsOf(config)
  <1>1. /\ apps \in Seq(Apps) /\ config.name \in Sources /\ config.base = bases[config.name]
        /\ stores \in S
    BY DEF IsConfig
  <1>2. n \in Nat /\ DOMAIN apps = 1..n /\ \A i \in 1..n : apps[i] \in Apps
    BY <1>1
  <1>3. Len(ds) = n /\ \A i \in 1..n : Claim(ds[i]) = [name |-> apps[i].name,
                                                      type |-> apps[i].type,
                                                      source |-> config.name]
    BY DeclarationsIn
  <1>4. \A s \in S, i \in 1..n :
          /\ AddApp(s, apps[i], config) \in S
          /\ ClaimsOf(AddApp(s, apps[i], config).apps) = Place(ClaimsOf(s.apps), Claim(ds[i]))
          /\ AddApp(s, apps[i], config).groups = s.groups
          /\ AddApp(s, apps[i], config).components = s.components
          /\ AddApp(s, apps[i], config).actions = s.actions
    <2>1. SUFFICES ASSUME NEW s \in S, NEW i \in 1..n
                   PROVE  /\ AddApp(s, apps[i], config) \in S
                          /\ ClaimsOf(AddApp(s, apps[i], config).apps)
                               = Place(ClaimsOf(s.apps), Claim(ds[i]))
                          /\ AddApp(s, apps[i], config).groups = s.groups
                          /\ AddApp(s, apps[i], config).components = s.components
                          /\ AddApp(s, apps[i], config).actions = s.actions
      OBVIOUS
    <2>2. apps[i] \in Apps
      BY <1>2
    <2> DEFINE app == apps[i]
    <2> HIDE DEF apps, app, n, ds
    <2>3. app \in Apps
      BY <2>2 DEF app
    <2>4. /\ AddApp(s, app, config) \in S
          /\ ClaimsOf(AddApp(s, app, config).apps)
               = Place(ClaimsOf(s.apps),
                       [name |-> app.name, type |-> app.type, source |-> config.name])
          /\ AddApp(s, app, config).groups = s.groups
          /\ AddApp(s, app, config).components = s.components
          /\ AddApp(s, app, config).actions = s.actions
      BY <1>1, <2>3, AppPlaced
    <2>5. Claim(ds[i]) = [name |-> app.name, type |-> app.type, source |-> config.name]
      BY <1>3 DEF app
    <2>6. QED
      BY <2>4, <2>5 DEF app
  <1>5. \A s \in S : ClaimsOf(s.apps) \in Seq(Claims)
    <2>1. \A s \in S : s.apps \in Seq(StoredApps(bases))
      BY DEF Stores
    <2>2. QED
      BY <2>1, ClaimsIn
  <1> HIDE DEF n, S, ds
  <1>6. PICK g \in [0..n -> S] : /\ g[0] = stores
                                 /\ \A i \in 1..n : g[i] = AddApp(g[i - 1], apps[i], config)
                                 /\ ResolveApps(stores, config) = g[n]
    <2>1. \A s \in S, i \in 1..n : AddApp(s, config.meta.apps[i], config) \in S
      BY <1>4
    <2>2. \E g : AppsRun(g, S, n, stores, config)
      BY <1>1, <1>2, <2>1, AppsReached
    <2>3. QED
      BY <2>2 DEF AppsRun
  <1> HIDE DEF apps
  <1> DEFINE right == {i \in 0..n : /\ g[i].groups = stores.groups
                                    /\ g[i].components = stores.components
                                    /\ g[i].actions = stores.actions}
  <1>7. 0 \in right
    BY <1>2, <1>6
  <1>8. ASSUME NEW i \in 0..n, i < n, i \in right PROVE i + 1 \in right
    <2>1. i + 1 \in 1..n /\ i + 1 \in 0..n /\ (i + 1) - 1 = i /\ g[i] \in S
      BY <1>2, <1>6, <1>8
    <2>2. g[i + 1] = AddApp(g[i], apps[i + 1], config)
      BY <1>6, <2>1
    <2>3. QED
      BY <1>4, <1>8, <2>1, <2>2
  <1>9. n \in right
    <2> HIDE DEF right
    <2>1. \A i \in 0..n : i \in right
      BY <1>2, <1>7, <1>8, UpTo
    <2>2. QED
      BY <1>2, <2>1
  <1>10. Placed(ClaimsOf(stores.apps), ds, ClaimsOf(g[n].apps))
    <2> DEFINE h == [i \in 0..n |-> ClaimsOf(g[i].apps)]
    <2>1. h \in [0..n -> Seq(Claims)]
      BY <1>5, <1>6
    <2>2. ASSUME NEW i \in 1..n PROVE h[i] = Place(h[i - 1], Claim(ds[i]))
      <3>1. i - 1 \in 0..n /\ i \in 0..n /\ g[i - 1] \in S
        BY <1>2, <1>6
      <3>2. ClaimsOf(g[i].apps) = Place(ClaimsOf(g[i - 1].apps), Claim(ds[i]))
        BY <1>4, <1>6, <3>1
      <3>3. QED
        BY <3>1, <3>2
    <2>3. h[0] = ClaimsOf(stores.apps) /\ h[n] = ClaimsOf(g[n].apps)
      BY <1>2, <1>6
    <2> HIDE DEF h
    <2>4. QED
      BY <1>3, <2>1, <2>2, <2>3 DEF Placed
  <1>11. g[n] \in S
    BY <1>2, <1>6
  <1>12. QED
    BY <1>6, <1>9, <1>10, <1>11 DEF S, ds

(* So are its groups, by the same claims.                                  *)
LEMMA GroupsPlaced ==
    ASSUME NEW bases \in Bases, NEW store \in Seq(StoredGroups),
           NEW config, IsConfig(config, bases)
    PROVE  /\ ResolveGroups(store, config) \in Seq(StoredGroups)
           /\ Placed(ClaimsOf(store), DeclarationsOf(config),
                     ClaimsOf(ResolveGroups(store, config)))
  <1> DEFINE apps == config.meta.apps
             groups == config.meta.groups
             n == Len(apps)
             S == Seq(StoredGroups)
             ds == DeclarationsOf(config)
  <1>1. /\ apps \in Seq(Apps) /\ config.name \in Sources /\ groups = NamesOf(apps)
        /\ store \in S
    BY DEF IsConfig
  <1>2. /\ n \in Nat /\ DOMAIN groups = 1..n
        /\ \A i \in 1..n : apps[i] \in Apps
        /\ \A i \in 1..n : groups[i] = [name |-> apps[i].name, type |-> apps[i].type]
    BY <1>1 DEF NamesOf
  <1>3. Len(ds) = n /\ \A i \in 1..n : Claim(ds[i]) = [name |-> apps[i].name,
                                                      type |-> apps[i].type,
                                                      source |-> config.name]
    BY DeclarationsIn
  <1> HIDE DEF apps, groups, n, S, ds
  <1>4. \A i \in 1..n : /\ groups[i] \in [name : AppNames, type : Types]
                        /\ Claim(ds[i]) = [name |-> groups[i].name, type |-> groups[i].type,
                                           source |-> config.name]
    BY <1>2, <1>3 DEF Apps
  <1>5. \A s \in S, i \in 1..n :
          /\ AddNamed(s, groups[i], config) \in S
          /\ ClaimsOf(AddNamed(s, groups[i], config)) = Place(ClaimsOf(s), Claim(ds[i]))
    BY <1>1, <1>4, GroupPlaced DEF S, AddNamed
  <1>6. \A s \in S : ClaimsOf(s) \in Seq(Claims)
    BY ClaimsIn DEF S
  <1>7. PICK g \in [0..n -> S] :
           /\ g[0] = store
           /\ \A i \in 1..n : g[i] = AddNamed(g[i - 1], groups[i], config)
           /\ ResolveGroups(store, config) = g[n]
    <2>1. \A s \in S, i \in 1..n : AddNamed(s, config.meta.groups[i], config) \in S
      BY <1>5 DEF groups
    <2>2. DOMAIN config.meta.groups = 1..n
      BY <1>2 DEF groups
    <2>3. \E g : GroupsRun(g, S, n, store, config)
      BY <1>1, <1>2, <2>1, <2>2, GroupsReached
    <2>4. QED
      BY <2>3 DEF GroupsRun, groups
  <1>8. Placed(ClaimsOf(store), ds, ClaimsOf(g[n]))
    <2> DEFINE h == [i \in 0..n |-> ClaimsOf(g[i])]
    <2>1. h \in [0..n -> Seq(Claims)]
      BY <1>6, <1>7
    <2>2. ASSUME NEW i \in 1..n PROVE h[i] = Place(h[i - 1], Claim(ds[i]))
      <3>1. i - 1 \in 0..n /\ i \in 0..n /\ g[i - 1] \in S
        BY <1>2, <1>7
      <3>2. ClaimsOf(g[i]) = Place(ClaimsOf(g[i - 1]), Claim(ds[i]))
        BY <1>5, <1>7, <3>1
      <3>3. QED
        BY <3>1, <3>2
    <2>3. h[0] = ClaimsOf(store) /\ h[n] = ClaimsOf(g[n])
      BY <1>2, <1>7
    <2> HIDE DEF h
    <2>4. QED
      BY <1>3, <2>1, <2>2, <2>3 DEF Placed
  <1>9. g[n] \in S
    BY <1>2, <1>7
  <1>10. QED
    BY <1>7, <1>8, <1>9 DEF S, ds

(* So are its components, when it has them.                                *)
LEMMA ComponentsPlaced ==
    ASSUME NEW bases \in Bases, NEW store \in Seq(StoredComponents),
           NEW config, IsConfig(config, bases)
    PROVE  /\ ResolveComponents(store, config) \in Seq(StoredComponents)
           /\ config.meta.components = <<>> => ResolveComponents(store, config) = store
           /\ config.meta.components = NamesOf(config.meta.apps) =>
                Placed(ClaimsOf(store), DeclarationsOf(config),
                       ClaimsOf(ResolveComponents(store, config)))
  <1> DEFINE apps == config.meta.apps
             components == config.meta.components
             n == Len(components)
             S == Seq(StoredComponents)
             ds == DeclarationsOf(config)
             Put(s, i) == AddComponent(s, components[i], config)
  <1>1. /\ apps \in Seq(Apps) /\ config.name \in Sources
        /\ components \in {<<>>, NamesOf(apps)} /\ store \in S
    BY DEF IsConfig
  <1>2. /\ n \in Nat /\ DOMAIN components = 1..n
        /\ components = NamesOf(apps) => n = Len(apps)
        /\ n <= Len(apps)
        /\ \A i \in 1..n : apps[i] \in Apps
        /\ \A i \in 1..n : components[i] = [name |-> apps[i].name, type |-> apps[i].type]
    <2>1. CASE components = <<>>
      <3>1. Len(apps) \in Nat /\ n = 0 /\ DOMAIN components = 1..0
        BY <1>1, <2>1
      <3>2. NamesOf(apps) = <<>> => Len(apps) = 0
        <4>1. DOMAIN NamesOf(apps) = 1..Len(apps)
          BY <1>1 DEF NamesOf
        <4>2. NamesOf(apps) = <<>> => 1 \notin DOMAIN NamesOf(apps)
          OBVIOUS
        <4>3. QED
          BY <3>1, <4>1, <4>2
      <3> HIDE DEF apps
      <3>3. QED
        BY <2>1, <3>1, <3>2
    <2>2. CASE components = NamesOf(apps)
      <3>1. Len(apps) \in Nat /\ n = Len(apps) /\ DOMAIN components = 1..n
        BY <1>1, <2>2 DEF NamesOf
      <3>2. \A i \in 1..n : components[i] = [name |-> apps[i].name, type |-> apps[i].type]
        BY <1>1, <2>2, <3>1 DEF NamesOf
      <3>3. \A i \in 1..Len(apps) : apps[i] \in Apps
        BY <1>1
      <3>4. QED
        BY <3>1, <3>2, <3>3
    <2>3. QED
      BY <1>1, <2>1, <2>2
  <1>3. /\ Len(ds) = Len(apps) /\ Len(apps) \in Nat
        /\ \A i \in 1..Len(apps) : Claim(ds[i]) = [name |-> apps[i].name, type |-> apps[i].type,
                                                   source |-> config.name]
    <2>1. Len(apps) \in Nat
      BY <1>1
    <2>2. QED
      BY <2>1, DeclarationsIn
  <1> HIDE DEF apps, components, n, S, ds
  <1>4. \A i \in 1..n : /\ components[i] \in [name : AppNames, type : Types]
                        /\ Claim(ds[i]) = [name |-> components[i].name,
                                           type |-> components[i].type,
                                           source |-> config.name]
    <2>1. \A i \in 1..n : i \in 1..Len(apps)
      BY <1>2, <1>3
    <2>2. QED
      BY <1>2, <1>3, <2>1 DEF Apps
  <1>5. \A s \in S, i \in 1..n : /\ Put(s, i) \in S
                                 /\ ClaimsOf(Put(s, i)) = Place(ClaimsOf(s), Claim(ds[i]))
    BY <1>1, <1>4, ComponentPlaced DEF S, AddComponent
  <1>6. \A s \in S : ClaimsOf(s) \in Seq(Claims)
    BY ClaimsIn DEF S
  <1>7. PICK g \in [0..n -> S] : /\ g[0] = store
                                 /\ \A i \in 1..n : g[i] = Put(g[i - 1], i)
                                 /\ ResolveComponents(store, config) = g[n]
    <2>1. \A s \in S, i \in 1..n : AddComponent(s, config.meta.components[i], config) \in S
      BY <1>5 DEF components
    <2>2. DOMAIN config.meta.components = 1..n
      BY <1>2 DEF components
    <2> HIDE DEF Put
    <2>3. \E g : ComponentsRun(g, S, n, store, config)
      BY <1>1, <1>2, <2>1, <2>2, ComponentsReached
    <2>4. QED
      BY <2>3 DEF ComponentsRun, components, Put
  <1> HIDE DEF Put
  <1>8. ASSUME components = NamesOf(apps) PROVE Placed(ClaimsOf(store), ds, ClaimsOf(g[n]))
    <2> DEFINE h == [i \in 0..n |-> ClaimsOf(g[i])]
    <2>1. h \in [0..n -> Seq(Claims)]
      BY <1>6, <1>7
    <2>2. ASSUME NEW i \in 1..n PROVE h[i] = Place(h[i - 1], Claim(ds[i]))
      <3>1. i - 1 \in 0..n /\ i \in 0..n /\ g[i - 1] \in S
        BY <1>2, <1>7
      <3>2. ClaimsOf(g[i]) = Place(ClaimsOf(g[i - 1]), Claim(ds[i]))
        BY <1>5, <1>7, <3>1
      <3>3. QED
        BY <3>1, <3>2
    <2>3. h[0] = ClaimsOf(store) /\ h[n] = ClaimsOf(g[n])
      BY <1>2, <1>7
    <2>4. Len(ds) = n
      BY <1>2, <1>3, <1>8
    <2> HIDE DEF h
    <2>5. QED
      BY <2>1, <2>2, <2>3, <2>4 DEF Placed
  <1>9. g[n] \in S
    BY <1>2, <1>7
  <1>10. components = <<>> => n = 0
    BY DEF n
  <1>11. QED
    BY <1>7, <1>8, <1>9, <1>10 DEF S, ds, apps, components

LEMMA ActionsPlaced ==
    ASSUME NEW bases \in Bases, NEW store \in Seq(StoredActions),
           NEW config, IsConfig(config, bases)
    PROVE  ResolveActions(store, config) \in Seq(StoredActions)
  <1> DEFINE actions == config.meta.actions
             n == Len(actions)
             S == Seq(StoredActions)
  <1>1. actions \in Seq([id : ActionIds]) /\ config.name \in Sources /\ store \in S
    BY DEF IsConfig
  <1>2. /\ n \in Nat /\ DOMAIN actions = 1..n
        /\ \A i \in 1..n : [component |-> actions[i], source |-> config.name] \in StoredActions
    <2>1. n \in Nat /\ DOMAIN actions = 1..n /\ \A i \in 1..n : actions[i] \in [id : ActionIds]
      <3>1. \A T : \A s \in Seq(T) : /\ Len(s) \in Nat /\ DOMAIN s = 1..Len(s)
                                      /\ \A i \in 1..Len(s) : s[i] \in T
        OBVIOUS
      <3>2. QED
        BY <1>1, <3>1, Zenon
    <2> HIDE DEF actions, n
    <2>2. QED
      BY <1>1, <2>1 DEF StoredActions
  <1> HIDE DEF actions, n
  <1>3. \A s \in S, i \in 1..n : AddAction(s, actions[i], config) \in S
    BY <1>2 DEF AddAction
  <1> HIDE DEF S
  <1>4. PICK g \in [0..n -> S] : ResolveActions(store, config) = g[n]
    <2>1. \A s \in S, i \in 1..n : AddAction(s, config.meta.actions[i], config) \in S
      BY <1>3 DEF actions
    <2>2. DOMAIN config.meta.actions = 1..n
      BY <1>2 DEF actions
    <2>3. \E g : ActionsRun(g, S, n, store, config)
      BY <1>1, <1>2, <2>1, <2>2, ActionsReached
    <2>4. QED
      BY <2>3 DEF ActionsRun
  <1>5. QED
    BY <1>2, <1>4 DEF S

(* So one configuration is processed.                                      *)
LEMMA ConfigPlaced ==
    ASSUME NEW bases \in Bases, NEW stores \in Stores(bases),
           NEW config, IsConfig(config, bases)
    PROVE  /\ ProcessConfig(stores, config) \in Stores(bases)
           /\ Placed(ClaimsOf(stores.apps), DeclarationsOf(config),
                     ClaimsOf(ProcessConfig(stores, config).apps))
           /\ Placed(ClaimsOf(stores.groups), DeclarationsOf(config),
                     ClaimsOf(ProcessConfig(stores, config).groups))
           /\ config.meta.components = <<>> =>
                ProcessConfig(stores, config).components = stores.components
           /\ config.meta.components = NamesOf(config.meta.apps) =>
                Placed(ClaimsOf(stores.components), DeclarationsOf(config),
                       ClaimsOf(ProcessConfig(stores, config).components))
  <1> DEFINE resolved == ResolveApps(stores, config)
             next == ProcessConfig(stores, config)
  <1>1. /\ resolved \in Stores(bases)
        /\ Placed(ClaimsOf(stores.apps), DeclarationsOf(config), ClaimsOf(resolved.apps))
        /\ resolved.groups = stores.groups
        /\ resolved.components = stores.components
        /\ resolved.actions = stores.actions
    BY AppsPlaced
  <1>2. /\ stores.groups \in Seq(StoredGroups)
        /\ stores.components \in Seq(StoredComponents)
        /\ stores.actions \in Seq(StoredActions)
    BY DEF Stores
  <1>3. /\ ResolveGroups(stores.groups, config) \in Seq(StoredGroups)
        /\ ResolveComponents(stores.components, config) \in Seq(StoredComponents)
        /\ ResolveActions(stores.actions, config) \in Seq(StoredActions)
    BY <1>2, GroupsPlaced, ComponentsPlaced, ActionsPlaced
  <1> HIDE DEF resolved
  <1>4. next = [resolved EXCEPT !.groups = ResolveGroups(stores.groups, config),
                                !.components = ResolveComponents(stores.components, config),
                                !.actions = ResolveActions(stores.actions, config)]
    BY <1>1 DEF ProcessConfig, resolved
  <1>5. /\ next \in Stores(bases)
        /\ next.apps = resolved.apps
        /\ next.groups = ResolveGroups(stores.groups, config)
        /\ next.components = ResolveComponents(stores.components, config)
    BY <1>1, <1>3, <1>4 DEF Stores
  <1> HIDE DEF next
  <1>6. QED
    BY <1>1, <1>2, <1>5, GroupsPlaced, ComponentsPlaced DEF next

--------------------------------------------------------------------------------
(* The merge of a list of configurations.                                  *)
Merge(list) == FoldLeft(ProcessConfig, EmptyStores, list)

AreConfigs(list, bases) ==
    /\ Len(list) \in Nat
    /\ DOMAIN list = 1..Len(list)
    /\ \A i \in 1..Len(list) : IsConfig(list[i], bases)

\* The manual configuration first, then those of services.
IsConfigList(list, bases) ==
    /\ AreConfigs(list, bases)
    /\ Len(list) # 0
    /\ list[1].meta.components = <<>>
    /\ \A i \in 2..Len(list) : list[i].meta.components = NamesOf(list[i].meta.apps)

LEMMA MergeReached ==
    ASSUME NEW bases \in Bases, NEW list, AreConfigs(list, bases)
    PROVE  \E g : ConfigsRun(g, Stores(bases), Len(list), list)
  <1> DEFINE S == Stores(bases)
             n == Len(list)
  <1>1. EmptyStores \in S
    BY DEF EmptyStores, Stores
  <1>2. \A s \in S, i \in 1..n : ProcessConfig(s, list[i]) \in S
    BY ConfigPlaced DEF AreConfigs
  <1>3. n \in Nat /\ DOMAIN list = 1..n
    BY DEF AreConfigs
  <1> HIDE DEF S, n
  <1>4. \E g : ConfigsRun(g, S, n, list)
    BY <1>1, <1>2, <1>3, ConfigsReached
  <1>5. QED
    BY <1>4 DEF S, n

(* The declarations of the list, one configuration after the other.        *)
LEMMA DeclarationsReached ==
    ASSUME NEW bases \in Bases, NEW list, AreConfigs(list, bases)
    PROVE  \E g \in [0..Len(list) -> Seq(Declarations)] :
              /\ g[0] = <<>>
              /\ \A i \in 1..Len(list) : g[i] = g[i - 1] \o DeclarationsOf(list[i])
              /\ AppDeclarations(list) = g[Len(list)]
  <1> DEFINE n == Len(list)
             seqs == [i \in 1..n |-> DeclarationsOf(list[i])]
  <1>1. n \in Nat /\ DOMAIN list = 1..n /\ \A i \in 1..n : IsConfig(list[i], bases)
    BY DEF AreConfigs
  <1>2. \A i \in 1..n : DeclarationsOf(list[i]) \in Seq(Declarations)
    BY <1>1, DeclarationsIn
  <1>3. /\ seqs \in Seq(Seq(Declarations)) /\ Len(seqs) = n
        /\ \A i \in 1..n : seqs[i] = DeclarationsOf(list[i])
    BY <1>1, <1>2
  <1>4. AppDeclarations(list) = FlattenSeq(seqs)
    <2>1. AppDeclarations(list) = FlattenSeq([i \in DOMAIN list |-> DeclarationsOf(list[i])])
      BY Zenon DEF AppDeclarations, DeclarationsOf
    <2>2. QED
      BY <1>1, <2>1
  <1> HIDE DEF seqs, n
  <1>5. PICK g : IsFlattening(g, seqs, Declarations) /\ FlattenSeq(seqs) = g[n]
    BY <1>3, FlattenReached
  <1>6. QED
    BY <1>3, <1>4, <1>5 DEF IsFlattening, n

(* The merge leaves the right apps in the store, and the groups follow.    *)
LEMMA AppsMerged ==
    ASSUME NEW bases \in Bases, NEW list, AreConfigs(list, bases)
    PROVE  /\ Merge(list) \in Stores(bases)
           /\ AppDeclarations(list) \in Seq(Declarations)
           /\ Merged(ClaimsOf(Merge(list).apps), AppDeclarations(list))
           /\ ClaimsOf(Merge(list).groups) = ClaimsOf(Merge(list).apps)
  <1> DEFINE n == Len(list)
             S == Stores(bases)
  <1>1. n \in Nat /\ \A i \in 1..n : IsConfig(list[i], bases)
    BY DEF AreConfigs
  <1>2. PICK g : /\ g \in [0..n -> S]
                 /\ g[0] = EmptyStores
                 /\ \A i \in 1..n : g[i] = ProcessConfig(g[i - 1], list[i])
                 /\ Merge(list) = g[n]
    BY MergeReached DEF ConfigsRun, Merge
  <1>3. PICK d \in [0..n -> Seq(Declarations)] :
           /\ d[0] = <<>>
           /\ \A i \in 1..n : d[i] = d[i - 1] \o DeclarationsOf(list[i])
           /\ AppDeclarations(list) = d[n]
    BY DeclarationsReached
  <1> HIDE DEF n, S
  <1> DEFINE right == {i \in 0..n : /\ Merged(ClaimsOf(g[i].apps), d[i])
                                    /\ ClaimsOf(g[i].groups) = ClaimsOf(g[i].apps)}
  <1>4. 0 \in right
    <2>1. ClaimsOf(<<>>) = <<>>
      BY DEF ClaimsOf
    <2>2. Merged(<<>>, <<>>)
      BY DEF Merged
    <2>3. EmptyStores.apps = <<>> /\ EmptyStores.groups = <<>>
      BY DEF EmptyStores
    <2>4. QED
      BY <1>1, <1>2, <1>3, <2>1, <2>2, <2>3
  <1>5. ASSUME NEW i \in 0..n, i < n, i \in right PROVE i + 1 \in right
    <2> DEFINE config == list[i + 1]
               ds == DeclarationsOf(config)
    <2>1. i + 1 \in 1..n /\ i + 1 \in 0..n /\ (i + 1) - 1 = i
      BY <1>1, <1>5
    <2>2. /\ g[i] \in S /\ g[i + 1] = ProcessConfig(g[i], config) /\ IsConfig(config, bases)
          /\ d[i] \in Seq(Declarations) /\ d[i + 1] = d[i] \o ds
      BY <1>1, <1>2, <1>3, <2>1
    <2> HIDE DEF config
    <2>3. ds \in Seq(Declarations)
      BY <2>2, DeclarationsIn
    <2> HIDE DEF ds
    <2>4. /\ Placed(ClaimsOf(g[i].apps), ds, ClaimsOf(g[i + 1].apps))
          /\ Placed(ClaimsOf(g[i].groups), ds, ClaimsOf(g[i + 1].groups))
      BY <2>2, ConfigPlaced DEF S, ds
    <2>5. Merged(ClaimsOf(g[i + 1].apps), d[i + 1])
      BY <1>5, <2>2, <2>3, <2>4, MergedAll
    <2>6. ClaimsOf(g[i + 1].groups) = ClaimsOf(g[i + 1].apps)
      <3>1. ClaimsOf(g[i].groups) = ClaimsOf(g[i].apps)
        BY <1>5
      <3>2. QED
        BY <2>3, <2>4, <3>1, PlacedOnce
    <2>7. QED
      BY <2>1, <2>5, <2>6
  <1>6. n \in right
    <2> HIDE DEF right
    <2>1. \A i \in 0..n : i \in right
      BY <1>1, <1>4, <1>5, UpTo
    <2>2. QED
      BY <1>1, <2>1
  <1>7. n \in 0..n
    BY <1>1
  <1>8. QED
    BY <1>2, <1>3, <1>6, <1>7 DEF S

(* The components are what the apps are without the manual configuration.  *)
LEMMA ComponentsMerged ==
    ASSUME NEW bases \in Bases, NEW list, IsConfigList(list, bases),
           NEW services, AreConfigs(services, bases), Len(list) = Len(services) + 1,
           \A i \in 1..Len(services) : services[i] = list[i + 1]
    PROVE  ClaimsOf(Merge(list).components) = ClaimsOf(Merge(services).apps)
  <1> DEFINE n == Len(services)
             S == Stores(bases)
  <1>1. /\ n \in Nat /\ Len(list) = n + 1
        /\ \A i \in 1..n : IsConfig(services[i], bases)
        /\ \A i \in 1..(n + 1) : IsConfig(list[i], bases)
        /\ list[1].meta.components = <<>>
        /\ \A i \in 2..(n + 1) : list[i].meta.components = NamesOf(list[i].meta.apps)
        /\ \A i \in 1..n : services[i] = list[i + 1]
    BY DEF IsConfigList, AreConfigs
  <1>2. PICK g : /\ g \in [0..(n + 1) -> S]
                 /\ g[0] = EmptyStores
                 /\ \A i \in 1..(n + 1) : g[i] = ProcessConfig(g[i - 1], list[i])
                 /\ Merge(list) = g[n + 1]
    <2>1. AreConfigs(list, bases)
      BY DEF IsConfigList
    <2>2. \E g : ConfigsRun(g, S, Len(list), list)
      BY <2>1, MergeReached
    <2>3. QED
      BY <1>1, <2>2 DEF ConfigsRun, Merge
  <1>3. PICK h : /\ h \in [0..n -> S]
                 /\ h[0] = EmptyStores
                 /\ \A i \in 1..n : h[i] = ProcessConfig(h[i - 1], services[i])
                 /\ Merge(services) = h[n]
    BY MergeReached DEF ConfigsRun, Merge
  <1> HIDE DEF n
  <1> DEFINE same == {i \in 0..n : ClaimsOf(g[i + 1].components) = ClaimsOf(h[i].apps)}
  <1>4. 0 \in same
    <2>1. 1 \in 1..(n + 1) /\ 0 \in 0..(n + 1) /\ 0 \in 0..n /\ 0 + 1 = 1 /\ 1 - 1 = 0
      BY <1>1
    <2>2. g[1] = ProcessConfig(EmptyStores, list[1])
      BY <1>2, <2>1
    <2>3. EmptyStores \in S /\ IsConfig(list[1], bases)
      BY <1>1, <1>2, <2>1
    <2>4. g[1].components = EmptyStores.components
      BY <1>1, <2>2, <2>3, ConfigPlaced
    <2>5. EmptyStores.components = EmptyStores.apps
      BY DEF EmptyStores
    <2>6. QED
      BY <1>3, <2>1, <2>4, <2>5
  <1>5. ASSUME NEW i \in 0..n, i < n, i \in same PROVE i + 1 \in same
    <2> DEFINE config == list[i + 2]
               ds == DeclarationsOf(config)
    <2>1. /\ i + 1 \in 1..n /\ i + 1 \in 0..n /\ (i + 1) - 1 = i
          /\ i + 2 \in 1..(n + 1) /\ i + 2 \in 2..(n + 1) /\ (i + 2) - 1 = i + 1
          /\ i + 1 \in 0..(n + 1) /\ (i + 1) + 1 = i + 2
      BY <1>1, <1>5
    <2>2. /\ g[i + 1] \in S /\ g[i + 2] = ProcessConfig(g[i + 1], config)
          /\ h[i] \in S /\ h[i + 1] = ProcessConfig(h[i], config)
          /\ IsConfig(config, bases) /\ config.meta.components = NamesOf(config.meta.apps)
      BY <1>1, <1>2, <1>3, <2>1
    <2> HIDE DEF config
    <2>3. ds \in Seq(Declarations)
      BY <2>2, DeclarationsIn
    <2> HIDE DEF ds
    <2>4. /\ Placed(ClaimsOf(g[i + 1].components), ds, ClaimsOf(g[i + 2].components))
          /\ Placed(ClaimsOf(h[i].apps), ds, ClaimsOf(h[i + 1].apps))
      BY <2>2, ConfigPlaced DEF ds
    <2>5. ClaimsOf(g[i + 2].components) = ClaimsOf(h[i + 1].apps)
      <3>1. ClaimsOf(g[i + 1].components) = ClaimsOf(h[i].apps)
        BY <1>5
      <3>2. QED
        BY <2>3, <2>4, <3>1, PlacedOnce
    <2>6. QED
      BY <2>1, <2>5
  <1>6. n \in same
    <2> HIDE DEF same
    <2>1. \A i \in 0..n : i \in same
      BY <1>1, <1>4, <1>5, UpTo
    <2>2. QED
      BY <1>1, <2>1
  <1>7. QED
    BY <1>2, <1>3, <1>6

--------------------------------------------------------------------------------
(* The declarations of the list are those of its configurations.           *)
DeclaredBy(list) == UNION {ToSet(DeclarationsOf(list[i])) : i \in 1..Len(list)}

LEMMA DeclaredIs ==
    ASSUME NEW bases \in Bases, NEW list, AreConfigs(list, bases)
    PROVE  ToSet(AppDeclarations(list)) = DeclaredBy(list)
  <1> DEFINE n == Len(list)
             By(i) == UNION {ToSet(DeclarationsOf(list[k])) : k \in 1..i}
  <1>1. PICK d \in [0..n -> Seq(Declarations)] :
           /\ d[0] = <<>>
           /\ \A i \in 1..n : d[i] = d[i - 1] \o DeclarationsOf(list[i])
           /\ AppDeclarations(list) = d[n]
    BY DeclarationsReached
  <1>2. n \in Nat /\ \A i \in 1..n : DeclarationsOf(list[i]) \in Seq(Declarations)
    BY DeclarationsIn DEF AreConfigs
  <1> HIDE DEF n
  <1> DEFINE right == {i \in 0..n : ToSet(d[i]) = By(i)}
  <1>3. 0 \in right
    <2>1. ToSet(<<>>) = {}
      BY DEF ToSet
    <2>2. By(0) = {}
      OBVIOUS
    <2>3. QED
      BY <1>1, <1>2, <2>1, <2>2
  <1>4. ASSUME NEW i \in 0..n, i < n, i \in right PROVE i + 1 \in right
    <2> DEFINE ds == DeclarationsOf(list[i + 1])
    <2>1. i + 1 \in 1..n /\ i + 1 \in 0..n /\ (i + 1) - 1 = i
      BY <1>2, <1>4
    <2>2. d[i] \in Seq(Declarations) /\ ds \in Seq(Declarations) /\ d[i + 1] = d[i] \o ds
      BY <1>1, <1>2, <2>1
    <2>3. By(i + 1) = By(i) \cup ToSet(ds)
      <3>1. 1..(i + 1) = (1..i) \cup {i + 1}
        BY <1>4
      <3>2. QED
        BY <3>1
    <2> HIDE DEF ds, By
    <2>4. \A s, t \in Seq(Declarations) : ToSet(s \o t) = ToSet(s) \cup ToSet(t)
      <3>1. SUFFICES ASSUME NEW s \in Seq(Declarations), NEW t \in Seq(Declarations)
                     PROVE  ToSet(s \o t) = ToSet(s) \cup ToSet(t)
        OBVIOUS
      <3>2. /\ Len(s) \in Nat /\ Len(t) \in Nat /\ DOMAIN s = 1..Len(s) /\ DOMAIN t = 1..Len(t)
            /\ DOMAIN (s \o t) = 1..(Len(s) + Len(t))
            /\ \A k \in 1..Len(s) : (s \o t)[k] = s[k]
            /\ \A k \in (Len(s) + 1)..(Len(s) + Len(t)) : (s \o t)[k] = t[k - Len(s)]
        OBVIOUS
      <3>3. \A k \in 1..(Len(s) + Len(t)) :
              \/ k \in 1..Len(s)
              \/ k \in (Len(s) + 1)..(Len(s) + Len(t)) /\ k - Len(s) \in 1..Len(t)
        BY <3>2
      <3>4. \A k \in 1..Len(s) : k \in 1..(Len(s) + Len(t))
        BY <3>2
      <3>5. \A k \in 1..Len(t) : /\ k + Len(s) \in (Len(s) + 1)..(Len(s) + Len(t))
                                 /\ k + Len(s) \in 1..(Len(s) + Len(t))
                                 /\ (k + Len(s)) - Len(s) = k
        BY <3>2
      <3> DEFINE both == s \o t
      <3> HIDE DEF both
      <3>6. ASSUME NEW x \in ToSet(both) PROVE x \in ToSet(s) \cup ToSet(t)
        BY <3>2, <3>3 DEF ToSet, both
      <3>7. ASSUME NEW x \in ToSet(s) PROVE x \in ToSet(both)
        BY <3>2, <3>4 DEF ToSet, both
      <3>8. ASSUME NEW x \in ToSet(t) PROVE x \in ToSet(both)
        <4>1. PICK k \in 1..Len(t) : x = t[k]
          BY <3>2 DEF ToSet
        <4>2. both[k + Len(s)] = x
          BY <3>2, <3>5, <4>1 DEF both
        <4>3. QED
          BY <3>2, <3>5, <4>2 DEF ToSet, both
      <3>9. QED
        BY <3>6, <3>7, <3>8 DEF both
    <2>5. QED
      BY <1>4, <2>1, <2>2, <2>3, <2>4
  <1>5. n \in right
    <2> HIDE DEF right
    <2>1. \A i \in 0..n : i \in right
      BY <1>2, <1>3, <1>4, UpTo
    <2>2. QED
      BY <1>2, <2>1
  <1>6. QED
    BY <1>1, <1>5 DEF DeclaredBy, n

--------------------------------------------------------------------------------
(* The lists the specification reaches, and every order of their services. *)
Configs == ManualConfigs \cup UNION {ServiceConfigs(s) : s \in ServiceNames}

IsListed(list) ==
    /\ list \in Seq(Configs)
    /\ Len(list) # 0
    /\ list[1] \in ManualConfigs
    /\ \A i \in 2..Len(list) : list[i].name \in ServiceNames
                               /\ list[i] \in ServiceConfigs(list[i].name)
    /\ \A i, j \in 1..Len(list) : list[i].name = list[j].name => i = j

LEMMA ManualConfigIs ==
    ASSUME NEW config \in ManualConfigs
    PROVE  /\ config.name = Manual /\ config.base = NoBase
           /\ config.meta.apps \in Seq(Apps)
           /\ config.meta.groups = NamesOf(config.meta.apps)
           /\ config.meta.components = <<>>
           /\ config.meta.actions = <<>>
  <1>1. PICK apps \in AppLists :
           config = [name |-> Manual, base |-> NoBase,
                     meta |-> [MetaOf(apps, <<>>) EXCEPT !.components = <<>>]]
    BY DEF ManualConfigs
  <1>2. apps \in Seq(Apps)
    BY MergeAssumption
  <1>3. QED
    BY <1>1, <1>2 DEF MetaOf, NamesOf

LEMMA ServiceConfigIs ==
    ASSUME NEW service \in ServiceNames, NEW config \in ServiceConfigs(service)
    PROVE  /\ config.name = service /\ config.base \in {NoBase, service}
           /\ config.meta.apps \in Seq(Apps)
           /\ config.meta.groups = NamesOf(config.meta.apps)
           /\ config.meta.components = NamesOf(config.meta.apps)
           /\ config.meta.actions \in Seq([id : ActionIds])
  <1>1. PICK base \in {NoBase, service}, apps \in AppLists, actions \in ActionLists :
           config = [name |-> service, base |-> base, meta |-> MetaOf(apps, actions)]
    BY DEF ServiceConfigs
  <1>2. apps \in Seq(Apps)
    BY MergeAssumption
  <1>3. actions \in Seq([id : ActionIds])
    <2>1. CASE actions = <<>>
      BY <2>1
    <2>2. ASSUME NEW a \in ActionIds, actions = <<[id |-> a]>>
          PROVE  actions \in Seq([id : ActionIds])
      <3>1. \A T : \A x \in T : <<x>> \in Seq(T)
        OBVIOUS
      <3>2. [id |-> a] \in [id : ActionIds]
        OBVIOUS
      <3>3. QED
        BY <2>2, <3>1, <3>2, Zenon
    <2>3. QED
      BY <2>1, <2>2 DEF ActionLists
  <1>4. config.meta = MetaOf(apps, actions)
    BY <1>1
  <1>5. QED
    BY <1>1, <1>2, <1>3, <1>4 DEF MetaOf, NamesOf

(* Every service has one base, so the list is one of configurations.       *)
LEMMA ListedHasBases ==
    ASSUME NEW list, IsListed(list)
    PROVE  \E bases \in Bases : IsConfigList(list, bases)
  <1> DEFINE n == Len(list)
             at(s) == CHOOSE i \in 1..n : list[i].name = s
             bases == [s \in Sources |-> IF \E i \in 1..n : list[i].name = s
                                         THEN list[at(s)].base ELSE NoBase]
  <1>1. /\ n \in Nat /\ DOMAIN list = 1..n /\ n # 0 /\ 1 \in 1..n
        /\ \A i \in 1..n : i = 1 \/ i \in 2..n
        /\ \A i \in 2..n : i \in 1..n
    BY DEF IsListed
  <1>2. \A i, j \in 1..n : list[i].name = list[j].name => i = j
    BY DEF IsListed
  <1>3. ASSUME NEW i \in 1..n
        PROVE  /\ list[i].name \in Sources
               /\ list[i].base \in ServiceNames \cup {NoBase}
               /\ list[i].meta.apps \in Seq(Apps)
               /\ list[i].meta.groups = NamesOf(list[i].meta.apps)
               /\ list[i].meta.components \in {<<>>, NamesOf(list[i].meta.apps)}
               /\ list[i].meta.actions \in Seq([id : ActionIds])
    <2>1. CASE i = 1
      <3>1. list[i] \in ManualConfigs
        BY <2>1 DEF IsListed
      <3>2. <<>> \in Seq([id : ActionIds])
        OBVIOUS
      <3>3. QED
        BY <3>1, <3>2, ManualConfigIs DEF Sources
    <2>2. CASE i \in 2..n
      <3>1. list[i].name \in ServiceNames /\ list[i] \in ServiceConfigs(list[i].name)
        BY <2>2 DEF IsListed
      <3>2. QED
        BY <3>1, ServiceConfigIs DEF Sources
    <2>3. QED
      BY <1>1, <2>1, <2>2
  <1> HIDE DEF n
  <1>4. \A i \in 1..n : at(list[i].name) = i
    BY <1>2
  <1> HIDE DEF at
  <1>5. \A s \in Sources : bases[s] = IF \E i \in 1..n : list[i].name = s
                                      THEN list[at(s)].base ELSE NoBase
    OBVIOUS
  <1>6. bases \in Bases
    <2>1. ASSUME NEW s \in Sources, NEW i \in 1..n, list[i].name = s
          PROVE  list[at(s)].base \in ServiceNames \cup {NoBase}
      BY <1>3, <1>4, <2>1
    <2>2. QED
      BY <2>1 DEF Bases
  <1> HIDE DEF bases
  <1>7. \A i \in 1..n : list[i].base = bases[list[i].name]
    BY <1>3, <1>4, <1>5
  <1>8. \A i \in 1..n : IsConfig(list[i], bases)
    BY <1>3, <1>7 DEF IsConfig
  <1>9. list[1].meta.components = <<>>
    BY ManualConfigIs DEF IsListed
  <1>10. \A i \in 2..n : list[i].meta.components = NamesOf(list[i].meta.apps)
    BY ServiceConfigIs DEF IsListed, n
  <1>11. IsConfigList(list, bases)
    BY <1>1, <1>8, <1>9, <1>10 DEF IsConfigList, AreConfigs, n
  <1>12. QED
    BY <1>6, <1>11

(* What the merge of such a list publishes.                                *)
IsWon(app, declaration) ==
    /\ app.name = declaration.app.name
    /\ app.type = declaration.app.type
    /\ app.service = declaration.source
    /\ declaration.base # NoBase => app.url = declaration.base

LEMMA MergePublishes ==
    ASSUME NEW bases \in Bases, NEW list, AreConfigs(list, bases)
    PROVE  LET apps == MergeConfigs(list).apps
               all  == AppDeclarations(list)
           IN  /\ all \in Seq(Declarations)
               /\ Len(apps) \in Nat /\ DOMAIN apps = 1..Len(apps)
               /\ \A i, j \in 1..Len(apps) : apps[i].name = apps[j].name => i = j
               /\ \A k \in 1..Len(all) : \E i \in 1..Len(apps) : apps[i].name = all[k].app.name
               /\ \A i \in 1..Len(apps) : \E w \in 1..Len(all) :
                    Wins(all, w) /\ IsWon(apps[i], all[w])
  <1> DEFINE all == AppDeclarations(list)
             store == Merge(list).apps
             apps == MergeConfigs(list).apps
             view == ClaimsOf(store)
             m == Len(store)
  <1>2. AreConfigs(list, bases)
    OBVIOUS
  <1>3. /\ Merge(list) \in Stores(bases)
        /\ all \in Seq(Declarations)
        /\ Merged(view, all)
    BY <1>2, AppsMerged
  <1>4. \A k \in 1..Len(all) : all[k].base = bases[all[k].source]
    <2>1. SUFFICES ASSUME NEW k \in 1..Len(all) PROVE all[k].base = bases[all[k].source]
      OBVIOUS
    <2>2. all[k] \in ToSet(all)
      BY <1>3 DEF ToSet
    <2>3. all[k] \in DeclaredBy(list)
      BY <1>2, <2>2, DeclaredIs
    <2>4. PICK i \in 1..Len(list) : all[k] \in ToSet(DeclarationsOf(list[i]))
      BY <2>3 DEF DeclaredBy
    <2>5. IsConfig(list[i], bases)
      BY <1>2 DEF AreConfigs
    <2>6. all[k].source = list[i].name /\ all[k].base = list[i].base
      <3>1. PICK j \in DOMAIN DeclarationsOf(list[i]) : all[k] = DeclarationsOf(list[i])[j]
        BY <2>4 DEF ToSet
      <3> HIDE DEF all
      <3>2. QED
        BY <3>1 DEF DeclarationsOf
    <2>7. QED
      BY <2>5, <2>6 DEF IsConfig
  <1>5. apps = [i \in DOMAIN store |-> store[i].component]
    BY DEF MergeConfigs, Merge, ListsOf, Components
  <1>6. store \in Seq(StoredApps(bases))
    BY <1>3 DEF Stores
  <1> HIDE DEF apps, all
  <1>7. m \in Nat /\ DOMAIN store = 1..m /\ \A i \in 1..m : store[i] \in StoredApps(bases)
    <2> HIDE DEF store
    <2>1. QED
      BY <1>6
  <1>8. /\ Len(view) = m
        /\ \A i \in 1..m : view[i] = [name |-> store[i].component.name,
                                      type |-> store[i].component.type,
                                      source |-> store[i].source]
    BY <1>7 DEF ClaimsOf
  <1> HIDE DEF store, view
  <1>9. DOMAIN apps = 1..m /\ Len(apps) = m
    BY <1>5, <1>7
  <1>10. \A i \in 1..m : apps[i] = store[i].component
    BY <1>5, <1>7
  <1>11. \A i \in 1..m : /\ apps[i].name = view[i].name
                         /\ apps[i].type = view[i].type
                         /\ apps[i].service = view[i].source
                         /\ bases[view[i].source] # NoBase => apps[i].url = bases[view[i].source]
    <2>1. SUFFICES ASSUME NEW i \in 1..m
                   PROVE  /\ apps[i].name = view[i].name
                          /\ apps[i].type = view[i].type
                          /\ apps[i].service = view[i].source
                          /\ bases[view[i].source] # NoBase
                               => apps[i].url = bases[view[i].source]
      OBVIOUS
    <2>2. /\ store[i].component.service = store[i].source
          /\ bases[store[i].source] # NoBase => store[i].component.url = bases[store[i].source]
      BY <1>7 DEF StoredApps
    <2>3. /\ view[i].name = store[i].component.name
          /\ view[i].type = store[i].component.type
          /\ view[i].source = store[i].source
      <3>1. view[i] = [name |-> store[i].component.name, type |-> store[i].component.type,
                       source |-> store[i].source]
        BY <1>8, Zenon
      <3>2. QED
        BY <3>1
    <2>4. apps[i] = store[i].component
      BY <1>10
    <2>5. QED
      BY <2>2, <2>3, <2>4, Zenon
  <1> HIDE DEF m
  <1>12. \A i \in 1..m : \E w \in 1..Len(all) : Wins(all, w) /\ IsWon(apps[i], all[w])
    <2>1. SUFFICES ASSUME NEW i \in 1..m
                   PROVE  \E w \in 1..Len(all) : Wins(all, w) /\ IsWon(apps[i], all[w])
      OBVIOUS
    <2>2. PICK w \in 1..Len(all) : Wins(all, w) /\ view[i] = Claim(all[w])
      BY <1>3, <1>8 DEF Merged
    <2>3. view[i].name = all[w].app.name /\ view[i].type = all[w].app.type
          /\ view[i].source = all[w].source
      BY <2>2 DEF Claim
    <2>4. IsWon(apps[i], all[w])
      BY <1>4, <1>11, <2>3 DEF IsWon
    <2>5. QED
      BY <2>2, <2>4
  <1>13. /\ \A i, j \in 1..m : apps[i].name = apps[j].name => i = j
         /\ \A k \in 1..Len(all) : \E i \in 1..m : apps[i].name = all[k].app.name
    BY <1>3, <1>8, <1>11 DEF Merged
  <1>14. m \in Nat
    BY <1>7
  <1>15. QED
    BY <1>3, <1>9, <1>12, <1>13, <1>14 DEF apps, all

LEMMA PublishedIs ==
    ASSUME NEW list, IsListed(list)
    PROVE  LET apps == MergeConfigs(list).apps
               all  == AppDeclarations(list)
           IN  /\ all \in Seq(Declarations)
               /\ Len(apps) \in Nat /\ DOMAIN apps = 1..Len(apps)
               /\ \A i, j \in 1..Len(apps) : apps[i].name = apps[j].name => i = j
               /\ \A k \in 1..Len(all) : \E i \in 1..Len(apps) : apps[i].name = all[k].app.name
               /\ \A i \in 1..Len(apps) : \E w \in 1..Len(all) :
                    Wins(all, w) /\ IsWon(apps[i], all[w])
  BY ListedHasBases, MergePublishes DEF IsConfigList

--------------------------------------------------------------------------------
LEMMA ListedInvariant == Spec => []IsListed(configs)
  <1>1. Init => IsListed(configs)
    <2> SUFFICES ASSUME NEW m \in ManualConfigs, configs = <<m>> PROVE IsListed(configs)
      BY DEF Init
    <2>1. m \in Configs
      BY DEF Configs
    <2>2. /\ configs \in Seq(Configs) /\ Len(configs) = 1 /\ configs[1] = m
          /\ \A i \in 2..Len(configs) : FALSE
          /\ \A i \in 1..Len(configs) : i = 1
      BY <2>1
    <2>3. QED
      BY <2>2 DEF IsListed
  <1>2. IsListed(configs) /\ [Next]_configs => IsListed(configs)'
    <2> SUFFICES ASSUME IsListed(configs), [Next]_configs PROVE IsListed(configs)'
      OBVIOUS
    <2>1. CASE UNCHANGED configs
      BY <2>1 DEF IsListed
    <2>2. CASE Next
      <3> DEFINE n == Len(configs)
      <3>0. PICK service \in ServiceNames \ Named :
               \E config \in ServiceConfigs(service) : configs' = Append(configs, config)
        BY <2>2 DEF Next, AddConfig
      <3>1. PICK config \in ServiceConfigs(service) : configs' = Append(configs, config)
        BY <3>0
      <3>2. config.name = service
        BY <3>1, ServiceConfigIs
      <3>3. config \in Configs
        BY <3>1 DEF Configs
      <3>4. configs \in Seq(Configs) /\ n \in Nat /\ n # 0 /\ DOMAIN configs = 1..n
        BY DEF IsListed
      <3>5. /\ configs' \in Seq(Configs) /\ Len(configs') = n + 1
            /\ configs'[n + 1] = config
            /\ \A i \in 1..n : configs'[i] = configs[i]
        <4>1. /\ Append(configs, config) \in Seq(Configs)
              /\ Len(Append(configs, config)) = n + 1
              /\ Append(configs, config)[n + 1] = config
              /\ \A i \in 1..n : Append(configs, config)[i] = configs[i]
          BY <3>3, <3>4, Longer
        <4>2. QED
          BY <3>1, <4>1
      <3>6. \A i \in 1..n : configs[i].name # service
        BY <3>1, <3>4 DEF Named
      <3> HIDE DEF n
      <3>7. /\ \A i \in 1..(n + 1) : i \in 1..n \/ i = n + 1
            /\ \A i \in 2..(n + 1) : (i \in 2..n /\ i \in 1..n) \/ i = n + 1
            /\ 1 \in 1..n /\ n + 1 # 0
        BY <3>4
      <3>8. configs'[1] \in ManualConfigs
        BY <3>5, <3>7 DEF IsListed
      <3>9. ASSUME NEW i \in 2..(n + 1)
            PROVE  configs'[i].name \in ServiceNames
                   /\ configs'[i] \in ServiceConfigs(configs'[i].name)
        <4>1. CASE i = n + 1
          BY <3>1, <3>2, <3>5, <4>1
        <4>2. CASE i \in 2..n /\ i \in 1..n
          BY <3>5, <4>2 DEF IsListed, n
        <4>3. QED
          BY <3>7, <4>1, <4>2
      <3>10. ASSUME NEW i \in 1..(n + 1), NEW j \in 1..(n + 1), configs'[i].name = configs'[j].name
             PROVE  i = j
        <4>1. \A k, l \in 1..n : configs[k].name = configs[l].name => k = l
          BY DEF IsListed, n
        <4>2. QED
          BY <3>2, <3>5, <3>6, <3>7, <3>10, <4>1
      <3>11. QED
        BY <3>5, <3>7, <3>8, <3>9, <3>10 DEF IsListed
    <2>3. QED
      BY <2>1, <2>2
  <1>3. QED
    BY <1>1, <1>2, PTL DEF Spec

(* The url of a published app is the base of the service that declared it, *)
(* whenever that service has one, whatever was merged after it.            *)
THEOREM BasesAreOwn == Spec => []OwnBasePreferred
  <1>1. IsListed(configs) => OwnBasePreferred
    <2> SUFFICES ASSUME IsListed(configs),
                        NEW app \in Published(configs),
                        WinningDeclaration(configs, app.name).base # NoBase
                 PROVE  app.url = WinningDeclaration(configs, app.name).base
      BY DEF OwnBasePreferred
    <2> DEFINE apps == MergeConfigs(configs).apps
               all == AppDeclarations(configs)
               m == Len(apps)
    <2>1. /\ all \in Seq(Declarations)
          /\ DOMAIN apps = 1..m
          /\ \A i \in 1..m : \E w \in 1..Len(all) : Wins(all, w) /\ IsWon(apps[i], all[w])
      BY PublishedIs
    <2> HIDE DEF apps, all, m
    <2>2. PICK i \in 1..m : app = apps[i]
      BY <2>1 DEF Published, ToSet, apps
    <2>3. PICK w \in 1..Len(all) : Wins(all, w) /\ IsWon(app, all[w])
      BY <2>1, <2>2
    <2>4. WinningDeclaration(configs, all[w].app.name) = all[w]
      BY <2>1, <2>3, WinningIs DEF all
    <2>5. QED
      BY <2>3, <2>4 DEF IsWon
  <1>2. QED
    BY <1>1, ListedInvariant, PTL

--------------------------------------------------------------------------------
(* A store and its claims have one entry each for every component.         *)
IsViewed(s, T) ==
    /\ DOMAIN ClaimsOf(s) = DOMAIN s
    /\ \A i \in DOMAIN s : /\ s[i] \in T
                           /\ ClaimsOf(s)[i] = [name |-> s[i].component.name,
                                                type |-> s[i].component.type,
                                                source |-> s[i].source]

LEMMA SeqIsViewed == \A T : \A s \in Seq(T) : IsViewed(s, T)
  BY DEF IsViewed, ClaimsOf

LEMMA ViewsMatch ==
    ASSUME NEW s, NEW t, NEW S, NEW T, IsViewed(s, S), IsViewed(t, T),
           ClaimsOf(s) = ClaimsOf(t)
    PROVE  /\ DOMAIN s = DOMAIN t
           /\ \A i \in DOMAIN t : /\ s[i] \in S /\ t[i] \in T
                                  /\ s[i].component.name = t[i].component.name
                                  /\ s[i].component.type = t[i].component.type
                                  /\ s[i].source = t[i].source
  <1>1. DOMAIN s = DOMAIN t
    BY DEF IsViewed
  <1>2. SUFFICES ASSUME NEW i \in DOMAIN t
                 PROVE  /\ s[i] \in S /\ t[i] \in T
                        /\ s[i].component.name = t[i].component.name
                        /\ s[i].component.type = t[i].component.type
                        /\ s[i].source = t[i].source
    BY <1>1
  <1>3. [name |-> s[i].component.name, type |-> s[i].component.type, source |-> s[i].source]
          = [name |-> t[i].component.name, type |-> t[i].component.type, source |-> t[i].source]
    BY <1>1, Zenon DEF IsViewed
  <1>4. s[i] \in S /\ t[i] \in T
    BY <1>1 DEF IsViewed
  <1>5. QED
    <2> DEFINE u == s[i].component.name
               v == s[i].component.type
               w == s[i].source
               x == t[i].component.name
               y == t[i].component.type
               z == t[i].source
    <2>1. [name |-> u, type |-> v, source |-> w] = [name |-> x, type |-> y, source |-> z]
      BY <1>3
    <2> HIDE DEF u, v, w, x, y, z
    <2>2. u = x /\ v = y /\ w = z
      BY <2>1
    <2>3. QED
      BY <1>4, <2>2 DEF u, v, w, x, y, z

(* The declaration that wins is one of the best, and a later one that is   *)
(* as good is of another type of the middle tier.                          *)
LEMMA WinnerIsBest ==
    ASSUME NEW list, NEW all \in Seq(Declarations), all = AppDeclarations(list),
           NEW w, Wins(all, w), NEW entity, entity.name = all[w].app.name,
           entity.type = all[w].app.type,
           "service" \in DOMAIN entity => entity.service = all[w].source
    PROVE  IsSelected(entity, list)
  <1> DEFINE n == Len(all)
             top == TierAt(all, w)
             best == BestDeclarations(list, entity.name)
  <1>1. TopTier(list, entity.name) = top
    <2>1. TopTier(list, all[w].app.name) = top
      BY TopTierIs
    <2>2. QED
      BY <2>1
  <1>2. n \in Nat /\ w \in 1..n /\ DOMAIN all = 1..n
    BY DEF Wins
  <1>3. best = {i \in 1..n : all[i].app.name = entity.name /\ Tier(all[i].app.type) = top}
    BY <1>1, <1>2 DEF BestDeclarations
  <1>4. w \in best
    BY <1>2, <1>3 DEF TierAt
  <1>5. ASSUME NEW later \in best, later > w
        PROVE  Tier(all[w].app.type) = 1 /\ all[later].app.type # all[w].app.type
    <2>1. later \in 1..n /\ later \in (w + 1)..n
      BY <1>2, <1>3, <1>5
    <2>2. Rival(all, w, later) /\ TierAt(all, later) = TierAt(all, w)
      BY <1>3 DEF Rival, TierAt
    <2>3. TierAt(all, w) = 1
      BY <2>1, <2>2 DEF Wins, LastOfTier
    <2>4. all[later].app.type # all[w].app.type
      BY <2>1, <2>2, <2>3 DEF Wins, LastOfFirstType
    <2>5. QED
      BY <2>3, <2>4 DEF TierAt
  <1>6. QED
    BY <1>4, <1>5 DEF IsSelected

(* A list of entities that name, type and serve what the published apps do *)
(* has each declared name once.                                            *)
IsLike(entities, apps) ==
    /\ DOMAIN entities = DOMAIN apps /\ Len(entities) = Len(apps)
    /\ \A k \in DOMAIN apps :
        /\ entities[k].name = apps[k].name /\ entities[k].type = apps[k].type
        /\ "service" \in DOMAIN entities[k] => entities[k].service = apps[k].service

LEMMA LikeIsSelected ==
    ASSUME NEW bases \in Bases, NEW list, AreConfigs(list, bases),
           NEW entities, IsLike(entities, MergeConfigs(list).apps)
    PROVE  EachSelectedOnce(entities, list)
  <1> DEFINE apps == MergeConfigs(list).apps
             all == AppDeclarations(list)
             m == Len(apps)
  <1>1. /\ all \in Seq(Declarations)
        /\ m \in Nat /\ DOMAIN apps = 1..m
        /\ \A i, j \in 1..m : apps[i].name = apps[j].name => i = j
        /\ \A k \in 1..Len(all) : \E i \in 1..m : apps[i].name = all[k].app.name
        /\ \A i \in 1..m : \E w \in 1..Len(all) : Wins(all, w) /\ IsWon(apps[i], all[w])
    BY MergePublishes
  <1>2. Declared(list) = {all[k].app.name : k \in 1..Len(all)}
    <2>1. ToSet(all) = {all[k] : k \in 1..Len(all)}
      BY <1>1 DEF ToSet
    <2>2. Declared(list) = {d.app.name : d \in ToSet(all)}
      BY DEF Declared
    <2> HIDE DEF all
    <2>3. QED
      BY <2>1, <2>2
  <1> HIDE DEF apps, all, m
  <1>3. /\ DOMAIN entities = 1..m /\ Len(entities) = m
        /\ \A k \in 1..m :
             /\ entities[k].name = apps[k].name /\ entities[k].type = apps[k].type
             /\ "service" \in DOMAIN entities[k] => entities[k].service = apps[k].service
    BY <1>1 DEF IsLike, apps, m
  <1>4. \A k \in 1..m : \E w \in 1..Len(all) :
           /\ Wins(all, w)
           /\ entities[k].name = all[w].app.name /\ entities[k].type = all[w].app.type
           /\ "service" \in DOMAIN entities[k] => entities[k].service = all[w].source
    <2>1. SUFFICES ASSUME NEW k \in 1..m
                   PROVE  \E w \in 1..Len(all) :
                            /\ Wins(all, w)
                            /\ entities[k].name = all[w].app.name
                            /\ entities[k].type = all[w].app.type
                            /\ "service" \in DOMAIN entities[k] => entities[k].service = all[w].source
      OBVIOUS
    <2>2. PICK w \in 1..Len(all) : Wins(all, w) /\ IsWon(apps[k], all[w])
      BY <1>1
    <2>3. /\ entities[k].name = all[w].app.name /\ entities[k].type = all[w].app.type
          /\ "service" \in DOMAIN entities[k] => entities[k].service = all[w].source
      BY <1>3, <2>2 DEF IsWon
    <2>4. QED
      BY <2>2, <2>3
  <1>5. ASSUME NEW k \in 1..m PROVE entities[k].name \in Declared(list)
    BY <1>2, <1>4
  <1>6. ASSUME NEW x \in Declared(list) PROVE \E k \in 1..m : entities[k].name = x
    <2>1. PICK l \in 1..Len(all) : all[l].app.name = x
      BY <1>2
    <2>2. PICK k \in 1..m : apps[k].name = all[l].app.name
      BY <1>1
    <2>3. QED
      BY <1>3, <2>1, <2>2
  <1>7. \A i, j \in 1..m : entities[i].name = entities[j].name => i = j
    BY <1>1, <1>3
  <1>8. {entities[k].name : k \in DOMAIN entities} = Declared(list)
    <2> DEFINE declared == Declared(list)
    <2> HIDE DEF declared
    <2>1. {entities[k].name : k \in 1..m} = declared
      BY <1>5, <1>6 DEF declared
    <2>2. QED
      BY <1>3, <2>1 DEF declared
  <1>9. m = Cardinality(Declared(list))
    <2> DEFINE f == [k \in 1..m |-> entities[k].name]
    <2>1. f \in [1..m -> Declared(list)]
      BY <1>5
    <2>2. \A x \in Declared(list) : \E k \in 1..m : f[k] = x
      BY <1>6
    <2>3. \A i, j \in 1..m : f[i] = f[j] => i = j
      BY <1>7
    <2> HIDE DEF f
    <2>4. ExistsBijection(1..m, Declared(list))
      <3>1. f \in Injection(1..m, Declared(list))
        BY <2>1, <2>3 DEF Injection, IsInjective
      <3>2. f \in Surjection(1..m, Declared(list))
        BY <2>1, <2>2 DEF Surjection
      <3>3. QED
        BY <3>1, <3>2, Zenon DEF ExistsBijection, Bijection
    <2>5. QED
      BY <1>1, <2>4, FS_CountingElements
  <1>10. ASSUME NEW k \in 1..m PROVE IsSelected(entities[k], list)
    <2>1. PICK w \in 1..Len(all) :
             /\ Wins(all, w)
             /\ entities[k].name = all[w].app.name /\ entities[k].type = all[w].app.type
             /\ "service" \in DOMAIN entities[k] => entities[k].service = all[w].source
      BY <1>4
    <2>2. all = AppDeclarations(list)
      BY DEF all
    <2> DEFINE entity == entities[k]
    <2> HIDE DEF entity
    <2>3. IsSelected(entity, list)
      <3>1. /\ entity.name = all[w].app.name /\ entity.type = all[w].app.type
            /\ "service" \in DOMAIN entity => entity.service = all[w].source
        BY <2>1 DEF entity
      <3>2. QED
        BY <1>1, <2>1, <2>2, <3>1, WinnerIsBest
    <2>4. QED
      BY <2>3 DEF entity
  <1>11. QED
    BY <1>3, <1>8, <1>9, <1>10 DEF EachSelectedOnce

(* Whatever the services, their entities, the types and the order in which *)
(* the configurations arrive: every declared app, group and component is   *)
(* published once, as one of its declarations that no other outranks, and  *)
(* as the newest of those but for differing types of the middle tier.      *)
THEOREM WinnersArePublished == Spec => []WinnerIsSelected
  <1>1. IsListed(configs) => WinnerIsSelected
    <2> SUFFICES ASSUME IsListed(configs) PROVE WinnerIsSelected
      OBVIOUS
    <2> DEFINE n == Len(configs)
               others == Tail(configs)
               all == Merge(configs)
               some == Merge(others)
               apps == MergeConfigs(configs).apps
               groups == MergeConfigs(configs).groups
               components == MergeConfigs(configs).components
               services == MergeConfigs(others).apps
    <2>1. PICK bases \in Bases : IsConfigList(configs, bases)
      BY ListedHasBases
    <2>2. AreConfigs(configs, bases)
      BY <2>1 DEF IsConfigList
    <2>3. /\ n \in Nat /\ n # 0 /\ Len(others) = n - 1 /\ DOMAIN others = 1..(n - 1)
          /\ \A i \in 1..(n - 1) : others[i] = configs[i + 1]
      BY DEF IsListed
    <2> HIDE DEF n, others
    <2>4. AreConfigs(others, bases)
      <3>1. \A i \in 1..(n - 1) : i + 1 \in 1..n
        BY <2>3
      <3>2. QED
        BY <2>2, <2>3, <3>1 DEF AreConfigs, n
    <2>5. /\ all \in Stores(bases) /\ some \in Stores(bases)
          /\ ClaimsOf(all.groups) = ClaimsOf(all.apps)
      BY <2>2, <2>4, AppsMerged
    <2>6. ClaimsOf(all.components) = ClaimsOf(some.apps)
      <3>1. /\ Len(configs) = Len(others) + 1
            /\ \A i \in 1..Len(others) : others[i] = configs[i + 1]
        BY <2>3 DEF n
      <3>2. QED
        BY <2>1, <2>4, <3>1, ComponentsMerged
    <2>7. /\ apps = [i \in DOMAIN all.apps |-> all.apps[i].component]
          /\ groups = [i \in DOMAIN all.groups |-> all.groups[i].component]
          /\ components = [i \in DOMAIN all.components |-> all.components[i].component]
          /\ services = [i \in DOMAIN some.apps |-> some.apps[i].component]
      BY DEF MergeConfigs, Merge, ListsOf, Components
    <2>a. DOMAIN apps = 1..Len(apps) /\ Len(apps) \in Nat
      BY <2>2, MergePublishes
    <2>b. DOMAIN services = 1..Len(services) /\ Len(services) \in Nat
      BY <2>4, MergePublishes
    <2> HIDE DEF all, some, apps, groups, components, services
    <2>8. \A T : \A s \in Seq(T) : IsViewed(s, T)
      BY SeqIsViewed
    <2>9. /\ all.apps \in Seq(StoredApps(bases))
          /\ all.groups \in Seq(StoredGroups)
          /\ all.components \in Seq(StoredComponents)
          /\ some.apps \in Seq(StoredApps(bases))
      BY <2>5 DEF Stores
    <2>10. groups = [i \in DOMAIN apps |-> [name |-> apps[i].name, type |-> apps[i].type]]
      <3>a. IsViewed(all.groups, StoredGroups)
        BY <2>8, <2>9, Zenon
      <3>b. IsViewed(all.apps, StoredApps(bases))
        BY <2>8, <2>9, Zenon
      <3>1. /\ DOMAIN all.groups = DOMAIN all.apps
            /\ \A i \in DOMAIN all.apps :
                 /\ all.groups[i] \in StoredGroups
                 /\ all.groups[i].component.name = all.apps[i].component.name
                 /\ all.groups[i].component.type = all.apps[i].component.type
        BY <3>a, <3>b, <2>5, ViewsMatch
      <3>2. \A i \in DOMAIN all.apps :
              all.groups[i].component = [name |-> all.apps[i].component.name,
                                         type |-> all.apps[i].component.type]
        BY <3>1 DEF StoredGroups
      <3>3. QED
        BY <2>7, <3>1, <3>2
    <2>11. components = [i \in DOMAIN services |-> [name |-> services[i].name,
                                                    type |-> services[i].type,
                                                    service |-> services[i].service]]
      <3>a. IsViewed(all.components, StoredComponents)
        BY <2>8, <2>9, Zenon
      <3>b. IsViewed(some.apps, StoredApps(bases))
        BY <2>8, <2>9, Zenon
      <3>1. /\ DOMAIN all.components = DOMAIN some.apps
            /\ \A i \in DOMAIN some.apps :
                 /\ all.components[i] \in StoredComponents
                 /\ some.apps[i] \in StoredApps(bases)
                 /\ all.components[i].component.name = some.apps[i].component.name
                 /\ all.components[i].component.type = some.apps[i].component.type
                 /\ all.components[i].source = some.apps[i].source
        BY <3>a, <3>b, <2>6, ViewsMatch
      <3>2. \A i \in DOMAIN some.apps :
              /\ all.components[i].component.service = all.components[i].source
              /\ some.apps[i].component.service = some.apps[i].source
        BY <3>1 DEF StoredComponents, StoredApps
      <3>3. \A i \in DOMAIN some.apps :
              all.components[i].component = [name |-> some.apps[i].component.name,
                                             type |-> some.apps[i].component.type,
                                             service |-> some.apps[i].component.service]
        BY <3>1, <3>2 DEF StoredComponents
      <3>4. QED
        BY <2>7, <3>1, <3>3
    <2>12. IsLike(apps, apps)
      BY Zenon DEF IsLike
    <2>13. IsLike(groups, apps)
      <3>1. DOMAIN groups = 1..Len(apps) /\ Len(groups) = Len(apps)
        BY <2>10, <2>a
      <3>2. \A k \in DOMAIN apps :
              groups[k].name = apps[k].name /\ groups[k].type = apps[k].type
              /\ DOMAIN groups[k] = {"name", "type"}
        BY <2>10
      <3>3. "service" \notin {"name", "type"}
        OBVIOUS
      <3>4. QED
        BY <2>a, <3>1, <3>2, <3>3 DEF IsLike
    <2>14. IsLike(components, services)
      <3>1. DOMAIN components = 1..Len(services) /\ Len(components) = Len(services)
        BY <2>11, <2>b
      <3>2. \A k \in DOMAIN services :
              /\ components[k].name = services[k].name /\ components[k].type = services[k].type
              /\ components[k].service = services[k].service
        BY <2>11
      <3>3. QED
        BY <2>b, <3>1, <3>2 DEF IsLike
    <2>15. EachSelectedOnce(apps, configs) /\ EachSelectedOnce(groups, configs)
      BY <2>2, <2>12, <2>13, LikeIsSelected DEF apps
    <2>16. EachSelectedOnce(components, others)
      BY <2>4, <2>14, LikeIsSelected DEF services
    <2>17. QED
      BY <2>15, <2>16, Zenon DEF WinnerIsSelected, apps, groups, components, others
  <1>2. QED
    BY <1>1, ListedInvariant, PTL

--------------------------------------------------------------------------------
(* Another order of the same services is a list of the same declarations.  *)
LEMMA OrdersDeclareAlike ==
    ASSUME IsListed(configs), NEW other \in ReplicaOrders
    PROVE  IsListed(other) /\ ToSet(AppDeclarations(other)) = ToSet(AppDeclarations(configs))
  <1> DEFINE n == Len(configs)
             m == n - 1
  <1>1. PICK p \in [1..m -> 1..m] :
           IsInjective(p) /\ other = <<configs[1]>> \o [i \in 1..m |-> configs[p[i] + 1]]
    BY DEF ReplicaOrders
  <1>2. /\ n \in Nat /\ n # 0 /\ m \in Nat /\ configs \in Seq(Configs)
        /\ \A i \in 1..n : configs[i] \in Configs
    BY DEF IsListed
  <1> DEFINE rest == [i \in 1..m |-> configs[p[i] + 1]]
             at == [i \in 1..n |-> IF i = 1 THEN 1 ELSE p[i - 1] + 1]
  <1> HIDE DEF n
  <1>3. \A i \in 1..m : p[i] \in 1..m /\ p[i] + 1 \in 2..n /\ p[i] + 1 \in 1..n
    <2>1. \A i \in 1..m : p[i] \in 1..m
      BY <1>1
    <2>2. \A k \in 1..m : k + 1 \in 2..n /\ k + 1 \in 1..n
      BY <1>2
    <2>3. QED
      BY <2>1, <2>2
  <1>4. rest \in Seq(Configs) /\ Len(rest) = m /\ \A i \in 1..m : rest[i] = configs[p[i] + 1]
    <2>1. \A i \in 1..m : configs[p[i] + 1] \in Configs
      BY <1>2, <1>3
    <2>2. rest \in [1..m -> Configs]
      BY <2>1
    <2>3. \A T : \A k \in Nat : \A f \in [1..k -> T] : f \in Seq(T) /\ Len(f) = k
      OBVIOUS
    <2>4. rest \in Seq(Configs) /\ Len(rest) = m
      BY <1>2, <2>2, <2>3, Zenon
    <2>5. QED
      BY <2>4
  <1>5. <<configs[1]>> \in Seq(Configs) /\ 1 \in 1..n
    BY <1>2
  <1> HIDE DEF rest
  <1>6. /\ <<configs[1]>> \o rest \in Seq(Configs)
        /\ Len(<<configs[1]>> \o rest) = n
        /\ (<<configs[1]>> \o rest)[1] = configs[1]
        /\ \A i \in 2..n : (<<configs[1]>> \o rest)[i] = rest[i - 1]
    BY <1>2, <1>4, <1>5
  <1>7. /\ other \in Seq(Configs) /\ Len(other) = n /\ other[1] = configs[1]
        /\ \A i \in 2..n : other[i] = rest[i - 1]
    <2>1. other = <<configs[1]>> \o rest
      BY <1>1 DEF rest
    <2>2. QED
      BY <1>6, <2>1
  <1>8. \A i \in 2..n : i \in 1..n /\ i # 1 /\ i - 1 \in 1..m
    BY <1>2
  <1>9. /\ at[1] = 1
        /\ \A i \in 2..n : at[i] = p[i - 1] + 1 /\ at[i] \in 2..n
    BY <1>3, <1>5, <1>8
  <1>10. \A i \in 1..n : i = 1 \/ i \in 2..n
    BY <1>2
  <1> HIDE DEF at
  <1>11. \A i \in 1..n : at[i] \in 1..n /\ other[i] = configs[at[i]]
    <2>1. \A i \in 2..n : other[i] = configs[p[i - 1] + 1]
      BY <1>4, <1>7, <1>8
    <2>2. QED
      BY <1>5, <1>7, <1>8, <1>9, <1>10, <2>1
  <1>12. \A i, j \in 1..n : at[i] = at[j] => i = j
    <2>1. ASSUME NEW i \in 2..n, NEW j \in 2..n, at[i] = at[j] PROVE i = j
      <3>1. p[i - 1] \in 1..m /\ p[j - 1] \in 1..m /\ p[i - 1] + 1 = p[j - 1] + 1
        BY <1>3, <1>8, <1>9, <2>1
      <3>2. p[i - 1] = p[j - 1]
        <4>1. \A k, l \in 1..m : k + 1 = l + 1 => k = l
          BY <1>2
        <4>2. QED
          BY <3>1, <4>1
      <3>3. i - 1 = j - 1
        BY <1>1, <1>8, <3>2 DEF IsInjective
      <3>4. QED
        BY <1>2, <3>3
    <2>2. \A i \in 2..n : at[i] # at[1]
      BY <1>9
    <2>3. QED
      BY <1>10, <2>1, <2>2
  <1>13. \A k \in 1..n : \E i \in 1..n : at[i] = k
    <2>1. \A k \in 1..m : \E i \in 1..m : p[i] = k
      <3>1. p \in Injection(1..m, 1..m)
        BY <1>1 DEF Injection
      <3>2. IsFiniteSet(1..m)
        BY <1>2, FS_Interval
      <3>3. p \in Surjection(1..m, 1..m)
        BY <3>1, <3>2, FS_Injection
      <3>4. QED
        BY <3>3 DEF Surjection
    <2>2. ASSUME NEW k \in 2..n PROVE \E i \in 1..n : at[i] = k
      <3>1. k - 1 \in 1..m
        BY <1>8
      <3>2. PICK i \in 1..m : p[i] = k - 1
        BY <2>1, <3>1
      <3>3. i + 1 \in 2..n /\ (i + 1) - 1 = i /\ i + 1 \in 1..n
        BY <1>2
      <3>4. at[i + 1] = p[i] + 1 /\ p[i] + 1 = k
        BY <1>9, <3>2, <3>3
      <3>5. QED
        BY <3>3, <3>4
    <2>3. QED
      BY <1>5, <1>9, <1>10, <2>2
  <1>14. IsListed(other)
    <2>1. \A i \in 2..n : configs[i].name \in ServiceNames
                          /\ configs[i] \in ServiceConfigs(configs[i].name)
      BY DEF IsListed, n
    <2>2. \A i, j \in 1..n : configs[i].name = configs[j].name => i = j
      BY DEF IsListed, n
    <2>3. other[1] \in ManualConfigs
      BY <1>7 DEF IsListed
    <2>4. \A i \in 2..n : other[i].name \in ServiceNames
                          /\ other[i] \in ServiceConfigs(other[i].name)
      BY <1>8, <1>9, <1>11, <2>1
    <2>5. \A i, j \in 1..n : other[i].name = other[j].name => i = j
      BY <1>11, <1>12, <2>2
    <2>6. QED
      BY <1>2, <1>7, <2>3, <2>4, <2>5 DEF IsListed
  <1>15. DeclaredBy(other) = DeclaredBy(configs)
    <2>1. DeclaredBy(other) = UNION {ToSet(DeclarationsOf(other[i])) : i \in 1..n}
      BY <1>7 DEF DeclaredBy
    <2>2. DeclaredBy(configs) = UNION {ToSet(DeclarationsOf(configs[i])) : i \in 1..n}
      BY DEF DeclaredBy, n
    <2>3. \A i \in 1..n : \E k \in 1..n :
            ToSet(DeclarationsOf(other[i])) = ToSet(DeclarationsOf(configs[k]))
      BY <1>11
    <2>4. \A k \in 1..n : \E i \in 1..n :
            ToSet(DeclarationsOf(other[i])) = ToSet(DeclarationsOf(configs[k]))
      BY <1>11, <1>13
    <2>5. QED
      BY <2>1, <2>2, <2>3, <2>4
  <1>16. QED
    <2>1. PICK bases \in Bases : IsConfigList(configs, bases)
      BY ListedHasBases
    <2>2. PICK bases2 \in Bases : IsConfigList(other, bases2)
      BY <1>14, ListedHasBases
    <2>3. QED
      BY <1>14, <1>15, <2>1, <2>2, DeclaredIs DEF IsConfigList

(* What is published under a declared name is the declaration that wins.   *)
LEMMA PublishedWins ==
    ASSUME NEW list, IsListed(list), NEW name, name \in Declared(list)
    PROVE  \E w \in 1..Len(AppDeclarations(list)) :
              /\ Wins(AppDeclarations(list), w)
              /\ AppDeclarations(list)[w].app.name = name
              /\ IsWon(PublishedApp(list, name), AppDeclarations(list)[w])
  <1> DEFINE apps == MergeConfigs(list).apps
             all == AppDeclarations(list)
             m == Len(apps)
             chosen == PublishedApp(list, name)
  <1>1. /\ all \in Seq(Declarations)
        /\ DOMAIN apps = 1..m
        /\ \A k \in 1..Len(all) : \E i \in 1..m : apps[i].name = all[k].app.name
        /\ \A i \in 1..m : \E w \in 1..Len(all) : Wins(all, w) /\ IsWon(apps[i], all[w])
    BY PublishedIs
  <1>2. Published(list) = {apps[i] : i \in 1..m}
    BY <1>1 DEF Published, ToSet
  <1>3. \E k \in 1..Len(all) : all[k].app.name = name
    <2>1. \E d \in ToSet(all) : d.app.name = name
      BY DEF Declared
    <2> HIDE DEF all
    <2>2. QED
      BY <1>1, <2>1 DEF ToSet
  <1> HIDE DEF apps, all, m
  <1>4. \E app \in Published(list) : app.name = name
    BY <1>1, <1>2, <1>3
  <1>5. chosen \in Published(list) /\ chosen.name = name
    BY <1>4, Zenon DEF PublishedApp
  <1> HIDE DEF chosen
  <1>6. PICK w \in 1..Len(all) : Wins(all, w) /\ IsWon(chosen, all[w])
    BY <1>1, <1>2, <1>5
  <1>7. all[w].app.name = name
    BY <1>5, <1>6 DEF IsWon
  <1>8. QED
    BY <1>6, <1>7 DEF all, chosen

(* However the fetched configurations arrived, replicas that know the same *)
(* services publish the same winner for every app whose best tier holds    *)
(* one declaration only.                                                   *)
THEOREM ReplicasAgree == Spec => []ReplicasAgreeOnSoleWinner
  <1>1. IsListed(configs) => ReplicasAgreeOnSoleWinner
    <2> SUFFICES ASSUME IsListed(configs),
                        NEW name \in Declared(configs), SoleInTopTier(name),
                        NEW other \in ReplicaOrders
                 PROVE  /\ PublishedApp(other, name).service = PublishedApp(configs, name).service
                        /\ PublishedApp(other, name).type = PublishedApp(configs, name).type
      BY DEF ReplicasAgreeOnSoleWinner
    <2> DEFINE all == AppDeclarations(configs)
               theirs == AppDeclarations(other)
               sole == BestDeclarations(configs, name)
    <2>1. IsListed(other) /\ ToSet(theirs) = ToSet(all)
      BY OrdersDeclareAlike
    <2>2. all \in Seq(Declarations) /\ theirs \in Seq(Declarations)
      BY <2>1, PublishedIs
    <2>3. name \in Declared(other)
      BY <2>1 DEF Declared
    <2>4. PICK w \in 1..Len(all) : /\ Wins(all, w) /\ all[w].app.name = name
                                   /\ IsWon(PublishedApp(configs, name), all[w])
      BY PublishedWins
    <2>5. PICK v \in 1..Len(theirs) : /\ Wins(theirs, v) /\ theirs[v].app.name = name
                                      /\ IsWon(PublishedApp(other, name), theirs[v])
      BY <2>1, <2>3, PublishedWins
    <2>6. TopTier(configs, name) = TierAt(all, w)
      <3>1. TopTier(configs, all[w].app.name) = TierAt(all, w)
        BY <2>2, <2>4, TopTierIs
      <3>2. QED
        BY <2>4, <3>1
    <2>7. /\ Cardinality(sole) = 1
          /\ sole = {i \in DOMAIN all : /\ all[i].app.name = name
                                         /\ Tier(all[i].app.type) = TopTier(configs, name)}
      BY DEF SoleInTopTier, BestDeclarations
    <2> HIDE DEF all, theirs
    <2>a. ToSet(all) = {all[i] : i \in 1..Len(all)}
      BY <2>2 DEF ToSet
    <2>b. ToSet(theirs) = {theirs[i] : i \in 1..Len(theirs)}
      BY <2>2 DEF ToSet
    <2>8. PICK k \in 1..Len(all) : theirs[v] = all[k]
      BY <2>1, <2>5, <2>a, <2>b
    <2>9. PICK l \in 1..Len(theirs) : all[w] = theirs[l]
      BY <2>1, <2>4, <2>a, <2>b
    <2>10. TierAt(all, k) = TierAt(all, w)
      <3>1. TierAt(all, k) <= TierAt(all, w)
        BY <2>4, <2>5, <2>8 DEF Wins, Rival
      <3>2. TierAt(theirs, l) <= TierAt(theirs, v)
        BY <2>4, <2>5, <2>9 DEF Wins, Rival
      <3>3. TierAt(theirs, l) = TierAt(all, w) /\ TierAt(theirs, v) = TierAt(all, k)
        BY <2>8, <2>9 DEF TierAt
      <3>4. TierAt(all, k) \in 0..2 /\ TierAt(all, w) \in 0..2
        BY Tiers DEF TierAt
      <3>5. QED
        BY <3>1, <3>2, <3>3, <3>4
    <2>11. w \in sole /\ k \in sole
      <3> HIDE DEF sole
      <3>1. w \in DOMAIN all /\ k \in DOMAIN all
        BY <2>2
      <3>2. all[w].app.name = name /\ all[k].app.name = name
        BY <2>4, <2>5, <2>8
      <3>3. /\ Tier(all[w].app.type) = TopTier(configs, name)
            /\ Tier(all[k].app.type) = TopTier(configs, name)
        BY <2>6, <2>10 DEF TierAt
      <3>4. QED
        BY <2>7, <3>1, <3>2, <3>3
    <2>12. w = k
      <3>1. IsFiniteSet(sole)
        <4>1. sole \subseteq 1..Len(all) /\ Len(all) \in Nat
          <5> HIDE DEF sole
          <5>1. QED
            BY <2>2, <2>7
        <4>2. IsFiniteSet(1..Len(all))
          BY <4>1, FS_Interval
        <4>3. QED
          BY <4>1, <4>2, FS_Subset
      <3> HIDE DEF sole
      <3>2. PICK x : sole = {x}
        BY <2>7, <3>1, FS_Singleton
      <3>3. QED
        BY <2>11, <3>2
    <2>13. QED
      BY <2>4, <2>5, <2>8, <2>12 DEF IsWon
  <1>2. QED
    BY <1>1, ListedInvariant, PTL

--------------------------------------------------------------------------------
(* An entry of a package list, with the uid of the service it is from.     *)
Entries == [module : ModuleType, uid : Publishers]

PublishedLists == UNION {PackageConfigs(s) : s \in Publishers}

\* A list of what services publish, each of them once.
IsPublished(list) ==
    /\ list \in Seq(PublishedLists)
    /\ \A i, j \in 1..Len(list) : list[i].name = list[j].name => i = j

LEMMA PublishedListIs ==
    ASSUME NEW config \in PublishedLists
    PROVE  /\ config.name \in Publishers /\ config.uid = config.name
           /\ config.modules \in Seq(ModuleType)
           /\ \A i, j \in DOMAIN config.modules :
                config.modules[i].path = config.modules[j].path => i = j
  <1>1. PICK s \in Publishers, modules \in ModuleLists :
           config = [name |-> s, uid |-> s, modules |-> modules]
    BY DEF PublishedLists, PackageConfigs
  <1>2. config.name = s /\ config.uid = s /\ config.modules = modules
    BY <1>1
  <1>3. QED
    BY <1>2, ImportMapAssumption

(* The entries of such a list: no two of them have the same url.           *)
HaveOwnUrls(entries) == \A d, e \in entries : Url(d) = Url(e) => d = e

LEMMA EntriesIn ==
    ASSUME NEW list, IsPublished(list)
    PROVE  /\ Modules(list) \in Seq(Entries)
           /\ HaveOwnUrls(ToSet(Modules(list)))
           /\ list = <<>> => ToSet(Modules(list)) = {}
  <1> DEFINE n == Len(list)
             part(i) == [j \in DOMAIN list[i].modules |->
                            [module |-> list[i].modules[j], uid |-> list[i].uid]]
             parts == [i \in DOMAIN list |-> part(i)]
  <1>1. Modules(list) = FlattenSeq(parts)
    BY Zenon DEF Modules
  <1>2. n \in Nat /\ DOMAIN list = 1..n /\ \A i \in 1..n : list[i] \in PublishedLists
    BY DEF IsPublished
  <1>3. \A i \in 1..n : /\ list[i].uid \in Publishers /\ list[i].uid = list[i].name
                        /\ list[i].modules \in Seq(ModuleType)
                        /\ \A j, k \in DOMAIN list[i].modules :
                             list[i].modules[j].path = list[i].modules[k].path => j = k
    BY <1>2, PublishedListIs
  <1>4. ASSUME NEW i \in 1..n PROVE part(i) \in Seq(Entries)
    <2> DEFINE m == Len(list[i].modules)
    <2>1. m \in Nat /\ DOMAIN list[i].modules = 1..m
          /\ \A j \in 1..m : list[i].modules[j] \in ModuleType
      BY <1>3
    <2>2. \A j \in 1..m : [module |-> list[i].modules[j], uid |-> list[i].uid] \in Entries
      BY <1>3, <2>1 DEF Entries
    <2>3. part(i) = [j \in 1..m |-> [module |-> list[i].modules[j], uid |-> list[i].uid]]
      BY <2>1
    <2> HIDE DEF part, m
    <2>4. QED
      BY <2>1, <2>2, <2>3
  <1>5. \A i \in 1..n : /\ parts[i] = part(i)
                        /\ ToSet(parts[i]) = {part(i)[j] : j \in DOMAIN list[i].modules}
    BY <1>2 DEF ToSet
  <1>6. \A i \in 1..n : \A j \in DOMAIN list[i].modules :
          /\ part(i)[j].module = list[i].modules[j]
          /\ part(i)[j].uid = list[i].uid
    OBVIOUS
  <1>7. parts \in Seq(Seq(Entries)) /\ Len(parts) = n
    <2>1. parts \in [1..n -> Seq(Entries)]
      BY <1>2, <1>4
    <2> HIDE DEF parts, n
    <2>2. QED
      BY <1>2, <2>1
  <1> HIDE DEF n, part, parts
  <1>8. Modules(list) \in Seq(Entries)
    BY <1>1, <1>7, Flattened
  <1>9. ToSet(Modules(list)) = UNION {ToSet(parts[i]) : i \in 1..n}
    BY <1>1, <1>7, FlattenedHolds
  <1>10. ASSUME NEW d \in ToSet(Modules(list)), NEW e \in ToSet(Modules(list)), Url(d) = Url(e)
         PROVE  d = e
    <2>1. PICK i \in 1..n : \E j \in DOMAIN list[i].modules : d = part(i)[j]
      BY <1>5, <1>9
    <2>2. PICK j \in DOMAIN list[i].modules : d = part(i)[j]
      BY <2>1
    <2>3. PICK k \in 1..n : \E l \in DOMAIN list[k].modules : e = part(k)[l]
      BY <1>5, <1>9
    <2>4. PICK l \in DOMAIN list[k].modules : e = part(k)[l]
      BY <2>3
    <2>5. d.uid = e.uid /\ d.module.path = e.module.path
      BY <1>10 DEF Url
    <2>6. list[i].name = list[k].name
      BY <1>3, <1>6, <2>2, <2>4, <2>5
    <2>7. i = k
      BY <2>6 DEF IsPublished, n
    <2>8. j = l
      BY <1>3, <1>6, <2>2, <2>4, <2>5, <2>7
    <2>9. QED
      BY <2>2, <2>4, <2>7, <2>8
  <1>11. list = <<>> => ToSet(Modules(list)) = {}
    <2> SUFFICES ASSUME list = <<>> PROVE ToSet(Modules(list)) = {}
      OBVIOUS
    <2>1. n = 0
      BY DEF n
    <2>2. 1..n = {}
      BY <2>1
    <2>3. QED
      BY <1>9, <2>2
  <1>12. QED
    BY <1>8, <1>10, <1>11 DEF HaveOwnUrls

(* Packages by their ids: of the entries with one id, one is kept.         *)
IsKept(packages, entries) ==
    /\ IsFiniteSet(DOMAIN packages)
    /\ entries \subseteq Entries
    /\ HaveOwnUrls(entries)
    /\ \A e \in entries : PackageId(e) \in DOMAIN packages
    /\ \A id \in DOMAIN packages : packages[id] \in entries /\ PackageId(packages[id]) = id

LEMMA PackagesKept ==
    ASSUME NEW list, IsPublished(list)
    PROVE  IsKept(MergePackageList(list), ToSet(Modules(list)))
  <1> DEFINE all == Modules(list)
             n == Len(all)
             ids == {PackageId(e) : e \in ToSet(all)}
             last(id) == SelectLastInSeq(all, LAMBDA e : PackageId(e) = id)
             packages == MergePackageList(list)
  <1>1. all \in Seq(Entries) /\ HaveOwnUrls(ToSet(all))
    BY EntriesIn
  <1>2. packages = [id \in ids |-> all[last(id)]]
    BY Zenon DEF MergePackageList
  <1> HIDE DEF all
  <1>3. n \in Nat /\ DOMAIN all = 1..n /\ \A k \in 1..n : all[k] \in Entries
    BY <1>1
  <1> HIDE DEF n
  <1>4. ToSet(all) = {all[k] : k \in 1..n}
    BY <1>3 DEF ToSet
  <1>5. ids = {PackageId(all[k]) : k \in 1..n}
    BY <1>4
  <1>6. ASSUME NEW id \in ids PROVE last(id) \in 1..n /\ PackageId(all[last(id)]) = id
    <2> DEFINE found == {k \in 1..n : PackageId(all[k]) = id}
    <2>1. last(id) = IF found # {} THEN Max(found) ELSE 0
      BY Zenon DEF SelectLastInSeq, n
    <2>2. found # {} /\ found \in SUBSET (1..n)
      BY <1>5
    <2>3. Max(found) \in found
      <3> HIDE DEF found
      <3>1. QED
        BY <1>3, <2>2, MaxPosition
    <2>4. QED
      BY <2>1, <2>2, <2>3
  <1>7. IsFiniteSet(ids)
    <2>1. IsFiniteSet(1..n)
      BY <1>3, FS_Interval
    <2> DEFINE f == [k \in 1..n |-> PackageId(all[k])]
    <2>2. f \in Surjection(1..n, ids)
      BY <1>5 DEF Surjection
    <2>3. QED
      BY <2>1, <2>2, FS_Surjection
  <1>8. \A e \in ToSet(all) : PackageId(e) \in ids
    OBVIOUS
  <1> HIDE DEF ids, last, packages
  <1>9. DOMAIN packages = ids /\ \A id \in ids : packages[id] = all[last(id)]
    BY <1>2
  <1>10. \A id \in ids : packages[id] \in ToSet(all) /\ PackageId(packages[id]) = id
    BY <1>4, <1>6, <1>9
  <1>11. ToSet(all) \subseteq Entries
    BY <1>3, <1>4
  <1>12. IsKept(packages, ToSet(all))
    BY <1>1, <1>7, <1>8, <1>9, <1>10, <1>11 DEF IsKept
  <1>13. QED
    BY <1>12 DEF packages, all

(* What is kept is one package per id, in no case one that throws.         *)
LEMMA KeptFacts ==
    ASSUME NEW packages, NEW entries, IsKept(packages, entries)
    PROVE  /\ \A id \in DOMAIN packages :
                /\ id = <<id[1], id[2]>> /\ id[2] \in Nat /\ id[2] # BadVersion
                /\ packages[id] \in entries /\ packages[id] \in Entries
                /\ packages[id].module.name = id[1]
                /\ packages[id].module.version = id[2]
           /\ \A e \in entries : <<e.module.name, e.module.version>> \in DOMAIN packages
           /\ ~Malformed(packages)
  <1>1. ASSUME NEW id \in DOMAIN packages
        PROVE  /\ id = <<id[1], id[2]>> /\ id[2] \in Nat /\ id[2] # BadVersion
               /\ packages[id] \in entries /\ packages[id] \in Entries
               /\ packages[id].module.name = id[1]
               /\ packages[id].module.version = id[2]
               /\ packages[id].module.hasMain
    <2>1. packages[id] \in entries /\ packages[id] \in Entries /\ PackageId(packages[id]) = id
      BY DEF IsKept
    <2>2. id = <<packages[id].module.name, packages[id].module.version>>
      BY <2>1 DEF PackageId
    <2>3. id[1] = packages[id].module.name /\ id[2] = packages[id].module.version
      BY <2>2
    <2>4. id = <<id[1], id[2]>>
      BY <2>2, <2>3
    <2>5. packages[id].module.version \in Versions /\ packages[id].module.hasMain
      BY <2>1 DEF Entries, ModuleType
    <2>6. id[2] \in Nat /\ id[2] # BadVersion
      BY <2>3, <2>5, ImportMapAssumption
    <2>7. QED
      BY <2>1, <2>3, <2>4, <2>5, <2>6
  <1>2. \A e \in entries : <<e.module.name, e.module.version>> \in DOMAIN packages
    BY DEF IsKept, PackageId
  <1>3. ~Malformed(packages)
    BY <1>1 DEF Malformed
  <1>4. QED
    BY <1>1, <1>2, <1>3

LEMMA MapIs ==
    ASSUME NEW list, IsPublished(list)
    PROVE  /\ CalculateImportMap(list).map.imports = Imports(MergePackageList(list))
           /\ CalculateImportMap(list).map.scopes = Scopes(MergePackageList(list))
  <1> DEFINE packages == MergePackageList(list)
  <1>1. ~Malformed(packages)
    BY PackagesKept, KeptFacts
  <1>2. CalculateImportMap(list) =
          [threw |-> FALSE, map |-> [imports |-> Imports(packages), scopes |-> Scopes(packages)]]
    BY <1>1, Zenon DEF CalculateImportMap
  <1>3. QED
    BY <1>2

(* The imports are reached by adding one package after the other.         *)
ImportsRun(g, S, n, packages, order) ==
    /\ g \in [0..n -> S]
    /\ g[0] = NoEntries
    /\ \A i \in 1..n : g[i] = AddImport(g[i - 1], order[i], packages[order[i]])
    /\ ImportAll(packages, order) = g[n]

LEMMA ImportsReached ==
    ASSUME NEW S, NEW packages, NEW order, NoEntries \in S, NEW n \in Nat,
           DOMAIN order = 1..n,
           \A s \in S, i \in 1..n : AddImport(s, order[i], packages[order[i]]) \in S
    PROVE  \E g : ImportsRun(g, S, n, packages, order)
  <1> DEFINE items == order
             step == [p \in S \X (1..n) |-> AddImport(p[1], items[p[2]], packages[items[p[2]]])]
             Rec(iter) == iter = [s \in SUBSET (1..n) |->
                IF s = {} THEN NoEntries
                ELSE AddImport(iter[s \ {Max(s)}], items[Max(s)], packages[items[Max(s)]])]
             it == CHOOSE iter : Rec(iter)
  <1>1. step \in [S \X (1..n) -> S]
    OBVIOUS
  <1>2. \A s \in S, i \in 1..n : step[<<s, i>>] = AddImport(s, items[i], packages[items[i]])
    OBVIOUS
  <1>3. ImportAll(packages, order) = it[1..n]
    BY Zenon DEF ImportAll, FoldLeft, MapThenFoldSet
  <1>4. \A s \in SUBSET (1..n) : s # {} => Max(s) \in 1..n
    BY MaxPosition
  <1> HIDE DEF items, step
  <1>5. \E iter : Rec(iter)
    <2>1. PICK iter \in [SUBSET (1..n) -> S] :
              \A s \in SUBSET (1..n) : Folded(iter, s, NoEntries, step)
      BY <1>1, FoldExists
    <2>2. \A s \in SUBSET (1..n) :
            iter[s] = IF s = {} THEN NoEntries
                      ELSE AddImport(iter[s \ {Max(s)}], items[Max(s)], packages[items[Max(s)]])
      BY <1>2, <1>4, <2>1 DEF Folded
    <2>3. QED
      BY <2>2
  <1>6. Rec(it)
    BY <1>5
  <1> HIDE DEF it
  <1>7. \A s \in SUBSET (1..n) :
            it[s] = IF s = {} THEN NoEntries
                    ELSE AddImport(it[s \ {Max(s)}], items[Max(s)], packages[items[Max(s)]])
    BY <1>6
  <1> HIDE DEF Rec
  <1>8. IsFold(it, S, NoEntries, n, step)
    BY <1>2, <1>4, <1>7 DEF IsFold, Folded
  <1>9. PICK g : IsRun(g, S, NoEntries, n, step) /\ g[n] = it[1..n]
    <2>1. FoldsTo(S, NoEntries, n, step, it[1..n])
      BY <1>1, <1>8, FoldReaches
    <2>2. QED
      BY <2>1 DEF FoldsTo
  <1>10. /\ g \in [0..n -> S]
         /\ g[0] = NoEntries
         /\ \A i \in 1..n : g[i] = step[<<g[i - 1], i>>]
    BY <1>9 DEF IsRun
  <1>11. \A i \in 1..n : g[i] = AddImport(g[i - 1], items[i], packages[items[i]])
    <2>1. \A i \in 1..n : g[i - 1] \in S
      BY <1>10
    <2>2. QED
      BY <1>2, <1>10, <2>1
  <1>12. QED
    BY <1>3, <1>9, <1>10, <1>11 DEF items, ImportsRun

(* The order the imports are written in has every package once, and no     *)
(* version before a lower one.                                             *)
IsWritten(order, packages) ==
    /\ Len(order) \in Nat /\ DOMAIN order = 1..Len(order)
    /\ \A i \in 1..Len(order) : order[i] \in DOMAIN packages
    /\ \A i, j \in 1..Len(order) : order[i] = order[j] => i = j
    /\ \A i, j \in 1..Len(order) : i < j => order[i][2] <= order[j][2]
    /\ \A id \in DOMAIN packages : \E i \in 1..Len(order) : order[i] = id

LEMMA WrittenInOrder ==
    ASSUME NEW packages, NEW entries, IsKept(packages, entries)
    PROVE  \E order : IsWritten(order, packages) /\ Imports(packages) = ImportAll(packages, order)
  <1> DEFINE K == DOMAIN packages
             rank == [id \in K |-> id[2]]
             order == CHOOSE f \in SetToSeqs(K) : InVersionOrder(f)
             n == Cardinality(K)
  <1>1. IsFiniteSet(K) /\ rank \in [K -> Nat]
    BY KeptFacts DEF IsKept
  <1>2. PICK f : IsSorting(f, K, rank)
    <2> HIDE DEF K, rank
    <2>1. QED
      BY <1>1, SortingExists
  <1>3. f \in SetToSeqs(K) /\ InVersionOrder(f)
    <2>1. /\ f \in [1..n -> K]
          /\ \A i, j \in 1..n : i # j => f[i] # f[j]
          /\ \A i, j \in 1..n : i < j => rank[f[i]] <= rank[f[j]]
      BY <1>2, Zenon DEF IsSorting
    <2>2. f \in SetToSeqs(K)
      BY <2>1, Zenon DEF SetToSeqs
    <2>3. DOMAIN f = 1..n /\ \A i \in 1..n : rank[f[i]] = f[i][2]
      BY <2>1
    <2>4. QED
      BY <2>1, <2>2, <2>3 DEF InVersionOrder
  <1>4. order \in SetToSeqs(K) /\ InVersionOrder(order)
    BY <1>3
  <1>5. Imports(packages) = ImportAll(packages, order)
    BY Zenon DEF Imports
  <1> HIDE DEF order, n, K
  <1>6. order \in [1..n -> K] /\ \A i, j \in 1..n : i # j => order[i] # order[j]
    BY <1>4, Zenon DEF SetToSeqs, n
  <1>7. n \in Nat
    BY <1>1, FS_CardinalityType DEF n
  <1>8. DOMAIN order = 1..n /\ Len(order) = n /\ \A i \in 1..n : order[i] \in K
    BY <1>6, <1>7
  <1>9. \A i, j \in 1..n : i < j => order[i][2] <= order[j][2]
    BY <1>4, <1>8 DEF InVersionOrder
  <1>10. \A id \in K : \E i \in 1..n : order[i] = id
    <2>1. IsFiniteSet(1..n) /\ Cardinality(1..n) = n
      BY <1>7, FS_Interval
    <2>2. order \in Injection(1..n, K)
      BY <1>6 DEF Injection, IsInjective
    <2>3. order \in Surjection(1..n, K)
      BY <1>1, <2>1, <2>2, FS_Injection, <1>7 DEF n
    <2>4. QED
      BY <2>3 DEF Surjection
  <1>11. IsWritten(order, packages)
    BY <1>6, <1>7, <1>8, <1>9, <1>10 DEF IsWritten, K
  <1>12. QED
    BY <1>5, <1>11

(* After some of the packages: each has its own key, and the bare name     *)
(* leads to the highest version written so far.                            *)
LeadsUpto(imports, packages, order, i) ==
    /\ DOMAIN imports = UNION {{order[k], <<order[k][1]>>} : k \in 1..i}
    /\ \A k \in 1..i : imports[order[k]] = Url(packages[order[k]])
    /\ \A k \in 1..i : \E l \in 1..i :
        /\ order[l][1] = order[k][1]
        /\ imports[<<order[k][1]>>] = Url(packages[order[l]])
        /\ \A m \in 1..i : order[m][1] = order[k][1] => order[m][2] <= order[l][2]

LEMMA LeadsNext ==
    ASSUME NEW packages, NEW entries, IsKept(packages, entries),
           NEW order, IsWritten(order, packages),
           NEW i \in 0..Len(order), i < Len(order),
           NEW imports, LeadsUpto(imports, packages, order, i),
           NEW next, next = AddImport(imports, order[i + 1], packages[order[i + 1]])
    PROVE  LeadsUpto(next, packages, order, i + 1)
  <1> DEFINE id == order[i + 1]
             bare == <<id[1]>>
  <1>1. /\ i \in Nat /\ i + 1 \in 1..Len(order)
        /\ \A k \in 1..(i + 1) : k \in 1..Len(order) /\ (k \in 1..i \/ k = i + 1)
        /\ \A k \in 1..i : k \in 1..(i + 1) /\ k < i + 1 /\ k # i + 1
        /\ 1..(i + 1) = (1..i) \cup {i + 1}
    BY DEF IsWritten
  <1>2. \A k \in 1..(i + 1) : /\ order[k] \in DOMAIN packages
                              /\ order[k] = <<order[k][1], order[k][2]>>
                              /\ order[k][2] \in Nat
    BY <1>1, KeptFacts DEF IsWritten
  <1>3. \A a, b, c : <<a>> # <<b, c>>
    <2>1. \A a, b, c : Len(<<a>>) = 1 /\ Len(<<b, c>>) = 2
      OBVIOUS
    <2>2. QED
      BY <2>1
  <1>4. \A k, l \in 1..(i + 1) : order[k] # <<order[l][1]>>
    BY <1>2, <1>3
  <1>5. \A k \in 1..i : order[k] # id
    BY <1>1 DEF IsWritten
  <1>6. /\ DOMAIN next = DOMAIN imports \cup {bare, id}
        /\ \A key \in DOMAIN next :
             next[key] = IF key \in {bare, id} THEN Url(packages[id]) ELSE imports[key]
    BY DEF AddImport
  <1>7. /\ DOMAIN imports = UNION {{order[k], <<order[k][1]>>} : k \in 1..i}
        /\ \A k \in 1..i : imports[order[k]] = Url(packages[order[k]])
        /\ \A k \in 1..i : \E l \in 1..i :
             /\ order[l][1] = order[k][1]
             /\ imports[<<order[k][1]>>] = Url(packages[order[l]])
             /\ \A m \in 1..i : order[m][1] = order[k][1] => order[m][2] <= order[l][2]
    BY DEF LeadsUpto
  <1>8. DOMAIN next = UNION {{order[k], <<order[k][1]>>} : k \in 1..(i + 1)}
    BY <1>1, <1>6, <1>7
  <1>9. \A k \in 1..(i + 1) : order[k] \in DOMAIN next /\ <<order[k][1]>> \in DOMAIN next
    BY <1>8
  <1>10. ASSUME NEW k \in 1..(i + 1) PROVE next[order[k]] = Url(packages[order[k]])
    <2>1. CASE k = i + 1
      BY <1>6, <1>9, <2>1
    <2>2. CASE k \in 1..i
      <3>1. order[k] # id /\ order[k] # bare
        BY <1>1, <1>4, <1>5, <2>2
      <3>2. next[order[k]] = imports[order[k]]
        BY <1>6, <1>9, <3>1
      <3>3. QED
        BY <1>7, <2>2, <3>2
    <2>3. QED
      BY <1>1, <2>1, <2>2
  <1>11. ASSUME NEW k \in 1..(i + 1)
         PROVE  \E l \in 1..(i + 1) :
                  /\ order[l][1] = order[k][1]
                  /\ next[<<order[k][1]>>] = Url(packages[order[l]])
                  /\ \A m \in 1..(i + 1) :
                       order[m][1] = order[k][1] => order[m][2] <= order[l][2]
    <2>1. CASE order[k][1] = id[1]
      <3>1. next[<<order[k][1]>>] = Url(packages[id])
        BY <1>6, <1>9, <2>1
      <3>2. \A m \in 1..(i + 1) : order[m][2] <= order[i + 1][2]
        BY <1>1, <1>2 DEF IsWritten
      <3>3. QED
        BY <1>1, <2>1, <3>1, <3>2
    <2>2. CASE order[k][1] # id[1]
      <3>1. k \in 1..i
        BY <1>1, <2>2
      <3>2. <<order[k][1]>> # bare /\ <<order[k][1]>> # id
        <4>1. \A a, b : <<a>> = <<b>> => a = b
          OBVIOUS
        <4>2. QED
          BY <1>1, <1>4, <2>2, <4>1
      <3>3. next[<<order[k][1]>>] = imports[<<order[k][1]>>]
        BY <1>6, <1>9, <3>2
      <3>4. PICK l \in 1..i :
              /\ order[l][1] = order[k][1]
              /\ imports[<<order[k][1]>>] = Url(packages[order[l]])
              /\ \A m \in 1..i : order[m][1] = order[k][1] => order[m][2] <= order[l][2]
        BY <1>7, <3>1
      <3>5. \A m \in 1..(i + 1) : order[m][1] = order[k][1] => order[m][2] <= order[l][2]
        BY <1>1, <2>2, <3>4
      <3>6. QED
        BY <1>1, <3>3, <3>4, <3>5
    <2>3. QED
      BY <2>1, <2>2
  <1>12. QED
    BY <1>8, <1>10, <1>11 DEF LeadsUpto

(* So the imports of the packages are: each package under its id, and the  *)
(* highest version of each name under the bare name.                       *)
LEMMA ImportsAre ==
    ASSUME NEW packages, NEW entries, IsKept(packages, entries)
    PROVE  LET imports == Imports(packages)
           IN  /\ DOMAIN imports = UNION {{id, <<id[1]>>} : id \in DOMAIN packages}
               /\ \A id \in DOMAIN packages : imports[id] = Url(packages[id])
               /\ \A id \in DOMAIN packages : \E top \in DOMAIN packages :
                    /\ top[1] = id[1]
                    /\ imports[<<id[1]>>] = Url(packages[top])
                    /\ \A other \in DOMAIN packages : other[1] = id[1] => other[2] <= top[2]
  <1> DEFINE K == DOMAIN packages
             links == {Url(packages[id]) : id \in K}
             keys == K \cup {<<id[1]>> : id \in K}
             S == UNION {[D -> links] : D \in SUBSET keys}
  <1>1. PICK order : IsWritten(order, packages) /\ Imports(packages) = ImportAll(packages, order)
    BY WrittenInOrder
  <1> DEFINE n == Len(order)
  <1>2. /\ n \in Nat /\ DOMAIN order = 1..n /\ \A i \in 1..n : order[i] \in K
        /\ \A id \in K : \E i \in 1..n : order[i] = id
    BY <1>1 DEF IsWritten
  <1>3. NoEntries \in S
    <2>1. NoEntries \in [{} -> links] /\ {} \in SUBSET keys
      BY DEF NoEntries
    <2> HIDE DEF links, keys
    <2>2. QED
      BY <2>1
  <1>4. ASSUME NEW s \in S, NEW id \in K PROVE AddImport(s, id, packages[id]) \in S
    <2>1. PICK D \in SUBSET keys : s \in [D -> links]
      OBVIOUS
    <2> DEFINE D2 == D \cup {<<id[1]>>, id}
    <2>2. D2 \in SUBSET keys /\ Url(packages[id]) \in links
      OBVIOUS
    <2> HIDE DEF keys, links
    <2>3. AddImport(s, id, packages[id]) \in [D2 -> links]
      BY <2>1, <2>2 DEF AddImport
    <2>4. QED
      BY <2>2, <2>3
  <1> HIDE DEF S, n, K
  <1>5. PICK g : /\ g[0] = NoEntries
                 /\ \A i \in 1..n : g[i] = AddImport(g[i - 1], order[i], packages[order[i]])
                 /\ ImportAll(packages, order) = g[n]
    <2>1. \A s \in S, i \in 1..n : AddImport(s, order[i], packages[order[i]]) \in S
      BY <1>2, <1>4
    <2>2. \E g : ImportsRun(g, S, n, packages, order)
      BY <1>2, <1>3, <2>1, ImportsReached
    <2>3. QED
      BY <2>2 DEF ImportsRun
  <1> DEFINE right == {i \in 0..n : LeadsUpto(g[i], packages, order, i)}
  <1>6. 0 \in right
    <2>1. LeadsUpto(NoEntries, packages, order, 0)
      BY DEF LeadsUpto, NoEntries
    <2>2. QED
      BY <1>2, <1>5, <2>1
  <1>7. ASSUME NEW i \in 0..n, i < n, i \in right PROVE i + 1 \in right
    <2>1. i + 1 \in 1..n /\ i + 1 \in 0..n /\ (i + 1) - 1 = i
      BY <1>2, <1>7
    <2>2. g[i + 1] = AddImport(g[i], order[i + 1], packages[order[i + 1]])
      BY <1>5, <2>1
    <2>3. LeadsUpto(g[i], packages, order, i)
      BY <1>7
    <2>4. LeadsUpto(g[i + 1], packages, order, i + 1)
      BY <1>1, <1>7, <2>2, <2>3, LeadsNext DEF n
    <2>5. QED
      BY <2>1, <2>4
  <1>8. n \in right
    <2> HIDE DEF right
    <2>1. \A i \in 0..n : i \in right
      BY <1>2, <1>6, <1>7, UpTo
    <2>2. QED
      BY <1>2, <2>1
  <1> DEFINE imports == Imports(packages)
  <1>9. imports = g[n]
    BY <1>1, <1>5
  <1> HIDE DEF imports
  <1>10. /\ DOMAIN imports = UNION {{order[k], <<order[k][1]>>} : k \in 1..n}
         /\ \A k \in 1..n : imports[order[k]] = Url(packages[order[k]])
         /\ \A k \in 1..n : \E l \in 1..n :
              /\ order[l][1] = order[k][1]
              /\ imports[<<order[k][1]>>] = Url(packages[order[l]])
              /\ \A m \in 1..n : order[m][1] = order[k][1] => order[m][2] <= order[l][2]
    BY <1>8, <1>9 DEF LeadsUpto
  <1>11. DOMAIN imports = UNION {{id, <<id[1]>>} : id \in K}
    BY <1>2, <1>10
  <1>12. \A id \in K : imports[id] = Url(packages[id])
    BY <1>2, <1>10
  <1>13. ASSUME NEW id \in K
         PROVE  \E top \in K :
                  /\ top[1] = id[1]
                  /\ imports[<<id[1]>>] = Url(packages[top])
                  /\ \A other \in K : other[1] = id[1] => other[2] <= top[2]
    <2>1. PICK k \in 1..n : order[k] = id
      BY <1>2
    <2>2. PICK l \in 1..n :
            /\ order[l][1] = order[k][1]
            /\ imports[<<order[k][1]>>] = Url(packages[order[l]])
            /\ \A m \in 1..n : order[m][1] = order[k][1] => order[m][2] <= order[l][2]
      BY <1>10
    <2>3. \A other \in K : other[1] = id[1] => other[2] <= order[l][2]
      BY <1>2, <2>1, <2>2
    <2>4. QED
      BY <1>2, <2>1, <2>2, <2>3
  <1>14. QED
    BY <1>11, <1>12, <1>13 DEF imports, K

(* The versions of a name among the packages that lie in a range.          *)
Offered(name, range, packages) ==
    {id[2] : id \in {k \in DOMAIN packages : k[1] = name}} \cap range

(* A dependency is resolved just when some version is in its range, and to *)
(* the highest of those.                                                   *)
LEMMA ResolvedIs ==
    ASSUME NEW packages, NEW entries, IsKept(packages, entries), NEW name, NEW range
    PROVE  LET offered == Offered(name, range, packages)
           IN  /\ Resolvable(name, range, packages) <=> offered # {}
               /\ offered # {} =>
                    /\ Max(offered) \in offered
                    /\ <<name, Max(offered)>> \in DOMAIN packages
                    /\ ResolveVersion(name, range, packages) = packages[<<name, Max(offered)>>]
  <1> DEFINE offered == Offered(name, range, packages)
             fitting == Satisfying(name, range, packages)
             Exact == \E v \in range : range = {v} /\ <<name, v>> \in DOMAIN packages
  <1>1. \A id \in DOMAIN packages : id = <<id[1], id[2]>> /\ id[2] \in Nat /\ id[2] # BadVersion
    BY KeptFacts
  <1>2. fitting = {id \in DOMAIN packages : id[1] = name /\ id[2] \in range}
    BY <1>1 DEF Satisfying
  <1>3. offered = {id[2] : id \in fitting}
    BY <1>2 DEF Offered
  <1>4. Resolvable(name, range, packages) <=> Exact \/ fitting # {}
    BY DEF Resolvable
  <1>5. Exact => offered # {}
    BY <1>1, <1>2, <1>3
  <1>6. Resolvable(name, range, packages) <=> offered # {}
    BY <1>3, <1>4, <1>5
  <1>7. ASSUME NEW v \in offered PROVE <<name, v>> \in DOMAIN packages /\ v \in range
    <2>1. PICK id \in DOMAIN packages : id[1] = name /\ id[2] \in range /\ id[2] = v
      BY <1>2, <1>3
    <2>2. QED
      BY <1>1, <2>1
  <1>8. ASSUME offered # {} PROVE Max(offered) \in offered
    <2>1. offered \subseteq Nat
      BY <1>1, <1>2, <1>3
    <2>2. IsFiniteSet(offered)
      <3>1. IsFiniteSet(fitting)
        BY <1>2, FS_Subset DEF IsKept
      <3> DEFINE f == [id \in fitting |-> id[2]]
      <3>2. f \in Surjection(fitting, offered)
        BY <1>3 DEF Surjection
      <3>3. QED
        BY <3>1, <3>2, FS_Surjection
    <2> HIDE DEF offered
    <2>3. QED
      BY <1>8, <2>1, <2>2, LargestElement
  <1> DEFINE versions == {id[2] : id \in Satisfying(name, range, packages)}
  <1>9. ResolveVersion(name, range, packages) =
          IF Exact THEN packages[<<name, CHOOSE v \in range : TRUE>>]
          ELSE packages[<<name, Max(versions)>>]
    BY Zenon DEF ResolveVersion
  <1>10. versions = offered
    BY <1>3
  <1>11. Exact => (CHOOSE v \in range : TRUE) \in range
    OBVIOUS
  <1>12. ASSUME Exact, offered # {} PROVE (CHOOSE v \in range : TRUE) = Max(offered)
    BY <1>7, <1>8, <1>11, <1>12
  <1> HIDE DEF offered, versions, fitting, Exact
  <1>13. ASSUME offered # {}
         PROVE  /\ Max(offered) \in offered
                /\ <<name, Max(offered)>> \in DOMAIN packages
                /\ ResolveVersion(name, range, packages) = packages[<<name, Max(offered)>>]
    <2>1. ResolveVersion(name, range, packages) = packages[<<name, Max(offered)>>]
      BY <1>9, <1>10, <1>12, <1>13
    <2>2. QED
      BY <1>7, <1>8, <1>13, <2>1
  <1>14. QED
    BY <1>6, <1>13 DEF offered

(* Every package with dependencies has the scope of its own, which no      *)
(* other package shares, since no two have the same url.                   *)
LEMMA ScopesAre ==
    ASSUME NEW packages, NEW entries, IsKept(packages, entries)
    PROVE  /\ \A url \in DOMAIN Scopes(packages) :
                \E id \in DOMAIN packages : Url(packages[id]) = url
           /\ \A id \in DOMAIN packages : DOMAIN packages[id].module.deps # {} =>
                Url(packages[id]) \in DOMAIN Scopes(packages)
           /\ \A id \in DOMAIN packages : Url(packages[id]) \in DOMAIN Scopes(packages) =>
                Scopes(packages)[Url(packages[id])] = Scope(packages[id], packages)
  <1> DEFINE scopes == Scopes(packages)
             dependent == {id \in DOMAIN packages : DOMAIN packages[id].module.deps # {}}
             urls == {Url(packages[id]) : id \in dependent}
             pick(url) == CHOOSE id \in dependent : Url(packages[id]) = url
  <1>1. scopes = [u \in {Url(packages[id]) : id \in dependent} |->
                    Scope(packages[pick(u)], packages)]
    BY Zenon DEF Scopes
  <1>2. DOMAIN scopes = urls /\ \A u \in urls : scopes[u] = Scope(packages[pick(u)], packages)
    BY <1>1
  <1>3. \A u \in urls : pick(u) \in dependent /\ Url(packages[pick(u)]) = u
    OBVIOUS
  <1> HIDE DEF scopes, pick
  <1>4. ASSUME NEW id \in DOMAIN packages, Url(packages[id]) \in urls
        PROVE  pick(Url(packages[id])) = id
    <2> DEFINE u == Url(packages[id])
               p == pick(u)
    <2>1. p \in DOMAIN packages /\ Url(packages[p]) = Url(packages[id])
      BY <1>3, <1>4
    <2> HIDE DEF p
    <2>2. packages[p] = packages[id]
      BY <2>1 DEF IsKept, HaveOwnUrls
    <2>3. p = id
      BY <2>1, <2>2 DEF IsKept
    <2>4. QED
      BY <2>3 DEF p
  <1>5. \A url \in urls : \E id \in DOMAIN packages : Url(packages[id]) = url
    OBVIOUS
  <1>6. \A id \in DOMAIN packages :
          DOMAIN packages[id].module.deps # {} => Url(packages[id]) \in urls
    OBVIOUS
  <1> HIDE DEF urls
  <1>7. \A id \in DOMAIN packages :
          Url(packages[id]) \in urls => scopes[Url(packages[id])] = Scope(packages[id], packages)
    BY <1>2, <1>4
  <1>8. QED
    BY <1>2, <1>5, <1>6, <1>7 DEF scopes

LEMMA ScopeIs ==
    ASSUME NEW packages, NEW entries, IsKept(packages, entries), NEW id \in DOMAIN packages
    PROVE  LET deps  == packages[id].module.deps
               scope == Scope(packages[id], packages)
           IN  /\ DOMAIN scope = {name \in DOMAIN deps : Offered(name, deps[name], packages) # {}}
               /\ \A name \in DOMAIN scope :
                    LET highest == <<name, Max(Offered(name, deps[name], packages))>>
                    IN  /\ highest \in DOMAIN packages
                        /\ highest[2] \in Offered(name, deps[name], packages)
                        /\ scope[name] = Url(packages[highest])
  <1> DEFINE package == packages[id]
             deps == package.module.deps
             found == {name \in DOMAIN deps : Resolvable(name, deps[name], packages)}
             scope == Scope(package, packages)
  <1>1. scope = [name \in found |-> Url(ResolveVersion(name, deps[name], packages))]
    BY Zenon DEF Scope
  <1> HIDE DEF scope
  <1>2. /\ DOMAIN scope = found
        /\ \A name \in found : scope[name] = Url(ResolveVersion(name, deps[name], packages))
    BY <1>1
  <1> HIDE DEF package, deps
  <1>3. found = {name \in DOMAIN deps : Offered(name, deps[name], packages) # {}}
    BY ResolvedIs
  <1> HIDE DEF found
  <1>4. ASSUME NEW name \in DOMAIN scope
        PROVE  LET highest == <<name, Max(Offered(name, deps[name], packages))>>
               IN  /\ highest \in DOMAIN packages
                   /\ highest[2] \in Offered(name, deps[name], packages)
                   /\ scope[name] = Url(packages[highest])
    <2>1. Offered(name, deps[name], packages) # {}
      BY <1>2, <1>3
    <2>2. LET offered == Offered(name, deps[name], packages)
          IN  /\ Max(offered) \in offered
              /\ <<name, Max(offered)>> \in DOMAIN packages
              /\ ResolveVersion(name, deps[name], packages) = packages[<<name, Max(offered)>>]
      BY <2>1, ResolvedIs
    <2>3. QED
      BY <1>2, <2>2
  <1>5. QED
    BY <1>2, <1>3, <1>4 DEF scope, package, deps

(* The state: what is published, and the map calculated from it.           *)
PackagesInv ==
    /\ IsPublished(packageList)
    /\ \/ importMap = CalculateImportMap(packageList).map
       \/ packageList = <<>> /\ importMap = EmptyImportMap

LEMMA PackagesInvariant == ImportSpec => []PackagesInv
  <1>1. NoPackages => PackagesInv
    <2> SUFFICES ASSUME NoPackages PROVE PackagesInv
      OBVIOUS
    <2>1. packageList = <<>> /\ importMap = EmptyImportMap
      BY DEF NoPackages
    <2>2. IsPublished(<<>>)
      BY DEF IsPublished
    <2>3. QED
      BY <2>1, <2>2 DEF PackagesInv
  <1>2. PackagesInv /\ [PackagesArrive]_packageVars => PackagesInv'
    <2> SUFFICES ASSUME PackagesInv, [PackagesArrive]_packageVars PROVE PackagesInv'
      OBVIOUS
    <2>1. CASE UNCHANGED packageVars
      BY <2>1 DEF PackagesInv, packageVars
    <2>2. CASE PackagesArrive
      <3> DEFINE n == Len(packageList)
      <3>1. PICK service \in Publishers : UpdatePackages(service)
        BY <2>2 DEF PackagesArrive
      <3>2. /\ packageList \in Seq(PublishedLists) /\ n \in Nat
            /\ \A i, j \in 1..n : packageList[i].name = packageList[j].name => i = j
            /\ \A i \in 1..n : packageList[i] \in PublishedLists
        BY DEF PackagesInv, IsPublished
      <3>3. \A config \in PackageConfigs(service) :
              config \in PublishedLists /\ config.name = service
        BY DEF PackageConfigs, PublishedLists
      <3> DEFINE found == {i \in 1..n : packageList[i].name = service}
                 at == PositionOf(service)
      <3>4. at = IF found # {} THEN Min(found) ELSE 0
        BY Zenon DEF PositionOf, SelectInSeq
      <3>5. found # {} => Min(found) \in found
        <4>1. found \in SUBSET (1..n)
          OBVIOUS
        <4> HIDE DEF found
        <4>2. QED
          BY <3>2, <4>1, MinPosition
      <3>6. importMap' = CalculateImportMap(packageList').map
        BY <3>1 DEF UpdatePackages
      <3> HIDE DEF at
      <3>7. CASE at = 0
        <4>1. PICK config \in PackageConfigs(service) : packageList' = Append(packageList, config)
          BY <3>1, <3>7 DEF UpdatePackages, at
        <4>2. \A i \in 1..n : packageList[i].name # service
          <5>1. found = {}
            BY <3>4, <3>5, <3>7
          <5>2. QED
            BY <5>1
        <4>3. /\ packageList' \in Seq(PublishedLists) /\ Len(packageList') = n + 1
              /\ packageList'[n + 1] = config
              /\ \A i \in 1..n : packageList'[i] = packageList[i]
          BY <3>2, <3>3, <4>1
        <4> HIDE DEF n
        <4>4. \A i \in 1..(n + 1) : i \in 1..n \/ i = n + 1
          BY <3>2
        <4>5. \A i, j \in 1..(n + 1) : packageList'[i].name = packageList'[j].name => i = j
          BY <3>2, <3>3, <4>2, <4>3, <4>4
        <4>6. QED
          BY <3>6, <4>3, <4>5 DEF PackagesInv, IsPublished
      <3>8. CASE at # 0
        <4>1. at \in 1..n /\ packageList[at].name = service
          BY <3>4, <3>5, <3>8
        <4>2. at > 0
          BY <4>1, <3>2
        <4>3. PICK config \in PackageConfigs(service) :
                packageList' = [packageList EXCEPT ![at] = config]
          BY <3>1, <3>8, <4>2 DEF UpdatePackages, at
        <4>4. /\ packageList' \in Seq(PublishedLists) /\ Len(packageList') = n
              /\ \A i \in 1..n : packageList'[i] = IF i = at THEN config ELSE packageList[i]
          BY <3>2, <3>3, <4>1, <4>3
        <4> HIDE DEF n
        <4>5. \A i \in 1..n : packageList'[i].name = packageList[i].name
          BY <3>3, <4>1, <4>4
        <4>6. \A i, j \in 1..n : packageList'[i].name = packageList'[j].name => i = j
          BY <3>2, <4>5
        <4>7. QED
          BY <3>6, <4>4, <4>6 DEF PackagesInv, IsPublished
      <3>9. QED
        BY <3>7, <3>8
    <2>3. QED
      BY <2>1, <2>2
  <1>3. QED
    BY <1>1, <1>2, PTL DEF ImportSpec

\* What the map of a state is made of.
IsMapped(packages) ==
    /\ IsKept(packages, Provided)
    /\ importMap.imports = Imports(packages)
    /\ importMap.scopes = Scopes(packages)

LEMMA Mapped ==
    ASSUME PackagesInv
    PROVE  \/ IsMapped(MergePackageList(packageList))
           \/ /\ Provided = {}
              /\ DOMAIN importMap.imports = {} /\ DOMAIN importMap.scopes = {}
  <1>1. CASE importMap = CalculateImportMap(packageList).map
    BY <1>1, PackagesKept, MapIs DEF PackagesInv, IsMapped, Provided
  <1>2. CASE packageList = <<>> /\ importMap = EmptyImportMap
    <2>1. Provided = {}
      BY <1>2, EntriesIn DEF PackagesInv, Provided
    <2>2. DOMAIN importMap.imports = {} /\ DOMAIN importMap.scopes = {}
      BY <1>2 DEF EmptyImportMap, NoEntries
    <2>3. QED
      BY <2>1, <2>2
  <1>3. QED
    BY <1>1, <1>2 DEF PackagesInv

(* The versions of a name are those of its packages: of two services that  *)
(* publish the same version, one is kept.                                  *)
LEMMA VersionsAre ==
    ASSUME NEW packages, IsKept(packages, Provided), NEW name
    PROVE  VersionsOf(name) = {id[2] : id \in {k \in DOMAIN packages : k[1] = name}}
  <1>1. \A id \in DOMAIN packages : /\ packages[id] \in Provided
                                    /\ packages[id].module.name = id[1]
                                    /\ packages[id].module.version = id[2]
    BY KeptFacts
  <1>2. \A e \in Provided : <<e.module.name, e.module.version>> \in DOMAIN packages
    BY KeptFacts
  <1>3. ASSUME NEW v \in VersionsOf(name)
        PROVE  \E id \in DOMAIN packages : id[1] = name /\ id[2] = v
    <2>1. PICK e \in Provided : e.module.name = name /\ e.module.version = v
      BY DEF VersionsOf, Providing
    <2>2. <<name, v>> \in DOMAIN packages
      BY <1>2, <2>1
    <2>3. <<name, v>>[1] = name /\ <<name, v>>[2] = v
      OBVIOUS
    <2>4. QED
      BY <2>2, <2>3
  <1>4. ASSUME NEW id \in DOMAIN packages, id[1] = name PROVE id[2] \in VersionsOf(name)
    BY <1>1, <1>4 DEF VersionsOf, Providing
  <1>5. QED
    BY <1>3, <1>4

LEMMA MaxIs ==
    ASSUME NEW T, T \subseteq Nat, NEW m \in T, \A k \in T : k <= m
    PROVE  Max(T) = m
  <1> DEFINE most == Max(T)
  <1>1. \A k \in T : m >= k
    OBVIOUS
  <1>2. most \in T /\ \A k \in T : most >= k
    BY <1>1, Zenon DEF Max
  <1> HIDE DEF most
  <1>3. most \in Nat /\ m \in Nat /\ most >= m /\ most <= m
    BY <1>2
  <1>4. most = m
    BY <1>3
  <1>5. QED
    BY <1>4 DEF most

(* Whatever the services publish, in whatever order it arrives and however *)
(* often it is replaced: every name that is published is imported, and its *)
(* bare name leads to a module of the highest version any service has.     *)
THEOREM HighestIsImported == ImportSpec => []TopLevelIsHighest
  <1>1. PackagesInv => TopLevelIsHighest
    <2> SUFFICES ASSUME PackagesInv PROVE TopLevelIsHighest
      OBVIOUS
    <2> DEFINE packages == MergePackageList(packageList)
               names == {e.module.name : e \in Provided}
               K == DOMAIN packages
    <2>1. CASE Provided = {} /\ DOMAIN importMap.imports = {}
      BY <2>1 DEF TopLevelIsHighest
    <2>2. CASE IsMapped(packages)
      <3>1. IsKept(packages, Provided) /\ importMap.imports = Imports(packages)
        BY <2>2 DEF IsMapped
      <3> DEFINE imports == importMap.imports
      <3>a. imports = Imports(packages)
        BY <3>1
      <3> HIDE DEF packages, imports
      <3>2. /\ DOMAIN imports = UNION {{id, <<id[1]>>} : id \in K}
            /\ \A id \in K : \E top \in K :
                 /\ top[1] = id[1]
                 /\ imports[<<id[1]>>] = Url(packages[top])
                 /\ \A other \in K : other[1] = id[1] => other[2] <= top[2]
        BY <3>1, <3>a, ImportsAre
      <3>3. \A id \in K : /\ packages[id] \in Provided
                          /\ packages[id].module.name = id[1]
                          /\ packages[id].module.version = id[2]
                          /\ id[2] \in Nat
        BY <3>1, KeptFacts
      <3>4. \A e \in Provided : <<e.module.name, e.module.version>> \in K
        BY <3>1, KeptFacts
      <3> HIDE DEF K
      <3>5. names = {id[1] : id \in K}
        <4>1. \A e \in Provided : \E id \in K : id[1] = e.module.name
          <5>1. \A a, b : <<a, b>>[1] = a
            OBVIOUS
          <5>2. QED
            BY <3>4, <5>1
        <4>2. QED
          BY <3>3, <4>1
      <3>6. {key[1] : key \in DOMAIN imports} = names
        <4>1. \A a : <<a>>[1] = a
          OBVIOUS
        <4>2. {key[1] : key \in DOMAIN imports} = {id[1] : id \in K}
          BY <3>2, <4>1
        <4>3. QED
          BY <3>5, <4>2
      <3>7. ASSUME NEW name \in names
            PROVE  \E e \in Providing(name) : /\ e.module.version = Max(VersionsOf(name))
                                              /\ imports[<<name>>] = Url(e)
        <4>1. PICK id \in K : id[1] = name
          BY <3>5
        <4>2. PICK top \in K : /\ top[1] = name
                               /\ imports[<<name>>] = Url(packages[top])
                               /\ \A other \in K : other[1] = name => other[2] <= top[2]
          BY <3>2, <4>1
        <4> DEFINE versions == {k[2] : k \in {l \in K : l[1] = name}}
        <4>3. versions \subseteq Nat /\ top[2] \in versions /\ \A v \in versions : v <= top[2]
          BY <3>3, <4>2
        <4>4. VersionsOf(name) = versions
          BY <3>1, VersionsAre DEF K
        <4> HIDE DEF versions
        <4>5. Max(VersionsOf(name)) = top[2]
          BY <4>3, <4>4, MaxIs
        <4>6. packages[top] \in Providing(name) /\ packages[top].module.version = top[2]
          BY <3>3, <4>2 DEF Providing
        <4>7. QED
          BY <4>2, <4>5, <4>6
      <3> HIDE DEF names
      <3>8. QED
        BY <3>6, <3>7 DEF TopLevelIsHighest, names, imports
    <2>3. QED
      BY <2>1, <2>2, Mapped
  <1>2. QED
    BY <1>1, PackagesInvariant, PTL

(* A scope maps a dependency just when some version is in its range, and   *)
(* then to the highest of those.                                           *)
THEOREM RangesAreSatisfied == ImportSpec => []ScopesSatisfyRanges
  <1>1. PackagesInv => ScopesSatisfyRanges
    <2> SUFFICES ASSUME PackagesInv, NEW url \in DOMAIN importMap.scopes
                 PROVE  \E dependent \in Provided :
                          /\ Url(dependent) = url
                          /\ \A name \in DOMAIN dependent.module.deps :
                               LET offered == VersionsOf(name) \cap dependent.module.deps[name]
                               IN  IF offered = {}
                                   THEN name \notin DOMAIN importMap.scopes[url]
                                   ELSE \E e \in Providing(name) :
                                          /\ e.module.version = Max(offered)
                                          /\ importMap.scopes[url][name] = Url(e)
      BY DEF ScopesSatisfyRanges
    <2> DEFINE packages == MergePackageList(packageList)
    <2>1. IsMapped(packages)
      BY Mapped
    <2>2. IsKept(packages, Provided) /\ importMap.scopes = Scopes(packages)
      BY <2>1 DEF IsMapped
    <2> HIDE DEF packages
    <2>3. PICK id \in DOMAIN packages : Url(packages[id]) = url
      BY <2>2, ScopesAre
    <2> DEFINE dependent == packages[id]
               deps == dependent.module.deps
               scope == importMap.scopes[url]
    <2>4. scope = Scope(packages[id], packages)
      BY <2>2, <2>3, ScopesAre
    <2>5. /\ DOMAIN scope = {name \in DOMAIN deps : Offered(name, deps[name], packages) # {}}
          /\ \A name \in DOMAIN scope :
               LET highest == <<name, Max(Offered(name, deps[name], packages))>>
               IN  /\ highest \in DOMAIN packages
                   /\ highest[2] \in Offered(name, deps[name], packages)
                   /\ scope[name] = Url(packages[highest])
      BY <2>2, <2>4, ScopeIs
    <2>6. dependent \in Provided /\ Url(dependent) = url
      BY <2>2, <2>3, KeptFacts
    <2> HIDE DEF dependent, deps, scope
    <2>7. ASSUME NEW name \in DOMAIN deps
          PROVE  LET offered == VersionsOf(name) \cap deps[name]
                 IN  IF offered = {}
                     THEN name \notin DOMAIN scope
                     ELSE \E e \in Providing(name) : /\ e.module.version = Max(offered)
                                                     /\ scope[name] = Url(e)
      <3> DEFINE offered == Offered(name, deps[name], packages)
                 highest == <<name, Max(offered)>>
      <3>1. VersionsOf(name) \cap deps[name] = offered
        BY <2>2, VersionsAre DEF Offered
      <3>2. ASSUME offered # {}
            PROVE  \E e \in Providing(name) : /\ e.module.version = Max(offered)
                                              /\ scope[name] = Url(e)
        <4>1. highest \in DOMAIN packages /\ scope[name] = Url(packages[highest])
          BY <2>5, <3>2
        <4>2. highest[1] = name /\ highest[2] = Max(offered)
          OBVIOUS
        <4> HIDE DEF highest, offered
        <4>3. /\ packages[highest] \in Provided
              /\ packages[highest].module.name = name
              /\ packages[highest].module.version = Max(offered)
          BY <2>2, <4>1, <4>2, KeptFacts
        <4>4. packages[highest] \in Providing(name)
          BY <4>3 DEF Providing
        <4>5. QED
          BY <4>1, <4>3, <4>4
      <3>3. offered = {} => name \notin DOMAIN scope
        BY <2>5
      <3> HIDE DEF offered
      <3>4. QED
        BY <3>1, <3>2, <3>3
    <2>8. QED
      BY <2>6, <2>7 DEF deps, scope
  <1>2. QED
    BY <1>1, PackagesInvariant, PTL

(* Every module the map leads to is still published, and finds in a scope  *)
(* of its own each of its dependencies that some service offers.           *)
THEOREM ModulesResolve == ImportSpec => []ReachableModulesResolve
  <1>1. PackagesInv => ReachableModulesResolve
    <2> SUFFICES ASSUME PackagesInv, NEW url \in ReachableUrls
                 PROVE  \E e \in Provided :
                          /\ Url(e) = url
                          /\ \A name \in DOMAIN e.module.deps :
                               VersionsOf(name) \cap e.module.deps[name] # {} =>
                                 /\ url \in DOMAIN importMap.scopes
                                 /\ name \in DOMAIN importMap.scopes[url]
      BY DEF ReachableModulesResolve
    <2> DEFINE packages == MergePackageList(packageList)
               imports == importMap.imports
               scopes == importMap.scopes
               K == DOMAIN packages
    <2>1. \/ \E key \in DOMAIN imports : imports[key] = url
          \/ \E u \in DOMAIN scopes : \E name \in DOMAIN scopes[u] : scopes[u][name] = url
      BY DEF ReachableUrls, Targets
    <2>2. IsMapped(packages)
      BY <2>1, Mapped
    <2>3. IsKept(packages, Provided) /\ imports = Imports(packages) /\ scopes = Scopes(packages)
      BY <2>2 DEF IsMapped
    <2> HIDE DEF packages, imports, scopes
    <2>4. \E id \in K : Url(packages[id]) = url
      <3>1. ASSUME NEW key \in DOMAIN imports, imports[key] = url
            PROVE  \E id \in K : Url(packages[id]) = url
        <4>1. /\ DOMAIN imports = UNION {{id, <<id[1]>>} : id \in K}
              /\ \A id \in K : imports[id] = Url(packages[id])
              /\ \A id \in K : \E top \in K : imports[<<id[1]>>] = Url(packages[top])
          BY <2>3, ImportsAre
        <4>2. QED
          BY <3>1, <4>1
      <3>2. ASSUME NEW u \in DOMAIN scopes, NEW name \in DOMAIN scopes[u], scopes[u][name] = url
            PROVE  \E id \in K : Url(packages[id]) = url
        <4>1. PICK id \in K : Url(packages[id]) = u
          BY <2>3, ScopesAre
        <4> DEFINE scope == scopes[u]
                   deps == packages[id].module.deps
                   highest == <<name, Max(Offered(name, deps[name], packages))>>
        <4>2. scope = Scope(packages[id], packages)
          BY <2>3, <4>1, ScopesAre
        <4>3. highest \in K /\ scope[name] = Url(packages[highest])
          BY <2>3, <3>2, <4>2, ScopeIs
        <4> HIDE DEF highest
        <4>4. QED
          BY <3>2, <4>3
      <3>3. QED
        BY <2>1, <3>1, <3>2
    <2>5. PICK id \in K : Url(packages[id]) = url
      BY <2>4
    <2>6. packages[id] \in Provided
      BY <2>3, KeptFacts
    <2>7. ASSUME NEW name \in DOMAIN packages[id].module.deps,
                 VersionsOf(name) \cap packages[id].module.deps[name] # {}
          PROVE  url \in DOMAIN scopes /\ name \in DOMAIN scopes[url]
      <3> DEFINE deps == packages[id].module.deps
                 scope == scopes[url]
      <3>1. url \in DOMAIN scopes
        BY <2>3, <2>5, <2>7, ScopesAre
      <3>2. scope = Scope(packages[id], packages)
        BY <2>3, <2>5, <3>1, ScopesAre
      <3>3. Offered(name, deps[name], packages) # {}
        BY <2>3, <2>7, VersionsAre DEF Offered
      <3>4. DOMAIN scope = {m \in DOMAIN deps : Offered(m, deps[m], packages) # {}}
        BY <2>3, <3>2, ScopeIs
      <3>5. QED
        BY <3>1, <3>3, <3>4
    <2>8. QED
      BY <2>5, <2>6, <2>7 DEF scopes
  <1>2. QED
    BY <1>1, PackagesInvariant, PTL
================================================================================
