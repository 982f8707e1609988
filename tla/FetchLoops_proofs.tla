--------------------------- MODULE FetchLoops_proofs ---------------------------
(***************************************************************************)
(* The types of FetchLoops and that no service is forgotten, for any set   *)
(* of services, revisions and any limit of tries.                          *)
(***************************************************************************)
EXTENDS FetchLoops, TLAPS

LoopType == [config : BOOLEAN, package : BOOLEAN, tries : 0..(PackageTryLimit - 1)]

(* The record a service event writes and the record of a deleted service   *)
(* are fetch loops: the limit leaves room for the first try.               *)
LEMMA LoopRecords ==
    /\ NoLoop \in LoopType
    /\ [config |-> TRUE, package |-> TRUE, tries |-> 0] \in LoopType
  BY FetchLoopsAssumption DEF NoLoop, LoopType

(* A service event leaves the variables typed.                             *)
LEMMA EmitTypes ==
    ASSUME TypeOK, NEW n \in Names, NEW rev \in Revisions, EmitService(n, rev)
    PROVE  TypeOK'
  BY LoopRecords DEF TypeOK, EmitService, LoopType

(* So does the end of a package loop.                                      *)
LEMMA StoreTypes ==
    ASSUME TypeOK, NEW n \in Names, StorePackages(n)
    PROVE  TypeOK'
  <1>1. loops[n] \in LoopType /\ 0 \in 0..(PackageTryLimit - 1)
    BY FetchLoopsAssumption DEF TypeOK, LoopType
  <1>2. [loops[n] EXCEPT !.package = FALSE, !.tries = 0] \in LoopType
    BY <1>1, Zenon DEF LoopType
  <1>3. loops' = [loops EXCEPT ![n] = [loops[n] EXCEPT !.package = FALSE, !.tries = 0]]
    BY DEF StorePackages, TypeOK
  <1>4. loops' \in [Names -> LoopType]
    BY <1>2, <1>3 DEF TypeOK, LoopType
  <1>5. QED
    BY <1>4 DEF TypeOK, StorePackages, LoopType

(* The variables of the fetch loops keep their types.                      *)
THEOREM TypeCorrect == Spec => []TypeOK
  <1>1. Init => TypeOK
    BY LoopRecords DEF Init, TypeOK, NoRevision, LoopType
  <1>2. TypeOK /\ [Next]_vars => TypeOK'
    <2> SUFFICES ASSUME TypeOK, [Next]_vars PROVE TypeOK'
      OBVIOUS
    <2>1. ASSUME NEW n \in Names, NEW rev \in Revisions, Announce(n, rev)
          PROVE  TypeOK'
      BY <2>1, EmitTypes DEF Announce
    <2>2. ASSUME NEW n \in Names, ForceUpdateService(n)
          PROVE  TypeOK'
      <3>1. services[n] \in Revisions
        BY <2>2 DEF ForceUpdateService, Announced, TypeOK
      <3>2. QED
        BY <2>2, <3>1, EmitTypes DEF ForceUpdateService
    <2>3. ASSUME NEW n \in Names, DeleteService(n)
          PROVE  TypeOK'
      BY <2>3, LoopRecords DEF DeleteService, TypeOK, LoopType
    <2>4. ASSUME NEW n \in Names, FetchConfig(n)
          PROVE  TypeOK'
      BY <2>4 DEF FetchConfig, TypeOK
    <2>5. ASSUME NEW n \in Names, FetchPackages(n) \/ PackageFetchGivesUp(n)
          PROVE  TypeOK'
      BY <2>5, StoreTypes DEF FetchPackages, PackageFetchGivesUp
    <2>6. ASSUME NEW n \in Names, PackageFetchFails(n)
          PROVE  TypeOK'
      <3>1. loops[n].tries + 1 \in 0..(PackageTryLimit - 1)
        BY <2>6, FetchLoopsAssumption DEF PackageFetchFails, TypeOK
      <3>2. QED
        BY <2>6, <3>1 DEF PackageFetchFails, TypeOK
    <2>7. CASE UNCHANGED vars
      BY <2>7 DEF vars, TypeOK
    <2>8. QED
      BY <2>1, <2>2, <2>3, <2>4, <2>5, <2>6, <2>7
      DEF Next, ServiceEvent, PackageAnswer
  <1>3. QED
    BY <1>1, <1>2, PTL DEF Spec

--------------------------------------------------------------------------------
\* What NoServiceForgotten says of one service.
NotForgotten(n) ==
    IF Announced(n)
    THEN /\ configRev[n] = services[n] \/ loops[n].config
         /\ packageRev[n] = services[n] \/ loops[n].package
    ELSE /\ configRev[n] = NotAnnounced
         /\ packageRev[n] = NotAnnounced
         /\ loops[n] = NoLoop

(* A step leaves every service but one as it is, so that only this one is  *)
(* to be looked at.                                                        *)
LEMMA OthersUntouched ==
    ASSUME NoServiceForgotten, NEW n \in Names, NotForgotten(n)',
           \A m \in Names \ {n} :
                /\ services'[m] = services[m]
                /\ loops'[m] = loops[m]
                /\ configRev'[m] = configRev[m]
                /\ packageRev'[m] = packageRev[m]
    PROVE  NoServiceForgotten'
  BY DEF NoServiceForgotten, NotForgotten, Announced

(* A service event restarts both loops, whatever was known before.         *)
LEMMA EmitForgetsNothing ==
    ASSUME TypeOK, NoServiceForgotten, NEW n \in Names, NEW rev \in Revisions,
           EmitService(n, rev)
    PROVE  NoServiceForgotten'
  <1>1. NotForgotten(n)'
    BY FetchLoopsAssumption DEF EmitService, NotForgotten, Announced, TypeOK
  <1>2. QED
    BY <1>1, OthersUntouched DEF EmitService, TypeOK

(* A package loop ends with the packages of the current revision stored:   *)
(* it was running, so its service is announced.                            *)
LEMMA StoreForgetsNothing ==
    ASSUME TypeOK, NoServiceForgotten, NEW n \in Names, loops[n].package, StorePackages(n)
    PROVE  NoServiceForgotten'
  <1>1. Announced(n)
    BY DEF NoServiceForgotten, NoLoop
  <1>2. NotForgotten(n)'
    BY <1>1 DEF NoServiceForgotten, StorePackages, NotForgotten, Announced, TypeOK
  <1>3. QED
    BY <1>2, OthersUntouched DEF StorePackages, TypeOK

(* No announced service is forgotten and no deleted one remembered.        *)
THEOREM NothingForgotten == Spec => []NoServiceForgotten
  <1>1. Init => NoServiceForgotten
    BY DEF Init, NoServiceForgotten, Announced, NoRevision
  <1>2. TypeOK /\ NoServiceForgotten /\ [Next]_vars => NoServiceForgotten'
    <2> SUFFICES ASSUME TypeOK, NoServiceForgotten, [Next]_vars
                 PROVE  NoServiceForgotten'
      OBVIOUS
    <2>1. ASSUME NEW n \in Names, NEW rev \in Revisions, Announce(n, rev)
          PROVE  NoServiceForgotten'
      BY <2>1, EmitForgetsNothing DEF Announce
    <2>2. ASSUME NEW n \in Names, ForceUpdateService(n)
          PROVE  NoServiceForgotten'
      <3>1. services[n] \in Revisions
        BY <2>2 DEF ForceUpdateService, Announced, TypeOK
      <3>2. QED
        BY <2>2, <3>1, EmitForgetsNothing DEF ForceUpdateService
    <2>3. ASSUME NEW n \in Names, DeleteService(n)
          PROVE  NoServiceForgotten'
      <3>1. NotForgotten(n)'
        BY <2>3 DEF DeleteService, NotForgotten, Announced, TypeOK
      <3>2. QED
        BY <2>3, <3>1, OthersUntouched DEF DeleteService, TypeOK
    <2>4. ASSUME NEW n \in Names, FetchConfig(n)
          PROVE  NoServiceForgotten'
      <3>1. Announced(n)
        BY <2>4 DEF FetchConfig, NoServiceForgotten, NoLoop
      <3>2. NotForgotten(n)'
        BY <2>4, <3>1 DEF FetchConfig, NoServiceForgotten, NotForgotten, Announced, TypeOK
      <3>3. QED
        BY <2>4, <3>2, OthersUntouched DEF FetchConfig, TypeOK
    <2>5. ASSUME NEW n \in Names, FetchPackages(n) \/ PackageFetchGivesUp(n)
          PROVE  NoServiceForgotten'
      BY <2>5, StoreForgetsNothing DEF FetchPackages, PackageFetchGivesUp
    <2>6. ASSUME NEW n \in Names, PackageFetchFails(n)
          PROVE  NoServiceForgotten'
      <3>1. Announced(n)
        BY <2>6 DEF PackageFetchFails, NoServiceForgotten, NoLoop
      <3>2. NotForgotten(n)'
        BY <2>6, <3>1
        DEF PackageFetchFails, NoServiceForgotten, NotForgotten, Announced, TypeOK
      <3>3. QED
        BY <2>6, <3>2, OthersUntouched DEF PackageFetchFails, TypeOK
    <2>7. CASE UNCHANGED vars
      BY <2>7 DEF vars, NoServiceForgotten, Announced
    <2>8. QED
      BY <2>1, <2>2, <2>3, <2>4, <2>5, <2>6, <2>7
      DEF Next, ServiceEvent, PackageAnswer
  <1>3. QED
    BY <1>1, <1>2, TypeCorrect, PTL DEF Spec
================================================================================
