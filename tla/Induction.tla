-------------------------------- MODULE Induction --------------------------------
(***************************************************************************)
(* Induction over positions, and what a fold over a sequence computes, in  *)
(* a first-order form: sets and functions in the place of predicates and   *)
(* operators.  Everything follows from the subsets of a set being well     *)
(* founded under inclusion.                                                *)
(***************************************************************************)
EXTENDS Naturals, Sequences, SequencesExt, FiniteSetTheorems, WellFoundedInduction, TLAPS

(* Every nonempty set of natural numbers has a least element.              *)
LEMMA LeastElement ==
    ASSUME NEW T, T \subseteq Nat, T # {}
    PROVE  \E m \in T : \A k \in T : m <= k
  <1> DEFINE below == {0..m : m \in T}
  <1>1. IsWellFoundedOn(StrictSubsetOrdering(Nat), FiniteSubsetsOf(Nat))
    BY FS_StrictSubsetOrderingWellFounded
  <1>2. below \subseteq FiniteSubsetsOf(Nat)
    <2>1. SUFFICES ASSUME NEW m \in T PROVE 0..m \in SUBSET Nat /\ IsFiniteSet(0..m)
      BY DEF FiniteSubsetsOf
    <2>2. m \in Int /\ 0 \in Int
      OBVIOUS
    <2>3. QED
      BY <2>2, FS_Interval
  <1>3. below # {}
    OBVIOUS
  <1>4. PICK b \in below : \A c \in below : ~(<<c, b>> \in StrictSubsetOrdering(Nat))
    <2> HIDE DEF below
    <2>1. QED
      BY <1>1, <1>2, <1>3, WFMin
  <1>5. PICK m \in T : b = 0..m
    OBVIOUS
  <1>6. ASSUME NEW k \in T, ~(m <= k) PROVE FALSE
    <2>1. 0..k \in below /\ 0..k \subseteq 0..m /\ 0..k # 0..m
      BY <1>6
    <2>2. <<0..k, b>> \in StrictSubsetOrdering(Nat)
      BY <1>5, <2>1 DEF StrictSubsetOrdering
    <2>3. QED
      BY <1>4, <2>1, <2>2
  <1>7. QED
    BY <1>6

(* What holds of 0 and of each next number holds of all up to n.           *)
LEMMA UpTo ==
    ASSUME NEW n \in Nat, NEW T, 0 \in T, \A i \in 0..n : i < n /\ i \in T => i + 1 \in T
    PROVE  \A i \in 0..n : i \in T
  <1> DEFINE left == (0..n) \ T
  <1>1. SUFFICES ASSUME left # {} PROVE FALSE
    OBVIOUS
  <1>2. left \subseteq Nat
    OBVIOUS
  <1>3. PICK m \in left : \A k \in left : m <= k
    <2> HIDE DEF left
    <2>1. QED
      BY <1>1, <1>2, LeastElement
  <1>4. m # 0 /\ m \in 0..n /\ m - 1 \in 0..n
    OBVIOUS
  <1>5. m - 1 \in T
    BY <1>3, <1>4
  <1>6. QED
    BY <1>4, <1>5

(* The first and the last position of a nonempty set of positions.         *)
LEMMA MinPosition ==
    ASSUME NEW n \in Nat, NEW T \in SUBSET (1..n), T # {}
    PROVE  Min(T) \in T /\ \A k \in T : Min(T) <= k
  <1>1. T \subseteq Nat
    OBVIOUS
  <1>2. \E m \in T : \A k \in T : m =< k
    BY <1>1, LeastElement
  <1>3. QED
    BY <1>2, Zenon DEF Min

LEMMA MaxPosition ==
    ASSUME NEW n \in Nat, NEW T \in SUBSET (1..n), T # {}
    PROVE  Max(T) \in T /\ \A k \in T : k <= Max(T)
  <1> DEFINE above == {n - k : k \in T}
  <1>1. above \subseteq Nat /\ above # {}
    <2>1. \A k \in T : k \in 1..n /\ n - k \in Nat
      OBVIOUS
    <2>2. QED
      BY <2>1
  <1>2. PICK u \in above : \A v \in above : u <= v
    <2> HIDE DEF above
    <2>1. QED
      BY <1>1, LeastElement
  <1>3. PICK m \in T : u = n - m
    OBVIOUS
  <1>4. ASSUME NEW k \in T PROVE m >= k
    <2>1. n - m <= n - k /\ k \in 1..n /\ m \in 1..n
      BY <1>2, <1>3
    <2>2. QED
      BY <2>1
  <1>5. Max(T) \in T /\ \A k \in T : Max(T) >= k
    BY <1>4, Zenon DEF Max
  <1>6. ASSUME NEW k \in T PROVE k <= Max(T)
    <2>1. Max(T) >= k /\ k \in 1..n /\ Max(T) \in 1..n
      BY <1>5
    <2>2. QED
      BY <2>1
  <1>7. QED
    BY <1>5, <1>6

--------------------------------------------------------------------------------
(* The value a fold over the positions 1..n has for a set of them: that of *)
(* the set without its last position, stepped by that position.            *)
Folded(iter, s, base, step) ==
    iter[s] = IF s = {} THEN base ELSE step[<<iter[s \ {Max(s)}], Max(s)>>]

IsFold(iter, S, base, n, step) ==
    \A s \in SUBSET (1..n) :
        (s = {} \/ iter[s \ {Max(s)}] \in S) => Folded(iter, s, base, step)

\* The same one position after the other.
IsRun(g, S, base, n, step) ==
    /\ g \in [0..n -> S]
    /\ g[0] = base
    /\ \A i \in 1..n : g[i] = step[<<g[i - 1], i>>]

(* Whatever the steps, as long as they stay in S there is such a fold.     *)
LEMMA FoldExists ==
    ASSUME NEW S, NEW base \in S, NEW n \in Nat, NEW step \in [S \X (1..n) -> S]
    PROVE  \E iter \in [SUBSET (1..n) -> S] :
              \A s \in SUBSET (1..n) : Folded(iter, s, base, step)
  <1> DEFINE Partial(f, i) == \A s \in SUBSET (1..i) : Folded(f, s, base, step)
             reached == {i \in 0..n : \E f \in [SUBSET (1..i) -> S] : Partial(f, i)}
  <1>1. 0 \in reached
    <2> DEFINE f == [s \in SUBSET (1..0) |-> base]
    <2>1. f \in [SUBSET (1..0) -> S] /\ \A s \in SUBSET (1..0) : s = {} /\ f[s] = base
      OBVIOUS
    <2> HIDE DEF f
    <2>2. Partial(f, 0)
      BY <2>1 DEF Folded
    <2> HIDE DEF Partial
    <2>3. QED
      BY <2>1, <2>2
  <1>2. ASSUME NEW i \in 0..n, i < n, i \in reached PROVE i + 1 \in reached
    <2>1. PICK f \in [SUBSET (1..i) -> S] : Partial(f, i)
      BY <1>2
    <2> DEFINE h == [s \in SUBSET (1..(i + 1)) |->
                       IF i + 1 \in s THEN step[<<f[s \ {i + 1}], i + 1>>] ELSE f[s]]
    <2>2. \A s \in SUBSET (1..(i + 1)) : /\ i + 1 \notin s => s \in SUBSET (1..i)
                                         /\ s \ {i + 1} \in SUBSET (1..i)
      OBVIOUS
    <2>3. h \in [SUBSET (1..(i + 1)) -> S]
      BY <2>2, <1>2
    <2>4. ASSUME NEW s \in SUBSET (1..(i + 1)) PROVE Folded(h, s, base, step)
      <3>1. CASE i + 1 \in s
        <4>1. Max(s) \in s /\ \A k \in s : k <= Max(s)
          <5>1. i + 1 \in Nat /\ s # {}
            BY <3>1
          <5>2. QED
            BY <5>1, MaxPosition
        <4>2. i + 1 <= Max(s)
          BY <4>1, <3>1
        <4>3. Max(s) \in 1..(i + 1)
          <5> HIDE DEF h
          <5>1. QED
            BY <4>1
        <4>4. Max(s) = i + 1
          BY <4>2, <4>3
        <4>5. h[s] = step[<<f[s \ {i + 1}], i + 1>>]
          BY <3>1
        <4>6. h[s \ {i + 1}] = f[s \ {i + 1}]
          OBVIOUS
        <4>7. QED
          BY <3>1, <4>4, <4>5, <4>6 DEF Folded
      <3>2. CASE i + 1 \notin s
        <4>1. s \in SUBSET (1..i) /\ h[s] = f[s]
          BY <3>2, <2>2
        <4>2. s \ {Max(s)} \in SUBSET (1..(i + 1)) /\ i + 1 \notin s \ {Max(s)}
          BY <3>2
        <4>3. h[s \ {Max(s)}] = f[s \ {Max(s)}]
          BY <4>2
        <4>4. Folded(f, s, base, step)
          BY <2>1, <4>1
        <4>5. QED
          BY <4>1, <4>3, <4>4 DEF Folded
      <3>3. QED
        BY <3>1, <3>2
    <2>5. Partial(h, i + 1) /\ i + 1 \in 0..n
      <3> HIDE DEF h
      <3>1. QED
        BY <2>4, <1>2
    <2> HIDE DEF h, Partial
    <2>6. QED
      BY <2>3, <2>5
  <1>3. n \in reached
    <2> HIDE DEF reached
    <2>1. QED
      BY <1>1, <1>2, UpTo
  <1>4. QED
    BY <1>3

\* x is what is reached at the last position.
FoldsTo(S, base, n, step, x) == \E g : IsRun(g, S, base, n, step) /\ g[n] = x

(* A fold is what is reached by its steps, one position after the other.   *)
LEMMA FoldReaches ==
    ASSUME NEW S, NEW base \in S, NEW n \in Nat, NEW step \in [S \X (1..n) -> S],
           NEW iter, IsFold(iter, S, base, n, step)
    PROVE  FoldsTo(S, base, n, step, iter[1..n])
  <1> DEFINE g == [i \in 0..n |-> iter[1..i]]
             typed == {i \in 0..n : g[i] \in S}
  <1>1. iter[1..0] = base
    <2>1. 1..0 = {} /\ {} \in SUBSET (1..n)
      OBVIOUS
    <2>2. Folded(iter, {}, base, step)
      BY <2>1 DEF IsFold
    <2>3. QED
      BY <2>1, <2>2 DEF Folded
  <1>2. ASSUME NEW i \in 0..n, i < n, iter[1..i] \in S
        PROVE  iter[1..(i + 1)] = step[<<iter[1..i], i + 1>>]
    <2> DEFINE s == 1..(i + 1)
    <2>1. s \in SUBSET (1..n) /\ s # {} /\ i + 1 \in s
      BY <1>2
    <2>2. Max(s) = i + 1
      <3>1. Max(s) \in s /\ \A k \in s : k <= Max(s)
        <4> HIDE DEF s
        <4>1. QED
          BY <2>1, MaxPosition
      <3>2. i + 1 <= Max(s)
        BY <3>1, <2>1
      <3>3. QED
        BY <3>1, <3>2
    <2>3. s \ {Max(s)} = 1..i
      BY <2>2
    <2> HIDE DEF s
    <2>4. Folded(iter, s, base, step)
      BY <1>2, <2>1, <2>3 DEF IsFold
    <2>5. iter[s] = step[<<iter[1..i], i + 1>>]
      BY <2>1, <2>2, <2>3, <2>4 DEF Folded
    <2>6. QED
      BY <2>5 DEF s
  <1>3. 0 \in typed
    BY <1>1
  <1>4. ASSUME NEW i \in 0..n, i < n, i \in typed PROVE i + 1 \in typed
    <2>1. g[i] = iter[1..i] /\ g[i + 1] = iter[1..(i + 1)] /\ i + 1 \in 1..n
      BY <1>4
    <2>2. g[i + 1] = step[<<g[i], i + 1>>]
      BY <1>2, <1>4, <2>1
    <2>3. QED
      BY <1>4, <2>1, <2>2
  <1>5. \A i \in 0..n : i \in typed
    <2> HIDE DEF typed
    <2>1. QED
      BY <1>3, <1>4, UpTo
  <1>6. g \in [0..n -> S]
    BY <1>5
  <1>7. g[0] = base
    BY <1>1
  <1>8. ASSUME NEW i \in 1..n PROVE g[i] = step[<<g[i - 1], i>>]
    <2>1. i - 1 \in 0..n /\ i - 1 < n /\ (i - 1) + 1 = i
      OBVIOUS
    <2>2. g[i] = iter[1..i] /\ g[i - 1] = iter[1..(i - 1)] /\ g[i - 1] \in S
      BY <2>1, <1>5
    <2> HIDE DEF g
    <2>3. QED
      BY <1>2, <2>1, <2>2
  <1>9. g[n] = iter[1..n]
    OBVIOUS
  <1> HIDE DEF g
  <1>10. IsRun(g, S, base, n, step)
    BY <1>6, <1>7, <1>8 DEF IsRun
  <1>11. QED
    BY <1>9, <1>10 DEF FoldsTo

(* In particular a fold stays where its steps stay.                        *)
LEMMA FoldStays ==
    ASSUME NEW S, NEW base, base \in S, NEW n \in Nat, NEW step \in [S \X (1..n) -> S],
           NEW it, IsFold(it, S, base, n, step), NEW x, x = it[1..n]
    PROVE  x \in S
  <1>1. FoldsTo(S, base, n, step, it[1..n])
    BY FoldReaches
  <1>2. QED
    BY <1>1 DEF FoldsTo, IsRun

--------------------------------------------------------------------------------
(* The same for a recursive function over the positions themselves.        *)
LEMMA StepsExist ==
    ASSUME NEW S, NEW base \in S, NEW n \in Nat, NEW step \in [S \X (1..n) -> S]
    PROVE  \E g : IsRun(g, S, base, n, step)
  <1>1. PICK iter \in [SUBSET (1..n) -> S] :
           \A s \in SUBSET (1..n) : Folded(iter, s, base, step)
    BY FoldExists
  <1>2. IsFold(iter, S, base, n, step)
    BY <1>1 DEF IsFold
  <1>3. FoldsTo(S, base, n, step, iter[1..n])
    BY <1>2, FoldReaches
  <1>4. QED
    BY <1>3 DEF FoldsTo

(* The elements of a list at some positions, in their order: each comes    *)
(* from a position of its own, and none is left out.                       *)
Picked(kept, list, positions) ==
    \E at \in [1..Len(kept) -> positions] :
        /\ \A j, k \in 1..Len(kept) : j < k => at[j] < at[k]
        /\ \A k \in 1..Len(kept) : kept[k] = list[at[k]]
        /\ \A i \in positions : \E k \in 1..Len(kept) : at[k] = i

\* A filter over the positions of a list, as a recursive function.
IsFilter(kept, list, pass) ==
    kept = [i \in 0..Len(list) |->
                IF i = 0 THEN <<>>
                ELSE IF i \in pass THEN Append(kept[i - 1], list[i]) ELSE kept[i - 1]]

(* It exists, whatever it keeps.                                           *)
LEMMA FilterExists ==
    ASSUME NEW S, NEW list \in Seq(S), NEW pass
    PROVE  \E kept : IsFilter(kept, list, pass)
  <1> DEFINE n == Len(list)
             step == [p \in Seq(S) \X (1..n) |->
                        IF p[2] \in pass THEN Append(p[1], list[p[2]]) ELSE p[1]]
  <1>1. n \in Nat /\ <<>> \in Seq(S) /\ \A i \in 1..n : list[i] \in S
    OBVIOUS
  <1>2. step \in [Seq(S) \X (1..n) -> Seq(S)]
    BY <1>1
  <1>3. \A s \in Seq(S), i \in 1..n :
          step[<<s, i>>] = IF i \in pass THEN Append(s, list[i]) ELSE s
    OBVIOUS
  <1> HIDE DEF n, step
  <1>4. PICK g \in [0..n -> Seq(S)] : /\ g[0] = <<>>
                                     /\ \A i \in 1..n : g[i] = step[<<g[i - 1], i>>]
    <2>1. \E g : IsRun(g, Seq(S), <<>>, n, step)
      BY <1>1, <1>2, StepsExist
    <2>2. QED
      BY <2>1 DEF IsRun
  <1>5. \A i \in 0..n : g[i] = IF i = 0 THEN <<>>
                               ELSE IF i \in pass THEN Append(g[i - 1], list[i]) ELSE g[i - 1]
    <2>1. ASSUME NEW i \in 1..n
          PROVE  g[i] = IF i \in pass THEN Append(g[i - 1], list[i]) ELSE g[i - 1]
      <3>1. i - 1 \in 0..n
        BY <1>1
      <3>2. QED
        BY <1>3, <1>4, <3>1
    <2>2. \A i \in 0..n : i # 0 => i \in 1..n
      BY <1>1
    <2>3. QED
      BY <1>4, <2>1, <2>2, Zenon
  <1>6. g = [i \in 0..n |-> IF i = 0 THEN <<>>
                            ELSE IF i \in pass THEN Append(g[i - 1], list[i]) ELSE g[i - 1]]
    BY <1>5
  <1>7. QED
    BY <1>6 DEF n, IsFilter

(* And it keeps the elements at the positions that pass.                   *)
LEMMA PickedNext ==
    ASSUME NEW S, NEW list \in Seq(S), NEW p \in 1..Len(list),
           NEW positions \in SUBSET (1..(p - 1)),
           NEW s \in Seq(S), Picked(s, list, positions)
    PROVE  Append(s, list[p]) \in Seq(S) /\ Picked(Append(s, list[p]), list, positions \cup {p})
  <1> DEFINE m == Len(s)
             longer == Append(s, list[p])
  <1>1. PICK at \in [1..m -> positions] :
          /\ \A j, k \in 1..m : j < k => at[j] < at[k]
          /\ \A k \in 1..m : s[k] = list[at[k]]
          /\ \A i \in positions : \E k \in 1..m : at[k] = i
    BY DEF Picked
  <1> DEFINE next == [k \in 1..(m + 1) |-> IF k = m + 1 THEN p ELSE at[k]]
  <1>2. /\ m \in Nat /\ longer \in Seq(S) /\ Len(longer) = m + 1 /\ longer[m + 1] = list[p]
        /\ \A k \in 1..m : longer[k] = s[k]
    OBVIOUS
  <1> HIDE DEF m, longer
  <1>3. next \in [1..(m + 1) -> positions \cup {p}]
    <2>1. \A k \in 1..(m + 1) : k # m + 1 => k \in 1..m
      BY <1>2
    <2>2. \A k \in 1..(m + 1) : (IF k = m + 1 THEN p ELSE at[k]) \in positions \cup {p}
      BY <1>1, <2>1
    <2>3. QED
      BY <2>2
  <1>4. \A k \in 1..m : next[k] = at[k] /\ at[k] \in positions /\ at[k] < p
    <2>1. \A i \in positions : i < p
      OBVIOUS
    <2>2. \A k \in 1..m : k \in 1..(m + 1) /\ k # m + 1 /\ at[k] \in positions
      BY <1>1, <1>2
    <2>3. QED
      BY <2>1, <2>2
  <1>5. next[m + 1] = p
    BY <1>2
  <1>6. m + 1 \in 1..(m + 1) /\ \A k \in 1..(m + 1) : k \in 1..m \/ k = m + 1
    BY <1>2
  <1> HIDE DEF next
  <1>7. ASSUME NEW j \in 1..(m + 1), NEW k \in 1..(m + 1), j < k PROVE next[j] < next[k]
    <2>1. j \in 1..m
      BY <1>2, <1>7
    <2>2. QED
      BY <1>1, <1>4, <1>5, <1>6, <1>7, <2>1
  <1>8. \A k \in 1..(m + 1) : longer[k] = list[next[k]]
    BY <1>1, <1>2, <1>4, <1>5, <1>6
  <1>9. \A i \in positions \cup {p} : \E k \in 1..(m + 1) : next[k] = i
    BY <1>1, <1>2, <1>4, <1>5, <1>6
  <1>10. Picked(longer, list, positions \cup {p})
    <2>1. /\ next \in [1..Len(longer) -> positions \cup {p}]
          /\ \A j, k \in 1..Len(longer) : j < k => next[j] < next[k]
          /\ \A k \in 1..Len(longer) : longer[k] = list[next[k]]
          /\ \A i \in positions \cup {p} : \E k \in 1..Len(longer) : next[k] = i
      BY <1>2, <1>3, <1>7, <1>8, <1>9
    <2>2. QED
      BY <2>1, Zenon DEF Picked
  <1>11. QED
    BY <1>2, <1>10 DEF longer

FilterRun(kept, list, pass) ==
    /\ kept[0] = <<>>
    /\ \A i \in 1..Len(list) :
        kept[i] = IF i \in pass THEN Append(kept[i - 1], list[i]) ELSE kept[i - 1]

LEMMA FilterRunPicks ==
    ASSUME NEW S, NEW list \in Seq(S), NEW pass \in SUBSET (1..Len(list)),
           NEW kept, FilterRun(kept, list, pass)
    PROVE  kept[Len(list)] \in Seq(S) /\ Picked(kept[Len(list)], list, pass)
  <1> DEFINE n == Len(list)
             Upto(i) == pass \cap 1..i
             right == {i \in 0..n : kept[i] \in Seq(S) /\ Picked(kept[i], list, Upto(i))}
  <1>1. n \in Nat
    OBVIOUS
  <1>2. 0 \in right
    <2>1. Len(<<>>) = 0 /\ Upto(0) = {} /\ <<>> \in Seq(S)
      OBVIOUS
    <2>2. <<>> \in [1..0 -> {}]
      OBVIOUS
    <2>3. Picked(<<>>, list, {})
      BY <2>1, <2>2 DEF Picked
    <2>4. kept[0] = <<>>
      BY DEF FilterRun
    <2>5. kept[0] \in Seq(S) /\ Picked(kept[0], list, Upto(0))
      BY <2>1, <2>3, <2>4, Zenon
    <2>6. QED
      BY <1>1, <2>5
  <1>3. ASSUME NEW i \in 0..n, i < n, i \in right PROVE i + 1 \in right
    <2>1. i + 1 \in 1..n /\ i + 1 \in 0..n /\ (i + 1) - 1 = i
      BY <1>1, <1>3
    <2>2. kept[i + 1] = IF i + 1 \in pass THEN Append(kept[i], list[i + 1]) ELSE kept[i]
      <3>1. \A p \in 1..n : kept[p] = IF p \in pass THEN Append(kept[p - 1], list[p]) ELSE kept[p - 1]
        BY Zenon DEF FilterRun
      <3>2. kept[i + 1] = IF i + 1 \in pass THEN Append(kept[(i + 1) - 1], list[i + 1])
                          ELSE kept[(i + 1) - 1]
        BY <2>1, <3>1, Zenon
      <3>3. QED
        BY <2>1, <3>2, Zenon
    <2>3. kept[i] \in Seq(S) /\ Picked(kept[i], list, Upto(i))
      BY <1>3
    <2>4. CASE i + 1 \notin pass
      <3>1. Upto(i + 1) = Upto(i)
        BY <1>1, <2>1, <2>4
      <3>2. QED
        BY <2>1, <2>2, <2>3, <2>4, <3>1
    <2>5. CASE i + 1 \in pass
      <3>1. Upto(i + 1) = Upto(i) \cup {i + 1} /\ Upto(i) \in SUBSET (1..((i + 1) - 1))
        BY <1>1, <2>1, <2>5
      <3> HIDE DEF Upto
      <3>2. /\ Append(kept[i], list[i + 1]) \in Seq(S)
            /\ Picked(Append(kept[i], list[i + 1]), list, Upto(i) \cup {i + 1})
        BY <2>1, <2>3, <3>1, PickedNext
      <3>3. QED
        BY <2>1, <2>2, <2>5, <3>1, <3>2
    <2>6. QED
      BY <2>4, <2>5
  <1>4. n \in right
    <2> HIDE DEF right, n
    <2>1. \A i \in 0..n : i \in right
      BY <1>1, <1>2, <1>3, UpTo
    <2>2. QED
      BY <1>1, <2>1
  <1>5. Upto(n) = pass
    OBVIOUS
  <1>6. QED
    BY <1>4, <1>5

LEMMA FilterReached ==
    ASSUME NEW S, NEW list \in Seq(S), NEW pass \in SUBSET (1..Len(list)), NEW kept,
           IsFilter(kept, list, pass)
    PROVE  kept[Len(list)] \in Seq(S) /\ Picked(kept[Len(list)], list, pass)
  <1>1. \A i \in 0..Len(list) :
          kept[i] = IF i = 0 THEN <<>>
                    ELSE IF i \in pass THEN Append(kept[i - 1], list[i]) ELSE kept[i - 1]
    BY Zenon DEF IsFilter
  <1>2. 0 \in 0..Len(list) /\ \A i \in 1..Len(list) : i \in 0..Len(list) /\ i # 0
    OBVIOUS
  <1>3. FilterRun(kept, list, pass)
    BY <1>1, <1>2, Zenon DEF FilterRun
  <1>4. QED
    BY <1>3, FilterRunPicks, Zenon

--------------------------------------------------------------------------------
\* The elements of a set one after the other, by rising rank.
IsSorting(f, K, rank) ==
    /\ f \in [1..Cardinality(K) -> K]
    /\ \A i, j \in 1..Cardinality(K) : i # j => f[i] # f[j]
    /\ \A i, j \in 1..Cardinality(K) : i < j => rank[f[i]] <= rank[f[j]]
    /\ \A e \in K : \E i \in 1..Cardinality(K) : f[i] = e

(* A set without its element of least rank, put behind that element.       *)
LEMMA SortingNext ==
    ASSUME NEW K, IsFiniteSet(K), NEW rank \in [K -> Nat], K # {},
           \A e \in K : \E f : IsSorting(f, K \ {e}, rank)
    PROVE  \E f : IsSorting(f, K, rank)
  <1>1. PICK e \in K : \A d \in K : rank[e] <= rank[d]
    <2> DEFINE ranks == {rank[d] : d \in K}
    <2>1. ranks \subseteq Nat /\ ranks # {}
      OBVIOUS
    <2>2. \E m \in ranks : \A k \in ranks : m <= k
      <3> HIDE DEF ranks
      <3>1. QED
        BY <2>1, LeastElement
    <2>3. QED
      BY <2>2
  <1>2. PICK f : IsSorting(f, K \ {e}, rank)
    BY <1>1
  <1> DEFINE n == Cardinality(K)
             g == [i \in 1..n |-> IF i = 1 THEN e ELSE f[i - 1]]
  <1>3. n \in Nat /\ n # 0 /\ Cardinality(K \ {e}) = n - 1
    BY FS_CardinalityType, FS_EmptySet, FS_RemoveElement
  <1>4. /\ f \in [1..(n - 1) -> K \ {e}]
        /\ \A i, j \in 1..(n - 1) : i # j => f[i] # f[j]
        /\ \A i, j \in 1..(n - 1) : i < j => rank[f[i]] <= rank[f[j]]
        /\ \A d \in K \ {e} : \E i \in 1..(n - 1) : f[i] = d
    BY <1>2, <1>3 DEF IsSorting
  <1> HIDE DEF n
  <1>5. g[1] = e /\ \A i \in 2..n : i - 1 \in 1..(n - 1) /\ g[i] = f[i - 1]
    BY <1>3
  <1>6. g \in [1..n -> K]
    BY <1>1, <1>3, <1>4
  <1> HIDE DEF g
  <1>7. \A i \in 1..n : i = 1 \/ i \in 2..n
    BY <1>3
  <1>8. \A i, j \in 1..n : i # j => g[i] # g[j]
    <2>1. \A i \in 2..n : g[i] # g[1]
      BY <1>3, <1>4, <1>5
    <2>2. \A i, j \in 2..n : i # j => g[i] # g[j]
      BY <1>3, <1>4, <1>5
    <2>3. QED
      BY <1>7, <2>1, <2>2
  <1>9. \A i, j \in 1..n : i < j => rank[g[i]] <= rank[g[j]]
    <2>1. \A j \in 1..n : rank[g[1]] <= rank[g[j]]
      BY <1>1, <1>5, <1>6
    <2>2. ASSUME NEW i \in 2..n, NEW j \in 2..n, i < j PROVE rank[g[i]] <= rank[g[j]]
      <3>1. i - 1 < j - 1
        BY <1>3, <2>2
      <3>2. QED
        BY <1>4, <1>5, <3>1
    <2>3. QED
      BY <1>7, <2>1, <2>2
  <1>10. ASSUME NEW d \in K PROVE \E i \in 1..n : g[i] = d
    <2>1. CASE d = e
      BY <1>3, <1>5, <2>1
    <2>2. CASE d # e
      <3>1. PICK i \in 1..(n - 1) : f[i] = d
        BY <1>4, <2>2
      <3>2. i + 1 \in 2..n /\ (i + 1) - 1 = i /\ i + 1 \in 1..n
        BY <1>3
      <3>3. g[i + 1] = d
        BY <1>5, <3>1, <3>2
      <3>4. QED
        BY <3>2, <3>3
    <2>3. QED
      BY <2>1, <2>2
  <1>11. QED
    BY <1>6, <1>8, <1>9, <1>10 DEF IsSorting, n

(* Every finite set of ranked elements can be sorted.                      *)
LEMMA SortingExists ==
    ASSUME NEW K, IsFiniteSet(K), NEW rank \in [K -> Nat]
    PROVE  \E f : IsSorting(f, K, rank)
  <1> DEFINE n == Cardinality(K)
             Sortable(T) == \E f : IsSorting(f, T, [e \in T |-> rank[e]])
             right == {i \in 0..n : \A T \in SUBSET K : Cardinality(T) = i => Sortable(T)}
  <1>1. n \in Nat
    BY FS_CardinalityType
  <1>2. \A T \in SUBSET K : IsFiniteSet(T) /\ Cardinality(T) \in Nat
    BY FS_Subset, FS_CardinalityType
  <1>3. 0 \in right
    <2> SUFFICES ASSUME NEW T \in SUBSET K, Cardinality(T) = 0 PROVE Sortable(T)
      BY <1>1
    <2>1. T = {}
      BY <1>2, FS_EmptySet
    <2> DEFINE f == [i \in 1..0 |-> 0]
    <2>2. 1..0 = {}
      OBVIOUS
    <2>3. IsSorting(f, T, [e \in T |-> rank[e]])
      BY <2>1, <2>2 DEF IsSorting
    <2>4. QED
      BY <2>3
  <1>4. ASSUME NEW i \in 0..n, i < n, i \in right PROVE i + 1 \in right
    <2>1. i + 1 \in 0..n
      BY <1>1, <1>4
    <2>2. ASSUME NEW T \in SUBSET K, Cardinality(T) = i + 1 PROVE Sortable(T)
      <3> DEFINE r == [e \in T |-> rank[e]]
      <3>1. IsFiniteSet(T) /\ T # {} /\ r \in [T -> Nat]
        BY <1>2, <2>2, FS_EmptySet
      <3>2. ASSUME NEW e \in T PROVE \E f : IsSorting(f, T \ {e}, r)
        <4> DEFINE T2 == T \ {e}
                   r2 == [d \in T2 |-> rank[d]]
        <4>1. T2 \in SUBSET K /\ Cardinality(T2) = i
          <5>1. Cardinality(T \ {e}) = Cardinality(T) - 1
            BY <3>1, FS_RemoveElement, Zenon
          <5>2. Cardinality(T \ {e}) = i
            BY <1>1, <2>2, <5>1
          <5>3. QED
            BY <5>2
        <4>2. PICK f : IsSorting(f, T2, r2)
          BY <1>4, <4>1
        <4>3. \A d \in T2 : r[d] = r2[d]
          OBVIOUS
        <4> HIDE DEF r, r2, T2
        <4>4. IsSorting(f, T2, r)
          BY <4>2, <4>3 DEF IsSorting
        <4>5. QED
          BY <4>4 DEF T2
      <3> HIDE DEF r
      <3>3. \E f : IsSorting(f, T, r)
        BY <3>1, <3>2, SortingNext
      <3>4. QED
        BY <3>3 DEF r
    <2>3. QED
      BY <2>1, <2>2
  <1>5. n \in right
    <2> HIDE DEF right, n
    <2>1. \A i \in 0..n : i \in right
      BY <1>1, <1>3, <1>4, UpTo
    <2>2. QED
      BY <1>1, <2>1
  <1>6. Sortable(K)
    BY <1>5
  <1>7. rank = [e \in K |-> rank[e]]
    OBVIOUS
  <1>8. QED
    BY <1>6, <1>7

(* The largest of finitely many numbers.                                   *)
LEMMA LargestElement ==
    ASSUME NEW T, T \subseteq Nat, IsFiniteSet(T), T # {}
    PROVE  Max(T) \in T /\ \A k \in T : k <= Max(T)
  <1> DEFINE rank == [k \in T |-> k]
             n == Cardinality(T)
  <1>1. rank \in [T -> Nat]
    OBVIOUS
  <1> HIDE DEF rank
  <1>2. PICK f : IsSorting(f, T, rank)
    BY <1>1, SortingExists
  <1>3. n \in Nat /\ n # 0 /\ n \in 1..n
    BY FS_CardinalityType, FS_EmptySet
  <1>4. f[n] \in T /\ \A k \in T : k <= f[n]
    <2>1. /\ f \in [1..n -> T]
          /\ \A i, j \in 1..n : i < j => rank[f[i]] <= rank[f[j]]
          /\ \A k \in T : \E i \in 1..n : f[i] = k
      BY <1>2, Zenon DEF IsSorting
    <2>2. \A k \in T : rank[k] = k
      BY DEF rank
    <2>3. ASSUME NEW k \in T PROVE k <= f[n]
      <3>1. PICK i \in 1..n : f[i] = k
        BY <2>1
      <3> HIDE DEF n
      <3>2. CASE i = n
        BY <3>1, <3>2
      <3>3. CASE i < n
        <4>1. rank[f[i]] <= rank[f[n]] /\ f[n] \in T
          BY <1>3, <2>1, <3>3
        <4>2. QED
          BY <2>2, <3>1, <4>1
      <3>4. QED
        BY <1>3, <3>2, <3>3
    <2>4. QED
      BY <1>3, <2>1, <2>3
  <1>5. \E m \in T : \A k \in T : m >= k
    BY <1>4
  <1>6. QED
    <2>1. Max(T) \in T /\ \A k \in T : Max(T) >= k
      BY <1>5, Zenon DEF Max
    <2>2. QED
      BY <2>1

(* The parts of a sequence of sequences are put one behind the other.      *)
IsFlattening(g, seqs, S) ==
    /\ g \in [0..Len(seqs) -> Seq(S)]
    /\ g[0] = <<>>
    /\ \A i \in 1..Len(seqs) : g[i] = g[i - 1] \o seqs[i]

LEMMA FlattenReached ==
    ASSUME NEW S, NEW seqs \in Seq(Seq(S))
    PROVE  \E g : IsFlattening(g, seqs, S) /\ FlattenSeq(seqs) = g[Len(seqs)]
  <1> DEFINE n == Len(seqs)
             Rec(f) == f = [i \in 1..n |-> IF i = 1 THEN seqs[i] ELSE f[i - 1] \o seqs[i]]
             flat == CHOOSE f : Rec(f)
             step == [p \in Seq(S) \X (1..n) |-> p[1] \o seqs[p[2]]]
  <1>1. FlattenSeq(seqs) = IF n = 0 THEN seqs ELSE flat[n]
    BY Zenon DEF FlattenSeq
  <1>2. n \in Nat /\ \A i \in 1..n : seqs[i] \in Seq(S)
    OBVIOUS
  <1>3. n = 0 => seqs = <<>>
    OBVIOUS
  <1>4. step \in [Seq(S) \X (1..n) -> Seq(S)] /\ <<>> \in Seq(S)
    BY <1>2
  <1>5. \A s \in Seq(S), i \in 1..n : step[<<s, i>>] = s \o seqs[i]
    OBVIOUS
  <1> HIDE DEF step, n
  <1>6. PICK g \in [0..n -> Seq(S)] : /\ g[0] = <<>>
                                     /\ \A i \in 1..n : g[i] = step[<<g[i - 1], i>>]
    <2>1. \E g : IsRun(g, Seq(S), <<>>, n, step)
      BY <1>2, <1>4, StepsExist
    <2>2. QED
      BY <2>1 DEF IsRun
  <1>7. \A i \in 1..n : i - 1 \in 0..n /\ g[i] = g[i - 1] \o seqs[i]
    <2>1. \A i \in 1..n : i - 1 \in 0..n
      BY <1>2
    <2>2. QED
      BY <1>5, <1>6, <2>1
  <1>8. \A i \in 1..n : g[i] = IF i = 1 THEN seqs[i] ELSE g[i - 1] \o seqs[i]
    <2>1. ASSUME 1 \in 1..n PROVE g[1] = seqs[1]
      <3>1. g[1] = g[1 - 1] \o seqs[1]
        BY <1>7, <2>1
      <3>2. 1 - 1 = 0 /\ seqs[1] \in Seq(S)
        BY <1>2, <2>1
      <3>3. \A s \in Seq(S) : <<>> \o s = s
        OBVIOUS
      <3>4. QED
        BY <1>6, <3>1, <3>2, <3>3
    <2>2. QED
      BY <1>7, <2>1
  <1>9. Rec(flat)
    <2> DEFINE h == [i \in 1..n |-> g[i]]
    <2>1. \A i \in 1..n : i # 1 => i - 1 \in 1..n
      BY <1>2
    <2>2. \A i \in 1..n : h[i] = IF i = 1 THEN seqs[i] ELSE h[i - 1] \o seqs[i]
      BY <1>8, <2>1
    <2>3. Rec(h)
      BY <2>2
    <2>4. QED
      BY <2>3
  <1> HIDE DEF flat
  <1>10. \A i \in 1..n : flat[i] = IF i = 1 THEN seqs[i] ELSE flat[i - 1] \o seqs[i]
    BY <1>9
  <1> DEFINE right == {i \in 0..n : i = 0 \/ flat[i] = g[i]}
  <1> HIDE DEF Rec
  <1>11. 0 \in right
    BY <1>2
  <1>12. ASSUME NEW i \in 0..n, i < n, i \in right PROVE i + 1 \in right
    <2>1. i + 1 \in 1..n /\ i + 1 \in 0..n /\ (i + 1) - 1 = i /\ (i # 0 => i + 1 # 1)
      BY <1>2, <1>12
    <2>2. flat[i + 1] = IF i + 1 = 1 THEN seqs[i + 1] ELSE flat[i] \o seqs[i + 1]
      BY <1>10, <2>1
    <2>3. g[i + 1] = IF i + 1 = 1 THEN seqs[i + 1] ELSE g[i] \o seqs[i + 1]
      BY <1>8, <2>1
    <2>4. i = 0 => i + 1 = 1
      OBVIOUS
    <2>5. QED
      BY <1>12, <2>1, <2>2, <2>3, <2>4
  <1>13. \A i \in 0..n : i \in right
    <2> HIDE DEF right
    <2>1. QED
      BY <1>2, <1>11, <1>12, UpTo
  <1>14. n # 0 => flat[n] = g[n]
    BY <1>2, <1>13
  <1>15. FlattenSeq(seqs) = g[n]
    BY <1>1, <1>3, <1>6, <1>14
  <1>16. IsFlattening(g, seqs, S)
    BY <1>6, <1>7 DEF IsFlattening, n
  <1>17. QED
    BY <1>15, <1>16 DEF n

(* The result is a sequence of what the parts are sequences of.            *)
LEMMA Flattened ==
    ASSUME NEW S, NEW seqs \in Seq(Seq(S))
    PROVE  FlattenSeq(seqs) \in Seq(S)
  <1>1. PICK g : IsFlattening(g, seqs, S) /\ FlattenSeq(seqs) = g[Len(seqs)]
    BY FlattenReached
  <1>2. Len(seqs) \in 0..Len(seqs)
    OBVIOUS
  <1>3. QED
    BY <1>1, <1>2 DEF IsFlattening

(* One sequence behind another has the elements of both.                   *)
LEMMA JoinHolds ==
    ASSUME NEW S, NEW s \in Seq(S), NEW t \in Seq(S)
    PROVE  ToSet(s \o t) = ToSet(s) \cup ToSet(t)
  <1>1. /\ Len(s) \in Nat /\ Len(t) \in Nat /\ DOMAIN s = 1..Len(s) /\ DOMAIN t = 1..Len(t)
        /\ DOMAIN (s \o t) = 1..(Len(s) + Len(t))
        /\ \A k \in 1..Len(s) : (s \o t)[k] = s[k]
        /\ \A k \in (Len(s) + 1)..(Len(s) + Len(t)) : (s \o t)[k] = t[k - Len(s)]
    OBVIOUS
  <1>2. \A k \in 1..(Len(s) + Len(t)) :
          \/ k \in 1..Len(s)
          \/ k \in (Len(s) + 1)..(Len(s) + Len(t)) /\ k - Len(s) \in 1..Len(t)
    BY <1>1
  <1>3. \A k \in 1..Len(s) : k \in 1..(Len(s) + Len(t))
    BY <1>1
  <1>4. \A k \in 1..Len(t) : /\ k + Len(s) \in (Len(s) + 1)..(Len(s) + Len(t))
                             /\ k + Len(s) \in 1..(Len(s) + Len(t))
                             /\ (k + Len(s)) - Len(s) = k
    BY <1>1
  <1> DEFINE both == s \o t
  <1> HIDE DEF both
  <1>5. ASSUME NEW x \in ToSet(both) PROVE x \in ToSet(s) \cup ToSet(t)
    BY <1>1, <1>2 DEF ToSet, both
  <1>6. ASSUME NEW x \in ToSet(s) PROVE x \in ToSet(both)
    BY <1>1, <1>3 DEF ToSet, both
  <1>7. ASSUME NEW x \in ToSet(t) PROVE x \in ToSet(both)
    <2>1. PICK k \in 1..Len(t) : x = t[k]
      BY <1>1 DEF ToSet
    <2>2. both[k + Len(s)] = x
      BY <1>1, <1>4, <2>1 DEF both
    <2>3. QED
      BY <1>1, <1>4, <2>2 DEF ToSet, both
  <1>8. QED
    BY <1>5, <1>6, <1>7 DEF both

(* It has the elements of all the parts.                                   *)
LEMMA FlattenedHolds ==
    ASSUME NEW S, NEW seqs \in Seq(Seq(S))
    PROVE  ToSet(FlattenSeq(seqs)) = UNION {ToSet(seqs[i]) : i \in 1..Len(seqs)}
  <1> DEFINE n == Len(seqs)
             Upto(i) == UNION {ToSet(seqs[k]) : k \in 1..i}
  <1>1. PICK g : IsFlattening(g, seqs, S) /\ FlattenSeq(seqs) = g[n]
    BY FlattenReached
  <1>2. /\ g \in [0..n -> Seq(S)]
        /\ g[0] = <<>>
        /\ \A i \in 1..n : g[i] = g[i - 1] \o seqs[i]
    BY <1>1 DEF IsFlattening
  <1>3. n \in Nat /\ \A i \in 1..n : seqs[i] \in Seq(S)
    OBVIOUS
  <1> HIDE DEF n
  <1> DEFINE right == {i \in 0..n : ToSet(g[i]) = Upto(i)}
  <1>4. 0 \in right
    <2>1. ToSet(<<>>) = {} /\ Upto(0) = {}
      BY DEF ToSet
    <2>2. QED
      BY <1>2, <1>3, <2>1
  <1>5. ASSUME NEW i \in 0..n, i < n, i \in right PROVE i + 1 \in right
    <2>1. i + 1 \in 1..n /\ i + 1 \in 0..n /\ (i + 1) - 1 = i
      BY <1>3, <1>5
    <2>2. g[i] \in Seq(S) /\ seqs[i + 1] \in Seq(S) /\ g[i + 1] = g[i] \o seqs[i + 1]
      BY <1>2, <1>3, <2>1
    <2>3. Upto(i + 1) = Upto(i) \cup ToSet(seqs[i + 1])
      <3>1. 1..(i + 1) = (1..i) \cup {i + 1}
        BY <1>5
      <3>2. QED
        BY <3>1
    <2> HIDE DEF Upto
    <2>4. ToSet(g[i + 1]) = ToSet(g[i]) \cup ToSet(seqs[i + 1])
      BY <2>2, JoinHolds
    <2>5. QED
      BY <1>5, <2>1, <2>3, <2>4
  <1>6. n \in right
    <2> HIDE DEF right
    <2>1. \A i \in 0..n : i \in right
      BY <1>3, <1>4, <1>5, UpTo
    <2>2. QED
      BY <1>3, <2>1
  <1>7. QED
    BY <1>1, <1>6 DEF n
================================================================================
