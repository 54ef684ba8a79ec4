---------------------------- MODULE BankerProofs ----------------------------
(***************************************************************************)
(* What holds of the Banker's file for every caller: its actions keep the  *)
(* types of its state, and what the loops of is_safe_state come to.        *)
(***************************************************************************)
EXTENDS CompletionOrder, FiniteSetTheorems, TLAPS

\* Every id has a row of the Banker's matrices (pid % MAX_PROCESSES).
LEMMA RowType == ASSUME NEW pid \in Nat PROVE Row(pid) \in Index
BY SizeAssumption DEF Row, Index

\* The vector operations stay within their types.
LEMMA VectorTypes ==
    ASSUME NEW u \in [Res -> Int], NEW v \in [Res -> Int]
    PROVE  /\ Plus(u, v) \in [Res -> Int]
           /\ Minus(u, v) \in [Res -> Int]
           /\ Clamped(u) \in Amounts
           /\ u \in Amounts /\ v \in Amounts => Plus(u, v) \in Amounts
           /\ u \in Amounts /\ v \in Amounts /\ Fits(v, u) => Minus(u, v) \in Amounts
BY DEF Plus, Minus, Clamped, Amounts, Fits

\* The cleared row is a vector of naturals.
LEMMA ZeroType == Zero \in Amounts /\ Zero \in [Res -> Int]
BY DEF Zero, Amounts

\* Amounts are integer vectors.
LEMMA AmountsInts == Amounts \subseteq [Res -> Int]
BY DEF Amounts

-----------------------------------------------------------------------------
\* A granted request: Fits(req, available) keeps the pool a vector of naturals.
LEMMA BankerGrantTypes ==
    ASSUME BankerTypeOK, NEW pid \in Nat, NEW req \in Amounts, request_granted(pid, req)
    PROVE  BankerTypeOK'
<1> DEFINE i == Row(pid)
<1>1. i \in Index
  BY RowType
<1>2. available' \in Amounts
  BY VectorTypes, AmountsInts DEF request_granted, Grants, BankerTypeOK
<1>3. allocation' \in [Index -> Amounts]
  BY <1>1, VectorTypes, AmountsInts DEF request_granted, AllocationAfter, BankerTypeOK
<1>4. max_need' \in [Index -> Amounts]
  BY <1>1 DEF request_granted, MaxNeedAfter, BankerTypeOK
<1>5. need' \in [Index -> [Res -> Int]]
  <2>1. Minus(max_need'[i], allocation'[i]) \in [Res -> Int]
    BY <1>1, <1>3, <1>4, VectorTypes, AmountsInts
  <2> QED BY <1>1, <2>1 DEF request_granted, BankerTypeOK
<1> QED BY <1>2, <1>3, <1>4, <1>5 DEF BankerTypeOK

\* A refused request leaves at most a maximum and a need behind.
LEMMA BankerDenyTypes ==
    ASSUME BankerTypeOK, NEW pid \in Nat, NEW req \in Amounts, request_denied(pid, req)
    PROVE  BankerTypeOK'
<1> DEFINE i == Row(pid)
<1>1. i \in Index
  BY RowType
<1>2. available' \in Amounts /\ allocation' \in [Index -> Amounts]
  BY DEF request_denied, BankerTypeOK
<1>3. max_need' \in [Index -> Amounts]
  BY <1>1 DEF request_denied, MaxNeedAfter, BankerTypeOK
<1>4. need' \in [Index -> [Res -> Int]]
  <2>1. Minus(max_need'[i], allocation[i]) \in [Res -> Int]
    BY <1>1, <1>3, VectorTypes, AmountsInts DEF BankerTypeOK
  <2> QED BY <1>1, <2>1 DEF request_denied, BankerTypeOK
<1> QED BY <1>2, <1>3, <1>4 DEF BankerTypeOK

\* A release clamps the row, so it stays a vector of naturals.
LEMMA BankerReleaseTypes ==
    ASSUME BankerTypeOK, NEW pid \in Nat, NEW req \in Amounts, release_resources(pid, req)
    PROVE  BankerTypeOK'
<1> DEFINE i == Row(pid)
           left == Clamped(Minus(allocation[i], req))
<1>1. i \in Index
  BY RowType
<1>2. left \in Amounts
  BY <1>1, VectorTypes, AmountsInts DEF BankerTypeOK
<1> HIDE DEF left
<1>3. available' \in Amounts
  BY VectorTypes, AmountsInts DEF release_resources, BankerTypeOK
<1>4. /\ allocation' = [allocation EXCEPT ![i] = left]
      /\ max_need' = IF left = Zero THEN [max_need EXCEPT ![i] = Zero] ELSE max_need
      /\ need' = [need EXCEPT ![i] = Minus(max_need'[i], left)]
  BY DEF release_resources, left
<1>5. allocation' \in [Index -> Amounts] /\ max_need' \in [Index -> Amounts]
  BY <1>1, <1>2, <1>4, ZeroType DEF BankerTypeOK
<1>6. Minus(max_need'[i], left) \in [Res -> Int]
  BY <1>1, <1>2, <1>5, VectorTypes, AmountsInts
<1>7. need' \in [Index -> [Res -> Int]]
  BY <1>1, <1>4, <1>6 DEF BankerTypeOK
<1> QED BY <1>3, <1>5, <1>7 DEF BankerTypeOK

-----------------------------------------------------------------------------
(* Loops: induction over the natural numbers, from the well-foundedness of   *)
(* strict inclusion among the initial segments 0 .. n.                       *)

LEMMA LeastNumber ==
    ASSUME NEW T \in SUBSET Nat, T # {}
    PROVE  \E m \in T : \A k \in T : m <= k
<1> DEFINE D == {0 .. n : n \in T}
<1>1. IsWellFoundedOn(StrictSubsetOrdering(Nat), FiniteSubsetsOf(Nat))
  BY FS_StrictSubsetOrderingWellFounded
<1>2. D \subseteq FiniteSubsetsOf(Nat)
  <2>1. ASSUME NEW n \in T
        PROVE  IsFiniteSet(0 .. n) /\ 0 .. n \in SUBSET Nat
    BY FS_Interval
  <2> QED BY <2>1 DEF FiniteSubsetsOf
<1>3. D # {}
  OBVIOUS
<1>4. \E x \in D : \A y \in D : <<y, x>> \notin StrictSubsetOrdering(Nat)
  <2> HIDE DEF D
  <2> QED BY <1>1, <1>2, <1>3, WFMin
<1>5. PICK m \in T : \A k \in T : <<0 .. k, 0 .. m>> \notin StrictSubsetOrdering(Nat)
  BY <1>4
<1>6. ASSUME NEW k \in T, k < m
      PROVE  FALSE
  <2>1. 0 .. k \in SUBSET Nat /\ 0 .. m \in SUBSET Nat
    OBVIOUS
  <2>2. 0 .. k \subseteq 0 .. m /\ m \in 0 .. m /\ m \notin 0 .. k
    BY <1>6
  <2> QED BY <2>1, <2>2, <1>5 DEF StrictSubsetOrdering
<1> QED
  BY <1>6

\* A loop's invariant: what holds at 0 and from each index to the next.
LEMMA LoopInduction ==
    ASSUME NEW n \in Nat, NEW T, 0 \in T,
           \A k \in 0 .. n - 1 : k \in T => k + 1 \in T
    PROVE  \A k \in 0 .. n : k \in T
<1> SUFFICES ASSUME NEW j \in 0 .. n, j \notin T PROVE FALSE
  OBVIOUS
<1> DEFINE Bad == {k \in 0 .. n : k \notin T}
<1>1. Bad \in SUBSET Nat /\ Bad # {}
  OBVIOUS
<1>2. PICK m \in Bad : \A k \in Bad : m <= k
  <2> HIDE DEF Bad
  <2> QED BY <1>1, LeastNumber
<1>3. m # 0 /\ m - 1 \in 0 .. n - 1 /\ m - 1 \notin Bad
  BY <1>2
<1> QED BY <1>2, <1>3

\* What each of n rounds of a loop makes of a state in S.
Rounds(n, S) == [1 .. n -> [S -> S]]

\* A loop has a history: the states before and after each of its rounds.
LEMMA LoopExists ==
    ASSUME NEW n \in Nat, NEW S, NEW s0 \in S, NEW step \in Rounds(n, S)
    PROVE  \E h \in [0 .. n -> S] :
              h[0] = s0 /\ \A k \in 1 .. n : h[k] = step[k][h[k - 1]]
<1> DEFINE Done(k) == \E h \in [0 .. k -> S] :
                         h[0] = s0 /\ \A j \in 1 .. k : h[j] = step[j][h[j - 1]]
           T == {k \in 0 .. n : Done(k)}
<1>1. 0 \in T
  <2> DEFINE h == [j \in 0 .. 0 |-> s0]
  <2>1. h \in [0 .. 0 -> S] /\ h[0] = s0 /\ 1 .. 0 = {}
    OBVIOUS
  <2>2. \A j \in 1 .. 0 : h[j] = step[j][h[j - 1]]
    BY <2>1
  <2> HIDE DEF h
  <2>3. Done(0)
    BY <2>1, <2>2
  <2> QED BY <2>3
<1>2. ASSUME NEW k \in 0 .. n - 1, k \in T
      PROVE  k + 1 \in T
  <2>1. PICK h \in [0 .. k -> S] : h[0] = s0 /\ \A j \in 1 .. k : h[j] = step[j][h[j - 1]]
    BY <1>2
  <2> DEFINE g == [j \in 0 .. k + 1 |-> IF j = k + 1 THEN step[k + 1][h[k]] ELSE h[j]]
  <2>2. step[k + 1][h[k]] \in S
    <3>1. k + 1 \in 1 .. n /\ h[k] \in S
      BY <2>1
    <3> QED BY <3>1 DEF Rounds
  <2>3. g \in [0 .. k + 1 -> S] /\ g[0] = s0
    BY <2>1, <2>2
  <2>4. ASSUME NEW j \in 1 .. k + 1
        PROVE  g[j] = step[j][g[j - 1]]
    <3>1. CASE j = k + 1
      BY <3>1
    <3>2. CASE j # k + 1
      <4>1. j \in 1 .. k /\ g[j] = h[j] /\ g[j - 1] = h[j - 1]
        BY <3>2
      <4> QED BY <2>1, <4>1
    <3> QED BY <3>1, <3>2
  <2> HIDE DEF g
  <2>5. Done(k + 1)
    BY <2>3, <2>4
  <2> QED BY <2>5
<1> HIDE DEF T
<1>3. \A k \in 0 .. n - 1 : k \in T => k + 1 \in T
  BY <1>2
<1>4. n \in T
  <2>1. \A k \in 0 .. n : k \in T
    BY <1>1, <1>3, LoopInduction
  <2> QED BY <2>1
<1> QED BY <1>4 DEF T
-----------------------------------------------------------------------------
(* The safety algorithm *)

Searches == [work : [Res -> Int], finish : SUBSET Index]

Vectors == [Res -> Int]
Needs == [Index -> Vectors]

Begin(av) == [work |-> av, finish |-> {}]

\* The while loop has nothing left to do.
Stuck(s, mx, nd) == \A i \in Active(mx) \ s.finish : ~Fits(nd[i], s.work)

LEMMA FitsOrder ==
    ASSUME NEW u \in [Res -> Int], NEW v \in [Res -> Int], NEW w \in [Res -> Int]
    PROVE  Fits(u, u) /\ (Fits(u, v) /\ Fits(v, w) => Fits(u, w))
BY DEF Fits

\* Visiting a row only adds to what is finished and to what is free.
LEMMA VisitGrows ==
    ASSUME NEW s \in Searches, NEW i \in Index,
           NEW al \in [Index -> Amounts],
           NEW mx, NEW nd \in Needs
    PROVE  /\ Visit(s, i, al, mx, nd) \in Searches
           /\ s.finish \subseteq Visit(s, i, al, mx, nd).finish
           /\ Fits(s.work, Visit(s, i, al, mx, nd).work)
<1>1. s.work \in [Res -> Int] /\ s.finish \in SUBSET Index /\ al[i] \in Amounts
  BY DEF Searches
<1>2. Plus(s.work, al[i]) \in [Res -> Int] /\ Fits(s.work, Plus(s.work, al[i]))
  BY <1>1 DEF Plus, Fits, Amounts
<1>3. CASE i \in Active(mx) \ s.finish /\ Fits(nd[i], s.work)
  <2>1. Visit(s, i, al, mx, nd) = [work |-> Plus(s.work, al[i]), finish |-> s.finish \union {i}]
    BY <1>3 DEF Visit
  <2> QED BY <1>1, <1>2, <2>1 DEF Searches
<1>4. CASE ~(i \in Active(mx) \ s.finish /\ Fits(nd[i], s.work))
  <2>1. Visit(s, i, al, mx, nd) = s
    BY <1>4 DEF Visit
  <2> QED BY <1>1, <2>1, FitsOrder
<1> QED BY <1>3, <1>4

\* The for loop of one sweep, round by round.
LEMMA SweepRounds ==
    ASSUME NEW s \in Searches, NEW al \in [Index -> Amounts],
           NEW mx, NEW nd \in Needs
    PROVE  \E h \in [0 .. MAX_PROCESSES -> Searches] :
              /\ h[0] = s
              /\ \A k \in 1 .. MAX_PROCESSES : h[k] = Visit(h[k - 1], k - 1, al, mx, nd)
              /\ Sweep(s, al, mx, nd) = h[MAX_PROCESSES]
<1> DEFINE N == MAX_PROCESSES
           step == [k \in 1 .. N |-> [t \in Searches |-> Visit(t, k - 1, al, mx, nd)]]
           Is(g) == g = [i \in 0 .. N |-> IF i = 0 THEN s ELSE Visit(g[i - 1], i - 1, al, mx, nd)]
           v == CHOOSE g : Is(g)
<1>1. N \in Nat /\ \A k \in 1 .. N : k - 1 \in Index
  BY SizeAssumption DEF Index
<1>2. step \in Rounds(N, Searches)
  <2>1. ASSUME NEW k \in 1 .. N, NEW t \in Searches
        PROVE  Visit(t, k - 1, al, mx, nd) \in Searches
    BY <1>1, VisitGrows
  <2> QED BY <2>1 DEF Rounds
<1>3. PICK h \in [0 .. N -> Searches] : h[0] = s /\ \A k \in 1 .. N : h[k] = step[k][h[k - 1]]
  <2> HIDE DEF step, N
  <2>1. N \in Nat /\ s \in Searches
    BY <1>1
  <2> QED BY <2>1, <1>2, LoopExists
<1>4. \A k \in 1 .. N : h[k] = Visit(h[k - 1], k - 1, al, mx, nd)
  <2> SUFFICES ASSUME NEW k \in 1 .. N
               PROVE  h[k] = Visit(h[k - 1], k - 1, al, mx, nd)
    OBVIOUS
  <2>1. h[k - 1] \in Searches
    BY <1>1, <1>3
  <2> QED BY <1>3, <2>1
<1>5. Is(h)
  <2>1. h = [i \in 0 .. N |-> h[i]]
    BY <1>3
  <2>2. \A i \in 0 .. N : h[i] = IF i = 0 THEN s ELSE Visit(h[i - 1], i - 1, al, mx, nd)
    BY <1>1, <1>3, <1>4
  <2> QED BY <2>1, <2>2
<1>6. Is(v)
  BY <1>5
<1>7. v[0] = s /\ \A k \in 1 .. N : v[k] = Visit(v[k - 1], k - 1, al, mx, nd)
  <2> HIDE DEF v
  <2> QED BY <1>1, <1>6
<1>8. v \in [0 .. N -> Searches]
  <2> HIDE DEF v
  <2> DEFINE T == {k \in 0 .. N : v[k] \in Searches}
  <2>1. 0 \in T
    BY <1>1, <1>7
  <2>2. \A k \in 0 .. N - 1 : k \in T => k + 1 \in T
    <3> SUFFICES ASSUME NEW k \in 0 .. N - 1, v[k] \in Searches
                 PROVE  v[k + 1] \in Searches
      BY <1>1
    <3>1. k + 1 \in 1 .. N /\ k \in Index /\ k + 1 - 1 = k
      BY <1>1 DEF Index
    <3>2. v[k + 1] = Visit(v[k], k, al, mx, nd)
      BY <1>7, <3>1
    <3> QED BY <3>1, <3>2, VisitGrows
  <2>3. \A k \in 0 .. N : k \in T
    <3> HIDE DEF T
    <3> QED BY <1>1, <2>1, <2>2, LoopInduction
  <2> QED BY <1>6, <2>3
<1>9. Sweep(s, al, mx, nd) = v[N]
  BY DEF Sweep
<1> HIDE DEF v
<1> QED BY <1>7, <1>8, <1>9

\* A sweep keeps whatever each of its visits keeps.
LEMMA SweepKeeps ==
    ASSUME NEW s \in Searches, NEW al \in [Index -> Amounts],
           NEW mx, NEW nd \in Needs,
           NEW G, s \in G, G \subseteq Searches,
           \A t \in G : \A i \in Index : Visit(t, i, al, mx, nd) \in G
    PROVE  Sweep(s, al, mx, nd) \in G
<1>1. PICK h \in [0 .. MAX_PROCESSES -> Searches] :
              /\ h[0] = s
              /\ \A k \in 1 .. MAX_PROCESSES : h[k] = Visit(h[k - 1], k - 1, al, mx, nd)
              /\ Sweep(s, al, mx, nd) = h[MAX_PROCESSES]
  BY SweepRounds
<1> DEFINE T == {k \in 0 .. MAX_PROCESSES : h[k] \in G}
<1>2. MAX_PROCESSES \in Nat /\ 0 \in T
  BY <1>1, SizeAssumption
<1>3. \A k \in 0 .. MAX_PROCESSES - 1 : k \in T => k + 1 \in T
  <2> SUFFICES ASSUME NEW k \in 0 .. MAX_PROCESSES - 1, h[k] \in G
               PROVE  h[k + 1] \in G
    BY <1>2
  <2>1. k + 1 \in 1 .. MAX_PROCESSES /\ k \in Index /\ k + 1 - 1 = k
    BY <1>2 DEF Index
  <2>2. h[k + 1] = Visit(h[k], k, al, mx, nd)
    BY <1>1, <2>1
  <2> QED BY <2>1, <2>2
<1>4. \A k \in 0 .. MAX_PROCESSES : k \in T
  <2> HIDE DEF T
  <2> QED BY <1>2, <1>3, LoopInduction
<1> QED BY <1>1, <1>2, <1>4

\* A row that can finish when the sweep begins has finished when it ends: what
\* is free only grows until the sweep reaches the row.
LEMMA SweepCatches ==
    ASSUME NEW s \in Searches, NEW al \in [Index -> Amounts],
           NEW mx, NEW nd \in Needs,
           NEW i \in Active(mx), Fits(nd[i], s.work)
    PROVE  i \in Sweep(s, al, mx, nd).finish
<1>1. PICK h \in [0 .. MAX_PROCESSES -> Searches] :
              /\ h[0] = s
              /\ \A k \in 1 .. MAX_PROCESSES : h[k] = Visit(h[k - 1], k - 1, al, mx, nd)
              /\ Sweep(s, al, mx, nd) = h[MAX_PROCESSES]
  BY SweepRounds
<1> DEFINE T == {k \in 0 .. MAX_PROCESSES :
                    Fits(nd[i], h[k].work) /\ (i < k => i \in h[k].finish)}
<1>2. i \in Index /\ MAX_PROCESSES \in Nat /\ i \in Int /\ i >= 0 /\ i < MAX_PROCESSES
  BY SizeAssumption DEF Active, Index
<1>3. 0 \in T
  BY <1>1, <1>2
<1>4. \A k \in 0 .. MAX_PROCESSES - 1 : k \in T => k + 1 \in T
  <2> SUFFICES ASSUME NEW k \in 0 .. MAX_PROCESSES - 1,
                      Fits(nd[i], h[k].work), i < k => i \in h[k].finish
               PROVE  Fits(nd[i], h[k + 1].work) /\ (i < k + 1 => i \in h[k + 1].finish)
    BY <1>2
  <2>1. k + 1 \in 1 .. MAX_PROCESSES /\ k \in Index /\ k + 1 - 1 = k /\ k \in 0 .. MAX_PROCESSES
    BY <1>2 DEF Index
  <2>2. h[k + 1] = Visit(h[k], k, al, mx, nd) /\ h[k] \in Searches /\ h[k + 1] \in Searches
    BY <1>1, <2>1
  <2>3. h[k].finish \subseteq h[k + 1].finish /\ Fits(h[k].work, h[k + 1].work)
    BY <2>1, <2>2, VisitGrows
  <2>4. Fits(nd[i], h[k + 1].work)
    <3>1. /\ nd[i] \in [Res -> Int] /\ h[k].work \in [Res -> Int]
          /\ h[k + 1].work \in [Res -> Int]
      BY <1>2, <2>2 DEF Searches, Needs, Vectors
    <3> QED BY <2>3, <3>1 DEF Fits
  <2>5. ASSUME i = k
        PROVE  i \in h[k + 1].finish
    BY <2>2, <2>5 DEF Visit
  <2>6. i < k + 1 => i < k \/ i = k
    BY <1>2
  <2> QED BY <2>3, <2>4, <2>5, <2>6
<1>5. \A k \in 0 .. MAX_PROCESSES : k \in T
  <2> HIDE DEF T
  <2> QED BY <1>2, <1>3, <1>4, LoopInduction
<1> QED BY <1>1, <1>2, <1>5

\* A sweep that finds nothing changes nothing.
LEMMA SweepStuck ==
    ASSUME NEW s \in Searches, NEW al \in [Index -> Amounts],
           NEW mx, NEW nd \in Needs, Stuck(s, mx, nd)
    PROVE  Sweep(s, al, mx, nd) = s
<1>1. \A t \in {s} : \A i \in Index : Visit(t, i, al, mx, nd) \in {s}
  BY DEF Visit, Stuck
<1>2. s \in {s} /\ {s} \subseteq Searches
  OBVIOUS
<1>3. Sweep(s, al, mx, nd) \in {s}
  BY <1>1, <1>2, SweepKeeps
<1> QED BY <1>3

\* A sweep takes no row back.
LEMMA SweepGrows ==
    ASSUME NEW s \in Searches, NEW al \in [Index -> Amounts], NEW mx, NEW nd \in Needs
    PROVE  Sweep(s, al, mx, nd) \in Searches /\ s.finish \subseteq Sweep(s, al, mx, nd).finish
<1> DEFINE G == {t \in Searches : s.finish \subseteq t.finish}
<1>1. s \in G /\ G \subseteq Searches
  OBVIOUS
<1>2. \A t \in G : \A i \in Index : Visit(t, i, al, mx, nd) \in G
  BY VisitGrows
<1>3. Sweep(s, al, mx, nd) \in G
  <2> HIDE DEF G
  <2> QED BY <1>1, <1>2, SweepKeeps
<1> QED BY <1>3

\* The while loop, sweep by sweep.
LEMMA SearchRounds ==
    ASSUME NEW av \in Vectors, NEW al \in [Index -> Amounts], NEW mx, NEW nd \in Needs,
           NEW process_count
    PROVE  \E h \in [0 .. MAX_PROCESSES -> Searches] :
              /\ h[0] = Begin(av)
              /\ \A k \in 1 .. MAX_PROCESSES : h[k] = Sweep(h[k - 1], al, mx, nd)
              /\ is_safe_state(av, al, mx, nd, process_count) <=>
                    Cardinality(h[MAX_PROCESSES].finish) >= process_count
<1> DEFINE N == MAX_PROCESSES
           s == Begin(av)
           step == [k \in 1 .. N |-> [t \in Searches |-> Sweep(t, al, mx, nd)]]
           Is(g) == g = [k \in 0 .. N |-> IF k = 0 THEN s ELSE Sweep(g[k - 1], al, mx, nd)]
           v == CHOOSE g : Is(g)
<1>1. N \in Nat /\ s \in Searches
  BY SizeAssumption DEF Begin, Searches, Vectors
<1>2. step \in Rounds(N, Searches)
  BY SweepGrows DEF Rounds
<1>3. PICK h \in [0 .. N -> Searches] : h[0] = s /\ \A k \in 1 .. N : h[k] = step[k][h[k - 1]]
  <2> HIDE DEF step, N, s
  <2> QED BY <1>1, <1>2, LoopExists
<1>4. \A k \in 1 .. N : h[k] = Sweep(h[k - 1], al, mx, nd)
  <2> SUFFICES ASSUME NEW k \in 1 .. N
               PROVE  h[k] = Sweep(h[k - 1], al, mx, nd)
    OBVIOUS
  <2>1. h[k - 1] \in Searches
    BY <1>1, <1>3
  <2> QED BY <1>3, <2>1
<1>5. Is(h)
  <2>1. h = [k \in 0 .. N |-> h[k]]
    BY <1>3
  <2>2. \A k \in 0 .. N : h[k] = IF k = 0 THEN s ELSE Sweep(h[k - 1], al, mx, nd)
    BY <1>1, <1>3, <1>4
  <2> QED BY <2>1, <2>2
<1>6. Is(v)
  BY <1>5
<1>7. v[0] = s /\ \A k \in 1 .. N : v[k] = Sweep(v[k - 1], al, mx, nd)
  <2> HIDE DEF v, s
  <2> QED BY <1>1, <1>6
<1>8. v \in [0 .. N -> Searches]
  <2> HIDE DEF v, s
  <2> DEFINE T == {k \in 0 .. N : v[k] \in Searches}
  <2>1. 0 \in T
    BY <1>1, <1>7
  <2>2. \A k \in 0 .. N - 1 : k \in T => k + 1 \in T
    <3> SUFFICES ASSUME NEW k \in 0 .. N - 1, v[k] \in Searches
                 PROVE  v[k + 1] \in Searches
      BY <1>1
    <3>1. k + 1 \in 1 .. N /\ k + 1 - 1 = k
      BY <1>1
    <3>2. v[k + 1] = Sweep(v[k], al, mx, nd)
      BY <1>7, <3>1
    <3> QED BY <3>2, SweepGrows
  <2>3. \A k \in 0 .. N : k \in T
    <3> HIDE DEF T
    <3> QED BY <1>1, <2>1, <2>2, LoopInduction
  <2> QED BY <1>6, <2>3
<1>9. is_safe_state(av, al, mx, nd, process_count) <=> Cardinality(v[N].finish) >= process_count
  BY DEF is_safe_state, Begin
<1> HIDE DEF v
<1> QED BY <1>7, <1>8, <1>9

\* What is_safe_state comes to: it answers yes exactly when the search it makes
\* finishes every process, the search ends only where no unfinished process can
\* finish, and it keeps whatever each visit keeps.
THEOREM SearchResult ==
    ASSUME NEW av \in Vectors, NEW al \in [Index -> Amounts], NEW mx, NEW nd \in Needs
    PROVE  \E t \in Searches :
              /\ is_safe_state(av, al, mx, nd, Cardinality(Active(mx))) <=> t.finish = Active(mx)
              /\ Stuck(t, mx, nd)
              /\ \A G \in SUBSET Searches :
                    /\ Begin(av) \in G
                    /\ \A s \in G : \A i \in Index : Visit(s, i, al, mx, nd) \in G
                    => t \in G
<1> DEFINE N == MAX_PROCESSES
           count == Cardinality(Active(mx))
<1> HIDE DEF count
<1>1. PICK h \in [0 .. N -> Searches] :
         /\ h[0] = Begin(av)
         /\ \A k \in 1 .. N : h[k] = Sweep(h[k - 1], al, mx, nd)
         /\ is_safe_state(av, al, mx, nd, count) <=> Cardinality(h[N].finish) >= count
  BY SearchRounds
<1>2. N \in Nat /\ N >= 1 /\ \A k \in 0 .. N : h[k] \in Searches
  BY <1>1, SizeAssumption
<1>3. \A k \in 0 .. N - 1 : h[k + 1] = Sweep(h[k], al, mx, nd) /\ k \in 0 .. N /\ k + 1 \in 0 .. N
  <2> SUFFICES ASSUME NEW k \in 0 .. N - 1
               PROVE  h[k + 1] = Sweep(h[k], al, mx, nd) /\ k \in 0 .. N /\ k + 1 \in 0 .. N
    OBVIOUS
  <2>1. k + 1 \in 1 .. N /\ k + 1 - 1 = k
    BY <1>2
  <2>2. h[k + 1] = Sweep(h[k + 1 - 1], al, mx, nd)
    BY <1>1, <2>1
  <2> QED BY <1>2, <2>1, <2>2
<1>4. ASSUME NEW G \in SUBSET Searches, Begin(av) \in G,
             \A s \in G : \A i \in Index : Visit(s, i, al, mx, nd) \in G
      PROVE  h[N] \in G
  <2> DEFINE T == {k \in 0 .. N : h[k] \in G}
  <2>1. 0 \in T
    BY <1>1, <1>2, <1>4
  <2>2. \A k \in 0 .. N - 1 : k \in T => k + 1 \in T
    <3> SUFFICES ASSUME NEW k \in 0 .. N - 1, h[k] \in G
                 PROVE  h[k + 1] \in G
      BY <1>3
    <3>1. h[k + 1] = Sweep(h[k], al, mx, nd) /\ h[k] \in Searches
      BY <1>2, <1>3
    <3>2. Sweep(h[k], al, mx, nd) \in G
      BY <1>4, <3>1, SweepKeeps
    <3> QED BY <3>1, <3>2
  <2>3. \A k \in 0 .. N : k \in T
    <3> HIDE DEF T
    <3> QED BY <1>2, <2>1, <2>2, LoopInduction
  <2> QED BY <1>2, <2>3
<1>5. IsFiniteSet(Index) /\ Cardinality(Index) = N
  BY <1>2, FS_Interval DEF Index
<1>6. \A S \in SUBSET Index : IsFiniteSet(S) /\ Cardinality(S) \in Nat
  BY <1>5, FS_Subset, FS_CardinalityType
<1>7. \A k \in 0 .. N : h[k].finish \in SUBSET Index
  BY <1>2 DEF Searches
<1>8. h[N].finish \subseteq Active(mx)
  <2> DEFINE G == {s \in Searches : s.finish \subseteq Active(mx)}
  <2>1. G \in SUBSET Searches /\ Begin(av) \in G
    BY DEF Begin, Searches, Vectors
  <2>2. \A s \in G : \A i \in Index : Visit(s, i, al, mx, nd) \in G
    <3> SUFFICES ASSUME NEW s \in G, NEW i \in Index
                 PROVE  Visit(s, i, al, mx, nd).finish \subseteq Active(mx)
      BY VisitGrows
    <3> QED BY DEF Visit
  <2>3. h[N] \in G
    <3> HIDE DEF G
    <3> QED BY <1>4, <2>1, <2>2
  <2> QED BY <2>3
<1>9. Active(mx) \in SUBSET Index
  BY DEF Active
<1>10. Stuck(h[N], mx, nd)
  <2> DEFINE T == {k \in 0 .. N : Stuck(h[k], mx, nd) \/ Cardinality(h[k].finish) >= k}
  <2>1. 0 \in T
    BY <1>2, <1>6, <1>7
  <2>2. ASSUME NEW k \in 0 .. N - 1, k \in T
        PROVE  k + 1 \in T
    <3>1. /\ h[k + 1] = Sweep(h[k], al, mx, nd) /\ h[k] \in Searches /\ h[k + 1] \in Searches
          /\ k \in 0 .. N /\ k + 1 \in 0 .. N
      BY <1>2, <1>3
    <3>2. CASE Stuck(h[k], mx, nd)
      BY <3>1, <3>2, SweepStuck
    <3>3. CASE ~Stuck(h[k], mx, nd)
      <4>1. PICK i \in Active(mx) \ h[k].finish : Fits(nd[i], h[k].work)
        BY <3>3 DEF Stuck
      <4>2. i \in h[k + 1].finish
        BY <3>1, <4>1, SweepCatches
      <4>3. h[k].finish \subseteq h[k + 1].finish
        BY <3>1, SweepGrows
      <4>4. /\ IsFiniteSet(h[k].finish) /\ IsFiniteSet(h[k + 1].finish)
            /\ Cardinality(h[k].finish) \in Nat /\ Cardinality(h[k + 1].finish) \in Nat
        BY <1>6, <1>7, <3>1
      <4>5. Cardinality(h[k].finish \union {i}) = Cardinality(h[k].finish) + 1
        BY <4>1, <4>4, FS_AddElement
      <4>6. h[k].finish \union {i} \in SUBSET h[k + 1].finish
        BY <4>2, <4>3
      <4>7. Cardinality(h[k].finish \union {i}) <= Cardinality(h[k + 1].finish)
        BY <4>4, <4>6, FS_Subset
      <4>8. Cardinality(h[k].finish) >= k
        BY <2>2, <3>3
      <4> QED BY <3>1, <4>4, <4>5, <4>7, <4>8
    <3> QED BY <3>2, <3>3
  <2>3. \A k \in 0 .. N : k \in T
    <3>1. \A k \in 0 .. N - 1 : k \in T => k + 1 \in T
      BY <2>2
    <3> HIDE DEF T
    <3> QED BY <1>2, <2>1, <3>1, LoopInduction
  <2>4. CASE Cardinality(h[N].finish) >= N
    <3>1. /\ h[N].finish \in SUBSET Index /\ Cardinality(h[N].finish) \in Nat
          /\ Cardinality(h[N].finish) <= Cardinality(Index)
      BY <1>2, <1>5, <1>6, <1>7, FS_Subset
    <3>2. Cardinality(Index) = Cardinality(h[N].finish)
      BY <1>2, <1>5, <2>4, <3>1
    <3>3. h[N].finish = Index
      BY <1>5, <3>1, <3>2, FS_Subset
    <3> QED BY <1>9, <3>3 DEF Stuck
  <2> QED BY <1>2, <2>3, <2>4
<1>11. Cardinality(h[N].finish) >= count <=> h[N].finish = Active(mx)
  <2>1. IsFiniteSet(Active(mx)) /\ count \in Nat /\ Cardinality(h[N].finish) \in Nat
    BY <1>2, <1>6, <1>7, <1>9 DEF count
  <2>2. /\ Cardinality(h[N].finish) <= count
        /\ count = Cardinality(h[N].finish) => Active(mx) = h[N].finish
    BY <1>8, <2>1, FS_Subset DEF count
  <2>3. h[N].finish = Active(mx) => Cardinality(h[N].finish) = count
    BY DEF count
  <2> QED BY <2>1, <2>2, <2>3
<1>12. h[N] \in Searches
  BY <1>2
<1>13. is_safe_state(av, al, mx, nd, Cardinality(Active(mx))) <=> h[N].finish = Active(mx)
  BY <1>1, <1>11 DEF count
<1>14. \A G \in SUBSET Searches :
          /\ Begin(av) \in G
          /\ \A s \in G : \A i \in Index : Visit(s, i, al, mx, nd) \in G
          => h[N] \in G
  BY <1>4
<1> QED BY <1>10, <1>12, <1>13, <1>14

-----------------------------------------------------------------------------
(* Sums: SumFunctionOnSet takes its elements in an order CHOOSE decides; over *)
(* a finite set the order does not matter.                                    *)

LEMMA SetInduction ==
    ASSUME NEW S, IsFiniteSet(S), NEW F, {} \in F,
           \A T \in SUBSET S : T # {} /\ (\A x \in T : T \ {x} \in F) => T \in F
    PROVE  \A T \in SUBSET S : T \in F
<1> SUFFICES ASSUME NEW T \in SUBSET S, T \notin F PROVE FALSE
  OBVIOUS
<1> DEFINE Bad == {U \in SUBSET S : U \notin F}
<1>1. FiniteSubsetsOf(S) = SUBSET S /\ IsWellFoundedOn(StrictSubsetOrdering(S), FiniteSubsetsOf(S))
  BY FS_FiniteSubsetsOfFinite, FS_StrictSubsetOrderingWellFounded
<1>2. Bad \subseteq FiniteSubsetsOf(S) /\ Bad # {}
  BY <1>1
<1>3. PICK U \in Bad : \A V \in Bad : <<V, U>> \notin StrictSubsetOrdering(S)
  <2> HIDE DEF Bad
  <2> QED BY <1>1, <1>2, WFMin
<1>4. U # {}
  BY <1>3
<1>5. ASSUME NEW x \in U
      PROVE  U \ {x} \in F
  <2>1. <<U \ {x}, U>> \in StrictSubsetOrdering(S)
    BY <1>3 DEF StrictSubsetOrdering
  <2> QED BY <1>3, <2>1
<1> QED BY <1>3, <1>4, <1>5

\* The laws a sum obeys, as a function of the subset summed over.
IsSum(g, f, S) ==
    /\ g[{}] = 0
    /\ \A T \in SUBSET S : g[T] \in Int /\ \A x \in T : g[T] = f[x] + g[T \ {x}]

LEMMA SumExists ==
    ASSUME NEW S, IsFiniteSet(S), NEW f, \A x \in S : f[x] \in Int
    PROVE  \E g : IsSum(g, f, S)
<1> DEFINE F == {U \in SUBSET S : \E g : IsSum(g, f, U)}
<1>1. {} \in F
  <2> DEFINE g == [T \in {{}} |-> 0]
  <2>1. IsSum(g, f, {})
    BY DEF IsSum
  <2> HIDE DEF g
  <2>2. \E h : IsSum(h, f, {})
    BY <2>1
  <2> QED BY <2>2
<1>2. ASSUME NEW U \in SUBSET S, NEW x \in U, U \ {x} \in F
      PROVE  U \in F
  <2>1. PICK g : IsSum(g, f, U \ {x})
    BY <1>2
  <2> DEFINE h == [T \in SUBSET U |-> IF x \in T THEN f[x] + g[T \ {x}] ELSE g[T]]
  <2>2. h[{}] = 0
    BY <2>1 DEF IsSum
  <2>3. ASSUME NEW T \in SUBSET U
        PROVE  h[T] \in Int /\ \A y \in T : h[T] = f[y] + h[T \ {y}]
    <3>1. CASE x \notin T
      <4>1. T \in SUBSET (U \ {x}) /\ h[T] = g[T]
        BY <3>1
      <4>2. \A y \in T : h[T \ {y}] = g[T \ {y}]
        BY <3>1
      <4> QED BY <2>1, <4>1, <4>2 DEF IsSum
    <3>2. CASE x \in T
      <4>1. T \ {x} \in SUBSET (U \ {x}) /\ h[T] = f[x] + g[T \ {x}] /\ f[x] \in Int
        BY <3>2
      <4>2. g[T \ {x}] \in Int
        BY <2>1, <4>1 DEF IsSum
      <4>3. ASSUME NEW y \in T, y # x
            PROVE  h[T] = f[y] + h[T \ {y}]
        <5>1. y \in T \ {x} /\ f[y] \in Int
          BY <4>3
        <5>2. g[T \ {x}] = f[y] + g[(T \ {x}) \ {y}]
          BY <2>1, <4>1, <5>1 DEF IsSum
        <5>3. (T \ {x}) \ {y} = (T \ {y}) \ {x} /\ (T \ {x}) \ {y} \in SUBSET (U \ {x})
          OBVIOUS
        <5>4. g[(T \ {x}) \ {y}] \in Int
          BY <2>1, <5>3 DEF IsSum
        <5>5. T \ {y} \in SUBSET U /\ x \in T \ {y}
          BY <3>2, <4>3
        <5>6. h[T \ {y}] = f[x] + g[(T \ {y}) \ {x}]
          BY <5>5
        <5>7. g[(T \ {y}) \ {x}] = g[(T \ {x}) \ {y}]
          BY <5>3
        <5>8. h[T \ {y}] = f[x] + g[(T \ {x}) \ {y}]
          BY <5>6, <5>7
        <5>9. /\ h[T] = f[x] + g[T \ {x}] /\ f[x] \in Int /\ f[y] \in Int
              /\ g[T \ {x}] = f[y] + g[(T \ {x}) \ {y}] /\ g[(T \ {x}) \ {y}] \in Int
          BY <4>1, <5>1, <5>2, <5>4
        <5> DEFINE rest == g[(T \ {x}) \ {y}]
                   less == h[T \ {y}]
                   all == h[T]
        <5>10. all = less + f[y] /\ less \in Int
          <6>1. less = f[x] + rest /\ all = f[x] + (f[y] + rest) /\ rest \in Int /\ f[x] \in Int /\ f[y] \in Int
            BY <5>8, <5>9
          <6> HIDE DEF rest, less, all, h
          <6> QED BY <6>1
        <5> HIDE DEF h
        <5> QED BY <5>9, <5>10
      <4>4. h[T] = f[x] + h[T \ {x}]
        <5>1. h[T \ {x}] = g[T \ {x}]
          OBVIOUS
        <5> QED BY <4>1, <5>1
      <4>5. h[T] \in Int
        BY <4>1, <4>2
      <4> HIDE DEF h
      <4> QED BY <4>3, <4>4, <4>5
    <3> QED BY <3>1, <3>2
  <2> HIDE DEF h
  <2>4. IsSum(h, f, U)
    BY <2>2, <2>3 DEF IsSum
  <2> QED BY <2>4
<1>3. \A U \in SUBSET S : U \in F
  <2>1. \A U \in SUBSET S : U # {} /\ (\A x \in U : U \ {x} \in F) => U \in F
    BY <1>2
  <2> HIDE DEF F
  <2> QED BY <1>1, <2>1, SetInduction
<1> QED BY <1>3

\* The fold of the community modules is that sum.
LEMMA SumUnique ==
    ASSUME NEW S, IsFiniteSet(S), NEW f, \A x \in S : f[x] \in Int,
           NEW g, IsSum(g, f, S)
    PROVE  SumFunctionOnSet(f, S) = g[S]
<1> DEFINE some(s) == CHOOSE x \in s : TRUE
           Is(h) == h = [s \in SUBSET S |-> IF s = {} THEN 0 ELSE f[some(s)] + h[s \ {some(s)}]]
           iter == CHOOSE h : Is(h)
<1>1. \A s \in SUBSET S : s # {} => some(s) \in s
  OBVIOUS
<1>2. \E h : Is(h)
  <2> DEFINE h == [s \in SUBSET S |-> g[s]]
  <2>1. ASSUME NEW s \in SUBSET S
        PROVE  h[s] = IF s = {} THEN 0 ELSE f[some(s)] + h[s \ {some(s)}]
    <3>1. CASE s = {}
      BY <3>1 DEF IsSum
    <3>2. CASE s # {}
      <4>1. some(s) \in s
        BY <1>1, <3>2
      <4> HIDE DEF some
      <4>2. g[s] = f[some(s)] + g[s \ {some(s)}]
        BY <4>1 DEF IsSum
      <4>3. h[s] = g[s] /\ h[s \ {some(s)}] = g[s \ {some(s)}]
        OBVIOUS
      <4> QED BY <3>2, <4>2, <4>3
    <3> QED BY <3>1, <3>2
  <2> HIDE DEF some
  <2>2. h = [s \in SUBSET S |-> h[s]]
    OBVIOUS
  <2>3. Is(h)
    <3> HIDE DEF h
    <3> QED BY <2>1, <2>2
  <2> HIDE DEF h, Is
  <2> QED BY <2>3
<1>3. Is(iter)
  <2> HIDE DEF Is
  <2> QED BY <1>2
<1>4. SumFunctionOnSet(f, S) = iter[S]
  BY DEF SumFunctionOnSet, FoldFunctionOnSet, MapThenFoldSet
<1> HIDE DEF iter
<1> DEFINE F == {s \in SUBSET S : iter[s] = g[s]}
<1>5. {} \in F
  BY <1>3 DEF IsSum
<1>6. ASSUME NEW s \in SUBSET S, s # {}, \A x \in s : s \ {x} \in F
      PROVE  s \in F
  <2>1. some(s) \in s
    BY <1>1, <1>6
  <2>2. iter[s] = f[some(s)] + iter[s \ {some(s)}]
    BY <1>3, <1>6
  <2> HIDE DEF some
  <2>3. iter[s \ {some(s)}] = g[s \ {some(s)}]
    BY <1>6, <2>1
  <2>4. g[s] = f[some(s)] + g[s \ {some(s)}]
    BY <2>1 DEF IsSum
  <2> QED BY <2>2, <2>3, <2>4
<1> HIDE DEF Is, some
<1>7. \A s \in SUBSET S : s # {} /\ (\A x \in s : s \ {x} \in F) => s \in F
  BY <1>6
<1>8. S \in F
  <2> HIDE DEF F
  <2>1. \A s \in SUBSET S : s \in F
    BY <1>5, <1>7, SetInduction
  <2> QED BY <2>1
<1> QED BY <1>4, <1>8

\* The sum over a set: nothing, or one element and the sum of the others,
\* whichever element it is.
LEMMA SumLaws ==
    ASSUME NEW S, IsFiniteSet(S), NEW f, \A x \in S : f[x] \in Int
    PROVE  /\ SumFunctionOnSet(f, {}) = 0
           /\ \A T \in SUBSET S :
                 /\ SumFunctionOnSet(f, T) \in Int
                 /\ \A x \in T : SumFunctionOnSet(f, T) = f[x] + SumFunctionOnSet(f, T \ {x})
<1>1. PICK g : IsSum(g, f, S)
  BY SumExists
<1>2. ASSUME NEW T \in SUBSET S
      PROVE  SumFunctionOnSet(f, T) = g[T]
  <2>1. IsFiniteSet(T) /\ \A x \in T : f[x] \in Int
    BY FS_Subset
  <2>2. IsSum(g, f, T)
    BY <1>1 DEF IsSum
  <2> QED BY <2>1, <2>2, SumUnique
<1>3. SumFunctionOnSet(f, {}) = 0
  BY <1>1, <1>2 DEF IsSum
<1>4. ASSUME NEW T \in SUBSET S
      PROVE  /\ SumFunctionOnSet(f, T) \in Int
             /\ \A x \in T : SumFunctionOnSet(f, T) = f[x] + SumFunctionOnSet(f, T \ {x})
  <2>1. \A x \in T : SumFunctionOnSet(f, T \ {x}) = g[T \ {x}]
    BY <1>2
  <2> QED BY <1>1, <1>2, <2>1 DEF IsSum
<1> QED BY <1>3, <1>4

\* Two functions that agree on a set have the same sum over it.
LEMMA SumSame ==
    ASSUME NEW S, IsFiniteSet(S), NEW f, NEW g, \A x \in S : f[x] \in Int /\ f[x] = g[x]
    PROVE  SumFunctionOnSet(f, S) = SumFunctionOnSet(g, S)
<1> DEFINE F == {T \in SUBSET S : SumFunctionOnSet(f, T) = SumFunctionOnSet(g, T)}
<1>1. \A x \in S : f[x] \in Int /\ g[x] \in Int
  OBVIOUS
<1>2. {} \in F
  BY <1>1, SumLaws
<1>3. ASSUME NEW T \in SUBSET S, T # {}, \A x \in T : T \ {x} \in F
      PROVE  T \in F
  <2>1. PICK x \in T : TRUE
    BY <1>3
  <2>2. SumFunctionOnSet(f, T) = f[x] + SumFunctionOnSet(f, T \ {x})
    BY <1>1, SumLaws
  <2>3. SumFunctionOnSet(g, T) = g[x] + SumFunctionOnSet(g, T \ {x})
    BY <1>1, SumLaws
  <2> QED BY <1>3, <2>1, <2>2, <2>3
<1>4. \A T \in SUBSET S : T # {} /\ (\A x \in T : T \ {x} \in F) => T \in F
  BY <1>3
<1>5. S \in F
  <2> HIDE DEF F
  <2>1. \A T \in SUBSET S : T \in F
    BY <1>2, <1>4, SetInduction
  <2> QED BY <2>1
<1> QED BY <1>5

\* Adding elements that are not negative does not lower a sum, and adding
\* zeros does not change it.
LEMMA SumMore ==
    ASSUME NEW S, IsFiniteSet(S), NEW f, \A x \in S : f[x] \in Nat, NEW R \in SUBSET S
    PROVE  /\ SumFunctionOnSet(f, R) <= SumFunctionOnSet(f, S)
           /\ (\A x \in S \ R : f[x] = 0) => SumFunctionOnSet(f, R) = SumFunctionOnSet(f, S)
           /\ SumFunctionOnSet(f, R) >= 0
<1> DEFINE sum(T) == SumFunctionOnSet(f, T)
           Zeros(T) == \A x \in T : f[x] = 0
           F == {T \in SUBSET S : /\ sum(T) >= 0
                                  /\ sum(T \cap R) <= sum(T)
                                  /\ Zeros(T \ R) => sum(T \cap R) = sum(T)}
<1>1. /\ sum({}) = 0
      /\ \A T \in SUBSET S : sum(T) \in Int /\ \A x \in T : sum(T) = f[x] + sum(T \ {x})
  BY SumLaws
<1> HIDE DEF sum
<1>2. {} \in F
  <2>1. {} \cap R = {} /\ {} \in SUBSET S
    OBVIOUS
  <2> QED BY <1>1, <2>1
<1>3. ASSUME NEW T \in SUBSET S, T # {}, \A x \in T : T \ {x} \in F
      PROVE  T \in F
  <2>1. PICK x \in T : TRUE
    BY <1>3
  <2> DEFINE less == T \ {x}
  <2>2. /\ sum(T) = f[x] + sum(less) /\ sum(T) \in Int /\ sum(less) \in Int /\ f[x] \in Nat
        /\ sum(T \cap R) \in Int /\ sum(less \cap R) \in Int
    BY <1>1
  <2>3. /\ sum(less) >= 0 /\ sum(less \cap R) <= sum(less)
        /\ Zeros(less \ R) => sum(less \cap R) = sum(less)
    BY <1>3
  <2>4. CASE x \in R
    <3>1. (T \cap R) \ {x} = less \cap R /\ T \cap R \in SUBSET S /\ x \in T \cap R
      BY <2>4
    <3>2. sum(T \cap R) = f[x] + sum((T \cap R) \ {x})
      BY <1>1, <3>1
    <3>3. sum(T \cap R) = f[x] + sum(less \cap R)
      BY <3>1, <3>2
    <3>4. Zeros(T \ R) => Zeros(less \ R)
      OBVIOUS
    <3> HIDE DEF less, Zeros
    <3> QED BY <2>2, <2>3, <3>3, <3>4
  <2>5. CASE x \notin R
    <3>1. T \cap R = less \cap R
      BY <2>5
    <3>2. sum(T \cap R) = sum(less \cap R)
      BY <3>1
    <3>3. Zeros(T \ R) => Zeros(less \ R) /\ f[x] = 0
      BY <2>5
    <3> HIDE DEF less, Zeros
    <3> QED BY <2>2, <2>3, <3>2, <3>3
  <2> QED BY <2>4, <2>5
<1>4. \A T \in SUBSET S : T # {} /\ (\A x \in T : T \ {x} \in F) => T \in F
  BY <1>3
<1>5. \A T \in SUBSET S : T \in F
  <2> HIDE DEF F
  <2> QED BY <1>2, <1>4, SetInduction
<1>6. S \cap R = R
  OBVIOUS
<1>7. S \in F /\ R \in F
  BY <1>5
<1> QED BY <1>6, <1>7 DEF sum

-----------------------------------------------------------------------------
(* Rows and orders *)

LEMMA IndexFinite ==
    /\ IsFiniteSet(Index)
    /\ \A S \in SUBSET Index : IsFiniteSet(S) /\ Cardinality(S) \in Nat
<1>1. IsFiniteSet(Index)
  BY SizeAssumption, FS_Interval DEF Index
<1> QED BY <1>1, FS_Subset, FS_CardinalityType

\* The total of one resource over a set of rows.
LEMMA RowSumLaws ==
    ASSUME NEW al \in [Index -> Amounts], NEW r \in Res, NEW S \in SUBSET Index
    PROVE  /\ RowSum(al, {}, r) = 0
           /\ RowSum(al, S, r) \in Nat
           /\ \A i \in S : RowSum(al, S, r) = al[i][r] + RowSum(al, S \ {i}, r)
           /\ \A T \in SUBSET S :
                 /\ RowSum(al, T, r) <= RowSum(al, S, r)
                 /\ (\A i \in S \ T : al[i] = Zero) => RowSum(al, T, r) = RowSum(al, S, r)
<1> DEFINE f == [i \in Index |-> al[i][r]]
<1>1. \A i \in Index : f[i] = al[i][r] /\ f[i] \in Nat
  BY DEF Amounts
<1>2. \A T : RowSum(al, T, r) = SumFunctionOnSet(f, T)
  BY DEF RowSum
<1> HIDE DEF f
<1>3. IsFiniteSet(S) /\ \A i \in S : f[i] \in Nat /\ f[i] \in Int
  BY <1>1, IndexFinite
<1>4. /\ SumFunctionOnSet(f, {}) = 0
      /\ SumFunctionOnSet(f, S) \in Int
      /\ \A i \in S : SumFunctionOnSet(f, S) = f[i] + SumFunctionOnSet(f, S \ {i})
  BY <1>3, SumLaws
<1>5. SumFunctionOnSet(f, S) >= 0
  BY <1>3, SumMore
<1>6. ASSUME NEW T \in SUBSET S
      PROVE  /\ SumFunctionOnSet(f, T) <= SumFunctionOnSet(f, S)
             /\ (\A i \in S \ T : al[i] = Zero)
                   => SumFunctionOnSet(f, T) = SumFunctionOnSet(f, S)
  <2>1. (\A i \in S \ T : al[i] = Zero) => \A i \in S \ T : f[i] = 0
    BY <1>1 DEF Zero
  <2> QED BY <1>3, <2>1, SumMore
<1> QED BY <1>1, <1>2, <1>4, <1>5, <1>6

LEMMA RowSumSame ==
    ASSUME NEW al \in [Index -> Amounts], NEW bl \in [Index -> Amounts], NEW r \in Res,
           NEW S \in SUBSET Index, \A i \in S : al[i][r] = bl[i][r]
    PROVE  RowSum(al, S, r) = RowSum(bl, S, r)
<1> DEFINE f == [i \in Index |-> al[i][r]]
           g == [i \in Index |-> bl[i][r]]
<1>1. IsFiniteSet(S) /\ \A i \in S : f[i] \in Int /\ f[i] = g[i]
  BY IndexFinite DEF Amounts
<1>2. RowSum(al, S, r) = SumFunctionOnSet(f, S) /\ RowSum(bl, S, r) = SumFunctionOnSet(g, S)
  BY DEF RowSum
<1> HIDE DEF f, g
<1> QED BY <1>1, <1>2, SumSame

\* Changing one row changes the totals it is part of by that much.
LEMMA RowSumChange ==
    ASSUME NEW al \in [Index -> Amounts], NEW bl \in [Index -> Amounts], NEW r \in Res,
           NEW S \in SUBSET Index, NEW i \in S, \A j \in Index \ {i} : bl[j] = al[j]
    PROVE  RowSum(bl, S, r) = RowSum(al, S, r) - al[i][r] + bl[i][r]
<1>1. /\ RowSum(al, S, r) = al[i][r] + RowSum(al, S \ {i}, r)
      /\ RowSum(bl, S, r) = bl[i][r] + RowSum(bl, S \ {i}, r)
  BY RowSumLaws
<1>2. RowSum(al, S \ {i}, r) = RowSum(bl, S \ {i}, r)
  BY RowSumSame
<1>3. /\ al[i][r] \in Nat /\ bl[i][r] \in Nat /\ RowSum(al, S \ {i}, r) \in Nat
  BY RowSumLaws DEF Amounts
<1> QED BY <1>1, <1>2, <1>3

LEMMA RowSumExcept ==
    ASSUME NEW al \in [Index -> Amounts], NEW r \in Res, NEW i \in Index, NEW left \in Amounts
    PROVE  RowSum([al EXCEPT ![i] = left], Index, r) = RowSum(al, Index, r) - al[i][r] + left[r]
<1> DEFINE bl == [al EXCEPT ![i] = left]
<1>1. /\ bl \in [Index -> Amounts] /\ bl[i] = left
      /\ \A j \in Index \ {i} : bl[j] = al[j]
  OBVIOUS
<1>2. Index \in SUBSET Index
  OBVIOUS
<1> HIDE DEF bl
<1>3. RowSum(bl, Index, r) = RowSum(al, Index, r) - al[i][r] + bl[i][r]
  BY <1>1, <1>2, RowSumChange
<1> QED BY <1>1, <1>3 DEF bl

\* Any ranking of the rows is an order of them: rank them by how many come
\* before.
LEMMA OrderFrom ==
    ASSUME NEW av, NEW al, NEW rest, NEW rows \in SUBSET Index,
           NEW rank \in [rows -> Nat], \A i, j \in rows : rank[i] = rank[j] => i = j,
           \A i \in rows : \A r \in Res :
              rest[i][r] <= av[r] + RowSum(al, {j \in rows : rank[j] < rank[i]}, r)
    PROVE  HasCompletionOrder(av, al, rest, rows)
<1> DEFINE upto(i) == {j \in rows : rank[j] <= rank[i]}
           place == [i \in rows |-> Cardinality(upto(i))]
<1>1. IsFiniteSet(rows) /\ Cardinality(rows) \in Nat
  BY IndexFinite
<1>2. ASSUME NEW i \in rows
      PROVE  /\ IsFiniteSet(upto(i)) /\ place[i] \in 1 .. Cardinality(rows)
             /\ place[i] = Cardinality(upto(i)) /\ place[i] \in Nat
  <2>1. upto(i) \in SUBSET rows /\ i \in upto(i)
    OBVIOUS
  <2> HIDE DEF upto
  <2>2. IsFiniteSet(upto(i)) /\ Cardinality(upto(i)) <= Cardinality(rows)
    BY <1>1, <2>1, FS_Subset
  <2>3. Cardinality(upto(i)) \in Nat /\ Cardinality(upto(i)) # 0
    BY <2>1, <2>2, FS_CardinalityType, FS_EmptySet
  <2> QED BY <1>1, <2>2, <2>3
<1>3. ASSUME NEW i \in rows, NEW j \in rows, rank[j] < rank[i]
      PROVE  place[j] < place[i]
  <2>1. upto(j) \in SUBSET upto(i) /\ i \in upto(i) /\ i \notin upto(j)
    BY <1>3
  <2>2. IsFiniteSet(upto(i)) /\ IsFiniteSet(upto(j))
    BY <1>2
  <2>3. place[i] = Cardinality(upto(i)) /\ place[j] = Cardinality(upto(j))
    BY <1>2
  <2> HIDE DEF upto, place
  <2>4. /\ Cardinality(upto(j)) <= Cardinality(upto(i))
        /\ Cardinality(upto(i)) # Cardinality(upto(j))
    BY <2>1, <2>2, FS_Subset
  <2>5. Cardinality(upto(j)) \in Nat /\ Cardinality(upto(i)) \in Nat
    BY <2>2, FS_CardinalityType
  <2> QED BY <2>3, <2>4, <2>5
<1>4. \A i \in rows : place[i] \in Nat /\ rank[i] \in Nat
  <2> HIDE DEF place
  <2> QED BY <1>2
<1>5. place \in [rows -> 1 .. Cardinality(rows)]
  <2>1. place = [i \in rows |-> place[i]]
    OBVIOUS
  <2> HIDE DEF place
  <2> QED BY <1>2, <2>1
<1> HIDE DEF place
<1>6. \A i, j \in rows : place[j] < place[i] <=> rank[j] < rank[i]
  BY <1>3, <1>4
<1>7. \A i, j \in rows : place[i] = place[j] => i = j
  BY <1>4, <1>6
<1>8. place \in Injection(rows, 1 .. Cardinality(rows))
  BY <1>5, <1>7 DEF Injection, IsInjective
<1>9. ASSUME NEW i \in rows, NEW r \in Res
      PROVE  rest[i][r] <= av[r] + RowSum(al, {j \in rows : place[j] < place[i]}, r)
  <2>1. {j \in rows : place[j] < place[i]} = {j \in rows : rank[j] < rank[i]}
    BY <1>6
  <2> QED BY <2>1
<1> QED BY <1>8, <1>9 DEF HasCompletionOrder

\* What an order gives: a ranking of the rows by natural numbers.
LEMMA OrderRank ==
    ASSUME NEW av, NEW al, NEW rest, NEW rows \in SUBSET Index,
           HasCompletionOrder(av, al, rest, rows)
    PROVE  \E rank \in [rows -> Nat] :
              /\ \A i, j \in rows : rank[i] = rank[j] => i = j
              /\ \A i \in rows : \A r \in Res :
                    rest[i][r] <= av[r] + RowSum(al, {j \in rows : rank[j] < rank[i]}, r)
<1>1. PICK place \in Injection(rows, 1 .. Cardinality(rows)) :
         \A i \in rows : \A r \in Res :
            rest[i][r] <= av[r] + RowSum(al, {j \in rows : place[j] < place[i]}, r)
  BY DEF HasCompletionOrder
<1>2. Cardinality(rows) \in Nat
  BY IndexFinite
<1>3. place \in [rows -> Nat] /\ \A i, j \in rows : place[i] = place[j] => i = j
  BY <1>2 DEF Injection, IsInjective
<1> QED BY <1>1, <1>3

\* A row whose need is met by what is free and what the others hold comes last.
LEMMA OrderExtend ==
    ASSUME NEW av, NEW al, NEW rest, NEW rows \in SUBSET Index, NEW i \in Index \ rows,
           HasCompletionOrder(av, al, rest, rows),
           \A r \in Res : rest[i][r] <= av[r] + RowSum(al, rows, r)
    PROVE  HasCompletionOrder(av, al, rest, rows \union {i})
<1>1. PICK place \in Injection(rows, 1 .. Cardinality(rows)) :
         \A j \in rows : \A r \in Res :
            rest[j][r] <= av[r] + RowSum(al, {k \in rows : place[k] < place[j]}, r)
  BY DEF HasCompletionOrder
<1> DEFINE all == rows \union {i}
           last == Cardinality(rows) + 1
           rank == [j \in all |-> IF j = i THEN last ELSE place[j]]
<1>2. Cardinality(rows) \in Nat
  BY IndexFinite
<1>3. /\ \A j \in rows : place[j] \in Nat /\ place[j] < last
      /\ \A j, k \in rows : place[j] = place[k] => j = k
  BY <1>1, <1>2 DEF Injection, IsInjective
<1>4. rank \in [all -> Nat] /\ rank[i] = last /\ \A j \in rows : rank[j] = place[j]
  BY <1>2, <1>3
<1>5. \A j, k \in all : rank[j] = rank[k] => j = k
  BY <1>2, <1>3, <1>4
<1>6. ASSUME NEW j \in all, NEW r \in Res
      PROVE  rest[j][r] <= av[r] + RowSum(al, {k \in all : rank[k] < rank[j]}, r)
  <2>1. CASE j = i
    <3>1. {k \in all : rank[k] < rank[j]} = rows
      BY <1>2, <1>3, <1>4, <2>1
    <3> QED BY <2>1, <3>1
  <2>2. CASE j \in rows
    <3>1. {k \in all : rank[k] < rank[j]} = {k \in rows : place[k] < place[j]}
      BY <1>2, <1>3, <1>4, <2>2
    <3> QED BY <1>1, <2>2, <3>1
  <2> QED BY <2>1, <2>2
<1>7. all \in SUBSET Index
  OBVIOUS
<1> HIDE DEF rank, all
<1>8. HasCompletionOrder(av, al, rest, all)
  BY <1>4, <1>5, <1>6, <1>7, OrderFrom
<1> QED BY <1>8 DEF all

-----------------------------------------------------------------------------
(* is_safe_state and the reference *)

\* A yes is true: the order in which the search finishes the processes is one
\* in which those that hold something can finish.
LEMMA SafeHasOrder ==
    ASSUME NEW av \in Vectors, NEW al \in [Index -> Amounts], NEW mx, NEW nd \in Needs,
           NEW rows, rows = Holding(al), rows \subseteq Active(mx),
           is_safe_state(av, al, mx, nd, Cardinality(Active(mx)))
    PROVE  HasCompletionOrder(av, al, nd, rows)
<1> DEFINE Done(s) == s.finish \cap rows
           G == {s \in Searches :
                   /\ HasCompletionOrder(av, al, nd, Done(s))
                   /\ \A r \in Res : s.work[r] = av[r] + RowSum(al, Done(s), r)}
<1>1. rows \in SUBSET Index /\ \A i \in Index \ rows : al[i] = Zero
  BY DEF Holding
<1>2. Begin(av) \in G
  <2>1. Begin(av) \in Searches /\ Begin(av).work = av /\ Done(Begin(av)) = {}
    BY DEF Begin, Searches, Vectors
  <2>2. \A r \in Res : av[r] = av[r] + RowSum(al, {}, r)
    BY RowSumLaws DEF Vectors
  <2>3. HasCompletionOrder(av, al, nd, {})
    <3>1. {} \in SUBSET Index /\ [i \in {} |-> 0] \in [{} -> Nat]
      OBVIOUS
    <3> QED BY <3>1, OrderFrom
  <2> QED BY <2>1, <2>2, <2>3
<1>3. ASSUME NEW s \in G, NEW i \in Index
      PROVE  Visit(s, i, al, mx, nd) \in G
  <2> DEFINE t == Visit(s, i, al, mx, nd)
  <2>1. s \in Searches /\ t \in Searches /\ Done(s) \in SUBSET Index
    BY <1>1, VisitGrows
  <2>2. CASE ~(i \in Active(mx) \ s.finish /\ Fits(nd[i], s.work))
    <3>1. t = s
      BY <2>2 DEF Visit
    <3> QED BY <3>1
  <2>3. CASE i \in Active(mx) \ s.finish /\ Fits(nd[i], s.work)
    <3>1. t.work = Plus(s.work, al[i]) /\ t.finish = s.finish \union {i}
      BY <2>3 DEF Visit
    <3>2. ASSUME NEW r \in Res
          PROVE  /\ nd[i][r] <= av[r] + RowSum(al, Done(s), r)
                 /\ t.work[r] = av[r] + RowSum(al, Done(s), r) + al[i][r]
      BY <2>3, <3>1 DEF Fits, Plus
    <3>3. CASE i \in rows
      <4>1. Done(t) = Done(s) \union {i} /\ i \in Index \ Done(s) /\ Done(t) \in SUBSET Index
            /\ Done(t) \ {i} = Done(s) /\ i \in Done(t)
        BY <1>1, <2>3, <3>1, <3>3
      <4>2. HasCompletionOrder(av, al, nd, Done(s))
        OBVIOUS
      <4> HIDE DEF Done, t
      <4>3. HasCompletionOrder(av, al, nd, Done(t))
        BY <2>1, <3>2, <4>1, <4>2, OrderExtend
      <4>4. ASSUME NEW r \in Res
            PROVE  t.work[r] = av[r] + RowSum(al, Done(t), r)
        <5>1. RowSum(al, Done(t), r) = al[i][r] + RowSum(al, Done(s), r)
          BY <4>1, RowSumLaws
        <5>2. al[i][r] \in Int /\ RowSum(al, Done(s), r) \in Int /\ av[r] \in Int
          BY <2>1, RowSumLaws DEF Amounts, Vectors
        <5> QED BY <3>2, <5>1, <5>2
      <4> QED BY <2>1, <4>3, <4>4 DEF t
    <3>4. CASE i \notin rows
      <4>1. Done(t) = Done(s) /\ al[i] = Zero
        BY <1>1, <3>1, <3>4
      <4>2. ASSUME NEW r \in Res
            PROVE  t.work[r] = av[r] + RowSum(al, Done(s), r)
        <5>1. al[i][r] = 0 /\ RowSum(al, Done(s), r) \in Int /\ av[r] \in Int
          BY <2>1, <4>1, RowSumLaws DEF Zero, Vectors
        <5> HIDE DEF Done, t
        <5> QED BY <3>2, <5>1
      <4> QED BY <2>1, <4>1, <4>2
    <3> QED BY <3>3, <3>4
  <2> QED BY <2>2, <2>3
<1>4. PICK t \in Searches : t.finish = Active(mx) /\ t \in G
  <2>1. G \in SUBSET Searches
    OBVIOUS
  <2>2. \A s \in G : \A i \in Index : Visit(s, i, al, mx, nd) \in G
    BY <1>3
  <2> HIDE DEF G
  <2> QED BY <1>2, <2>1, <2>2, SearchResult
<1>5. Done(t) = rows
  BY <1>4
<1> QED BY <1>4, <1>5

\* A no is true: where the search ends, the first process of the order that is
\* not finished could finish.
LEMMA OrderIsSafe ==
    ASSUME NEW av \in Vectors, NEW al \in [Index -> Amounts], NEW mx, NEW nd \in Needs,
           NEW rows, rows = Holding(al), rows \subseteq Active(mx),
           \A i \in Active(mx) \ rows : \A r \in Res : nd[i][r] <= av[r] + RowSum(al, Index, r),
           HasCompletionOrder(av, al, nd, rows)
    PROVE  is_safe_state(av, al, mx, nd, Cardinality(Active(mx)))
<1> DEFINE G == {s \in Searches :
                   /\ s.finish \subseteq Active(mx)
                   /\ \A r \in Res : s.work[r] = av[r] + RowSum(al, s.finish, r)}
<1>1. /\ rows \in SUBSET Index /\ Active(mx) \in SUBSET Index
      /\ \A i \in Index \ rows : al[i] = Zero
  BY DEF Holding, Active
<1>2. Begin(av) \in G
  <2>1. Begin(av) \in Searches /\ Begin(av).work = av /\ Begin(av).finish = {}
    BY DEF Begin, Searches, Vectors
  <2>2. \A r \in Res : av[r] = av[r] + RowSum(al, {}, r)
    BY RowSumLaws DEF Vectors
  <2> QED BY <2>1, <2>2
<1>3. ASSUME NEW s \in G, NEW i \in Index
      PROVE  Visit(s, i, al, mx, nd) \in G
  <2> DEFINE t == Visit(s, i, al, mx, nd)
  <2>1. s \in Searches /\ t \in Searches /\ s.finish \in SUBSET Index /\ t.finish \in SUBSET Index
    BY VisitGrows DEF Searches
  <2>2. CASE ~(i \in Active(mx) \ s.finish /\ Fits(nd[i], s.work))
    <3>1. t = s
      BY <2>2 DEF Visit
    <3> QED BY <3>1
  <2>3. CASE i \in Active(mx) \ s.finish /\ Fits(nd[i], s.work)
    <3>1. /\ t.work = Plus(s.work, al[i]) /\ t.finish = s.finish \union {i}
          /\ t.finish \ {i} = s.finish /\ i \in t.finish
      BY <2>3 DEF Visit
    <3>2. ASSUME NEW r \in Res
          PROVE  t.work[r] = av[r] + RowSum(al, t.finish, r)
      <4>1. RowSum(al, t.finish, r) = al[i][r] + RowSum(al, s.finish, r)
        BY <2>1, <3>1, RowSumLaws
      <4>2. t.work[r] = av[r] + RowSum(al, s.finish, r) + al[i][r]
        BY <3>1 DEF Plus
      <4>3. al[i][r] \in Int /\ RowSum(al, s.finish, r) \in Int /\ av[r] \in Int
        BY <2>1, RowSumLaws DEF Amounts, Vectors
      <4> HIDE DEF t
      <4> QED BY <4>1, <4>2, <4>3
    <3>3. t.finish \subseteq Active(mx)
      BY <2>3, <3>1
    <3> QED BY <2>1, <3>2, <3>3
  <2> QED BY <2>2, <2>3
<1>4. PICK t \in Searches :
         /\ is_safe_state(av, al, mx, nd, Cardinality(Active(mx))) <=> t.finish = Active(mx)
         /\ Stuck(t, mx, nd)
         /\ t \in G
  <2>1. G \in SUBSET Searches
    OBVIOUS
  <2>2. \A s \in G : \A i \in Index : Visit(s, i, al, mx, nd) \in G
    BY <1>3
  <2> HIDE DEF G
  <2> QED BY <1>2, <2>1, <2>2, SearchResult
<1>5. PICK rank \in [rows -> Nat] :
         /\ \A i, j \in rows : rank[i] = rank[j] => i = j
         /\ \A i \in rows : \A r \in Res :
               nd[i][r] <= av[r] + RowSum(al, {j \in rows : rank[j] < rank[i]}, r)
  BY <1>1, OrderRank
<1>6. t.finish \in SUBSET Index /\ \A r \in Res : t.work[r] = av[r] + RowSum(al, t.finish, r)
  BY <1>4 DEF Searches
<1>7. rows \subseteq t.finish
  <2> SUFFICES ASSUME rows \ t.finish # {} PROVE FALSE
    OBVIOUS
  <2> DEFINE left == {rank[i] : i \in rows \ t.finish}
  <2>1. left \in SUBSET Nat /\ left # {}
    OBVIOUS
  <2>2. \E m \in left : \A k \in left : m <= k
    <3> HIDE DEF left
    <3> QED BY <2>1, LeastNumber
  <2>3. PICK i \in rows \ t.finish : \A j \in rows \ t.finish : rank[i] <= rank[j]
    BY <2>2
  <2> DEFINE before == {j \in rows : rank[j] < rank[i]}
  <2>4. before \in SUBSET t.finish
    <3> SUFFICES ASSUME NEW j \in rows, rank[j] < rank[i], j \notin t.finish PROVE FALSE
      OBVIOUS
    <3>1. rank[i] <= rank[j] /\ rank[i] \in Nat /\ rank[j] \in Nat
      BY <2>3
    <3> QED BY <3>1
  <2>5. ASSUME NEW r \in Res
        PROVE  nd[i][r] <= t.work[r]
    <3>1. nd[i][r] <= av[r] + RowSum(al, before, r)
      BY <1>5, <2>3
    <3> HIDE DEF before
    <3>2. before \in SUBSET Index /\ RowSum(al, before, r) <= RowSum(al, t.finish, r)
      BY <1>6, <2>4, RowSumLaws
    <3>3. /\ nd[i][r] \in Int /\ av[r] \in Int /\ RowSum(al, before, r) \in Int
          /\ RowSum(al, t.finish, r) \in Int
      BY <1>1, <1>6, <2>3, <3>2, RowSumLaws DEF Needs, Vectors
    <3> QED BY <1>6, <3>1, <3>2, <3>3
  <2>6. i \in Active(mx) \ t.finish
    BY <2>3
  <2> QED BY <1>4, <2>5, <2>6 DEF Stuck, Fits
<1>8. ASSUME NEW i \in Active(mx) \ t.finish
      PROVE  FALSE
  <2>1. ASSUME NEW r \in Res
        PROVE  nd[i][r] <= t.work[r]
    <3>1. \A j \in Index \ t.finish : al[j] = Zero
      BY <1>1, <1>7
    <3>2. RowSum(al, t.finish, r) = RowSum(al, Index, r)
      BY <1>6, <3>1, RowSumLaws
    <3> QED BY <1>6, <1>7, <1>8, <3>2
  <2> QED BY <1>4, <1>8, <2>1 DEF Stuck, Fits
<1>9. t.finish = Active(mx)
  BY <1>4, <1>8
<1> QED BY <1>4, <1>9

\* is_safe_state answers yes exactly when an order exists, for every state in
\* which what a row holds is known to belong to a process, and a process that
\* holds nothing does not need more than the machine.
THEOREM SearchIsExact ==
    ASSUME NEW av \in Vectors, NEW al \in [Index -> Amounts], NEW mx, NEW nd \in Needs,
           Holding(al) \subseteq Active(mx),
           \A i \in Active(mx) \ Holding(al) : \A r \in Res :
              nd[i][r] <= av[r] + RowSum(al, Index, r)
    PROVE  is_safe_state(av, al, mx, nd, Cardinality(Active(mx)))
              <=> HasCompletionOrder(av, al, nd, Holding(al))
<1>1. is_safe_state(av, al, mx, nd, Cardinality(Active(mx)))
         => HasCompletionOrder(av, al, nd, Holding(al))
  BY SafeHasOrder
<1>2. HasCompletionOrder(av, al, nd, Holding(al))
         => is_safe_state(av, al, mx, nd, Cardinality(Active(mx)))
  BY OrderIsSafe
<1> QED BY <1>1, <1>2

-----------------------------------------------------------------------------
(* What keeps an order *)

\* An order depends on what its own rows still need and on nothing else of rest.
LEMMA OrderSameRest ==
    ASSUME NEW av, NEW al, NEW rest, NEW other, NEW rows \in SUBSET Index,
           \A i \in rows : rest[i] = other[i],
           HasCompletionOrder(av, al, rest, rows)
    PROVE  HasCompletionOrder(av, al, other, rows)
BY DEF HasCompletionOrder

LEMMA NeedsInt == \A nd \in Needs : \A i \in Index : \A r \in Res : nd[i][r] \in Int
BY DEF Needs, Vectors

\* Giving back keeps the order: what comes back is free for everybody, and a row
\* that gives back needs no more of what it does not hold.
GivenBack(k, req, left, av, more, al, bl, rest, other) ==
    /\ k \in Index /\ req \in Amounts /\ left \in Amounts
    /\ av \in Vectors /\ al \in [Index -> Amounts] /\ rest \in Needs
    /\ bl = [al EXCEPT ![k] = left]
    /\ \A r \in Res : left[r] = al[k][r] - req[r] /\ more[r] = av[r] + req[r]
    /\ \A r \in Res : \A i \in Holding(bl) :
          other[i][r] = IF i = k THEN rest[i][r] + req[r] ELSE rest[i][r]

LEMMA GiveBackOrder ==
    ASSUME NEW k, NEW req, NEW left, NEW av, NEW more, NEW al, NEW bl, NEW rest, NEW other,
           GivenBack(k, req, left, av, more, al, bl, rest, other),
           HasCompletionOrder(av, al, rest, Holding(al))
    PROVE  HasCompletionOrder(more, bl, other, Holding(bl))
<1>0. /\ k \in Index /\ req \in Amounts /\ left \in Amounts
      /\ av \in Vectors /\ al \in [Index -> Amounts] /\ rest \in Needs
      /\ bl = [al EXCEPT ![k] = left]
      /\ \A r \in Res : left[r] = al[k][r] - req[r] /\ more[r] = av[r] + req[r]
  BY DEF GivenBack
<1> DEFINE old == Holding(al)
           new == Holding(bl)
<1>1. /\ bl \in [Index -> Amounts] /\ bl[k] = left
      /\ \A j \in Index \ {k} : bl[j] = al[j]
  BY <1>0
<1>types. al \in [Index -> Amounts] /\ bl \in [Index -> Amounts]
  BY <1>0, <1>1
<1>2. k \in new => k \in old
  <2> SUFFICES ASSUME k \in new PROVE al[k] # Zero
    BY DEF Holding
  <2>1. left \in Amounts /\ left # Zero
    BY <1>0, <1>1 DEF Holding
  <2>2. PICK r \in Res : left[r] # 0
    BY <2>1 DEF Amounts, Zero
  <2>3. al[k][r] = left[r] + req[r] /\ left[r] \in Nat /\ req[r] \in Nat
    BY <1>0 DEF Amounts
  <2>4. al[k][r] # 0
    BY <2>2, <2>3
  <2> QED BY <2>4 DEF Zero
<1>3. old \in SUBSET Index /\ new \in SUBSET Index /\ new \in SUBSET old
  BY <1>1, <1>2 DEF Holding
<1>4. \A j \in Index \ new : bl[j] = Zero
  BY DEF Holding
<1>5. PICK rank \in [old -> Nat] :
         /\ \A i, j \in old : rank[i] = rank[j] => i = j
         /\ \A i \in old : \A r \in Res :
               rest[i][r] <= av[r] + RowSum(al, {j \in old : rank[j] < rank[i]}, r)
  <2> HIDE DEF new
  <2> QED BY <1>3, OrderRank
<1> DEFINE now == [i \in new |-> rank[i]]
           Before(i) == {j \in old : rank[j] < rank[i]}
<1>6. /\ now \in [new -> Nat] /\ \A i \in new : now[i] = rank[i]
      /\ \A i, j \in new : now[i] = now[j] => i = j
  BY <1>3, <1>5
<1>7. \A i \in old : \A r \in Res : rest[i][r] <= av[r] + RowSum(al, Before(i), r)
  BY ONLY <1>5
<1>8. \A i \in old : i \notin Before(i) /\ rank[i] \in Nat
  BY <1>5
<1>9. ASSUME NEW i \in new, NEW r \in Res
      PROVE  /\ rest[i][r] \in Int
             /\ i = k => other[i][r] = rest[i][r] + req[r]
             /\ i # k => other[i][r] = rest[i][r]
  <2>1. other[i][r] = IF i = k THEN rest[i][r] + req[r] ELSE rest[i][r]
    BY DEF GivenBack
  <2>2. rest[i][r] \in Int
    <3> HIDE DEF new
    <3>1. i \in Index
      BY ONLY <1>3, i \in new
    <3> QED BY ONLY <1>0, <3>1, r \in Res, NeedsInt
  <2> QED BY ONLY <2>1, <2>2
<1>10. ASSUME NEW i \in new, NEW r \in Res
      PROVE  other[i][r] <= more[r] + RowSum(bl, {j \in new : now[j] < now[i]}, r)
  <2> DEFINE S == Before(i)
             T == {j \in new : now[j] < now[i]}
  <2>1. S \in SUBSET Index /\ T \in SUBSET S /\ \A j \in S \ T : bl[j] = Zero
    BY <1>3, <1>4, <1>6
  <2>2. i \in old /\ i \in Index /\ i \notin S /\ rest[i][r] <= av[r] + RowSum(al, S, r)
    BY ONLY <1>3, <1>7, <1>8, i \in new, r \in Res
  <2> HIDE DEF S, T
  <2>3. RowSum(bl, T, r) = RowSum(bl, S, r)
    BY ONLY <1>types, <2>1, r \in Res, RowSumLaws
  <2>4. /\ RowSum(al, S, r) \in Nat /\ RowSum(bl, S, r) \in Nat
        /\ av[r] \in Int /\ req[r] \in Nat /\ left[r] = al[k][r] - req[r] /\ al[k][r] \in Nat
        /\ more[r] = av[r] + req[r]
    <3>1. RowSum(al, S, r) \in Nat /\ RowSum(bl, S, r) \in Nat
      BY ONLY <1>types, <2>1, r \in Res, RowSumLaws
    <3>2. k \in Index /\ r \in Res
      BY <1>0
    <3> QED BY ONLY <1>0, <3>1, <3>2 DEF Vectors, Amounts
  <2>5. CASE k \in S
    <3>1. RowSum(bl, S, r) = RowSum(al, S, r) - al[k][r] + bl[k][r]
      <4>1. \A j \in Index \ {k} : bl[j] = al[j]
        BY <1>1
      <4> QED BY ONLY <1>types, <2>1, <2>5, <4>1, r \in Res, RowSumChange
    <3>2. i # k /\ other[i][r] = rest[i][r] /\ rest[i][r] \in Int
      BY ONLY <1>9, <2>2, <2>5, i \in new, r \in Res
    <3> QED BY ONLY <1>1, <2>2, <2>3, <2>4, <3>1, <3>2 DEF T
  <2>6. CASE k \notin S
    <3>1. RowSum(bl, S, r) = RowSum(al, S, r)
      <4>1. \A j \in S : al[j][r] = bl[j][r]
        BY <1>1, <2>1, <2>6
      <4> QED BY ONLY <1>types, <2>1, <4>1, r \in Res, RowSumSame
    <3>2. rest[i][r] \in Int /\ (other[i][r] = rest[i][r] \/ other[i][r] = rest[i][r] + req[r])
      BY ONLY <1>9, i \in new, r \in Res
    <3> QED BY ONLY <2>2, <2>3, <2>4, <3>1, <3>2 DEF T
  <2> QED BY ONLY <2>5, <2>6
<1> HIDE DEF new, now
<1>11. HasCompletionOrder(more, bl, other, new)
  BY ONLY <1>3, <1>6, <1>10, OrderFrom
<1> QED BY <1>11 DEF new

\* The search read the need matrix; for the rows that hold something that is
\* what remains of their claim.
LEMMA OrderOfNeed ==
    ASSUME NEW av, NEW al, NEW mx, NEW nd,
           \A i \in Holding(al) : nd[i] = Minus(mx[i], al[i])
    PROVE  HasCompletionOrder(av, al, nd, Holding(al))
              <=> HasCompletionOrder(av, al, Remaining(al, mx), Holding(al))
<1> DEFINE rows == Holding(al)
           rest == Remaining(al, mx)
<1>1. rows \in SUBSET Index /\ \A i \in rows : nd[i] = rest[i] /\ rest[i] = nd[i]
  BY DEF Holding, Remaining
<1> HIDE DEF rows, rest
<1>2. HasCompletionOrder(av, al, nd, rows) <=> HasCompletionOrder(av, al, rest, rows)
  BY <1>1, OrderSameRest
<1> QED BY <1>2 DEF rows, rest

\* More may be free and less needed.
LEMMA OrderMore ==
    ASSUME NEW av \in Vectors, NEW more \in Vectors, Fits(av, more), NEW al \in [Index -> Amounts],
           NEW rest \in Needs, NEW other \in Needs, NEW rows \in SUBSET Index,
           \A i \in rows : Fits(other[i], rest[i]),
           HasCompletionOrder(av, al, rest, rows)
    PROVE  HasCompletionOrder(more, al, other, rows)
<1>1. PICK place \in Injection(rows, 1 .. Cardinality(rows)) :
         \A i \in rows : \A r \in Res :
            rest[i][r] <= av[r] + RowSum(al, {j \in rows : place[j] < place[i]}, r)
  BY DEF HasCompletionOrder
<1>2. ASSUME NEW i \in rows, NEW r \in Res
      PROVE  other[i][r] <= more[r] + RowSum(al, {j \in rows : place[j] < place[i]}, r)
  <2> DEFINE before == {j \in rows : place[j] < place[i]}
  <2>1. RowSum(al, before, r) \in Nat
    <3>1. before \in SUBSET Index
      OBVIOUS
    <3> HIDE DEF before
    <3> QED BY <3>1, RowSumLaws
  <2>2. rest[i][r] <= av[r] + RowSum(al, before, r)
    BY <1>1
  <2>3. other[i][r] <= rest[i][r] /\ av[r] <= more[r]
    BY DEF Fits
  <2>4. rest[i][r] \in Int /\ other[i][r] \in Int /\ av[r] \in Int /\ more[r] \in Int
    BY NeedsInt DEF Vectors
  <2> HIDE DEF before
  <2>5. other[i][r] <= more[r] + RowSum(al, before, r)
    BY ONLY <2>1, <2>2, <2>3, <2>4
  <2> QED BY <2>5 DEF before
<1> QED BY <1>1, <1>2 DEF HasCompletionOrder

\* A row is granted all it may ever need: it is served first.
FullyGranted(k, req, av, less, al, bl, rest, other) ==
    /\ k \in Index /\ req \in Amounts /\ av \in Vectors /\ Fits(req, av)
    /\ al \in [Index -> Amounts] /\ rest \in Needs /\ less = Minus(av, req)
    /\ bl = [al EXCEPT ![k] = Plus(al[k], req)] /\ bl[k] # Zero
    /\ other \in Needs /\ Fits(other[k], Zero)
    /\ \A i \in Index \ {k} : other[i] = rest[i]

LEMMA FullGrantOrder ==
    ASSUME NEW k, NEW req, NEW av, NEW less, NEW al, NEW bl, NEW rest, NEW other,
           FullyGranted(k, req, av, less, al, bl, rest, other),
           HasCompletionOrder(av, al, rest, Holding(al))
    PROVE  HasCompletionOrder(less, bl, other, Holding(bl))
<1> DEFINE old == Holding(al)
           new == Holding(bl)
<1>1. /\ k \in Index /\ req \in Amounts /\ av \in Vectors /\ Fits(req, av)
      /\ al \in [Index -> Amounts] /\ rest \in Needs /\ less = Minus(av, req)
      /\ bl = [al EXCEPT ![k] = Plus(al[k], req)] /\ bl[k] # Zero
      /\ other \in Needs /\ Fits(other[k], Zero)
      /\ \A i \in Index \ {k} : other[i] = rest[i]
  BY DEF FullyGranted
<1>2. /\ Plus(al[k], req) \in Amounts /\ bl \in [Index -> Amounts] /\ bl[k] = Plus(al[k], req)
      /\ \A j \in Index \ {k} : bl[j] = al[j]
  <2>1. al[k] \in Amounts
    BY <1>1
  <2>2. Plus(al[k], req) \in Amounts
    BY <1>1, <2>1, VectorTypes, AmountsInts
  <2> QED BY <1>1, <2>2
<1>3. /\ old \in SUBSET Index /\ new \in SUBSET Index /\ k \in new
      /\ \A j \in Index \ {k} : j \in new <=> j \in old
  BY <1>1, <1>2 DEF Holding
<1>4. PICK rank \in [old -> Nat] :
         /\ \A i, j \in old : rank[i] = rank[j] => i = j
         /\ \A i \in old : \A r \in Res :
               rest[i][r] <= av[r] + RowSum(al, {j \in old : rank[j] < rank[i]}, r)
  <2> HIDE DEF old
  <2>1. HasCompletionOrder(av, al, rest, old)
    BY DEF old
  <2> QED BY ONLY <1>3, <2>1, OrderRank
<1> DEFINE now == [i \in new |-> IF i = k THEN 0 ELSE rank[i] + 1]
           Before(i) == {j \in old : rank[j] < rank[i]}
           Ahead(i) == {j \in new : now[j] < now[i]}
<1> HIDE DEF old, new
<1>5. /\ now \in [new -> Nat] /\ now[k] = 0
      /\ \A i \in new \ {k} : i \in old /\ rank[i] \in Nat /\ now[i] = rank[i] + 1
  BY <1>3, <1>4
<1>6. \A i, j \in new : now[i] = now[j] => i = j
  BY <1>4, <1>5
<1>7. ASSUME NEW i \in new \ {k}
      PROVE  /\ i \in old /\ i \in Index /\ k \in Ahead(i) /\ Ahead(i) \in SUBSET Index
             /\ Before(i) \in SUBSET Index /\ Ahead(i) \ {k} = Before(i) \ {k}
  <2>1. i \in old /\ i \in Index /\ now[i] > now[k]
    BY <1>3, <1>5
  <2>2. \A j \in Index \ {k} : j \in Ahead(i) <=> j \in Before(i)
    BY <1>3, <1>5
  <2>3. Ahead(i) \in SUBSET Index /\ Before(i) \in SUBSET Index /\ k \in Ahead(i)
    BY <1>3, <1>5, <2>1
  <2> HIDE DEF Ahead, Before
  <2> QED BY <2>1, <2>2, <2>3
<1>8. \A i \in old : \A r \in Res : rest[i][r] <= av[r] + RowSum(al, Before(i), r)
  BY ONLY <1>4
<1>9. Ahead(k) \in SUBSET Index
  BY <1>3
<1> HIDE DEF now, Before, Ahead
<1>10. ASSUME NEW i \in new, NEW r \in Res
       PROVE  other[i][r] <= less[r] + RowSum(bl, Ahead(i), r)
  <2>1. /\ less[r] = av[r] - req[r] /\ req[r] <= av[r] /\ bl[k][r] = al[k][r] + req[r]
        /\ req[r] \in Nat /\ av[r] \in Int /\ al[k][r] \in Nat
    BY <1>1, <1>2 DEF Minus, Plus, Fits, Amounts, Vectors
  <2>2. CASE i = k
    <3>1. other[i][r] <= 0
      BY <1>1, <2>2 DEF Fits, Zero
    <3>2. RowSum(bl, Ahead(i), r) \in Nat
      BY ONLY <1>2, <1>9, <2>2, r \in Res, RowSumLaws
    <3>3. other[i][r] \in Int
      BY ONLY <1>1, <2>2, r \in Res, NeedsInt
    <3> QED BY ONLY <2>1, <3>1, <3>2, <3>3
  <2>3. CASE i # k
    <3> DEFINE without == Before(i) \ {k}
    <3>1. /\ i \in old /\ i \in Index /\ k \in Ahead(i) /\ Ahead(i) \in SUBSET Index
          /\ Before(i) \in SUBSET Index /\ without \in SUBSET Index
          /\ Ahead(i) \ {k} = without /\ k \notin without
      BY <1>7, <2>3
    <3>2. k \notin Before(i) => without = Before(i)
      OBVIOUS
    <3>3. Before(i) \ {k} = without
      OBVIOUS
    <3> HIDE DEF without
    <3>4. RowSum(bl, Ahead(i), r) = bl[k][r] + RowSum(bl, without, r)
      BY ONLY <1>2, <3>1, r \in Res, RowSumLaws
    <3>5. \A j \in without : bl[j][r] = al[j][r]
      BY <1>2, <3>1
    <3>6. RowSum(bl, without, r) = RowSum(al, without, r)
      <4>1. al \in [Index -> Amounts] /\ bl \in [Index -> Amounts] /\ without \in SUBSET Index
        BY <1>1, <1>2, <3>1
      <4> QED BY ONLY <3>5, <4>1, r \in Res, RowSumSame
    <3>7. RowSum(al, without, r) \in Nat /\ RowSum(al, Before(i), r) \in Nat
      BY ONLY <1>1, <3>1, r \in Res, RowSumLaws
    <3>8. RowSum(al, Before(i), r) <= al[k][r] + RowSum(al, without, r)
      <4>1. CASE k \in Before(i)
        <5>1. RowSum(al, Before(i), r) = al[k][r] + RowSum(al, Before(i) \ {k}, r)
          BY ONLY <1>1, <3>1, <4>1, r \in Res, RowSumLaws
        <5>2. RowSum(al, Before(i), r) = al[k][r] + RowSum(al, without, r)
          BY <3>3, <5>1
        <5> QED BY ONLY <2>1, <3>7, <5>2
      <4>2. CASE k \notin Before(i)
        <5>1. RowSum(al, without, r) = RowSum(al, Before(i), r)
          BY <3>2, <4>2
        <5> QED BY ONLY <2>1, <3>7, <5>1
      <4> QED BY <4>1, <4>2
    <3>9. other[i][r] = rest[i][r] /\ rest[i][r] <= av[r] + RowSum(al, Before(i), r)
      BY <1>1, <1>8, <2>3, <3>1
    <3>10. rest[i][r] \in Int
      BY ONLY <1>1, <3>1, r \in Res, NeedsInt
    <3> QED BY ONLY <2>1, <3>4, <3>6, <3>7, <3>8, <3>9, <3>10
  <2> QED BY <2>2, <2>3
<1>11. \A i \in new : \A r \in Res :
          other[i][r] <= less[r] + RowSum(bl, {j \in new : now[j] < now[i]}, r)
  BY <1>10 DEF Ahead
<1>12. HasCompletionOrder(less, bl, other, new)
  BY ONLY <1>3, <1>5, <1>6, <1>11, OrderFrom
<1> QED BY <1>12 DEF new

=============================================================================
