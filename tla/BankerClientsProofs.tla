------------------------ MODULE BankerClientsProofs ------------------------
(***************************************************************************)
(* Proofs about BankerClients, for any number of callers with any claims:  *)
(* is_safe_state answers what the reference HasCompletionOrder says, the   *)
(* books of the Banker balance, and it never lets the machine wedge.       *)
(***************************************************************************)
EXTENDS BankerClients, BankerProofs

-----------------------------------------------------------------------------
(* The rows and their callers *)

\* The row of client c says what c holds, and its maximum is the claim once the
\* Banker knows it; a maximum that is not known goes with an empty allocation.
RowOf(c) ==
    LET i == Row(pid[c])
    IN  /\ held[c] \in Amounts /\ Fits(held[c], claim[c])
        /\ allocation[i] = held[c]
        /\ max_need[i] \in {Zero, claim[c]}
        /\ max_need[i] = Zero => held[c] = Zero

IInv ==
    /\ TypeOK /\ NeedIsCurrent
    /\ \A c \in Client : RowOf(c)

LEMMA ClientTypes ==
    ASSUME NEW c \in Client
    PROVE  /\ pid[c] \in Nat /\ Row(pid[c]) \in Index
           /\ claim[c] \in Amounts /\ claim[c]["ram"] > 0 /\ claim[c] # Zero
BY ClientsAssumption, RowType DEF Zero, Res

LEMMA RowsApart ==
    ASSUME NEW c \in Client, NEW d \in Client, c # d
    PROVE  Row(pid[c]) # Row(pid[d])
BY ClientsAssumption

\* What is asked for and what is given back stay within the claim.
LEMMA RequestTypes ==
    ASSUME IInv, NEW c \in Client
    PROVE  /\ \A req \in Askable(c) : /\ req \in Amounts /\ Fits(Plus(held[c], req), claim[c])
                                      /\ max_need[Row(pid[c])] = Zero => req = claim[c]
           /\ \A req \in UpTo(held[c]) : req \in Amounts /\ Fits(req, held[c])
<1>1. /\ held[c] \in Amounts /\ Fits(held[c], claim[c]) /\ claim[c] \in Amounts
      /\ max_need[Row(pid[c])] = Zero => held[c] = Zero
  BY ClientTypes DEF IInv, RowOf
<1>2. ASSUME NEW bound \in Amounts, NEW v \in UpTo(bound)
      PROVE  v \in Amounts /\ Fits(v, bound)
  <2>1. bound["ram"] + bound["hdd"] + bound["cores"] \in Nat
    BY <1>2 DEF Amounts, Res
  <2> DEFINE top == bound["ram"] + bound["hdd"] + bound["cores"]
  <2>2. v \in [Res -> 0 .. top] /\ Fits(v, bound)
    BY <1>2 DEF UpTo
  <2> HIDE DEF top
  <2> QED BY <2>2 DEF Amounts
<1>3. ASSUME NEW req \in Askable(c)
      PROVE  /\ req \in Amounts /\ Fits(Plus(held[c], req), claim[c])
             /\ max_need[Row(pid[c])] = Zero => req = claim[c]
  <2>1. CASE max_need[Row(pid[c])] = Zero
    <3>1. req = claim[c] /\ held[c] = Zero
      BY <1>1, <1>3, <2>1 DEF Askable
    <3> QED BY <1>1, <3>1 DEF Fits, Plus, Zero, Amounts
  <2>2. CASE max_need[Row(pid[c])] # Zero
    <3>1. req \in UpTo(Minus(claim[c], held[c]))
      BY <1>3, <2>2 DEF Askable
    <3>2. Minus(claim[c], held[c]) \in Amounts
      BY <1>1 DEF Minus, Amounts, Fits
    <3>3. req \in Amounts /\ Fits(req, Minus(claim[c], held[c]))
      BY <1>2, <3>1, <3>2
    <3> QED BY <1>1, <2>2, <3>3 DEF Fits, Plus, Minus, Amounts
  <2> QED BY <2>1, <2>2
<1> QED BY <1>1, <1>2, <1>3

LEMMA InitInvariant == Init => IInv
<1> SUFFICES ASSUME Init PROVE IInv
  OBVIOUS
<1>1. /\ available = max_resources /\ held = [c \in Client |-> Zero]
      /\ allocation = [i \in Index |-> Zero] /\ max_need = [i \in Index |-> Zero]
      /\ need = [i \in Index |-> Zero]
  BY DEF Init, init_banker
<1>2. TypeOK
  BY <1>1, ZeroType, ResourcesAssumption DEF TypeOK, BankerTypeOK
<1>3. NeedIsCurrent
  BY <1>1 DEF NeedIsCurrent
<1>4. \A c \in Client : RowOf(c)
  <2> SUFFICES ASSUME NEW c \in Client PROVE RowOf(c)
    OBVIOUS
  <2>1. /\ held[c] = Zero /\ allocation[Row(pid[c])] = Zero /\ max_need[Row(pid[c])] = Zero
    BY <1>1, ClientTypes
  <2>2. Fits(Zero, claim[c])
    BY ClientTypes DEF Fits, Zero, Amounts
  <2> QED BY <2>1, <2>2, ZeroType DEF RowOf
<1> QED BY <1>2, <1>3, <1>4 DEF IInv

-----------------------------------------------------------------------------
\* A call for client c rewrites the row of c and no other.
LEMMA RowChanges ==
    ASSUME IInv, NEW c \in Client, TypeOK',
           NEW left \in Amounts, Fits(left, claim[c]),
           NEW maximum \in {Zero, claim[c]}, maximum = Zero => left = Zero,
           held' = [held EXCEPT ![c] = left],
           allocation' = [allocation EXCEPT ![Row(pid[c])] = left],
           max_need' = [max_need EXCEPT ![Row(pid[c])] = maximum],
           \/ need' = [need EXCEPT ![Row(pid[c])] = Minus(maximum, left)]
           \/ need' = need /\ left = held[c]
                /\ (left # Zero => maximum = max_need[Row(pid[c])])
    PROVE  IInv'
<1> DEFINE i == Row(pid[c])
<1>1. /\ i \in Index /\ allocation \in [Index -> Amounts] /\ max_need \in [Index -> Amounts]
      /\ need \in [Index -> [Res -> Int]] /\ held \in [Client -> Amounts]
  BY ClientTypes DEF IInv, TypeOK, BankerTypeOK
<1>2. /\ allocation'[i] = left /\ max_need'[i] = maximum /\ held'[c] = left
      /\ \A j \in Index \ {i} : allocation'[j] = allocation[j] /\ max_need'[j] = max_need[j]
                                /\ need'[j] = need[j]
      /\ \A d \in Client \ {c} : held'[d] = held[d]
  BY <1>1
<1>3. NeedIsCurrent'
  <2>1. ASSUME NEW j \in Index, allocation'[j] # Zero
        PROVE  need'[j] = Minus(max_need'[j], allocation'[j])
    <3>1. CASE j # i
      BY <1>2, <2>1, <3>1 DEF IInv, NeedIsCurrent
    <3>2. CASE j = i /\ need' = [need EXCEPT ![i] = Minus(maximum, left)]
      BY <1>1, <1>2, <3>2
    <3>3. CASE j = i /\ need' = need /\ left = held[c] /\ (left # Zero => maximum = max_need[i])
      <4>1. allocation[i] = left /\ left # Zero
        BY <1>2, <2>1, <3>3 DEF IInv, RowOf
      <4> QED BY <1>1, <1>2, <3>3, <4>1 DEF IInv, NeedIsCurrent
    <3> QED BY <3>1, <3>2, <3>3
  <2> QED BY <2>1 DEF NeedIsCurrent
<1>4. ASSUME NEW d \in Client
      PROVE  RowOf(d)'
  <2>1. CASE d = c
    BY <1>2, <2>1 DEF RowOf
  <2>2. CASE d # c
    <3>1. Row(pid[d]) \in Index \ {i}
      BY <2>2, ClientTypes, RowsApart
    <3> QED BY <1>2, <2>2, <3>1 DEF IInv, RowOf
  <2> QED BY <2>1, <2>2
<1> QED BY <1>3, <1>4 DEF IInv

\* The maximum a request leaves: the claim.
LEMMA MaximumAfter ==
    ASSUME IInv, NEW c \in Client, NEW req \in Askable(c)
    PROVE  /\ MaxNeedAfter(pid[c], req) = [max_need EXCEPT ![Row(pid[c])] = claim[c]]
           /\ held[c] # Zero => max_need[Row(pid[c])] = claim[c]
<1> DEFINE i == Row(pid[c])
<1>1. i \in Index /\ claim[c]["ram"] > 0 /\ max_need \in [Index -> Amounts]
  BY ClientTypes DEF IInv, TypeOK, BankerTypeOK
<1>2. max_need[i] \in {Zero, claim[c]} /\ (max_need[i] = Zero => held[c] = Zero)
  BY DEF IInv, RowOf
<1>3. CASE max_need[i] = Zero
  <2>1. max_need[i]["ram"] = 0 /\ req = claim[c]
    BY <1>3, RequestTypes DEF Zero, Res
  <2> QED BY <1>2, <1>3, <2>1 DEF MaxNeedAfter
<1>4. CASE max_need[i] # Zero
  <2>1. max_need[i] = claim[c] /\ max_need[i]["ram"] # 0
    BY <1>1, <1>2, <1>4
  <2>2. MaxNeedAfter(pid[c], req) = max_need
    BY <2>1 DEF MaxNeedAfter
  <2> QED BY <1>1, <2>1, <2>2
<1> QED BY <1>3, <1>4

\* What a granted request writes.
LEMMA GrantEffect ==
    ASSUME IInv, NEW c \in Client, NEW req \in Askable(c), AskGranted(c, req)
    PROVE  /\ req \in Amounts /\ Plus(held[c], req) \in Amounts
           /\ Fits(Plus(held[c], req), claim[c])
           /\ held' = [held EXCEPT ![c] = Plus(held[c], req)]
           /\ available' = Minus(available, req)
           /\ allocation' = [allocation EXCEPT ![Row(pid[c])] = Plus(held[c], req)]
           /\ max_need' = [max_need EXCEPT ![Row(pid[c])] = claim[c]]
           /\ need' = [need EXCEPT ![Row(pid[c])] = Minus(claim[c], Plus(held[c], req))]
           /\ TypeOK'
<1> DEFINE i == Row(pid[c])
           left == Plus(held[c], req)
<1>1. /\ i \in Index /\ pid[c] \in Nat /\ req \in Amounts /\ Fits(left, claim[c])
      /\ held[c] \in Amounts /\ allocation[i] = held[c] /\ held \in [Client -> Amounts]
      /\ allocation \in [Index -> Amounts] /\ max_need \in [Index -> Amounts]
  BY ClientTypes, RequestTypes DEF IInv, RowOf, TypeOK, BankerTypeOK
<1>2. left \in Amounts
  BY <1>1, VectorTypes, AmountsInts
<1>3. request_granted(pid[c], req) /\ held' = [held EXCEPT ![c] = left]
  BY DEF AskGranted
<1>4. BankerTypeOK'
  BY <1>1, <1>3, BankerGrantTypes DEF IInv, TypeOK
<1>5. TypeOK'
  BY <1>1, <1>2, <1>3, <1>4 DEF TypeOK
<1>6. /\ available' = Minus(available, req)
      /\ allocation' = [allocation EXCEPT ![i] = left]
      /\ max_need' = [max_need EXCEPT ![i] = claim[c]]
      /\ need' = [need EXCEPT ![i] = Minus(max_need'[i], allocation'[i])]
  BY <1>1, <1>3, MaximumAfter DEF request_granted, AllocationAfter
<1>7. max_need'[i] = claim[c] /\ allocation'[i] = left
  BY <1>1, <1>6
<1>8. need' = [need EXCEPT ![i] = Minus(claim[c], left)]
  BY <1>6, <1>7
<1> QED BY <1>1, <1>2, <1>3, <1>5, <1>6, <1>8

LEMMA GrantKeeps ==
    ASSUME IInv, NEW c \in Client, NEW req \in Askable(c), AskGranted(c, req)
    PROVE  IInv'
<1>1. claim[c] # Zero
  BY ClientTypes
<1> QED BY <1>1, GrantEffect, RowChanges

\* What a refused request writes: the maximum, and after a rollback the need.
LEMMA DenyEffect ==
    ASSUME IInv, NEW c \in Client, NEW req \in Askable(c), AskDenied(c, req)
    PROVE  /\ held' = held /\ available' = available /\ allocation' = allocation
           /\ max_need' = [max_need EXCEPT ![Row(pid[c])] = claim[c]]
           /\ \/ need' = [need EXCEPT ![Row(pid[c])] = Minus(claim[c], held[c])]
              \/ need' = need
           /\ TypeOK'
<1> DEFINE i == Row(pid[c])
<1>1. /\ i \in Index /\ pid[c] \in Nat /\ req \in Amounts /\ allocation[i] = held[c]
      /\ max_need \in [Index -> Amounts]
  BY ClientTypes, RequestTypes DEF IInv, RowOf, TypeOK, BankerTypeOK
<1>2. /\ request_denied(pid[c], req) /\ held' = held
  BY DEF AskDenied
<1>3. TypeOK'
  BY <1>1, <1>2, BankerDenyTypes DEF IInv, TypeOK
<1>4. /\ max_need' = [max_need EXCEPT ![i] = claim[c]] /\ allocation' = allocation
      /\ available' = available
  BY <1>2, MaximumAfter DEF request_denied
<1>5. max_need'[i] = claim[c]
  BY <1>1, <1>4
<1>6. need' = [need EXCEPT ![i] = Minus(claim[c], held[c])] \/ need' = need
  BY <1>1, <1>2, <1>5 DEF request_denied
<1> QED BY <1>2, <1>3, <1>4, <1>6

LEMMA DenyKeeps ==
    ASSUME IInv, NEW c \in Client, NEW req \in Askable(c), AskDenied(c, req)
    PROVE  IInv'
<1> DEFINE i == Row(pid[c])
<1>1. /\ i \in Index /\ held[c] \in Amounts /\ Fits(held[c], claim[c]) /\ allocation[i] = held[c]
      /\ held \in [Client -> Amounts] /\ allocation \in [Index -> Amounts]
  BY ClientTypes DEF IInv, RowOf, TypeOK, BankerTypeOK
<1>2. /\ allocation' = [allocation EXCEPT ![i] = held[c]]
      /\ held' = [held EXCEPT ![c] = held[c]]
  BY <1>1, DenyEffect
<1>3. claim[c] # Zero /\ (held[c] # Zero => claim[c] = max_need[i])
  BY ClientTypes, MaximumAfter
<1> QED BY <1>1, <1>2, <1>3, DenyEffect, RowChanges

\* What a release writes; the row's maximum goes with the last of what it holds.
LEMMA GiveBackEffect ==
    ASSUME IInv, NEW c \in Client, NEW req \in UpTo(held[c]), GiveBack(c, req),
           NEW maximum,
           maximum = IF Minus(held[c], req) = Zero THEN Zero ELSE max_need[Row(pid[c])]
    PROVE  /\ req \in Amounts /\ Fits(req, held[c])
           /\ Minus(held[c], req) \in Amounts /\ Fits(Minus(held[c], req), claim[c])
           /\ maximum \in {Zero, claim[c]} /\ (maximum = Zero => Minus(held[c], req) = Zero)
           /\ held' = [held EXCEPT ![c] = Minus(held[c], req)]
           /\ available' = Plus(available, req)
           /\ allocation' = [allocation EXCEPT ![Row(pid[c])] = Minus(held[c], req)]
           /\ max_need' = [max_need EXCEPT ![Row(pid[c])] = maximum]
           /\ need' = [need EXCEPT ![Row(pid[c])] = Minus(maximum, Minus(held[c], req))]
           /\ TypeOK'
<1> DEFINE i == Row(pid[c])
           left == Minus(held[c], req)
<1>1. /\ i \in Index /\ pid[c] \in Nat /\ req \in Amounts /\ Fits(req, held[c])
      /\ held[c] \in Amounts /\ allocation[i] = held[c] /\ Fits(held[c], claim[c])
      /\ claim[c] \in Amounts
      /\ max_need[i] \in {Zero, claim[c]} /\ (max_need[i] = Zero => held[c] = Zero)
  BY ClientTypes, RequestTypes DEF IInv, RowOf
<1>2. /\ held \in [Client -> Amounts] /\ allocation \in [Index -> Amounts]
      /\ max_need \in [Index -> Amounts]
  BY DEF IInv, TypeOK, BankerTypeOK
<1>3. left \in Amounts /\ Clamped(left) = left /\ Fits(left, claim[c])
  BY <1>1 DEF Minus, Clamped, Fits, Amounts
<1>4. held[c] = Zero => left = Zero
  BY <1>1 DEF Minus, Fits, Amounts, Zero
<1>5. /\ release_resources(pid[c], req) /\ held' = [held EXCEPT ![c] = left]
  BY DEF GiveBack
<1>6. TypeOK'
  BY <1>1, <1>2, <1>3, <1>5, BankerReleaseTypes DEF IInv, TypeOK
<1>7. Clamped(Minus(allocation[i], req)) = left
  BY <1>1, <1>3
<1> HIDE DEF left
<1>8. /\ available' = Plus(available, req)
      /\ allocation' = [allocation EXCEPT ![i] = left]
      /\ max_need' = IF left = Zero THEN [max_need EXCEPT ![i] = Zero] ELSE max_need
      /\ need' = [need EXCEPT ![i] = Minus(max_need'[i], left)]
  BY <1>5, <1>7 DEF release_resources
<1>9. max_need' = [max_need EXCEPT ![i] = maximum] /\ max_need'[i] = maximum
  <2>1. CASE left = Zero
    BY <1>1, <1>2, <1>8, <2>1 DEF left
  <2>2. CASE left # Zero
    BY <1>1, <1>2, <1>8, <2>2 DEF left
  <2> QED BY <2>1, <2>2
<1>10. need' = [need EXCEPT ![i] = Minus(maximum, left)]
  BY <1>8, <1>9
<1>11. maximum \in {Zero, claim[c]} /\ (maximum = Zero => left = Zero)
  BY <1>1, <1>4 DEF left
<1> QED BY <1>1, <1>3, <1>5, <1>6, <1>8, <1>9, <1>10, <1>11 DEF left

LEMMA GiveBackKeeps ==
    ASSUME IInv, NEW c \in Client, NEW req \in UpTo(held[c]), GiveBack(c, req)
    PROVE  IInv'
BY GiveBackEffect, RowChanges

LEMMA NextKeeps ==
    ASSUME IInv, [Next]_vars
    PROVE  IInv'
<1>1. CASE UNCHANGED vars
  BY <1>1 DEF vars, bankerVars, IInv, TypeOK, BankerTypeOK, NeedIsCurrent, RowOf
<1>2. CASE Next
  BY <1>2, GrantKeeps, DenyKeeps, GiveBackKeeps DEF Next
<1> QED BY <1>1, <1>2

-----------------------------------------------------------------------------
\* The Banker's rows follow their callers through every sequence of calls.
THEOREM Invariance == Spec => []IInv
<1>1. IInv /\ [Next]_vars => IInv'
  BY NextKeeps
<1> QED BY InitInvariant, <1>1, PTL DEF Spec

\* What the next safety check reads of the need matrix is what maximum and
\* allocation say: no call, refusal or rollback leaves it stale.
THEOREM NeedSafe == Spec => []NeedIsCurrent
<1>1. IInv => NeedIsCurrent
  BY DEF IInv
<1> QED BY Invariance, <1>1, PTL

-----------------------------------------------------------------------------
(* The books, and the order among those that hold something *)

\* What is free and what the rows hold make up the machine; a row no caller has
\* is empty; the need left on record for a caller that holds nothing is within
\* its claim (current, or not written since the row was cleared).
Books ==
    /\ \A r \in Res : available[r] + RowSum(allocation, Index, r) = max_resources[r]
    /\ \A i \in Index : (\A c \in Client : Row(pid[c]) # i)
                           => allocation[i] = Zero /\ max_need[i] = Zero
    /\ \A c \in Client : held[c] = Zero => Fits(need[Row(pid[c])], claim[c])

SInv == IInv /\ Books /\ AlwaysSafe

LEMMA StateTypes ==
    ASSUME IInv
    PROVE  /\ available \in Amounts /\ available \in Vectors /\ held \in [Client -> Amounts]
           /\ allocation \in [Index -> Amounts] /\ max_need \in [Index -> Amounts]
           /\ need \in Needs
BY AmountsInts DEF IInv, TypeOK, BankerTypeOK, Vectors, Needs

\* A row that holds something belongs to a caller, whose claim it knows.
LEMMA HolderIs ==
    ASSUME IInv, Books, NEW i \in Holding(allocation)
    PROVE  \E c \in Client : /\ Row(pid[c]) = i /\ held[c] = allocation[i] /\ held[c] # Zero
                             /\ max_need[i] = claim[c] /\ i \in Active(max_need)
<1>1. i \in Index /\ allocation[i] # Zero
  BY DEF Holding
<1>2. PICK c \in Client : Row(pid[c]) = i
  BY <1>1 DEF Books
<1>3. held[c] = allocation[i] /\ max_need[i] = claim[c]
  BY <1>1, <1>2 DEF IInv, RowOf
<1>4. i \in Active(max_need)
  BY <1>1, <1>3, ClientTypes DEF Active
<1> QED BY <1>1, <1>2, <1>3, <1>4

LEMMA BooksInit == Init => Books /\ AlwaysSafe
<1> SUFFICES ASSUME Init PROVE Books /\ AlwaysSafe
  OBVIOUS
<1>1. /\ available = max_resources /\ held = [c \in Client |-> Zero]
      /\ allocation = [i \in Index |-> Zero] /\ max_need = [i \in Index |-> Zero]
      /\ need = [i \in Index |-> Zero]
  BY DEF Init, init_banker
<1>2. allocation \in [Index -> Amounts] /\ \A i \in Index : allocation[i] = Zero
  BY <1>1, ZeroType
<1>3. ASSUME NEW r \in Res
      PROVE  available[r] + RowSum(allocation, Index, r) = max_resources[r]
  <2>1. RowSum(allocation, {}, r) = 0 /\ {} \in SUBSET Index
    BY <1>2, RowSumLaws
  <2>2. RowSum(allocation, Index, r) = 0
    BY <1>2, <2>1, RowSumLaws
  <2> QED BY <1>1, <2>2, ResourcesAssumption DEF Amounts
<1>4. \A c \in Client : Fits(need[Row(pid[c])], claim[c])
  BY <1>1, ClientTypes DEF Fits, Zero, Amounts
<1>5. Books
  BY <1>1, <1>3, <1>4 DEF Books
<1>6. Holding(allocation) = {}
  BY <1>2 DEF Holding
<1>7. HasCompletionOrder(available, allocation, Remaining(allocation, max_need), {})
  <2>1. {} \in SUBSET Index /\ [i \in {} |-> 0] \in [{} -> Nat]
    OBVIOUS
  <2> QED BY <2>1, OrderFrom
<1> QED BY <1>5, <1>6, <1>7 DEF AlwaysSafe

\* A call that moves resources between the pool and the row of its caller, and
\* no others, leaves the books balanced.
LEMMA BooksStep ==
    ASSUME IInv, Books, TypeOK', NEW c \in Client, NEW left \in Amounts,
           NEW maximum \in {Zero, claim[c]},
           held' = [held EXCEPT ![c] = left],
           allocation' = [allocation EXCEPT ![Row(pid[c])] = left],
           max_need' = [max_need EXCEPT ![Row(pid[c])] = maximum],
           \A r \in Res : available'[r] = available[r] + held[c][r] - left[r],
           \/ need' = [need EXCEPT ![Row(pid[c])] = Minus(maximum, left)]
           \/ need' = need /\ left = held[c]
    PROVE  Books'
<1> DEFINE i == Row(pid[c])
<1>1. /\ i \in Index /\ allocation[i] = held[c] /\ held[c] \in Amounts /\ claim[c] \in Amounts
      /\ allocation \in [Index -> Amounts] /\ allocation' \in [Index -> Amounts]
      /\ max_need \in [Index -> Amounts] /\ held \in [Client -> Amounts] /\ available \in Amounts
      /\ need \in [Index -> [Res -> Int]]
  BY ClientTypes DEF IInv, RowOf, TypeOK, BankerTypeOK
<1>2. /\ allocation'[i] = left /\ max_need'[i] = maximum /\ held'[c] = left
      /\ \A j \in Index \ {i} : allocation'[j] = allocation[j] /\ max_need'[j] = max_need[j]
                                /\ need'[j] = need[j]
      /\ \A d \in Client \ {c} : held'[d] = held[d]
  BY <1>1
<1>3. ASSUME NEW r \in Res
      PROVE  available'[r] + RowSum(allocation', Index, r) = max_resources[r]
  <2>1. allocation' = [allocation EXCEPT ![i] = left]
    OBVIOUS
  <2>2. RowSum(allocation', Index, r) = RowSum(allocation, Index, r) - held[c][r] + left[r]
    <3>1. i \in Index /\ allocation \in [Index -> Amounts] /\ r \in Res /\ left \in Amounts
      BY <1>1
    <3> HIDE DEF i
    <3>2. RowSum([allocation EXCEPT ![i] = left], Index, r) =
             RowSum(allocation, Index, r) - allocation[i][r] + left[r]
      BY ONLY <3>1, RowSumExcept
    <3> QED BY <1>1, <2>1, <3>2
  <2>3. available[r] + RowSum(allocation, Index, r) = max_resources[r]
    BY DEF Books
  <2>4. /\ RowSum(allocation, Index, r) \in Nat /\ available[r] \in Nat
        /\ held[c][r] \in Nat /\ left[r] \in Nat
    BY <1>1, RowSumLaws DEF Amounts
  <2>5. available'[r] = available[r] + held[c][r] - left[r]
    OBVIOUS
  <2> QED BY <2>2, <2>3, <2>4, <2>5
<1>4. ASSUME NEW j \in Index, \A d \in Client : Row(pid[d]) # j
      PROVE  allocation'[j] = Zero /\ max_need'[j] = Zero
  <2>1. j \in Index \ {i}
    BY <1>4
  <2> QED BY <1>2, <1>4, <2>1 DEF Books
<1>5. ASSUME NEW d \in Client, held'[d] = Zero
      PROVE  Fits(need'[Row(pid[d])], claim[d])
  <2>1. CASE d # c
    <3>1. Row(pid[d]) \in Index \ {i}
      BY <2>1, ClientTypes, RowsApart
    <3> QED BY <1>2, <1>5, <2>1, <3>1 DEF Books
  <2>2. CASE d = c /\ need' = need /\ left = held[c]
    BY <1>2, <1>5, <2>2 DEF Books
  <2>3. CASE d = c /\ need' = [need EXCEPT ![i] = Minus(maximum, left)]
    <3>1. need'[i] = Minus(maximum, Zero)
      BY <1>1, <1>2, <1>5, <2>3
    <3>2. Fits(Minus(maximum, Zero), claim[c])
      BY <1>1 DEF Minus, Fits, Zero, Amounts
    <3> QED BY <2>3, <3>1, <3>2
  <2> QED BY <2>1, <2>2, <2>3
<1> QED BY <1>3, <1>4, <1>5 DEF Books

-----------------------------------------------------------------------------
(* What each call does to the order *)

LEMMA GrantSafe ==
    ASSUME SInv, NEW c \in Client, NEW req \in Askable(c), AskGranted(c, req)
    PROVE  Books' /\ AlwaysSafe'
<1> DEFINE left == Plus(held[c], req)
<1>1. IInv /\ IInv' /\ Books
  BY GrantKeeps DEF SInv
<1>2. /\ left \in Amounts /\ held' = [held EXCEPT ![c] = left]
      /\ available' = Minus(available, req)
      /\ allocation' = [allocation EXCEPT ![Row(pid[c])] = left]
      /\ max_need' = [max_need EXCEPT ![Row(pid[c])] = claim[c]]
      /\ need' = [need EXCEPT ![Row(pid[c])] = Minus(claim[c], left)]
      /\ TypeOK' /\ claim[c] \in {Zero, claim[c]}
      /\ req \in Amounts
  BY <1>1, GrantEffect
<1>3. held[c] \in Amounts /\ available \in Amounts
  BY <1>1 DEF IInv, RowOf, TypeOK, BankerTypeOK
<1>4. \A r \in Res : available'[r] = available[r] + held[c][r] - left[r]
  BY ONLY <1>2, <1>3 DEF Minus, Plus, Amounts
<1>5. Books'
  <2> HIDE DEF left
  <2> QED BY <1>1, <1>2, <1>4, BooksStep
<1>6. is_safe_state(available', allocation', max_need', need', Cardinality(Active(max_need')))
  BY DEF AskGranted, request_granted, Grants, SafeToGrant
<1>7. /\ available' \in Vectors /\ allocation' \in [Index -> Amounts] /\ need' \in Needs
  BY <1>2, AmountsInts DEF TypeOK, BankerTypeOK, Vectors, Needs
<1>8. Holding(allocation') \subseteq Active(max_need')
  <2> SUFFICES ASSUME NEW j \in Index, allocation'[j] # Zero PROVE max_need'[j]["ram"] # 0
    BY DEF Holding, Active
  <2>1. PICK d \in Client : Row(pid[d]) = j
    BY <1>5 DEF Books
  <2>2. max_need'[j] = claim[d]
    BY <1>1, <2>1 DEF IInv, RowOf
  <2> QED BY <2>2, ClientTypes
<1>9. HasCompletionOrder(available', allocation', need', Holding(allocation'))
  BY ONLY <1>6, <1>7, <1>8, SafeHasOrder
<1>10. \A i \in Holding(allocation') : need'[i] = Minus(max_need'[i], allocation'[i])
  BY <1>1 DEF IInv, NeedIsCurrent, Holding
<1> QED BY <1>5, <1>9, <1>10, OrderOfNeed DEF AlwaysSafe

LEMMA DenySafe ==
    ASSUME SInv, NEW c \in Client, NEW req \in Askable(c), AskDenied(c, req)
    PROVE  Books' /\ AlwaysSafe'
<1> DEFINE i == Row(pid[c])
<1>1. IInv /\ IInv' /\ Books
  BY DenyKeeps DEF SInv
<1>2. /\ held' = held /\ available' = available /\ allocation' = allocation
      /\ max_need' = [max_need EXCEPT ![i] = claim[c]]
      /\ \/ need' = [need EXCEPT ![i] = Minus(claim[c], held[c])]
         \/ need' = need
      /\ TypeOK' /\ claim[c] \in {Zero, claim[c]}
  BY <1>1, DenyEffect
<1>3. /\ held[c] \in Amounts /\ available \in Amounts /\ allocation[i] = held[c] /\ i \in Index
      /\ held \in [Client -> Amounts] /\ allocation \in [Index -> Amounts]
      /\ max_need \in [Index -> Amounts]
  BY <1>1, ClientTypes DEF IInv, RowOf, TypeOK, BankerTypeOK
<1>4. held' = [held EXCEPT ![c] = held[c]] /\ allocation' = [allocation EXCEPT ![i] = held[c]]
  BY <1>2, <1>3
<1>5. \A r \in Res : available'[r] = available[r] + held[c][r] - held[c][r]
  BY ONLY <1>2, <1>3 DEF Amounts
<1>6. Books'
  <2>1. need' = [need EXCEPT ![i] = Minus(claim[c], held[c])] \/ (need' = need /\ held[c] = held[c])
    BY <1>2
  <2> QED BY ONLY <1>1, <1>2, <1>3, <1>4, <1>5, <2>1, c \in Client, BooksStep
<1>7. ASSUME NEW j \in Holding(allocation)
      PROVE  Remaining(allocation, max_need')[j] = Minus(max_need[j], allocation[j])
  <2>1. j \in Index /\ allocation[j] # Zero
    BY DEF Holding
  <2>2. max_need'[j] = max_need[j]
    BY <1>1, <1>2, <1>3, <2>1, MaximumAfter
  <2> QED BY <2>1, <2>2 DEF Remaining
<1>8. HasCompletionOrder(available, allocation, Remaining(allocation, max_need'),
                         Holding(allocation))
  <2> DEFINE nd == Remaining(allocation, max_need')
  <2>1. \A j \in Holding(allocation) : nd[j] = Minus(max_need[j], allocation[j])
    BY <1>7
  <2> HIDE DEF nd
  <2>2. HasCompletionOrder(available, allocation, nd, Holding(allocation))
    BY <2>1, OrderOfNeed DEF SInv, AlwaysSafe
  <2> QED BY <2>2 DEF nd
<1> QED BY <1>2, <1>6, <1>8 DEF AlwaysSafe

LEMMA GiveBackSafe ==
    ASSUME SInv, NEW c \in Client, NEW req \in UpTo(held[c]), GiveBack(c, req)
    PROVE  Books' /\ AlwaysSafe'
<1> DEFINE k == Row(pid[c])
           left == Minus(held[c], req)
           maximum == IF left = Zero THEN Zero ELSE max_need[k]
<1>1. IInv /\ IInv' /\ Books
  BY GiveBackKeeps DEF SInv
<1>2. /\ req \in Amounts /\ left \in Amounts
      /\ maximum \in {Zero, claim[c]}
      /\ held' = [held EXCEPT ![c] = left]
      /\ available' = Plus(available, req)
      /\ allocation' = [allocation EXCEPT ![k] = left]
      /\ max_need' = [max_need EXCEPT ![k] = maximum]
      /\ need' = [need EXCEPT ![k] = Minus(maximum, left)]
      /\ TypeOK'
  BY <1>1, GiveBackEffect
<1>3. /\ held[c] \in Amounts /\ available \in Amounts /\ allocation[k] = held[c] /\ k \in Index
      /\ available \in Vectors
      /\ allocation \in [Index -> Amounts] /\ max_need \in [Index -> Amounts]
  BY <1>1, ClientTypes, AmountsInts DEF IInv, RowOf, TypeOK, BankerTypeOK, Vectors
<1>4. /\ \A r \in Res : left[r] = allocation[k][r] - req[r]
      /\ \A r \in Res : available'[r] = available[r] + req[r]
      /\ \A r \in Res : available'[r] = available[r] + held[c][r] - left[r]
  BY ONLY <1>2, <1>3 DEF Minus, Plus, Amounts
<1>5. Books'
  <2> HIDE DEF k, left, maximum
  <2> QED BY ONLY <1>1, <1>2, <1>4, c \in Client, BooksStep DEF k
<1> DEFINE rest == Remaining(allocation, max_need)
           other == Remaining(allocation', max_need')
<1>6. rest \in Needs
  BY <1>3, VectorTypes, AmountsInts DEF Remaining, Needs, Vectors
<1>7. ASSUME NEW r \in Res, NEW j \in Holding(allocation')
      PROVE  other[j][r] = IF j = k THEN rest[j][r] + req[r] ELSE rest[j][r]
  <2>1. j \in Index /\ allocation'[j] # Zero
    BY DEF Holding
  <2>2. other[j] = Minus(max_need'[j], allocation'[j]) /\ rest[j] = Minus(max_need[j], allocation[j])
    BY <2>1 DEF Remaining
  <2>3. CASE j # k
    <3>1. max_need'[j] = max_need[j] /\ allocation'[j] = allocation[j]
      BY <1>2, <1>3, <2>1, <2>3
    <3> QED BY <2>2, <2>3, <3>1
  <2>4. CASE j = k
    <3>1. max_need'[k] = max_need[k] /\ allocation'[k] = left
      BY <1>2, <1>3, <2>1, <2>4
    <3>2. other[j][r] = max_need[k][r] - left[r] /\ rest[j][r] = max_need[k][r] - allocation[k][r]
      BY <2>2, <2>4, <3>1 DEF Minus
    <3>3. max_need[k][r] \in Int /\ allocation[k][r] \in Int /\ req[r] \in Int
      BY ONLY <1>2, <1>3, r \in Res DEF Amounts
    <3> QED BY <1>4, <2>4, <3>2, <3>3
  <2> QED BY <2>3, <2>4
<1>8. HasCompletionOrder(available, allocation, rest, Holding(allocation))
  BY DEF SInv, AlwaysSafe
<1>9. \A r \in Res : \A j \in Holding(allocation') :
         other[j][r] = IF j = k THEN rest[j][r] + req[r] ELSE rest[j][r]
  BY <1>7
<1>10. HasCompletionOrder(available', allocation', other, Holding(allocation'))
  <2> HIDE DEF k, left, maximum, rest, other
  <2>1. GivenBack(k, req, left, available, available', allocation, allocation', rest, other)
    BY ONLY <1>2, <1>3, <1>4, <1>6, <1>9 DEF GivenBack
  <2> QED BY ONLY <1>8, <2>1, GiveBackOrder
<1> QED BY <1>5, <1>10 DEF AlwaysSafe

LEMMA SafetyInvariant == Spec => []SInv
<1>1. Init => SInv
  BY InitInvariant, BooksInit DEF SInv
<1>2. ASSUME SInv, [Next]_vars
      PROVE  SInv'
  <2>1. IInv'
    BY <1>2, NextKeeps DEF SInv
  <2>2. CASE UNCHANGED vars
    BY <1>2, <2>2, <2>1 DEF vars, bankerVars, SInv, Books, AlwaysSafe
  <2>3. CASE Next
    <3>1. PICK c \in Client : \/ \E req \in Askable(c) : AskGranted(c, req) \/ AskDenied(c, req)
                              \/ \E req \in UpTo(held[c]) : GiveBack(c, req)
      BY <2>3 DEF Next
    <3>2. Books' /\ AlwaysSafe'
      BY <1>2, <3>1, GrantSafe, DenySafe, GiveBackSafe
    <3> QED BY <2>1, <3>2 DEF SInv
  <2> QED BY <1>2, <2>2, <2>3
<1>3. SInv /\ [Next]_vars => SInv'
  BY <1>2
<1> QED BY <1>1, <1>3, PTL DEF Spec

-----------------------------------------------------------------------------
(* The theorems *)

\* The Banker never lets the machine into a state with no completion order:
\* with what is free and what the rows before it hold, each row that holds
\* something gets the rest of its claim.  Whatever the claims are.
THEOREM Safety == Spec => []AlwaysSafe
<1>1. SInv => AlwaysSafe
  BY DEF SInv
<1> QED BY SafetyInvariant, <1>1, PTL

\* Nothing is created or lost: free and allocated add up to the machine, and a
\* row holds what its caller holds.
THEOREM Conservation == Spec => []Conserved
<1>1. ASSUME SInv
      PROVE  Conserved
  <2>1. IInv /\ Books /\ TypeOK
    BY <1>1 DEF SInv, IInv
  <2>2. ASSUME NEW r \in Res, NEW i \in Index
        PROVE  allocation[i][r] = SumFunctionOnSet([c \in Client |-> held[c][r]],
                                                   {c \in Client : Row(pid[c]) = i})
    <3> DEFINE f == [c \in Client |-> held[c][r]]
               S == {c \in Client : Row(pid[c]) = i}
    <3>1. \A c \in Client : f[c] = held[c][r] /\ f[c] \in Int
      BY <2>1 DEF TypeOK, Amounts
    <3>2. CASE S = {}
      <4>1. allocation[i][r] = 0
        BY <2>1, <3>2 DEF Books, Zero
      <4>2. SumFunctionOnSet(f, {}) = 0
        <5> HIDE DEF f
        <5> QED BY SumLaws, FS_EmptySet
      <4> QED BY <3>2, <4>1, <4>2
    <3>3. CASE S # {}
      <4>1. PICK c \in Client : Row(pid[c]) = i
        BY <3>3
      <4>2. S = {c} /\ {c} \ {c} = {} /\ c \in {c} /\ {c} \in SUBSET {c}
        BY <4>1, RowsApart
      <4>3. IsFiniteSet({c}) /\ \A x \in {c} : f[x] \in Int
        BY <3>1, FS_Singleton
      <4>4. f[c] = allocation[i][r]
        BY <2>1, <3>1, <4>1 DEF IInv, RowOf
      <4> HIDE DEF f, S
      <4>5. SumFunctionOnSet(f, {c}) = f[c] + 0
        BY ONLY <4>2, <4>3, SumLaws
      <4>6. SumFunctionOnSet(f, S) = allocation[i][r]
        BY <3>1, <4>2, <4>4, <4>5
      <4> QED BY <4>6 DEF f, S
    <3> QED BY <3>2, <3>3
  <2>3. \A r \in Res : available[r] + RowSum(allocation, Index, r) = max_resources[r]
    BY <2>1 DEF Books
  <2> QED BY <2>1, <2>2, <2>3 DEF Conserved
<1>2. SInv => Conserved
  BY <1>1
<1> QED BY SafetyInvariant, <1>2, PTL

-----------------------------------------------------------------------------
(* The decision *)

\* A request that fits is granted exactly when an order exists afterwards.
LEMMA GrantDecided ==
    ASSUME SInv, ClaimsFit, NEW c \in Client, NEW req \in Askable(c), Fits(req, available),
           NEW mx, mx = MaxNeedAfter(pid[c], req), NEW al, al = AllocationAfter(pid[c], req)
    PROVE  Grants(pid[c], req) <=>
              HasCompletionOrder(Minus(available, req), al, Remaining(al, mx), Holding(al))
<1> DEFINE k == Row(pid[c])
           left == Plus(held[c], req)
           av == Minus(available, req)
           nd == [need EXCEPT ![k] = Minus(mx[k], al[k])]
           rows == Holding(al)
<1>1. IInv /\ Books
  BY DEF SInv
<1>2. /\ k \in Index /\ held[c] \in Amounts /\ allocation[k] = held[c]
      /\ available \in Amounts /\ allocation \in [Index -> Amounts] /\ claim[c] \in Amounts
      /\ max_need \in [Index -> Amounts] /\ need \in Needs /\ claim[c]["ram"] # 0
  BY <1>1, ClientTypes, StateTypes DEF IInv, RowOf, TypeOK, BankerTypeOK
<1>3. req \in Amounts /\ Fits(left, claim[c]) /\ mx = [max_need EXCEPT ![k] = claim[c]]
  BY <1>1, RequestTypes, MaximumAfter
<1>4. left \in Amounts /\ av \in Amounts
  BY <1>2, <1>3, VectorTypes, AmountsInts
<1>5. al = [allocation EXCEPT ![k] = left] /\ al \in [Index -> Amounts]
  BY <1>2, <1>4 DEF AllocationAfter
<1>6. /\ mx[k] = claim[c] /\ al[k] = left /\ nd[k] = Minus(claim[c], left)
      /\ \A j \in Index \ {k} : mx[j] = max_need[j] /\ al[j] = allocation[j] /\ nd[j] = need[j]
  BY <1>2, <1>3, <1>5 DEF Needs
<1>7. av \in Vectors /\ nd \in Needs
  <2>1. Minus(claim[c], left) \in Vectors /\ av \in Vectors
    BY <1>2, <1>4, VectorTypes, AmountsInts DEF Vectors
  <2>2. nd = [need EXCEPT ![k] = Minus(claim[c], left)]
    BY <1>3, <1>5, <1>2
  <2> QED BY <1>2, <2>1, <2>2 DEF Needs
<1>8. rows \subseteq Active(mx) /\ \A i \in rows : nd[i] = Minus(mx[i], al[i])
  <2> SUFFICES ASSUME NEW i \in Index, al[i] # Zero
               PROVE  mx[i]["ram"] # 0 /\ nd[i] = Minus(mx[i], al[i])
    BY DEF Holding, Active
  <2>1. CASE i = k
    BY <1>2, <1>6, <2>1
  <2>2. CASE i # k
    <3>1. i \in Holding(allocation) /\ allocation[i] # Zero
      BY <1>6, <2>2 DEF Holding
    <3>2. max_need[i]["ram"] # 0 /\ need[i] = Minus(max_need[i], allocation[i])
      BY <1>1, <3>1, HolderIs DEF Active, IInv, NeedIsCurrent
    <3> QED BY <1>6, <2>2, <3>2
  <2> QED BY <2>1, <2>2
<1>9. ASSUME NEW r \in Res
      PROVE  av[r] + RowSum(al, Index, r) = max_resources[r]
  <2>1. RowSum(al, Index, r) = RowSum(allocation, Index, r) - allocation[k][r] + left[r]
    <3>1. r \in Res
      OBVIOUS
    <3> HIDE DEF k, left
    <3>2. RowSum([allocation EXCEPT ![k] = left], Index, r) =
             RowSum(allocation, Index, r) - allocation[k][r] + left[r]
      BY ONLY <1>2, <1>4, <3>1, RowSumExcept
    <3> QED BY <1>5, <3>2
  <2>2. available[r] + RowSum(allocation, Index, r) = max_resources[r]
    BY <1>1 DEF Books
  <2>3. av[r] = available[r] - req[r] /\ left[r] = held[c][r] + req[r]
    BY DEF Minus, Plus
  <2>4. /\ available[r] \in Int /\ req[r] \in Int /\ held[c][r] \in Int /\ max_resources[r] \in Int
        /\ allocation[k][r] = held[c][r]
    BY <1>2, <1>3, ResourcesAssumption DEF Amounts
  <2>5. RowSum(allocation, Index, r) \in Int
    BY <1>2, RowSumLaws
  <2> QED BY ONLY <2>1, <2>2, <2>3, <2>4, <2>5
<1>10. ASSUME NEW i \in Active(mx) \ rows, NEW r \in Res
       PROVE  nd[i][r] <= av[r] + RowSum(al, Index, r)
  <2>1. i \in Index /\ al[i] = Zero /\ mx[i]["ram"] # 0
    BY DEF Active, Holding
  <2>2. CASE i = k
    <3>1. nd[i][r] = claim[c][r] - left[r] /\ claim[c][r] <= max_resources[r]
      BY <1>6, <2>2 DEF Minus, ClaimsFit, Fits
    <3>2. claim[c][r] \in Nat /\ left[r] \in Nat /\ max_resources[r] \in Nat
      BY ONLY <1>2, <1>4, r \in Res, ResourcesAssumption DEF Amounts
    <3> QED BY ONLY <1>9, <3>1, <3>2, r \in Res
  <2>3. CASE i # k
    <3>1. allocation[i] = Zero /\ max_need[i]["ram"] # 0 /\ nd[i] = need[i]
      BY <1>6, <2>1, <2>3
    <3>2. PICK d \in Client : Row(pid[d]) = i
      <4>1. Zero["ram"] = 0
        BY DEF Zero, Res
      <4> QED BY <1>1, <2>1, <3>1, <4>1 DEF Books
    <3>3. Fits(need[i], claim[d])
      BY <1>1, <3>1, <3>2 DEF Books, IInv, RowOf
    <3>4. need[i][r] <= claim[d][r] /\ claim[d][r] <= max_resources[r]
      BY <3>3 DEF Fits, ClaimsFit
    <3>5. need[i][r] \in Int /\ claim[d][r] \in Int /\ max_resources[r] \in Int
      <4>1. claim[d] \in Amounts
        BY ClientTypes
      <4>2. need[i][r] \in Int
        BY ONLY <1>2, <2>1, r \in Res, NeedsInt
      <4> QED BY ONLY <4>1, <4>2, r \in Res, ResourcesAssumption DEF Amounts
    <3> QED BY ONLY <1>9, <3>1, <3>4, <3>5, r \in Res
  <2> QED BY <2>2, <2>3
<1>11. Grants(pid[c], req) <=> is_safe_state(av, al, mx, nd, Cardinality(Active(mx)))
  BY DEF Grants, SafeToGrant
<1>12. rows = Holding(al) /\ \A i \in Active(mx) \ rows : \A r \in Res :
          nd[i][r] <= av[r] + RowSum(al, Index, r)
  BY <1>10
<1>13. /\ HasCompletionOrder(av, al, nd, rows)
             <=> HasCompletionOrder(av, al, Remaining(al, mx), rows)
  <2> HIDE DEF av, nd
  <2> QED BY <1>8, OrderOfNeed
<1> HIDE DEF av, nd, rows
<1>14. is_safe_state(av, al, mx, nd, Cardinality(Active(mx)))
          => HasCompletionOrder(av, al, nd, rows)
  BY ONLY <1>5, <1>7, <1>8, <1>12, SafeHasOrder
<1>15. HasCompletionOrder(av, al, nd, rows)
          => is_safe_state(av, al, mx, nd, Cardinality(Active(mx)))
  BY ONLY <1>5, <1>7, <1>8, <1>12, OrderIsSafe
<1> QED BY <1>11, <1>13, <1>14, <1>15 DEF av, rows

\* request_resources grants a request that fits exactly when a completion order
\* exists afterwards.
THEOREM GrantDecision ==
    ASSUME ClaimsFit
    PROVE  Spec => []GrantsExactlyWhenSafe
<1>1. SInv => GrantsExactlyWhenSafe
  BY GrantDecided DEF GrantsExactlyWhenSafe
<1> QED BY SafetyInvariant, <1>1, PTL

-----------------------------------------------------------------------------
(* Somebody can always go on *)

\* The first row of an order can be given all it still needs, and the order
\* stays one.
LEMMA ServeFirst ==
    ASSUME NEW av \in Amounts, NEW al \in [Index -> Amounts], NEW rest \in Needs,
           Holding(al) # {}, HasCompletionOrder(av, al, rest, Holding(al))
    PROVE  \E k \in Holding(al) :
              /\ Fits(rest[k], av)
              /\ \A req \in Amounts : \A bl, other :
                    /\ req = rest[k] /\ Plus(al[k], req) # Zero
                    /\ bl = [al EXCEPT ![k] = Plus(al[k], req)]
                    /\ \A j \in Holding(bl) : other[j] = IF j = k THEN Zero ELSE rest[j]
                    => HasCompletionOrder(Minus(av, req), bl, other, Holding(bl))
<1> DEFINE rows == Holding(al)
<1>1. rows \in SUBSET Index /\ rows # {}
  BY DEF Holding
<1>2. PICK rank \in [rows -> Nat] :
         /\ \A i, j \in rows : rank[i] = rank[j] => i = j
         /\ \A i \in rows : \A r \in Res :
               rest[i][r] <= av[r] + RowSum(al, {j \in rows : rank[j] < rank[i]}, r)
  <2> HIDE DEF rows
  <2> QED BY <1>1, OrderRank DEF rows
<1> DEFINE Before(i) == {j \in rows : rank[j] < rank[i]}
           ranks == {rank[i] : i \in rows}
<1> HIDE DEF rows
<1>3. ranks \in SUBSET Nat /\ ranks # {}
  BY <1>1
<1>4. \E m \in ranks : \A n \in ranks : m <= n
  <2> HIDE DEF ranks
  <2> QED BY <1>3, LeastNumber
<1>5. PICK k \in rows : \A j \in rows : rank[k] <= rank[j]
  BY <1>4
<1>6. k \in Index /\ Before(k) = {} /\ \A j \in rows : rank[j] \in Nat
  BY <1>1, <1>5
<1>7. \A i \in rows : \A r \in Res : rest[i][r] <= av[r] + RowSum(al, Before(i), r)
  BY ONLY <1>2
<1>8. \A i \in rows : Before(i) \in SUBSET Index
  BY ONLY <1>1
<1>types. al \in [Index -> Amounts] /\ av \in Amounts /\ rest \in Needs
  OBVIOUS
<1> HIDE DEF Before
<1>9. Fits(rest[k], av)
  <2> SUFFICES ASSUME NEW r \in Res PROVE rest[k][r] <= av[r]
    BY DEF Fits
  <2>1. RowSum(al, {}, r) = 0
    <3>1. {} \in SUBSET Index
      OBVIOUS
    <3> QED BY ONLY <1>types, <3>1, r \in Res, RowSumLaws
  <2>2. av[r] \in Nat
    BY ONLY <1>types, r \in Res DEF Amounts
  <2>3. rest[k][r] <= av[r] + RowSum(al, Before(k), r)
    BY ONLY <1>5, <1>7, r \in Res
  <2> QED BY ONLY <1>6, <2>1, <2>2, <2>3
<1>10. ASSUME NEW req \in Amounts, NEW bl, NEW other,
              req = rest[k], Plus(al[k], req) # Zero,
              bl = [al EXCEPT ![k] = Plus(al[k], req)],
              \A j \in Holding(bl) : other[j] = IF j = k THEN Zero ELSE rest[j]
       PROVE  HasCompletionOrder(Minus(av, req), bl, other, Holding(bl))
  <2>1. al[k] \in Amounts /\ Plus(al[k], req) \in Amounts
    BY <1>types, <1>6, VectorTypes, AmountsInts
  <2>2. /\ bl \in [Index -> Amounts] /\ bl[k] = Plus(al[k], req)
        /\ \A j \in Index \ {k} : bl[j] = al[j]
    BY <1>types, <1>6, <1>10, <2>1
  <2>3. Holding(bl) = rows
    BY <1>5, <1>10, <2>2 DEF Holding, rows
  <2>4. bl \in [Index -> Amounts] /\ \A j \in rows \ {k} : other[j] = rest[j]
    BY <1>10, <2>2, <2>3
  <2>5. other[k] = Zero
    BY <1>5, <1>10, <2>3
  <2>6. ASSUME NEW i \in rows, NEW r \in Res
        PROVE  other[i][r] <= Minus(av, req)[r] + RowSum(bl, Before(i), r)
    <3>1. Minus(av, req)[r] = av[r] - req[r] /\ req[r] = rest[k][r] /\ rest[k][r] <= av[r]
      BY <1>9, <1>10 DEF Minus, Fits
    <3>2. av[r] \in Nat /\ req[r] \in Nat /\ al[k][r] \in Nat
      BY ONLY <1>types, <2>1, req \in Amounts, r \in Res DEF Amounts
    <3>3. Before(i) \in SUBSET Index
      BY <1>8
    <3>4. RowSum(bl, Before(i), r) \in Nat /\ RowSum(al, Before(i), r) \in Nat
      BY ONLY <1>types, <2>4, <3>3, r \in Res, RowSumLaws
    <3>5. CASE i = k
      <4>1. other[i][r] = 0
        BY <2>5, <3>5 DEF Zero
      <4> QED BY ONLY <3>1, <3>2, <3>4, <4>1
    <3>6. CASE i # k
      <4>1. k \in Before(i)
        <5>1. rank[k] # rank[i] /\ rank[k] <= rank[i] /\ rank[k] \in Nat /\ rank[i] \in Nat
          BY <1>2, <1>5, <1>6, <3>6
        <5> QED BY <1>5, <5>1 DEF Before
      <4>2. RowSum(bl, Before(i), r) = RowSum(al, Before(i), r) - al[k][r] + bl[k][r]
        <5>1. \A j \in Index \ {k} : bl[j] = al[j]
          BY <2>2
        <5> QED BY ONLY <1>types, <2>4, <3>3, <4>1, <5>1, r \in Res, RowSumChange
      <4>3. bl[k][r] = al[k][r] + req[r]
        BY <2>2 DEF Plus
      <4>4. other[i][r] = rest[i][r] /\ rest[i][r] <= av[r] + RowSum(al, Before(i), r)
        BY <1>7, <2>4, <3>6
      <4>5. i \in Index
        BY <1>1
      <4>6. rest[i][r] \in Int
        BY ONLY <1>types, <4>5, r \in Res, NeedsInt
      <4> QED BY ONLY <3>1, <3>2, <3>4, <4>2, <4>3, <4>4, <4>6
    <3> QED BY <3>5, <3>6
  <2>7. /\ rank \in [rows -> Nat] /\ \A i, j \in rows : rank[i] = rank[j] => i = j
        /\ \A i \in rows : \A r \in Res :
              other[i][r] <= Minus(av, req)[r] + RowSum(bl, {j \in rows : rank[j] < rank[i]}, r)
    BY <1>2, <2>6 DEF Before
  <2>8. HasCompletionOrder(Minus(av, req), bl, other, rows)
    BY ONLY <1>1, <2>7, OrderFrom
  <2> QED BY <2>3, <2>8
<1> QED BY <1>5, <1>9, <1>10 DEF rows

\* What is left of a claim may be asked for at once.
LEMMA RestIsAskable ==
    ASSUME IInv, NEW c \in Client, max_need[Row(pid[c])] # Zero, held[c] # claim[c]
    PROVE  Minus(claim[c], held[c]) \in Askable(c)
<1> DEFINE bound == Minus(claim[c], held[c])
           top == bound["ram"] + bound["hdd"] + bound["cores"]
<1>1. held[c] \in Amounts /\ Fits(held[c], claim[c]) /\ claim[c] \in Amounts
  BY ClientTypes DEF IInv, RowOf
<1>2. bound \in Amounts /\ \A r \in Res : bound[r] = claim[c][r] - held[c][r]
  BY <1>1, VectorTypes, AmountsInts DEF Minus
<1>3. bound # Zero
  <2> SUFFICES ASSUME bound = Zero PROVE claim[c] = held[c]
    OBVIOUS
  <2>1. \A r \in Res : claim[c][r] = held[c][r]
    <3> SUFFICES ASSUME NEW r \in Res PROVE claim[c][r] = held[c][r]
      OBVIOUS
    <3>1. Zero[r] = claim[c][r] - held[c][r] /\ Zero[r] = 0
      BY <1>2 DEF Zero
    <3>2. claim[c][r] \in Int /\ held[c][r] \in Int
      BY <1>1 DEF Amounts
    <3> QED BY ONLY <3>1, <3>2
  <2> QED BY ONLY <1>1, <2>1 DEF Amounts
<1>4. bound \in [Res -> 0 .. top]
  <2> HIDE DEF bound
  <2>1. bound["ram"] \in Nat /\ bound["hdd"] \in Nat /\ bound["cores"] \in Nat
    BY ONLY <1>2 DEF Amounts, Res
  <2>2. \A r \in Res : bound[r] \in 0 .. top
    BY ONLY <2>1 DEF Res
  <2> QED BY ONLY <1>2, <2>2 DEF Amounts
<1>5. Fits(bound, bound)
  <2> HIDE DEF bound
  <2> QED BY ONLY <1>2 DEF Fits, Amounts
<1>6. bound \in UpTo(bound)
  <2> HIDE DEF bound
  <2> QED BY ONLY <1>3, <1>4, <1>5 DEF UpTo
<1> QED BY <1>6 DEF Askable

LEMMA SafeNotWedged ==
    ASSUME SInv, ClaimsFit
    PROVE  NeverWedged
<1> SUFFICES ASSUME NEW b \in Client, held[b] # Zero
             PROVE  \E c \in Client :
                       /\ held[c] # Zero
                       /\ held[c] = claim[c] \/ Grants(pid[c], Minus(claim[c], held[c]))
  BY DEF NeverWedged
<1> DEFINE rest == Remaining(allocation, max_need)
           rows == Holding(allocation)
<1>1. /\ IInv /\ Books /\ available \in Amounts /\ allocation \in [Index -> Amounts]
      /\ max_need \in [Index -> Amounts]
  BY DEF SInv, IInv, TypeOK, BankerTypeOK
<1>2. rest \in Needs
  BY <1>1, VectorTypes, AmountsInts DEF Remaining, Needs, Vectors
<1>3. rows # {}
  BY <1>1, ClientTypes DEF IInv, RowOf, Holding
<1>4. HasCompletionOrder(available, allocation, rest, rows)
  BY DEF SInv, AlwaysSafe
<1>5. PICK k \in rows :
         /\ Fits(rest[k], available)
         /\ \A req \in Amounts : \A bl, other :
               /\ req = rest[k] /\ Plus(allocation[k], req) # Zero
               /\ bl = [allocation EXCEPT ![k] = Plus(allocation[k], req)]
               /\ \A j \in Holding(bl) : other[j] = IF j = k THEN Zero ELSE rest[j]
               => HasCompletionOrder(Minus(available, req), bl, other, Holding(bl))
  <2> HIDE DEF rest
  <2> QED BY ONLY <1>1, <1>2, <1>3, <1>4, ServeFirst
<1>6. PICK c \in Client : /\ Row(pid[c]) = k /\ held[c] = allocation[k] /\ held[c] # Zero
                          /\ max_need[k] = claim[c]
  BY <1>1, HolderIs
<1> DEFINE req == Minus(claim[c], held[c])
<1>7. CASE held[c] = claim[c]
  BY <1>6, <1>7
<1>8. CASE held[c] # claim[c]
  <2>1. max_need[k] # Zero /\ k \in Index /\ held[c] \in Amounts /\ claim[c] \in Amounts
    BY <1>1, <1>6, ClientTypes DEF IInv, RowOf
  <2>2. req \in Askable(c)
    BY <1>1, <1>6, <1>8, <2>1, RestIsAskable
  <2>3. req = rest[k] /\ req \in Amounts /\ Fits(req, available)
    <3>1. req = rest[k]
      BY <1>6, <2>1 DEF Remaining
    <3> QED BY <1>1, <1>5, <2>2, <3>1, RequestTypes
  <2> DEFINE mx == MaxNeedAfter(pid[c], req)
             al == AllocationAfter(pid[c], req)
             other == Remaining(al, mx)
  <2>4. Plus(allocation[k], req) = claim[c]
    <3>1. \A r \in Res : Plus(held[c], req)[r] = claim[c][r]
      <4> SUFFICES ASSUME NEW r \in Res PROVE Plus(held[c], req)[r] = claim[c][r]
        OBVIOUS
      <4>1. Plus(held[c], req)[r] = held[c][r] + (claim[c][r] - held[c][r])
        BY DEF Plus, Minus
      <4>2. held[c][r] \in Int /\ claim[c][r] \in Int
        BY ONLY <2>1, r \in Res DEF Amounts
      <4> QED BY <4>1, <4>2
    <3>2. Plus(held[c], req) = [r \in Res |-> Plus(held[c], req)[r]]
      BY DEF Plus
    <3>3. claim[c] = [r \in Res |-> claim[c][r]]
      BY ONLY <2>1 DEF Amounts
    <3> HIDE DEF req
    <3> QED BY ONLY <1>6, <3>1, <3>2, <3>3
  <2>5. mx = [max_need EXCEPT ![k] = claim[c]] /\ al = [allocation EXCEPT ![k] = claim[c]]
    BY <1>1, <1>6, <2>2, <2>4, MaximumAfter DEF AllocationAfter
  <2>6. ASSUME NEW j \in Holding(al)
        PROVE  other[j] = IF j = k THEN Zero ELSE rest[j]
    <3>1. j \in Index /\ other[j] = Minus(mx[j], al[j]) /\ rest[j] = Minus(max_need[j], allocation[j])
      BY DEF Holding, Remaining
    <3>2. CASE j = k
      <4>1. mx[j] = claim[c] /\ al[j] = claim[c]
        BY <1>1, <2>1, <2>5, <3>2
      <4>2. Minus(claim[c], claim[c]) = Zero
        BY ONLY <2>1 DEF Minus, Zero, Amounts
      <4> QED BY <3>1, <3>2, <4>1, <4>2
    <3>3. CASE j # k
      BY <1>1, <2>1, <2>5, <3>1, <3>3
    <3> QED BY <3>2, <3>3
  <2>7. claim[c] # Zero
    BY ClientTypes
  <2>8. al = [allocation EXCEPT ![k] = Plus(allocation[k], req)]
    BY <2>4, <2>5
  <2>9. HasCompletionOrder(Minus(available, req), al, other, Holding(al))
    <3>1. \A j \in Holding(al) : other[j] = IF j = k THEN Zero ELSE rest[j]
      BY <2>6
    <3> HIDE DEF al, other, req, rest
    <3> QED BY ONLY <1>5, <2>3, <2>4, <2>7, <2>8, <3>1
  <2>10. Grants(pid[c], req)
    <3> HIDE DEF req
    <3> QED BY <2>2, <2>3, <2>9, GrantDecided
  <2> QED BY <1>6, <2>10
<1> QED BY <1>7, <1>8

\* Deadlock avoidance proper: whenever somebody holds something, somebody who
\* does has all of its claim or can be granted the rest of it at once.
THEOREM Unwedged ==
    ASSUME ClaimsFit
    PROVE  Spec => []NeverWedged
<1>1. SInv => NeverWedged
  BY SafeNotWedged
<1> QED BY SafetyInvariant, <1>1, PTL

=============================================================================
