-------------------------- MODULE MinesweeperProofs --------------------------
(***************************************************************************)
(* Proofs about Minesweeper, for every size of the board, every number of  *)
(* mines that leaves a safe cell, every layout of them and every order of  *)
(* commands.                                                               *)
(***************************************************************************)
EXTENDS Minesweeper, FiniteSetTheorems, TLAPS

-----------------------------------------------------------------------------
(* Cells, and how many of them are in each state                             *)

\* A board has SIZE * SIZE cells.
LEMMA CellsFinite == IsFiniteSet(Cells) /\ Cardinality(Cells) = SIZE * SIZE
<1>1. IsFiniteSet(Index) /\ Cardinality(Index) = SIZE
  <2>1. 0 \in Int /\ SIZE - 1 \in Int  BY BoardAssumption
  <2> QED  BY <2>1, FS_Interval, BoardAssumption DEF Index
<1> QED  BY <1>1, FS_Product DEF Cells

\* Sets of cells are finite, and no larger than the board.
LEMMA Finite ==
  ASSUME NEW S \in SUBSET Cells
  PROVE  IsFiniteSet(S) /\ Cardinality(S) \in Nat /\ Cardinality(S) <= SIZE * SIZE
BY CellsFinite, FS_Subset, FS_CardinalityType

Labels == {"HIDDEN", "REVEALED", "FLAGGED"}

\* When one cell gets another label, one set gains it and one loses it.
LEMMA Relabelled ==
  ASSUME state \in [Cells -> Labels],
         NEW label \in Labels, NEW old \in Labels, old # label,
         NEW cell \in InState(old),
         state' = [state EXCEPT ![cell] = label]
  PROVE  /\ state' \in [Cells -> Labels]
         /\ InState(label)' = InState(label) \union {cell}
         /\ Cardinality(InState(label)') = Cardinality(InState(label)) + 1
         /\ \A other \in Labels \ {label, old} : InState(other)' = InState(other)
         /\ InState(old)' = InState(old) \ {cell}
         /\ Cardinality(InState(old)') = Cardinality(InState(old)) - 1
<1>0. cell \in Cells /\ state[cell] = old  BY DEF InState
<1>1. state' \in [Cells -> Labels]  BY <1>0
<1>2. InState(label)' = InState(label) \union {cell} /\ cell \notin InState(label)
  BY <1>0 DEF InState
<1>3. ASSUME NEW other \in Labels, other # label, other # old
      PROVE  InState(other)' = InState(other)
  <2>1. \A c \in Cells : state'[c] = other <=> state[c] = other
    BY <1>0, <1>3
  <2> QED  BY <2>1 DEF InState
<1>4. InState(old)' = InState(old) \ {cell} /\ cell \in InState(old)
  BY <1>0 DEF InState
<1>5. InState(label) \in SUBSET Cells /\ InState(old) \in SUBSET Cells
  BY DEF InState
<1>6. IsFiniteSet(InState(label)) /\ IsFiniteSet(InState(old))
  BY <1>5, Finite
<1>7. Cardinality(InState(label)') = Cardinality(InState(label)) + 1
  BY <1>2, <1>6, FS_AddElement
<1>8. Cardinality(InState(old)') = Cardinality(InState(old)) - 1
  BY <1>4, <1>6, FS_RemoveElement
<1> QED  BY <1>1, <1>2, <1>3, <1>4, <1>7, <1>8

-----------------------------------------------------------------------------
(* The calls of reveal_cell                                                  *)

Elements(s) == {s[n] : n \in DOMAIN s}

\* What a position of a sequence holds is one of its elements.
LEMMA ElementIs ==
  ASSUME NEW s, NEW n \in DOMAIN s
  PROVE  s[n] \in Elements(s)
BY DEF Elements

\* A function on 1 .. n is a sequence.
LEMMA FunctionIsSequence ==
  ASSUME NEW S, NEW n \in Nat, NEW f \in [1 .. n -> S]
  PROVE  f \in Seq(S) /\ DOMAIN f = 1 .. n
OBVIOUS

\* The eight neighbours are a sequence, and those on the board are adjacent.
LEMMA NeighboursAre ==
  ASSUME NEW cell \in Cells
  PROVE  /\ Neighbours(cell) \in Seq(Int \X Int)
         /\ Adjacent(cell) = Elements(Neighbours(cell)) \intersect Cells
<1>1. ASSUME NEW n \in 1 .. 8  PROVE Offsets[n] \in Int \X Int
  BY DEF Offsets
<1>2. cell \in Int \X Int  BY BoardAssumption DEF Cells, Index
<1>3. ASSUME NEW n \in 1 .. 8
      PROVE  <<cell[1] + Offsets[n][1], cell[2] + Offsets[n][2]>> \in Int \X Int
  BY <1>1, <1>2
<1>4. Neighbours(cell) \in [1 .. 8 -> Int \X Int]
  BY <1>3 DEF Neighbours
<1>5. Neighbours(cell) \in Seq(Int \X Int) /\ DOMAIN Neighbours(cell) = 1 .. 8
  <2>1. 8 \in Nat  OBVIOUS
  <2> QED  BY ONLY <1>4, <2>1, FunctionIsSequence
<1> QED  BY <1>5 DEF Adjacent, Elements

\* A cell is followed if it is no mine and has none beside it.
LEMMA FollowIs ==
  ASSUME NEW cell \in Cells
  PROVE  /\ Follow(cell) \in Seq(Int \X Int)
         /\ ~Zero(cell) => Elements(Follow(cell)) = {}
         /\ Zero(cell) => Elements(Follow(cell)) \intersect Cells = Adjacent(cell)
         /\ cell \in mines => Follow(cell) = <<>>
<1>1. Adjacent(cell) \intersect mines \in SUBSET Cells  BY DEF Adjacent
<1>2. count_adjacent_mines(cell) \in Nat
      /\ (count_adjacent_mines(cell) = 0 <=> Adjacent(cell) \intersect mines = {})
  BY <1>1, Finite, FS_EmptySet DEF count_adjacent_mines
<1>3. Zero(cell) <=> ~(cell \in mines \/ count_adjacent_mines(cell) > 0)
  BY <1>2 DEF Zero
<1>4. Elements(<<>>) = {} /\ <<>> \in Seq(Int \X Int)  BY DEF Elements
<1> QED  BY <1>3, <1>4, NeighboursAre DEF Follow

\* The calls after the first one, behind the calls it makes.
LEMMA CallsAfter ==
  ASSUME NEW s \in Seq(Int \X Int), s # <<>>, NEW t \in Seq(Int \X Int)
  PROVE  /\ Head(s) \in Elements(s) /\ Tail(s) \in Seq(Int \X Int)
         /\ t \o Tail(s) \in Seq(Int \X Int)
         /\ Elements(s) = {Head(s)} \union Elements(Tail(s))
         /\ Elements(t \o Tail(s)) = Elements(t) \union Elements(Tail(s))
<1>1. Tail(s) \in Seq(Int \X Int) /\ t \o Tail(s) \in Seq(Int \X Int)  OBVIOUS
<1>2. Len(s) \in Nat /\ Len(s) >= 1 /\ Head(s) = s[1] /\ Len(Tail(s)) = Len(s) - 1
      /\ \A n \in 1 .. Len(Tail(s)) : Tail(s)[n] = s[n + 1]
  OBVIOUS
<1>3. DOMAIN s = 1 .. Len(s) /\ DOMAIN Tail(s) = 1 .. Len(Tail(s))  BY <1>1
<1>4. Elements(s) \subseteq {Head(s)} \union Elements(Tail(s))
  <2> SUFFICES ASSUME NEW n \in 1 .. Len(s)
               PROVE  s[n] \in {Head(s)} \union Elements(Tail(s))
    BY <1>3 DEF Elements
  <2>1. CASE n = 1  BY <2>1, <1>2
  <2>2. CASE n # 1
    <3>1. n - 1 \in 1 .. Len(Tail(s)) /\ Tail(s)[n - 1] = s[n]  BY <2>2, <1>2
    <3> QED  BY <3>1, <1>3 DEF Elements
  <2> QED  BY <2>1, <2>2
<1>5. {Head(s)} \union Elements(Tail(s)) \subseteq Elements(s)
  <2>1. Head(s) \in Elements(s)
    <3>1. 1 \in DOMAIN s  BY <1>2, <1>3
    <3> QED  BY <3>1, <1>2, ElementIs
  <2>2. ASSUME NEW n \in 1 .. Len(Tail(s))  PROVE Tail(s)[n] \in Elements(s)
    <3>1. n + 1 \in DOMAIN s /\ Tail(s)[n] = s[n + 1]  BY <1>2, <1>3
    <3> QED  BY <3>1, ElementIs
  <2> QED  BY <2>1, <2>2, <1>3 DEF Elements
<1>6. Elements(t \o Tail(s)) = Elements(t) \union Elements(Tail(s))
  <2> DEFINE u == Tail(s)
  <2> HIDE DEF u
  <2>0. u \in Seq(Int \X Int)  BY <1>1 DEF u
  <2>1. /\ Len(t \o u) = Len(t) + Len(u) /\ Len(t) \in Nat /\ Len(u) \in Nat
        /\ DOMAIN (t \o u) = 1 .. Len(t) + Len(u)
        /\ DOMAIN t = 1 .. Len(t) /\ DOMAIN u = 1 .. Len(u)
        /\ \A n \in 1 .. Len(t) + Len(u) :
              (t \o u)[n] = IF n <= Len(t) THEN t[n] ELSE u[n - Len(t)]
    BY <2>0
  <2>2. ASSUME NEW n \in 1 .. Len(t) + Len(u)
        PROVE  (t \o u)[n] \in Elements(t) \union Elements(u)
    <3>1. CASE n <= Len(t)
      <4>1. n \in DOMAIN t /\ (t \o u)[n] = t[n]  BY <3>1, <2>1
      <4> QED  BY <4>1, ElementIs
    <3>2. CASE ~(n <= Len(t))
      <4>1. n - Len(t) \in DOMAIN u /\ (t \o u)[n] = u[n - Len(t)]  BY <3>2, <2>1
      <4> QED  BY <4>1, ElementIs
    <3> QED  BY <3>1, <3>2
  <2>3. ASSUME NEW n \in 1 .. Len(t)  PROVE t[n] \in Elements(t \o u)
    <3>1. n \in DOMAIN (t \o u) /\ (t \o u)[n] = t[n]  BY <2>1
    <3> QED  BY <3>1, ElementIs
  <2>4. ASSUME NEW n \in 1 .. Len(u)  PROVE u[n] \in Elements(t \o u)
    <3>1. n + Len(t) \in 1 .. Len(t) + Len(u) /\ (n + Len(t)) - Len(t) = n /\ ~(n + Len(t) <= Len(t))
      BY <2>1
    <3>2. (t \o u)[n + Len(t)] = u[n]  BY <3>1, <2>1
    <3>3. n + Len(t) \in DOMAIN (t \o u)  BY <3>1, <2>1
    <3> QED  BY <3>2, <3>3, ElementIs
  <2>5. Elements(t \o u) \subseteq Elements(t) \union Elements(u)
    BY <2>1, <2>2 DEF Elements
  <2>6. Elements(t) \union Elements(u) \subseteq Elements(t \o u)
    BY <2>1, <2>3, <2>4 DEF Elements
  <2> QED  BY <2>5, <2>6 DEF u
<1> QED  BY <1>1, <1>4, <1>5, <1>6

-----------------------------------------------------------------------------
(* The invariant                                                             *)

\* What the running reveal has opened, and what it has still to call.
Opened == hidden_before \ InState("HIDDEN")
Pending == Elements(calls)

\* A set of cells that holds the cell asked for and all that it spreads to.
Spreads(S) ==
    /\ asked \in S
    /\ \A z \in S : Zero(z) => Adjacent(z) \intersect hidden_before \subseteq S

\* The fill: what is opened or will be is in every set that spreads, and what
\* is opened has all that it spreads to opened or pending.
Fill ==
    /\ InState("HIDDEN") \subseteq hidden_before
    /\ asked \in hidden_before /\ asked \in Opened \union Pending
    /\ \A S \in SUBSET Cells :
          Spreads(S) => Opened \union (Pending \intersect hidden_before) \subseteq S
    /\ \A z \in Opened :
          Zero(z) => Adjacent(z) \intersect hidden_before \subseteq Opened \union Pending

\* The verdict while the fill runs: no mine is open but the one asked for, and
\* none is pending but as the first call.
Verdict ==
    /\ ~won
    /\ InState("REVEALED") \intersect mines \subseteq {asked}
    /\ game_over <=> asked \in InState("REVEALED") \intersect mines
    /\ \/ calls = <<asked>> /\ asked \in InState("HIDDEN")
       \/ asked \in InState("REVEALED") /\ Pending \intersect mines = {}

IInv ==
    /\ CountersExact
    /\ VerdictCorrect
    /\ main = "reveal" => Verdict /\ Fill

\* A fresh board is counted, and neither won nor lost.
LEMMA InitInvariant == Init => IInv
<1> SUFFICES ASSUME Init PROVE IInv
  OBVIOUS
<1>1. <<0, 0>> \in Cells  BY BoardAssumption DEF Cells, Index
<1>2. TypeOK
  <2>1. /\ <<>> \in Seq(Int \X Int)
        /\ [cell \in Cells |-> "HIDDEN"] \in [Cells -> {"HIDDEN", "REVEALED", "FLAGGED"}]
    OBVIOUS
  <2> QED  BY <1>1, <2>1 DEF Init, TypeOK
<1>3. InState("REVEALED") = {} /\ InState("FLAGGED") = {}  BY DEF Init, InState
<1>4. CountersExact
  BY <1>2, <1>3, FS_EmptySet DEF CountersExact, Init
<1>5. Cells \ mines # {}
  <2>1. mines \in SUBSET Cells /\ Cardinality(mines) = MINES
    BY BoardAssumption DEF Init
  <2>2. SUFFICES ASSUME Cells \ mines = {} PROVE FALSE
    OBVIOUS
  <2>3. mines = Cells  BY <2>1, <2>2
  <2> QED  BY <2>1, <2>3, CellsFinite, BoardAssumption
<1> QED  BY <1>3, <1>4, <1>5 DEF IInv, VerdictCorrect, Init

-----------------------------------------------------------------------------
(* The counters                                                              *)

\* The step that opens a cell, in terms of the sets the invariant speaks of.
LEMMA CallOpens ==
  ASSUME TypeOK, CallReveals
  PROVE  LET cell == Head(calls)
         IN  /\ cell \in InState("HIDDEN") /\ cell \in Cells /\ cell \in Pending
             /\ state' \in [Cells -> Labels]
             /\ InState("HIDDEN")' = InState("HIDDEN") \ {cell}
             /\ InState("REVEALED")' = InState("REVEALED") \union {cell}
             /\ InState("FLAGGED")' = InState("FLAGGED")
             /\ Cardinality(InState("REVEALED")') = Cardinality(InState("REVEALED")) + 1
             /\ calls' \in Seq(Int \X Int)
             /\ Pending = {cell} \union Elements(Tail(calls))
             /\ Pending' = Elements(Follow(cell)) \union Elements(Tail(calls))
<1> DEFINE cell == Head(calls)
<1>1. /\ calls \in Seq(Int \X Int) /\ calls # <<>>
      /\ cell \in Cells /\ state[cell] = "HIDDEN"
      /\ state' = [state EXCEPT ![cell] = "REVEALED"]
      /\ state \in [Cells -> Labels]
      /\ calls' = Follow(cell) \o Tail(calls)
  BY DEF CallReveals, TypeOK, Labels
<1>2. Follow(cell) \in Seq(Int \X Int)  BY <1>1, FollowIs
<1>3. /\ cell \in Elements(calls) /\ calls' \in Seq(Int \X Int)
      /\ Elements(calls) = {cell} \union Elements(Tail(calls))
      /\ Elements(calls') = Elements(Follow(cell)) \union Elements(Tail(calls))
  BY <1>1, <1>2, CallsAfter
<1>4. "HIDDEN" \in Labels /\ "REVEALED" \in Labels /\ "HIDDEN" # "REVEALED"
      /\ "FLAGGED" \in Labels \ {"REVEALED", "HIDDEN"}
  BY DEF Labels
<1> HIDE DEF cell
<1>7. cell \in InState("HIDDEN")  BY <1>1 DEF InState
<1>5. /\ state' \in [Cells -> Labels]
      /\ InState("REVEALED")' = InState("REVEALED") \union {cell}
      /\ Cardinality(InState("REVEALED")') = Cardinality(InState("REVEALED")) + 1
      /\ \A other \in Labels \ {"REVEALED", "HIDDEN"} : InState(other)' = InState(other)
      /\ InState("HIDDEN")' = InState("HIDDEN") \ {cell}
  BY <1>1, <1>4, <1>7, Relabelled
<1>6. InState("FLAGGED")' = InState("FLAGGED")
  BY ONLY <1>4, <1>5
<1> QED  BY <1>1, <1>3, <1>5, <1>6, <1>7 DEF Pending, cell

\* A call that returns drops the cell it was for, which is not hidden.
LEMMA CallDrops ==
  ASSUME TypeOK, CallReturns
  PROVE  LET cell == Head(calls)
         IN  /\ cell \in Pending /\ cell \notin InState("HIDDEN")
             /\ calls' \in Seq(Int \X Int)
             /\ Pending = {cell} \union Pending'
             /\ calls = <<asked>> => cell = asked
<1> DEFINE cell == Head(calls)
<1>1. calls \in Seq(Int \X Int) /\ calls # <<>> /\ calls' = Tail(calls)
  BY DEF CallReturns, TypeOK
<1>2. /\ cell \in Elements(calls) /\ calls' \in Seq(Int \X Int)
      /\ Elements(calls) = {cell} \union Elements(calls')
  BY <1>1, CallsAfter
<1>3. cell \notin InState("HIDDEN")  BY DEF CallReturns, InState
<1> QED  BY <1>2, <1>3 DEF Pending

\* flags_placed and cells_revealed follow the board in every step.
LEMMA CountersKept == ASSUME CountersExact, [Next]_vars PROVE CountersExact'
<1>0. TypeOK  BY DEF CountersExact
<1>1. ASSUME NEW cell \in Cells, RevealCommand(cell)  PROVE CountersExact'
  <2>1. InState("REVEALED")' = InState("REVEALED") /\ InState("FLAGGED")' = InState("FLAGGED")
    BY <1>1 DEF RevealCommand, InState
  <2>2. calls' \in Seq(Int \X Int)
    <3>1. cell \in Int \X Int  BY BoardAssumption DEF Cells, Index
    <3> QED  BY <3>1, <1>1 DEF RevealCommand
  <2>3. hidden_before' \in SUBSET Cells  BY <1>1 DEF RevealCommand, InState
  <2>4. TypeOK'  BY <1>0, <1>1, <2>2, <2>3 DEF TypeOK, RevealCommand, counters
  <2> QED  BY <1>1, <2>1, <2>4 DEF CountersExact, RevealCommand, counters
<1>2. ASSUME NEW cell \in Cells, ToggleFlag(cell)  PROVE CountersExact'
  <2>0. state \in [Cells -> Labels]  BY <1>0 DEF TypeOK, Labels
  <2>1. CASE /\ state[cell] = "HIDDEN"
             /\ state' = [state EXCEPT ![cell] = "FLAGGED"]
             /\ flags_placed' = flags_placed + 1
    <3>0. cell \in InState("HIDDEN")  BY <2>1 DEF InState
    <3>1. "HIDDEN" \in Labels /\ "FLAGGED" \in Labels /\ "HIDDEN" # "FLAGGED"
          /\ "REVEALED" \in Labels \ {"FLAGGED", "HIDDEN"}
      BY DEF Labels
    <3>2. /\ state' \in [Cells -> Labels]
          /\ Cardinality(InState("FLAGGED")') = Cardinality(InState("FLAGGED")) + 1
          /\ \A other \in Labels \ {"FLAGGED", "HIDDEN"} : InState(other)' = InState(other)
      BY <2>0, <2>1, <3>0, <3>1, Relabelled
    <3>3. InState("REVEALED")' = InState("REVEALED")  BY <3>1, <3>2
    <3>4. TypeOK'
      BY <1>0, <1>2, <2>1, <3>2 DEF TypeOK, ToggleFlag, history, Labels
    <3> QED  BY <1>2, <2>1, <3>2, <3>3, <3>4 DEF CountersExact, ToggleFlag
  <2>2. CASE /\ state[cell] = "FLAGGED"
             /\ state' = [state EXCEPT ![cell] = "HIDDEN"]
             /\ flags_placed' = flags_placed - 1
    <3>0. cell \in InState("FLAGGED")  BY <2>2 DEF InState
    <3>1. "HIDDEN" \in Labels /\ "FLAGGED" \in Labels /\ "FLAGGED" # "HIDDEN"
          /\ "REVEALED" \in Labels \ {"HIDDEN", "FLAGGED"}
      BY DEF Labels
    <3>2. /\ state' \in [Cells -> Labels]
          /\ Cardinality(InState("FLAGGED")') = Cardinality(InState("FLAGGED")) - 1
          /\ \A other \in Labels \ {"HIDDEN", "FLAGGED"} : InState(other)' = InState(other)
      BY <2>0, <2>2, <3>0, <3>1, Relabelled
    <3>3. InState("REVEALED")' = InState("REVEALED")  BY <3>1, <3>2
    <3>4. flags_placed' \in Nat
      <4>1. InState("FLAGGED")' \in SUBSET Cells  BY DEF InState
      <4>2. Cardinality(InState("FLAGGED")') \in Nat  BY <4>1, Finite
      <4> QED  BY <2>2, <3>2, <4>2 DEF CountersExact
    <3>5. TypeOK'
      BY <1>0, <1>2, <2>2, <3>2, <3>4 DEF TypeOK, ToggleFlag, history, Labels
    <3> QED  BY <1>2, <2>2, <3>2, <3>3, <3>5 DEF CountersExact, ToggleFlag
  <2> QED  BY <1>2, <2>1, <2>2 DEF ToggleFlag
<1>3. CASE CallReturns
  <2>1. InState("REVEALED")' = InState("REVEALED") /\ InState("FLAGGED")' = InState("FLAGGED")
    BY <1>3 DEF CallReturns, InState
  <2>2. TypeOK'
    BY <1>0, <1>3, CallDrops DEF TypeOK, CallReturns, counters, history
  <2> QED  BY <1>3, <2>1, <2>2 DEF CountersExact, CallReturns, counters
<1>4. CASE CallReveals
  <2>1. TypeOK'
    <3>1. /\ state' \in [Cells -> Labels] /\ calls' \in Seq(Int \X Int)
      BY <1>0, <1>4, CallOpens
    <3>2. cells_revealed' \in Nat /\ UNCHANGED <<mines, flags_placed, main, asked, hidden_before>>
      BY <1>0, <1>4 DEF CallReveals, TypeOK, history
    <3>3. game_over' \in BOOLEAN /\ won' \in BOOLEAN
      <4>1. game_over \in BOOLEAN /\ won \in BOOLEAN  BY <1>0 DEF TypeOK
      <4>2. game_over' = (game_over \/ Head(calls) \in mines)
            /\ won' = IF Head(calls) \in mines THEN FALSE ELSE won
        BY <1>4 DEF CallReveals
      <4> QED  BY ONLY <4>1, <4>2
    <3> QED  BY <1>0, <3>1, <3>2, <3>3 DEF TypeOK, Labels
  <2> QED  BY <1>0, <1>4, <2>1, CallOpens DEF CountersExact, CallReveals
<1>5. CASE Revealed \/ Close \/ UNCHANGED vars
  <2>1. UNCHANGED <<mines, state, counters, calls, history>>
    BY <1>5 DEF Revealed, Close, vars
  <2>2. InState("REVEALED")' = InState("REVEALED") /\ InState("FLAGGED")' = InState("FLAGGED")
    BY <2>1 DEF InState
  <2>3. /\ game_over' \in BOOLEAN /\ won' \in BOOLEAN
        /\ main' \in {"command", "reveal", "closed"}
    BY <1>5, <1>0 DEF Revealed, Close, vars, TypeOK, Won
  <2>4. TypeOK'  BY <1>0, <2>1, <2>3 DEF TypeOK, counters, history
  <2> QED  BY <2>1, <2>2, <2>4 DEF CountersExact, counters
<1> QED  BY <1>1, <1>2, <1>3, <1>4, <1>5 DEF Next, RevealStep, Closed

-----------------------------------------------------------------------------
(* The fill                                                                  *)

\* What spreads is fixed while the fill runs.
LEMMA BoardFrozen ==
  ASSUME UNCHANGED <<mines, history>>
  PROVE  /\ \A z : Zero(z)' <=> Zero(z)
         /\ \A S : Spreads(S)' <=> Spreads(S)
<1>1. mines' = mines /\ asked' = asked /\ hidden_before' = hidden_before
  BY DEF history
<1>2. \A z : Zero(z)' <=> Zero(z)  BY <1>1 DEF Zero
<1> QED  BY <1>1, <1>2 DEF Spreads

\* A reveal begins with one pending call.
LEMMA FillBegins ==
  ASSUME TypeOK, NEW cell \in Cells, RevealCommand(cell)
  PROVE  Fill'
<1>1. /\ calls' = <<cell>> /\ asked' = cell /\ hidden_before' = InState("HIDDEN")
      /\ state' = state /\ cell \in InState("HIDDEN")
  BY DEF RevealCommand, InState
<1>2. InState("HIDDEN")' = InState("HIDDEN")  BY <1>1 DEF InState
<1>3. Opened' = {}  BY <1>1, <1>2 DEF Opened
<1>4. Pending' = {cell}
  <2>1. DOMAIN <<cell>> = {1} /\ <<cell>>[1] = cell  OBVIOUS
  <2> QED  BY <1>1, <2>1 DEF Pending, Elements
<1>5. \A S : Spreads(S)' => cell \in S  BY <1>1 DEF Spreads
<1> QED  BY <1>1, <1>2, <1>3, <1>4, <1>5 DEF Fill

\* A call that returns at once was for a cell that need not be opened.
LEMMA FillDrops ==
  ASSUME TypeOK, Fill, CallReturns
  PROVE  Fill'
<1> DEFINE cell == Head(calls)
<1>1. UNCHANGED <<mines, history>> /\ state' = state  BY DEF CallReturns
<1>2. InState("HIDDEN")' = InState("HIDDEN") /\ hidden_before' = hidden_before /\ asked' = asked
  BY <1>1 DEF InState, history
<1>3. Opened' = Opened  BY <1>2 DEF Opened
<1>4. Pending = {cell} \union Pending' /\ cell \notin InState("HIDDEN")  BY CallDrops
<1>5. cell \in hidden_before => cell \in Opened  BY <1>4 DEF Opened
<1> HIDE DEF cell
<1>6. asked \in Opened \union Pending'
  <2>1. CASE asked = cell
    <3>1. asked \in hidden_before  BY DEF Fill
    <3> QED  BY <2>1, <3>1, <1>5
  <2>2. CASE asked # cell  BY <2>2, <1>4 DEF Fill
  <2> QED  BY <2>1, <2>2
<1>7. ASSUME NEW S \in SUBSET Cells, Spreads(S)'
      PROVE  Opened \union (Pending' \intersect hidden_before) \subseteq S
  <2>1. Spreads(S)  BY <1>7, <1>1, BoardFrozen
  <2> QED  BY <2>1, <1>4 DEF Fill
<1>8. ASSUME NEW z \in Opened, Zero(z)'
      PROVE  Adjacent(z) \intersect hidden_before \subseteq Opened \union Pending'
  <2>1. Zero(z)  BY <1>8, <1>1, BoardFrozen
  <2>2. Adjacent(z) \intersect hidden_before \subseteq Opened \union Pending
    BY <2>1 DEF Fill
  <2> QED  BY <2>2, <1>4, <1>5
<1>9. InState("HIDDEN") \subseteq hidden_before /\ asked \in hidden_before  BY DEF Fill
<1> QED  BY <1>2, <1>3, <1>6, <1>7, <1>8, <1>9 DEF Fill

\* A call that opens a cell leaves what the cell spreads to pending.
LEMMA FillOpens ==
  ASSUME TypeOK, Fill, CallReveals
  PROVE  Fill'
<1> DEFINE cell == Head(calls)
           rest == Elements(Tail(calls))
<1>1. UNCHANGED <<mines, history>>  BY DEF CallReveals
<1>2. hidden_before' = hidden_before /\ asked' = asked  BY <1>1 DEF history
<1>3. /\ cell \in InState("HIDDEN") /\ cell \in Cells
      /\ InState("HIDDEN")' = InState("HIDDEN") \ {cell}
      /\ Pending = {cell} \union rest
      /\ Pending' = Elements(Follow(cell)) \union rest
  BY CallOpens
<1> HIDE DEF cell, rest
<1>4. InState("HIDDEN") \subseteq hidden_before /\ hidden_before \subseteq Cells
  BY DEF Fill, TypeOK
<1>5. Opened' = Opened \union {cell}  BY <1>2, <1>3, <1>4 DEF Opened
<1>6. /\ ~Zero(cell) => Elements(Follow(cell)) = {}
      /\ Zero(cell) => Elements(Follow(cell)) \intersect Cells = Adjacent(cell)
  BY <1>3, FollowIs
<1>7. ASSUME NEW S \in SUBSET Cells, Spreads(S)'
      PROVE  Opened' \union (Pending' \intersect hidden_before) \subseteq S
  <2>1. Spreads(S)  BY <1>7, <1>1, BoardFrozen
  <2>2. Opened \subseteq S /\ cell \in S /\ rest \intersect hidden_before \subseteq S
    BY <2>1, <1>3, <1>4 DEF Fill
  <2>3. Elements(Follow(cell)) \intersect hidden_before \subseteq S
    <3>1. CASE Zero(cell)
      <4>1. Adjacent(cell) \intersect hidden_before \subseteq S
        BY <2>1, <2>2, <3>1 DEF Spreads
      <4> QED  BY <4>1, <3>1, <1>4, <1>6
    <3>2. CASE ~Zero(cell)  BY <3>2, <1>6
    <3> QED  BY <3>1, <3>2
  <2> QED  BY <2>2, <2>3, <1>3, <1>5
<1>8. ASSUME NEW z \in Opened', Zero(z)'
      PROVE  Adjacent(z) \intersect hidden_before \subseteq Opened' \union Pending'
  <2>1. Zero(z)  BY <1>8, <1>1, BoardFrozen
  <2>2. CASE z = cell
    <3>1. Adjacent(z) \subseteq Pending'  BY <2>1, <2>2, <1>3, <1>6
    <3> QED  BY <3>1
  <2>3. CASE z \in Opened
    <3>1. Adjacent(z) \intersect hidden_before \subseteq Opened \union Pending
      BY <2>1, <2>3 DEF Fill
    <3> QED  BY <3>1, <1>3, <1>5
  <2> QED  BY <2>2, <2>3, <1>5
<1>9. asked \in hidden_before /\ asked \in Opened' \union Pending'
  BY <1>3, <1>5 DEF Fill
<1>10. InState("HIDDEN")' \subseteq hidden_before  BY <1>3, <1>4
<1> QED  BY <1>2, <1>7, <1>8, <1>9, <1>10 DEF Fill

-----------------------------------------------------------------------------
(* The verdict                                                               *)

\* A reveal begins on a board without an open mine.
LEMMA VerdictBegins ==
  ASSUME TypeOK, VerdictCorrect, NEW cell \in Cells, RevealCommand(cell)
  PROVE  Verdict'
<1>1. /\ main = "command" /\ ~game_over /\ calls' = <<cell>> /\ asked' = cell
      /\ UNCHANGED <<mines, state, game_over, won>> /\ state[cell] = "HIDDEN"
  BY DEF RevealCommand
<1>2. ~won /\ InState("REVEALED") \intersect mines = {}
  BY <1>1 DEF VerdictCorrect
<1>3. /\ InState("REVEALED")' = InState("REVEALED")
      /\ InState("HIDDEN")' = InState("HIDDEN") /\ cell \in InState("HIDDEN")
  BY <1>1 DEF InState
<1> QED  BY <1>1, <1>2, <1>3 DEF Verdict

\* A call that returns at once leaves the verdict open.
LEMMA VerdictDrops ==
  ASSUME TypeOK, Verdict, CallReturns
  PROVE  Verdict'
<1>1. UNCHANGED <<mines, state, game_over, won, asked>>  BY DEF CallReturns, history
<1>2. InState("REVEALED")' = InState("REVEALED")  BY <1>1 DEF InState
<1>3. /\ Head(calls) \notin InState("HIDDEN")
      /\ Pending = {Head(calls)} \union Pending'
      /\ calls = <<asked>> => Head(calls) = asked
  BY CallDrops
<1>4. asked \in InState("REVEALED") /\ Pending' \intersect mines = {}
  BY <1>3 DEF Verdict
<1> QED  BY <1>1, <1>2, <1>4 DEF Verdict

\* A call opens a mine only if it is the first, and follows no mine.
LEMMA VerdictOpens ==
  ASSUME TypeOK, Verdict, CallReveals
  PROVE  Verdict'
<1> DEFINE cell == Head(calls)
           rest == Elements(Tail(calls))
<1>1. UNCHANGED <<mines, asked>>  BY DEF CallReveals, history
<1>2. /\ cell \in InState("HIDDEN") /\ cell \in Cells /\ cell \in Pending
      /\ InState("REVEALED")' = InState("REVEALED") \union {cell}
      /\ Pending = {cell} \union rest
      /\ Pending' = Elements(Follow(cell)) \union rest
  BY CallOpens
<1>3. /\ game_over' = (game_over \/ cell \in mines)
      /\ won' = IF cell \in mines THEN FALSE ELSE won
  BY DEF CallReveals
<1>4. Elements(Follow(cell)) \intersect mines = {}
  <2>1. mines \subseteq Cells  BY BoardAssumption DEF TypeOK
  <2> QED  BY <2>1, <1>2, FollowIs DEF Zero
<1>5. calls = <<asked>> => cell = asked /\ rest = {}
  <2> SUFFICES ASSUME calls = <<asked>> PROVE cell = asked /\ rest = {}
    OBVIOUS
  <2>1. Tail(calls) = <<>> /\ Head(calls) = asked  OBVIOUS
  <2>2. DOMAIN Tail(calls) = {}  BY <2>1
  <2> QED  BY <2>1, <2>2 DEF Elements
<1>6. asked \in InState("REVEALED")' /\ rest \intersect mines = {}
  BY <1>2, <1>5 DEF Verdict
<1>7. cell \in mines => cell = asked
  BY <1>2, <1>5 DEF Verdict
<1> HIDE DEF cell, rest
<1>8. ~won' /\ InState("REVEALED")' \intersect mines \subseteq {asked}
  BY <1>2, <1>3, <1>7 DEF Verdict
<1>9. game_over' <=> asked \in InState("REVEALED")' \intersect mines
  BY <1>2, <1>3, <1>6, <1>7 DEF Verdict
<1> QED  BY <1>1, <1>2, <1>4, <1>6, <1>8, <1>9 DEF Verdict

\* The verdict of main is right: when no mine is open, the cells that are open
\* are safe ones, and as many as there are only if they are all of them.
LEMMA VerdictGiven ==
  ASSUME CountersExact, Verdict, Revealed
  PROVE  VerdictCorrect'
<1> DEFINE open == InState("REVEALED")
<1>1. /\ mines' = mines /\ state' = state /\ calls = <<>>
      /\ mines \in SUBSET Cells /\ Cardinality(mines) = MINES
  BY BoardAssumption DEF Revealed, CountersExact, TypeOK
<1>2. InState("REVEALED")' = open  BY <1>1 DEF InState
<1>3. asked \in open
  BY <1>1 DEF Verdict
<1>4. CASE asked \in mines
  BY <1>1, <1>2, <1>3, <1>4 DEF Revealed, VerdictCorrect
<1>5. CASE asked \notin mines
  <2>1. ~game_over /\ ~won /\ open \intersect mines = {}
    BY <1>5 DEF Verdict
  <2>2. Cardinality(Cells \ mines) = SIZE * SIZE - MINES /\ IsFiniteSet(Cells \ mines)
    <3>1. Cells \intersect mines = mines  BY <1>1
    <3>2. IsFiniteSet(Cells \ mines)
          /\ Cardinality(Cells \ mines) = Cardinality(Cells) - Cardinality(Cells \intersect mines)
      BY CellsFinite, FS_Difference
    <3> QED  BY <3>1, <3>2, <1>1, CellsFinite
  <2>3. open \in SUBSET (Cells \ mines)  BY <2>1 DEF InState
  <2>4. Won <=> open = Cells \ mines
    BY <2>2, <2>3, FS_Subset DEF Won, total_safe_cells, CountersExact
  <2>5. (game_over' <=> Won) /\ (won' <=> Won)
    BY <1>5, <2>1 DEF Revealed
  <2> QED  BY <1>1, <1>2, <2>1, <2>4, <2>5 DEF VerdictCorrect
<1> QED  BY <1>4, <1>5

-----------------------------------------------------------------------------
(* The invariant is kept                                                     *)

\* Every step keeps the invariant.
LEMMA InvariantKept == ASSUME IInv, [Next]_vars PROVE IInv'
<1>0. TypeOK /\ CountersExact' /\ VerdictCorrect
  BY CountersKept DEF IInv, CountersExact
<1>1. ASSUME NEW cell \in Cells, RevealCommand(cell)  PROVE IInv'
  <2>1. Fill' /\ Verdict' /\ main' = "reveal"
    BY <1>0, <1>1, FillBegins, VerdictBegins DEF RevealCommand
  <2> QED  BY <1>0, <2>1 DEF IInv, VerdictCorrect
<1>2. ASSUME NEW cell \in Cells, ToggleFlag(cell)  PROVE IInv'
  <2>1. InState("REVEALED")' = InState("REVEALED")
    <3>1. \A c \in Cells : state'[c] = "REVEALED" <=> state[c] = "REVEALED"
      BY <1>0, <1>2 DEF ToggleFlag, TypeOK
    <3> QED  BY <3>1 DEF InState
  <2> QED  BY <1>0, <1>2, <2>1 DEF IInv, VerdictCorrect, ToggleFlag
<1>3. CASE CallReturns
  <2>1. main = "reveal" /\ main' = "reveal"  BY <1>3 DEF CallReturns
  <2> QED  BY <1>0, <1>3, <2>1, FillDrops, VerdictDrops DEF IInv, VerdictCorrect
<1>4. CASE CallReveals
  <2>1. main = "reveal" /\ main' = "reveal"  BY <1>4 DEF CallReveals
  <2> QED  BY <1>0, <1>4, <2>1, FillOpens, VerdictOpens DEF IInv, VerdictCorrect
<1>5. CASE Revealed
  <2>1. main = "reveal" /\ main' = "command"  BY <1>5 DEF Revealed
  <2>2. VerdictCorrect'  BY <2>1, <1>5, VerdictGiven DEF IInv
  <2> QED  BY <1>0, <2>1, <2>2 DEF IInv
<1>6. CASE Close
  <2>1. InState("REVEALED")' = InState("REVEALED")  BY <1>6 DEF Close, InState
  <2> QED  BY <1>0, <1>6, <2>1 DEF IInv, VerdictCorrect, Close
<1>7. CASE UNCHANGED vars
  <2>1. UNCHANGED <<mines, state, game_over, won, calls, main, asked, hidden_before>>
    BY <1>7 DEF vars, history
  <2>2. UNCHANGED <<InState("REVEALED"), InState("HIDDEN")>>  BY <2>1 DEF InState
  <2>3. VerdictCorrect'  BY <1>0, <2>1, <2>2 DEF VerdictCorrect
  <2>4. UNCHANGED <<Opened, Pending>>  BY <2>1, <2>2 DEF Opened, Pending
  <2>5. /\ \A z : Zero(z)' <=> Zero(z)
        /\ \A S : Spreads(S)' <=> Spreads(S)
    BY <2>1, BoardFrozen DEF history
  <2>6. Fill => Fill'  BY <2>1, <2>2, <2>4, <2>5 DEF Fill
  <2>7. Verdict => Verdict'  BY <2>1, <2>2, <2>4 DEF Verdict
  <2> QED  BY <1>0, <2>1, <2>3, <2>6, <2>7 DEF IInv
<1> QED  BY <1>1, <1>2, <1>3, <1>4, <1>5, <1>6, <1>7 DEF Next, RevealStep, Closed

\* The counters, the verdict and the progress of a fill, at every step.
THEOREM Invariance == Spec => []IInv
<1>1. Init => IInv  BY InitInvariant
<1>2. IInv /\ [Next]_vars => IInv'  BY InvariantKept
<1> QED  BY <1>1, <1>2, PTL DEF Spec

-----------------------------------------------------------------------------
(* Induction over the natural numbers up to a bound, from the                *)
(* well-foundedness of strict inclusion among the initial segments 0 .. n    *)

\* A set of natural numbers that is not empty has a least one.
LEMMA LeastNumber ==
    ASSUME NEW T \in SUBSET Nat, T # {}
    PROVE  \E m \in T : \A k \in T : m <= k
<1> DEFINE D == {0 .. n : n \in T}
<1>1. IsWellFoundedOn(StrictSubsetOrdering(Nat), FiniteSubsetsOf(Nat))
  BY FS_StrictSubsetOrderingWellFounded
<1>2. D \subseteq FiniteSubsetsOf(Nat)
  <2>1. ASSUME NEW n \in T
        PROVE  IsFiniteSet(0 .. n) /\ 0 .. n \in SUBSET Nat
    BY FS_Interval
  <2> QED BY <2>1 DEF FiniteSubsetsOf
<1>3. D # {}
  OBVIOUS
<1>4. \E x \in D : \A y \in D : <<y, x>> \notin StrictSubsetOrdering(Nat)
  <2> HIDE DEF D
  <2> QED BY <1>1, <1>2, <1>3, WFMin
<1>5. PICK m \in T : \A k \in T : <<0 .. k, 0 .. m>> \notin StrictSubsetOrdering(Nat)
  BY <1>4
<1>6. ASSUME NEW k \in T, k < m
      PROVE  FALSE
  <2>1. 0 .. k \in SUBSET Nat /\ 0 .. m \in SUBSET Nat
    OBVIOUS
  <2>2. 0 .. k \subseteq 0 .. m /\ m \in 0 .. m /\ m \notin 0 .. k
    BY <1>6
  <2> QED BY <2>1, <2>2, <1>5 DEF StrictSubsetOrdering
<1> QED
  BY <1>6

\* What holds at 0 and from each index to the next.
LEMMA LoopInduction ==
    ASSUME NEW n \in Nat, NEW T, 0 \in T,
           \A k \in 0 .. n - 1 : k \in T => k + 1 \in T
    PROVE  \A k \in 0 .. n : k \in T
<1> SUFFICES ASSUME NEW j \in 0 .. n, j \notin T PROVE FALSE
  OBVIOUS
<1> DEFINE Bad == {k \in 0 .. n : k \notin T}
<1>1. Bad \in SUBSET Nat /\ Bad # {}
  OBVIOUS
<1>2. PICK m \in Bad : \A k \in Bad : m <= k
  <2> HIDE DEF Bad
  <2> QED BY <1>1, LeastNumber
<1>3. m # 0 /\ m - 1 \in 0 .. n - 1 /\ m - 1 \notin Bad
  BY <1>2
<1> QED BY <1>2, <1>3

-----------------------------------------------------------------------------
(* The region: the recursive definition is the least set that spreads        *)

Maps(S) == [S -> S]
Iterated(h, n, S, s0, f) ==
    h \in [0 .. n -> S] /\ h[0] = s0 /\ \A k \in 1 .. n : h[k] = f[h[k - 1]]

\* A map can be iterated.
LEMMA IterationExists ==
    ASSUME NEW n \in Nat, NEW S, NEW s0 \in S, NEW f \in Maps(S)
    PROVE  \E h : Iterated(h, n, S, s0, f)
<1> DEFINE T == {k \in 0 .. n : \E h : Iterated(h, k, S, s0, f)}
<1>1. 0 \in T
  <2> DEFINE h == [j \in 0 .. 0 |-> s0]
  <2>1. h \in [0 .. 0 -> S] /\ h[0] = s0 /\ 1 .. 0 = {}
    OBVIOUS
  <2>2. Iterated(h, 0, S, s0, f)
    BY <2>1 DEF Iterated
  <2> HIDE DEF h
  <2> QED BY <2>2
<1>2. ASSUME NEW k \in 0 .. n - 1, k \in T
      PROVE  k + 1 \in T
  <2>1. PICK h : Iterated(h, k, S, s0, f)
    BY <1>2
  <2> USE DEF Iterated
  <2> DEFINE g == [j \in 0 .. k + 1 |-> IF j = k + 1 THEN f[h[k]] ELSE h[j]]
  <2>2. g \in [0 .. k + 1 -> S] /\ g[0] = s0
    <3>1. f[h[k]] \in S
      BY <2>1 DEF Maps
    <3> QED BY <2>1, <3>1
  <2>3. ASSUME NEW j \in 1 .. k + 1
        PROVE  g[j] = f[g[j - 1]]
    <3>1. CASE j = k + 1
      BY <3>1
    <3>2. CASE j # k + 1
      <4>1. j \in 1 .. k /\ g[j] = h[j] /\ g[j - 1] = h[j - 1]
        BY <3>2
      <4> QED BY <2>1, <4>1
    <3> QED BY <3>1, <3>2
  <2> HIDE DEF g
  <2>4. Iterated(g, k + 1, S, s0, f)
    BY <2>2, <2>3
  <2> HIDE DEF Iterated
  <2> QED BY <2>4
<1> HIDE DEF T
<1>3. \A k \in 0 .. n - 1 : k \in T => k + 1 \in T
  BY <1>2
<1>4. n \in T
  BY <1>1, <1>3, LoopInduction
<1> QED BY <1>4 DEF T

\* What one more step reaches.
Closer(S) == S \union (hidden_before \intersect UNION {Adjacent(cell) : cell \in {z \in S : Zero(z)}})

\* The recursive definition is what its equation says, and stays on the board.
LEMMA ReachedIs ==
    ASSUME TypeOK
    PROVE  /\ Reached[0] = {asked}
           /\ \A n \in 1 .. SIZE * SIZE : Reached[n] = Closer(Reached[n - 1])
           /\ \A n \in 0 .. SIZE * SIZE : Reached[n] \in SUBSET Cells
<1> DEFINE N == SIZE * SIZE
           f == [S \in SUBSET Cells |-> Closer(S)]
           Is(g) == g = [n \in 0 .. N |->
                           IF n = 0 THEN {asked}
                           ELSE LET closer == g[n - 1]
                                IN  closer \union (hidden_before \intersect
                                       UNION {Adjacent(cell) : cell \in {z \in closer : Zero(z)}})]
<1>1. N \in Nat  BY BoardAssumption
<1>2. f \in [SUBSET Cells -> SUBSET Cells]
  BY DEF TypeOK, Closer
<1>3. {asked} \in SUBSET Cells  BY DEF TypeOK
<1>4. PICK h \in [0 .. N -> SUBSET Cells] : h[0] = {asked} /\ \A k \in 1 .. N : h[k] = f[h[k - 1]]
  <2> DEFINE Sets == SUBSET Cells
             start == {asked}
  <2>1. f \in Maps(Sets) /\ start \in Sets  BY <1>2, <1>3 DEF Maps
  <2> HIDE DEF N, f, Sets, start
  <2>2. \E h : Iterated(h, N, Sets, start, f)
    BY <1>1, <2>1, IterationExists
  <2> QED BY <2>2 DEF Sets, start, Iterated
<1>5. ASSUME NEW n \in 1 .. N
      PROVE  h[n - 1] \in SUBSET Cells /\ h[n] = Closer(h[n - 1])
  <2>1. n - 1 \in 0 .. N  BY <1>1
  <2>2. h[n - 1] \in SUBSET Cells /\ h[n] = f[h[n - 1]]  BY <1>4, <2>1
  <2> QED BY <2>2
<1>6. Is(h)
  <2>1. h = [n \in 0 .. N |-> h[n]]
    BY <1>4
  <2>2. \A n \in 0 .. N : h[n] = IF n = 0 THEN {asked} ELSE Closer(h[n - 1])
    BY <1>1, <1>4, <1>5
  <2> HIDE DEF N
  <2> QED BY <2>1, <2>2 DEF Closer
<1>7. Is(Reached)
  <2> DEFINE v == CHOOSE g : Is(g)
  <2>1. Is(v)  BY <1>6
  <2>2. Reached = v  BY DEF Reached
  <2> HIDE DEF v, Is
  <2> QED BY <2>1, <2>2
<1>8. Reached[0] = {asked} /\ \A n \in 1 .. N : Reached[n] = Closer(Reached[n - 1])
  BY <1>1, <1>7 DEF Closer
<1>9. \A n \in 0 .. N : Reached[n] \in SUBSET Cells
  <2> DEFINE T == {n \in 0 .. N : Reached[n] \in SUBSET Cells}
  <2>1. 0 \in T  BY <1>1, <1>3, <1>8
  <2>2. ASSUME NEW n \in 0 .. N - 1, n \in T  PROVE n + 1 \in T
    <3>1. n + 1 \in 1 .. N /\ (n + 1) - 1 = n  BY <1>1
    <3>2. Reached[n + 1] = Closer(Reached[n])  BY <1>8, <3>1
    <3> QED  BY <2>2, <3>1, <3>2 DEF Closer, TypeOK
  <2> HIDE DEF T, N
  <2>3. \A n \in 0 .. N : n \in T  BY <1>1, <2>1, <2>2, LoopInduction
  <2> QED  BY <2>3 DEF T
<1> QED  BY <1>8, <1>9

\* There are no more steps to take than cells: by then nothing new is reached.
LEMMA ReachedSpreads ==
    ASSUME TypeOK
    PROVE  Spreads(Reached[SIZE * SIZE])
<1> DEFINE N == SIZE * SIZE
           Enough(n) == Cardinality(Reached[n]) >= n + 1 \/ Closer(Reached[n]) = Reached[n]
           T == {n \in 0 .. N : asked \in Reached[n] /\ Enough(n)}
<1>1. N \in Nat  BY BoardAssumption
<1>2. 0 \in T
  <2>1. Reached[0] = {asked} /\ Cardinality({asked}) = 1  BY ReachedIs, FS_Singleton
  <2> QED  BY <1>1, <2>1
<1>3. ASSUME NEW n \in 0 .. N - 1, n \in T  PROVE n + 1 \in T
  <2>1. n + 1 \in 1 .. N /\ (n + 1) - 1 = n /\ n \in 0 .. N /\ n + 1 \in 0 .. N  BY <1>1
  <2>2. /\ Reached[n + 1] = Closer(Reached[n])
        /\ Reached[n] \in SUBSET Cells /\ Reached[n + 1] \in SUBSET Cells
    BY <2>1, ReachedIs
  <2>3. Reached[n] \subseteq Reached[n + 1]  BY <2>2 DEF Closer
  <2>4. Enough(n + 1)
    <3>1. CASE Reached[n + 1] = Reached[n]  BY <2>2, <3>1
    <3>2. CASE Reached[n + 1] # Reached[n]
      <4>1. IsFiniteSet(Reached[n + 1]) /\ IsFiniteSet(Reached[n])
            /\ Cardinality(Reached[n + 1]) \in Nat /\ Cardinality(Reached[n]) \in Nat
        BY <2>2, Finite
      <4>2. Cardinality(Reached[n]) <= Cardinality(Reached[n + 1])
            /\ Cardinality(Reached[n]) # Cardinality(Reached[n + 1])
        BY <2>3, <3>2, <4>1, FS_Subset
      <4>3. Cardinality(Reached[n]) >= n + 1
        BY <1>3, <2>2, <3>2
      <4> QED  BY <4>1, <4>2, <4>3
    <3> QED  BY <3>1, <3>2
  <2> QED  BY <1>3, <2>1, <2>3, <2>4
<1> HIDE DEF T
<1>4. N \in T
  <2> HIDE DEF N
  <2>1. \A n \in 0 .. N : n \in T  BY <1>1, <1>2, <1>3, LoopInduction
  <2> QED  BY <1>1, <2>1
<1>5. asked \in Reached[N] /\ Enough(N)  BY <1>4 DEF T
<1>6. Reached[N] \in SUBSET Cells  BY <1>1, ReachedIs
<1>7. Cardinality(Reached[N]) \in Nat /\ Cardinality(Reached[N]) <= N
  BY <1>6, Finite
<1>8. Closer(Reached[N]) = Reached[N]  BY <1>1, <1>5, <1>7
<1> HIDE DEF N
<1>9. ASSUME NEW z \in Reached[N], Zero(z)
      PROVE  Adjacent(z) \intersect hidden_before \subseteq Reached[N]
  BY <1>8, <1>9 DEF Closer
<1>10. Spreads(Reached[N])
  BY <1>5, <1>9 DEF Spreads
<1> QED  BY <1>10 DEF N

\* What spreads holds all that is reached.
LEMMA ReachedIsLeast ==
    ASSUME TypeOK, NEW S, Spreads(S)
    PROVE  Reached[SIZE * SIZE] \subseteq S
<1> DEFINE N == SIZE * SIZE
           T == {n \in 0 .. N : Reached[n] \subseteq S}
<1>1. N \in Nat  BY BoardAssumption
<1>2. 0 \in T  BY <1>1, ReachedIs DEF Spreads
<1>3. ASSUME NEW n \in 0 .. N - 1, n \in T  PROVE n + 1 \in T
  <2>1. n + 1 \in 1 .. N /\ (n + 1) - 1 = n /\ n + 1 \in 0 .. N  BY <1>1
  <2>2. Reached[n + 1] = Closer(Reached[n])  BY <2>1, ReachedIs
  <2>3. Closer(Reached[n]) \subseteq S  BY <1>3 DEF Closer, Spreads
  <2> QED  BY <2>1, <2>2, <2>3
<1> HIDE DEF T
<1>4. N \in T
  <2> HIDE DEF N
  <2>1. \A n \in 0 .. N : n \in T  BY <1>1, <1>2, <1>3, LoopInduction
  <2> QED  BY <1>1, <2>1
<1> QED  BY <1>4 DEF T

\* When no call is pending, what is opened spreads, and is in all that spreads.
LEMMA RegionOpened == ASSUME IInv PROVE RevealOpensRegion
<1> SUFFICES ASSUME main = "reveal", calls = <<>>
             PROVE  Opened = Reached[SIZE * SIZE]
  BY DEF RevealOpensRegion, Opened
<1>1. TypeOK /\ Fill  BY DEF IInv, CountersExact
<1>2. Pending = {}  BY DEF Pending, Elements
<1>3. Opened \subseteq Reached[SIZE * SIZE]
  <2>1. Reached[SIZE * SIZE] \in SUBSET Cells
    <3>1. SIZE * SIZE \in 0 .. SIZE * SIZE  BY BoardAssumption
    <3> QED  BY <1>1, <3>1, ReachedIs
  <2> QED  BY <1>1, <2>1, ReachedSpreads DEF Fill
<1>4. Spreads(Opened)
  BY <1>1, <1>2 DEF Fill, Spreads
<1>5. Reached[SIZE * SIZE] \subseteq Opened  BY <1>1, <1>4, ReachedIsLeast
<1> QED  BY <1>3, <1>5

-----------------------------------------------------------------------------
(* Results                                                                   *)

\* What RevealOpensRegion compares with is what it should be: SIZE * SIZE steps
\* from the cell give the least set that holds the cell and, with a blank cell,
\* the hidden neighbours of it - what the player expects reveal_cell to open.
THEOREM RegionIsLeast ==
    ASSUME TypeOK
    PROVE  /\ Spreads(Reached[SIZE * SIZE])
           /\ \A S : Spreads(S) => Reached[SIZE * SIZE] \subseteq S
BY ReachedSpreads, ReachedIsLeast

\* A reveal opens exactly the region of the cell asked for, for every board,
\* layout and flags, however the recursion of reveal_cell runs.
THEOREM FillExact == Spec => []RevealOpensRegion
<1>1. IInv => RevealOpensRegion  BY RegionOpened
<1> QED  BY <1>1, Invariance, PTL

\* The two counters kept by hand are the numbers of flags and of open cells.
THEOREM CountersTrue == Spec => []CountersExact
<1>1. IInv => CountersExact  BY DEF IInv
<1> QED  BY <1>1, Invariance, PTL

\* won and game_over say what the rules say: check_win compares two counts only,
\* and that is enough because a fill opens no mine.
THEOREM VerdictTrue == Spec => []VerdictCorrect
<1>1. IInv => VerdictCorrect  BY DEF IInv
<1> QED  BY <1>1, Invariance, PTL

=============================================================================
