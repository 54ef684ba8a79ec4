---------------------------- MODULE Minesweeper ----------------------------
(***************************************************************************)
(* apps/minesweeper.c.  A cell is <<row, col>>.  The recursion of          *)
(* reveal_cell is unrolled: calls holds the calls that are still to be     *)
(* made, in the order in which the code makes them, and one step is one    *)
(* call.  A call does nothing after its loop over the neighbours, so what  *)
(* is pending is a plain sequence of cells.                                *)
(***************************************************************************)
EXTENDS Integers, Sequences, FiniteSets

CONSTANTS
    SIZE,
    MINES,
    Layouts,         \* the sets of cells place_mines may choose
    MaxFlags         \* bound: the user sets no flag beyond these

Index == 0 .. SIZE - 1
Cells == Index \X Index

\* Some cell is safe; on a board full of mines there is nothing to win.
ASSUME BoardAssumption ==
    /\ SIZE \in Nat \ {0} /\ MINES \in Nat \ {0} /\ MINES < SIZE * SIZE
    /\ \A mines \in Layouts : mines \subseteq Cells /\ Cardinality(mines) = MINES
    /\ MaxFlags \in Nat

VARIABLES
    mines, state,                    \* the board
    game_over, won,
    flags_placed, cells_revealed,
    calls,                           \* pending calls of reveal_cell
    main,                            \* next step of main
    asked, hidden_before             \* history: the reveal command and its board

counters == <<flags_placed, cells_revealed>>
history == <<asked, hidden_before>>
vars == <<mines, state, game_over, won, counters, calls, main, history>>

total_safe_cells == SIZE * SIZE - MINES

\* The order of the two loops from -1 to 1.
Offsets == << <<-1, -1>>, <<-1, 0>>, <<-1, 1>>, <<0, -1>>,
              <<0, 1>>, <<1, -1>>, <<1, 0>>, <<1, 1>> >>

Neighbours(cell) ==
    [n \in 1 .. 8 |-> <<cell[1] + Offsets[n][1], cell[2] + Offsets[n][2]>>]

Adjacent(cell) == {Neighbours(cell)[n] : n \in 1 .. 8} \intersect Cells

count_adjacent_mines(cell) == Cardinality(Adjacent(cell) \intersect mines)

InState(label) == {cell \in Cells : state[cell] = label}

TypeOK ==
    /\ mines \in Layouts
    /\ state \in [Cells -> {"HIDDEN", "REVEALED", "FLAGGED"}]
    /\ game_over \in BOOLEAN /\ won \in BOOLEAN
    /\ flags_placed \in Nat /\ cells_revealed \in Nat
    /\ calls \in Seq(Int \X Int)
    /\ main \in {"command", "reveal", "closed"}
    /\ asked \in Cells /\ hidden_before \in SUBSET Cells

\* init_board, place_mines and calculate_numbers.
Init ==
    /\ mines \in Layouts
    /\ state = [cell \in Cells |-> "HIDDEN"]
    /\ game_over = FALSE /\ won = FALSE
    /\ flags_placed = 0 /\ cells_revealed = 0
    /\ calls = <<>> /\ main = "command"
    /\ asked = <<0, 0>> /\ hidden_before = {}

-----------------------------------------------------------------------------
\* Command r on a cell that is neither flagged nor revealed.
RevealCommand(cell) ==
    /\ main = "command" /\ ~game_over
    /\ state[cell] = "HIDDEN"
    /\ calls' = <<cell>> /\ main' = "reveal"
    /\ asked' = cell /\ hidden_before' = InState("HIDDEN")
    /\ UNCHANGED <<mines, state, game_over, won, counters>>

\* A call outside the board, on a revealed cell or on a flag returns at once.
CallReturns ==
    /\ main = "reveal" /\ calls # <<>>
    /\ Head(calls) \in Cells => state[Head(calls)] # "HIDDEN"
    /\ calls' = Tail(calls)
    /\ UNCHANGED <<mines, state, game_over, won, counters, main, history>>

\* Mutant: the fill goes on from cells with a number.
Follow_numbers(cell) == IF cell \in mines THEN <<>> ELSE Neighbours(cell)

\* The calls a revealed cell makes: none from a mine or a number.
Follow(cell) ==
    IF cell \in mines \/ count_adjacent_mines(cell) > 0 THEN <<>> ELSE Neighbours(cell)

\* Mutant: a cell that is followed is not counted.
CallReveals_uncounted ==
    /\ main = "reveal" /\ calls # <<>>
    /\ Head(calls) \in Cells
    /\ state[Head(calls)] = "HIDDEN"
    /\ state' = [state EXCEPT ![Head(calls)] = "REVEALED"]
    /\ cells_revealed' = IF Follow(Head(calls)) = <<>> THEN cells_revealed + 1 ELSE cells_revealed
    /\ game_over' = (game_over \/ Head(calls) \in mines)
    /\ won' = IF Head(calls) \in mines THEN FALSE ELSE won
    /\ calls' = Follow(Head(calls)) \o Tail(calls)
    /\ UNCHANGED <<mines, flags_placed, main, history>>

CallReveals ==
    /\ main = "reveal" /\ calls # <<>>
    /\ Head(calls) \in Cells
    /\ state[Head(calls)] = "HIDDEN"
    /\ state' = [state EXCEPT ![Head(calls)] = "REVEALED"]
    /\ cells_revealed' = cells_revealed + 1
    /\ game_over' = (game_over \/ Head(calls) \in mines)
    /\ won' = IF Head(calls) \in mines THEN FALSE ELSE won
    /\ calls' = Follow(Head(calls)) \o Tail(calls)
    /\ UNCHANGED <<mines, flags_placed, main, history>>

\* Mutant: the number of open cells is compared with the size of the board.
Won_all_cells == cells_revealed = SIZE * SIZE

Won == cells_revealed = total_safe_cells

\* Back in main: a mine ends the game, otherwise check_win.
Revealed ==
    /\ main = "reveal" /\ calls = <<>>
    /\ IF asked \in mines THEN game_over' = TRUE /\ won' = FALSE
       ELSE /\ game_over' = (game_over \/ Won)
            /\ won' = (won \/ Won)
    /\ main' = "command"
    /\ UNCHANGED <<mines, state, counters, calls, history>>

\* Command f; an open cell is refused.
ToggleFlag(cell) ==
    /\ main = "command" /\ ~game_over
    /\ \/ /\ state[cell] = "HIDDEN" /\ flags_placed < MaxFlags
          /\ state' = [state EXCEPT ![cell] = "FLAGGED"]
          /\ flags_placed' = flags_placed + 1
       \/ /\ state[cell] = "FLAGGED"
          /\ state' = [state EXCEPT ![cell] = "HIDDEN"]
          /\ flags_placed' = flags_placed - 1
    /\ UNCHANGED <<mines, game_over, won, cells_revealed, calls, main, history>>

\* exit and the end of the input, at any time; or the loop ends with the game.
Close ==
    /\ main = "command"
    /\ main' = "closed"
    /\ UNCHANGED <<mines, state, game_over, won, counters, calls, history>>

Closed == main = "closed" /\ UNCHANGED vars

-----------------------------------------------------------------------------
RevealStep == CallReturns \/ CallReveals \/ Revealed

Next ==
    \/ \E cell \in Cells : RevealCommand(cell) \/ ToggleFlag(cell)
    \/ RevealStep
    \/ Close \/ Closed

Spec == Init /\ [][Next]_vars

-----------------------------------------------------------------------------
\* The reference for the fill: from the cell asked for, whatever is reached
\* through hidden cells without a mine next to them.  Reached[n] is what n
\* steps reach.
Zero(cell) == cell \notin mines /\ Adjacent(cell) \intersect mines = {}

Reached[n \in 0 .. SIZE * SIZE] ==
    IF n = 0 THEN {asked}
    ELSE LET closer == Reached[n - 1]
         IN  closer \union (hidden_before \intersect
                               UNION {Adjacent(cell) : cell \in {z \in closer : Zero(z)}})

\* A reveal opens exactly the region of the cell: flags and numbers stop it,
\* nothing is missed and nothing else is opened, in whatever order the
\* recursion runs.
RevealOpensRegion ==
    main = "reveal" /\ calls = <<>> =>
        hidden_before \ InState("HIDDEN") = Reached[SIZE * SIZE]

\* The counters are the board's: flags_placed and cells_revealed are kept by
\* hand on every path, and check_win trusts the second.
CountersExact ==
    /\ TypeOK
    /\ cells_revealed = Cardinality(InState("REVEALED"))
    /\ flags_placed = Cardinality(InState("FLAGGED"))

\* The verdict is the rules': won is every safe cell open and no mine, lost is
\* a mine open, the game goes on while neither is so.  Comparing two counts is
\* enough, flags or not, because a fill never opens a mine.
VerdictCorrect ==
    main # "reveal" =>
        /\ won <=> InState("REVEALED") = Cells \ mines
        /\ game_over /\ ~won <=> InState("REVEALED") \intersect mines # {}
        /\ won => game_over

=============================================================================
