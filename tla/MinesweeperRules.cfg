\* Boards of 4 by 4 with two mines.
SPECIFICATION Spec
CONSTANTS
    SIZE = 4
    MINES = 2
    MaxFlags = 1
    Layouts <- mc_Layouts
INVARIANTS
    RevealOpensRegion
    CountersExact
    VerdictCorrect
