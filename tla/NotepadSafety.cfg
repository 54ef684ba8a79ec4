\* Documents of up to three lines, of which one kind fills the buffer; two faults.
SPECIFICATION NotepadSpec
CONSTANTS
    blank = blank
    short = short
    long = long
    Text = {blank, short, long}
    Blank = blank
    Line = {short, long}
    Long = {long}
    Cut <- mc_Cut
    MAX_LINES = 3
    MaxMishaps = 2
INVARIANTS
    CleanMeansSaved
    ExitKeepsWork
PROPERTY EditsReachFile
