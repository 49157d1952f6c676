SPECIFICATION SpecPlotting
CONSTANTS
    Switches = {1, 2, 4}
    Loops = {1, 2}
    Quantities = {1, 5}
    RowLengths = {2, 3}
    Base = 2
    Room = 3
    RowSize = 4
    Window = 2
    MaxNumber = 2
    MaxTmp = 5
    MaxPipe = 3
    MaxFailures = 1
    Followed <- MCFollowed
INVARIANTS InStep Charts NoLitter
PROPERTIES Implements AllRead ReadsWhole PlotEnds
CHECK_DEADLOCK FALSE
