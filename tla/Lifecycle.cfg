SPECIFICATION Spec
INVARIANTS LinkedRight StartupFair GameKeepsItsActions ExitTruthful
PROPERTIES Ended
CHECK_DEADLOCK FALSE
CONSTANTS
    Libmain = Libmain
    Libunity = Libunity
    Libil2cpp = Libil2cpp
    Libs <- MCLibs
    Symbols <- MCSymbols
    Host <- MCHost
    Defines <- MCDefines
    Needs <- MCNeeds
    OnLoad = "JNI_OnLoad"
    Entries <- MCEntries
    NoLib = NoLib
    NoFn = NoFn
    Table = Table
    Null = Null
    Formats = {"f1", "f2", "bad"}
    Valid = {"f1", "f2"}
    Buffers = 2
    Every = 3
    Changes = 4
    MaxTime = 3
    Wrap = 16
    Buttons = {b1, b2}
    None = None
    GameMoves = 5
    Launches <- MCLaunches
    FrameCap = 2
