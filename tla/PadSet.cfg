\* Two controllers that come and go under the frame loop.
SPECIFICATION Spec
CONSTANTS
    Inst = {p1, p2}
    NoInst = NoInst
    MaxPads = 2
    Window = 2
    Steps <- Clock
INVARIANTS NoLatch Accounted ExitExactly
PROPERTIES Released
CHECK_DEADLOCK FALSE
