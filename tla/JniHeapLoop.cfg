\* Every call on the thread of the frame loop, as nativeRender makes them.
SPECIFICATION Spec
CONSTANTS
    Addr = {a1, a2}
    Nil = Nil
    Loop = Loop
    Workers = {}
    Types <- PlainAndClass
    Grace = 1
    QuarantineCap = 1
    MaxGlobals = 1
    Calls <- AllCalls
    Stale = FALSE
PROPERTIES Contract ReachedKept
CHECK_DEADLOCK FALSE
