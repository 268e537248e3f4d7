\* A guest thread promotes a reference while the boundary runs.
SPECIFICATION Spec
CONSTANTS
    Addr = {a1, a2}
    Nil = Nil
    Loop = Loop
    Workers = {w}
    Types <- Plain
    Grace = 1
    QuarantineCap = 2
    MaxGlobals = 1
    Calls <- AllCalls
    Stale = FALSE
INVARIANT GlobalsSurvive
CHECK_DEADLOCK FALSE
