\* A guest thread beside the frame loop.
SPECIFICATION Spec
CONSTANTS
    Addr = {a1, a2}
    Nil = Nil
    Loop = Loop
    Workers = {w}
    Types <- Plain
    Grace = 1
    QuarantineCap = 2
    MaxGlobals = 1
    Calls <- References
    Stale = FALSE
SYMMETRY Symmetric
INVARIANTS QuarantineOnce BucketsTrue
CHECK_DEADLOCK FALSE
