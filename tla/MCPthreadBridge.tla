--------------------------- MODULE MCPthreadBridge ---------------------------
(***************************************************************************)
(* Two guest threads, two semaphores with room for both, four calls.       *)
(***************************************************************************)
EXTENDS PthreadBridge

CONSTANTS t1, t2, s1, s2

MCThreads == {t1, t2}
MCSems == {s1, s2}
MCValues == {0, 1}

=============================================================================
