---------------------------- MODULE MCFileLock ----------------------------
(* Two processes; the first has two FileLock objects for one index.        *)
EXTENDS FileLock, TLC

CONSTANTS i1, i2, i3, p1, p2

MCPidOf == (i1 :> p1) @@ (i2 :> p1) @@ (i3 :> p2)
=============================================================================
