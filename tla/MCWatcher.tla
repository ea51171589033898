----------------------------- MODULE MCWatcher -----------------------------
(* Two files: one is edited while the sync works on the other.  The second *)
(* is in a directory in a directory, so that a walk goes two levels deep.  *)
EXTENDS WatchTree, TLC

CONSTANTS f1, f2, d1, d2

Paths == d1 :> {d1} @@ d2 :> {d1, d2}
Places == f1 :> Root @@ f2 :> d2
MCPath == Paths
MCIn == Places
=============================================================================
