----------------------------- MODULE MCIndexAll -----------------------------
(* A healthy file, one that breaks workers, one that may hang.             *)
EXTENDS IndexAll, TLC

CONSTANTS good, heavy, slow

MCOutcomes ==
    good :> {"nodes", "empty"}
 @@ heavy :> {"crash", "oom", "swallowed", "partial"}
 @@ slow :> {"hang", "failed", "unreadable", "large"}
=============================================================================
