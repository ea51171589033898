------------------------------ MODULE MCProxy ------------------------------
(* One request of each kind and a second tool call, and two retries.       *)
EXTENDS Launcher, FiniteSets, TLC

CONSTANTS init, list, call1, call2, ping,
          FewRequests  \* bound: where the host fails, so many requests are sent

MCMethod == init :> "initialize" @@ list :> "static" @@ call1 :> "call" @@ call2 :> "call" @@ ping :> "quick"

(* A process started by its host, which has not died or closed stdin.      *)
Calm == platform = "posix" /\ ~relaunched /\ Host \in alive /\ stdin = "open"

MCNext == LNext /\ (Calm' \/ Cardinality(asked') <= FewRequests)

MCSpec == LInit /\ [][MCNext]_lvars /\ LFairness
=============================================================================
