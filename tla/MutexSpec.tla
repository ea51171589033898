----------------------------- MODULE MutexSpec -----------------------------
(***************************************************************************)
(* What an in-process mutex promises to its callers, without a queue, a    *)
(* flag or a microtask: a caller asks, at most one caller owns, and the    *)
(* mutex never stays free for ever while somebody is asking.               *)
(***************************************************************************)
CONSTANTS Caller,   \* the async operations that share one mutex
          NoCaller  \* the owner of a free mutex

VARIABLES owner,    \* the caller inside the critical section, or NoCaller
          asking    \* the callers whose acquire() has not returned yet

svars == <<owner, asking>>

SInit == owner = NoCaller /\ asking = {}

SAsk(c) == c # owner /\ c \notin asking /\ asking' = asking \cup {c} /\ UNCHANGED owner

SEnterAtOnce(c) ==
    /\ owner = NoCaller /\ c \notin asking
    /\ owner' = c /\ UNCHANGED asking

SGrant(c) ==
    /\ owner = NoCaller /\ c \in asking
    /\ owner' = c /\ asking' = asking \ {c}

SLeave(c) == owner = c /\ owner' = NoCaller /\ UNCHANGED asking

SEnter(c) == SEnterAtOnce(c) \/ SGrant(c)

SNext == \E c \in Caller : SAsk(c) \/ SEnter(c) \/ SLeave(c)

SSafety == SInit /\ [][SNext]_svars

SSpec == SSafety /\ WF_svars(\E c \in Caller : SGrant(c))
                 /\ WF_svars(\E c \in Caller : SLeave(c))
=============================================================================
