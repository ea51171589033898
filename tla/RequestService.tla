--------------------------- MODULE RequestService ---------------------------
(***************************************************************************)
(* What an MCP server promises to the client at the other end of its       *)
(* stdio: each request gets exactly one answer unless the session is       *)
(* closed, in any order, whoever computes it.                              *)
(***************************************************************************)
EXTENDS Naturals

CONSTANT Request  \* the requests a client may send, told apart by their id

VARIABLES asked,    \* the requests sent so far
          answers,  \* how many answers the client has got to each
          closed    \* the session is over

svars == <<asked, answers, closed>>

SInit == asked = {} /\ answers = [r \in Request |-> 0] /\ closed = FALSE

Open == {r \in asked : answers[r] = 0}

(* Some requests are sent and some of those not answered yet are answered. *)
SExchange(sent, answered) ==
    /\ ~closed
    /\ sent \cap asked = {}
    /\ answered \subseteq Open \cup sent
    /\ asked' = asked \cup sent
    /\ answers' = [r \in Request |-> IF r \in answered THEN answers[r] + 1 ELSE answers[r]]
    /\ UNCHANGED closed

SAsk(r) == SExchange({r}, {})
SAskAndAnswer(r) == SExchange({r}, {r})
SAnswer(S) == SExchange({}, S)

SClose == closed' = TRUE /\ UNCHANGED <<asked, answers>>

SNext ==
    \/ \E r \in Request : SAsk(r) \/ SAskAndAnswer(r)
    \/ \E S \in SUBSET Request : SAnswer(S)
    \/ SClose

SSafety == SInit /\ [][SNext]_svars

(* Each request is answered, or the session ends.                          *)
SLiveness == \A r \in Request : r \in asked ~> closed \/ answers[r] = 1

SSpec == SSafety /\ SLiveness
=============================================================================
