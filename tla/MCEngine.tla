------------------------------ MODULE MCEngine ------------------------------
(* A daemon with two sessions, or a direct process with the first; one     *)
(* call names the other project.                                           *)
EXTENDS Engine, TLC

CONSTANTS here, there, s1, s2, c1, c2, c3

MCSessionOf == [c \in Call |-> IF c = c3 THEN s2 ELSE s1]
MCTarget == [c \in Call |-> IF c = c2 THEN there ELSE NoRoot]
MCUris == {s1 :> p @@ s2 :> NoRoot : p \in {here, there, NoRoot}}
=============================================================================
