------------------------------ MODULE MCFacade ------------------------------
(* A full index, the watcher's sync and somebody who indexes single files, *)
(* and a catch-up sync that barges in.                                     *)
EXTENDS Facade, TLC

CONSTANTS c1, c2, c3, c4

MCDoes == c1 :> "indexAll" @@ c2 :> "sync" @@ c3 :> "indexFiles" @@ c4 :> "sync"
=============================================================================
