---------------------------- MODULE MCIndexStore ----------------------------
(* A library with two symbols and an application that calls one or both.   *)
(* lib2 has lost one symbol and has the other on another line; lib3 is too *)
(* large.                                                                  *)
EXTENDS IndexStore, TLC

CONSTANTS lib, app, lib1, lib2, lib3, app1, app2

MCVersions == lib :> {lib1, lib2, lib3} @@ app :> {app1, app2}
MCDefines == lib1 :> {<<"A.run", 1>>, <<"B.run", 2>>}
          @@ lib2 :> {<<"A.run", 2>>} @@ lib3 :> {}
          @@ app1 :> {<<"main", 1>>} @@ app2 :> {<<"main", 1>>}
MCCalls == lib1 :> {} @@ lib2 :> {} @@ lib3 :> {}
        @@ app1 :> {<<"main", "A.run">>, <<"main", "B.run">>} @@ app2 :> {<<"main", "A.run">>}

(* Every symbol has a name of its own.                                     *)
OwnNames == [s \in {"A.run", "B.run", "main"} |-> s]

ASSUME MCUnambiguous == Unambiguous
=============================================================================
