--------------------------- MODULE MCDirectories ---------------------------
(* One thread in a directory with a file and a link to it.                  *)
EXTENDS Directories, TLC

MCPaths == {<<"a">>}
MCTargets == {<<"a">>}
MCTrees == {[entries |-> [n \in Names |-> IF n = "a" THEN 3 ELSE 4],
             objects |-> (3 :> [type |-> "File", target |-> <<>>])
                         @@ (4 :> [type |-> "Symlink", target |-> <<"a">>])]}
=============================================================================
