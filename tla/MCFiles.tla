------------------------------ MODULE MCFiles ------------------------------
(* Small instances of the file-system modules.  One behaviour is of one     *)
(* part: write_atomic, the directories, or the files; the other two stay in *)
(* one of their initial states.                                             *)
EXTENDS MCWriteAtomic, Directories, FileHandles

VARIABLE part

-----------------------------------------------------------------------------
(* Two threads in a directory with two names, and what may be there before  *)

Flags(r, w, c, new) ==
    [read |-> r, write |-> w, append |-> FALSE, create |-> c, create_new |-> new, truncate |-> FALSE]
MCOptions == {Flags(TRUE, FALSE, FALSE, FALSE),
              Flags(FALSE, TRUE, TRUE, FALSE), Flags(FALSE, TRUE, FALSE, TRUE)}
MCPaths == {<<"a">>, <<"a", "b">>}
\* A relative target, one with a drive and one that leads outside.
MCTargets == {<<"a">>, <<"C:", "/", "o">>, <<"/", "o">>}
Tree(x, y, objects) == [entries |-> [name \in Names |-> IF name = "a" THEN x ELSE y], objects |-> objects]
Object(type, target) == [type |-> type, target |-> target]
\* A directory beside a link outside, a file beside a link to it, a file.
MCTrees == {Tree(3, 4, (3 :> Object("Dir", <<>>)) @@ (4 :> Object("Symlink", <<"/", "o">>))),
            Tree(3, 4, (3 :> Object("File", <<>>)) @@ (4 :> Object("Symlink", <<"a">>))),
            Tree(3, 0, (3 :> Object("File", <<>>)))}
MCSecs == -2..2
MCTicks == 0..9
MCRels == UNION {[1..k -> {"/", "x"}] : k \in 0..4}

\* Reading and writing, appending, and truncating; three handles at most.
Mode(r, a, t) == [read |-> r, write |-> TRUE, append |-> a, truncate |-> t]
MCOpenModes == {Mode(TRUE, FALSE, FALSE), Mode(FALSE, TRUE, FALSE), Mode(FALSE, FALSE, TRUE)}
MCHandles == 1..3

\* Nothing tells the two threads of a process apart.
Symmetry == Permutations(Pair)

FilesInit ==
    /\ part \in {"atomic", "dirs", "handles"}
    /\ Init /\ DirsInit /\ FInit
    /\ part # "dirs" => backend = "mock" /\ node[4].type = "none"
    /\ part # "handles" => system = "mock"

FilesNext ==
    \/ part = "atomic" /\ Next /\ UNCHANGED <<part, dvars, fvars>>
    \/ part = "dirs" /\ DirsNext /\ UNCHANGED <<part, vars, fvars>>
    \/ part = "handles" /\ FNext /\ UNCHANGED <<part, vars, dvars>>

FilesSpec == FilesInit /\ [][FilesNext]_<<part, vars, dvars, fvars>>
=============================================================================
