---------------------------- MODULE MCWriteAtomic ----------------------------
(* Small instances of WriteAtomic: two threads of one process, and a third  *)
(* thread that is a process of its own.                                     *)
EXTENDS WriteAtomic, TLC

CONSTANTS p, q, t1, t2, t3

Processes == {p, q}
OneProcess == {p}
Threads == {t1, t2, t3}
Pair == {t1, t2}
Threads_Of == (t1 :> p) @@ (t2 :> p) @@ (t3 :> q)
Pair_Of == (t1 :> p) @@ (t2 :> p)
=============================================================================
