----------------------------- MODULE MCSockets -----------------------------
(* Small instances of Sockets: two threads, and two sockets at a time.      *)
EXTENDS Sockets

\* A port whose two bytes differ.
SomeInet == {[family |-> 4, port |-> 1]}
\* A path that just fits, and one with a NUL in it.
SomePaths == {<<1, 1>>, <<1, 0>>}
\* Unnamed peers, and peers with a full, unreadable name.
SomeNames == {<<>>, <<2, 1, 2>>}
\* None, less than the unit, more than it, and more than the largest.
SomeDurations == {-1, 1, 9, 16}
=============================================================================
