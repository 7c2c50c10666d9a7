---------------------------- MODULE MCUnixListen ----------------------------
(* A small instance of UnixListen: two callers that find the same leftover. *)
(* MCNetwork checks the POSIX backends, MCLiveness the Windows one.         *)
EXTENDS UnixListen

Stale == {"dead"}
=============================================================================
