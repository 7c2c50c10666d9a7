--------------------------- MODULE MCLinuxProcess ---------------------------
(* A small instance of LinuxProcess: two pids and two processes are enough *)
(* for a pid to be recycled under a handle.                                *)
EXTENDS LinuxProcess

TwoPids == {11, 12}
TheGroup == 10
NoTargets == {}
OneCode == {1}
KillDeath == {9}
KillOnly == {"Kill"}
=============================================================================
