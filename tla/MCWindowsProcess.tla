-------------------------- MODULE MCWindowsProcess --------------------------
(* Small instances of WindowsProcess: two threads that spawn at the same   *)
(* time, and a third process for a descendant or a stranger.               *)
EXTENDS WindowsProcess, TLC

Command(g, d, s) == [group |-> g, detached |-> d, stdio |-> s]
\* A group, a detached child with a pipe, and what is refused.
Typical == {Command("NewGroup", FALSE, "NullOrFile"), Command("Inherit", TRUE, "Pipe"),
            Command("NewGroup", TRUE, "Pipe"), Command("JoinGroup", FALSE, "Inherit")}

Symmetry == Permutations(Handle) \cup Permutations(Pid)
=============================================================================
