----------------------------- MODULE MCNetwork -----------------------------
(* Small instances of the real backends' network: sockets and their scripts *)
(* (Sockets), and callers of the POSIX unix_listen that want one path       *)
(* (UnixListen).  One behaviour is of one part; the other stays in one of   *)
(* its initial states.                                                      *)
EXTENDS MCSockets, UnixListen

VARIABLE part

\* ListenNext without ProbeAgain, which only the Windows backend has (its guard is
\* ~Posix); MCLiveness has that backend's calls.
PosixNext ==
    \E l \in Caller :
        \/ Call(l) \/ FirstBind(l) \/ Probe(l) \/ Unlink(l) \/ Rebind(l) \/ Chmod(l)
        \/ StartListening(l) \/ SysFails(l) \/ CallerDies(l)

NetworkInit ==
    /\ part \in {"sockets", "listener"}
    /\ Init /\ ListenInit
    /\ part = "sockets" \/ (backend = "linux" /\ kind = "tcp")
    /\ part = "listener" \/ path = 0

NetworkNext ==
    /\ UNCHANGED part
    /\ \/ part = "sockets" /\ Next /\ UNCHANGED lvars
       \/ part = "listener" /\ PosixNext /\ UNCHANGED vars

NetworkSpec ==
    /\ NetworkInit /\ [][NetworkNext]_<<part, vars, lvars>>
    /\ \A t \in Thread : WF_vars(part = "sockets" /\ (ReadData(t) \/ ReadNothing(t)))
=============================================================================
