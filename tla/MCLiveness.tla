----------------------------- MODULE MCLiveness -----------------------------
(* Small instances of the modules in which something has to come to an end: *)
(* wait_any, rpar and rtee on top of it, a child's wait, the probes of the  *)
(* Windows unix_listen, the mock network's reads, and the reads and the     *)
(* drop of a pseudo-terminal.  One behaviour is of one part; the others     *)
(* stay in one of their initial states.                                     *)
EXTENDS WaitAny, RPar, RTee, Pty, MockNet, UnixListen

VARIABLES
    part,
    table, child, fate, born, call   \* LinuxProcess

\* One child, every way to die.
Linux == INSTANCE LinuxProcess WITH
    Pid <- {11, 12}, Handle <- {"h1"}, ExitCodes <- {0, 1, 255}, Deaths <- {15, 2, 1, 3, 9},
    SignalsSent <- {"Kill", "Stop", "Cont"}, JoinTargets <- {}, ParentGroup <- 10,
    MaxBorn <- 2, proc <- table

\* Addresses of each kind for the mock network; port 0 asks for one.
MockAddr == {[kind |-> "tcp", port |-> 0], [kind |-> "unix", port |-> 1], [kind |-> "udp", port |-> 1]}

linux == <<table, child, fate, born, call>>

-----------------------------------------------------------------------------
\* Where a part that does not run has several initial states, it is in one.
PartsInit ==
    /\ part \in {"wait_any", "par", "tee", "linux", "listener", "mock", "pty"}
    /\ WaitInit /\ ParInit /\ TeeInit /\ PtyInit /\ Linux!Init /\ ListenInit /\ MockInit
    /\ part = "wait_any" \/ (backend = "portable" /\ len = 1 /\ timeout = 0 /\ ended = {})
    /\ part = "tee" \/ total = 0
    /\ part = "listener" \/ path = 0
    /\ part = "pty" \/ (os = "linux" /\ asked = 1)

PartsNext ==
    /\ UNCHANGED part
    /\ \/ part = "wait_any" /\ WaitNext /\ UNCHANGED <<parvars, teevars, pvars, linux, lvars, mvars>>
       \/ part = "par" /\ ParNext /\ UNCHANGED <<waitvars, teevars, pvars, linux, lvars, mvars>>
       \/ part = "tee" /\ TeeNext /\ UNCHANGED <<waitvars, parvars, pvars, linux, lvars, mvars>>
       \/ part = "pty" /\ PtyNext /\ UNCHANGED <<waitvars, parvars, teevars, linux, lvars, mvars>>
       \/ part = "linux" /\ Linux!Next /\ UNCHANGED <<waitvars, parvars, teevars, pvars, lvars, mvars>>
       \/ part = "listener" /\ ListenNext /\ UNCHANGED <<waitvars, parvars, teevars, pvars, linux, mvars>>
       \/ part = "mock" /\ MockNext /\ UNCHANGED <<waitvars, parvars, teevars, pvars, linux, lvars>>

\* The fairness of each module, for the part that runs.
ParFair == WF_parvars(part = "par" /\ Work)
TeeFair ==
    /\ WF_teevars(part = "tee" /\ SpawnCommand) /\ WF_teevars(part = "tee" /\ Read)
    /\ WF_teevars(part = "tee" /\ WriteStdout) /\ WF_teevars(part = "tee" /\ write_all)
    /\ WF_teevars(part = "tee" /\ wait)
    /\ WF_teevars(part = "tee" /\ CommandWrites) /\ WF_teevars(part = "tee" /\ CommandEnds)
LinuxFair ==
    /\ \A p \in {11, 12} :
          WF_linux(/\ part = "linux" /\ table[p].state = "dying"
                   /\ \E s \in Linux!Terminal : Linux!Terminate(p, s))
    /\ WF_linux(part = "linux" /\ Linux!waitReturns("h1"))
    /\ WF_linux(part = "linux" /\ Linux!wait_jobReturns("h1"))
ListenerFair == \A l \in Caller : WF_lvars(part = "listener" /\ Proceed(l))
PtyFair ==
    /\ WF_pvars(part = "pty" /\ ConhostWrites)
    /\ WF_pvars(part = "pty" /\ CloseReturns)
    /\ WF_pvars(part = "pty" /\ WatcherSees)
    /\ WF_pvars(part = "pty" /\ WatcherCloses)
    /\ WF_pvars(part = "pty" /\ read)
    /\ WF_pvars(part = "pty" /\ Drain)
    /\ WF_pvars(part = "pty" /\ DrainDeadline)

PartsSpec ==
    /\ PartsInit /\ [][PartsNext]_<<part, waitvars, parvars, teevars, pvars, linux, lvars, mvars>>
    /\ ParFair /\ TeeFair /\ LinuxFair /\ ListenerFair /\ MockFair /\ PtyFair

-----------------------------------------------------------------------------
(* The properties of the parts                                              *)

\* A LinuxChild keeps the contract of the Child trait.
ImplementsContract == Linux!ImplementsContract

\* A signal ends rpar although no command need end, and rtee ends while its
\* standard output is read.
ProgramsEnd == SignalAnswered /\ (part = "tee" => Terminates)

\* A consuming wait for a killed child returns, and the probes of the Windows
\* unix_listen come to an end however often they are put off.
WaitsEnd == Linux!KilledChildIsReaped /\ ProbingEnds

\* A mock read returns if its peer goes away or it has a timeout, a read of a
\* terminal when the child has exited; dropping an unread pseudo console comes
\* back.
ReadsEnd == ReadReturns /\ TerminalEnds /\ DropReturns
=============================================================================
