---------------------------- MODULE LinuxProcess ----------------------------
(***************************************************************************)
(* The Linux process backend: LinuxSpawner::spawn and the LinuxChild       *)
(* handle (platform-linux/src/process.rs) over the syscall layer of        *)
(* platform-linux/src/sys/spawn.rs, running against the kernel's process   *)
(* table.  The kernel part is external: it is modelled from the calls the  *)
(* backend makes (posix_spawn, waitpid, kill) and it is the adversary:     *)
(* processes exit, fork, are reaped by strangers, and pids are recycled    *)
(* between any two calls of the program.                                   *)
(*                                                                         *)
(* Every process that ever runs has an incarnation number, which no code   *)
(* sees: it tells a child apart from a later process with the same pid.    *)
(***************************************************************************)
EXTENDS Integers, FiniteSets

CONSTANTS
    Pid,          \* the pids the kernel can give out
    Handle,       \* the Child values Spawner::spawn can return
    ExitCodes,    \* the codes a process may exit with
    Deaths,       \* the numbers of the signals that may end a process
    SignalsSent,  \* the portable signals the program sends
    JoinTargets,  \* the pgids the program passes to GroupSpec::JoinGroup
    ParentGroup,  \* the process group of the program itself
    MaxBorn       \* bound: how many processes are ever started

ASSUME PidAssumption == Pid \subseteq Nat \ {0}
ASSUME GroupAssumption ==
    /\ ParentGroup \in Nat \ {0}
    /\ ParentGroup \notin Pid
    /\ JoinTargets \subseteq Nat
ASSUME CodeAssumption == ExitCodes \subseteq 0..255 /\ Deaths \subseteq 1..64
ASSUME BoundAssumption == MaxBorn \in Nat

VARIABLES
    proc,   \* the kernel's process table, by pid
    child,  \* the LinuxChild behind each handle
    fate,   \* by incarnation: how that process terminated (history)
    born,   \* how many incarnations there have been (history)
    call    \* the last spawn or kill: what it returned and whom it reached

vars == <<proc, child, fate, born, call>>

-----------------------------------------------------------------------------
(* Exit statuses and wait status words                                     *)

Status(k, n) == [kind |-> k, n |-> n]
NoStatus == Status("None", 0)
Continued == Status("Continued", 0)

\* The portable signals and the numbers they stand for.
signum_of ==
    [Term |-> 15, Int |-> 2, Hup |-> 1, Quit |-> 3,
     Kill |-> 9, Stop |-> 19, Cont |-> 18]

ASSUME SignalAssumption == SignalsSent \subseteq DOMAIN signum_of

Terminal == {Status("Code", n) : n \in ExitCodes}
            \union {Status("Signaled", n) : n \in Deaths}
Reportable == Terminal \union {Status("Stopped", 19), Continued}

\* The kernel's encoding of a termination; a death by SIGQUIT may also carry
\* the core-dump bit.
Words(s) == IF s.kind = "Code" THEN {s.n * 256}
            ELSE IF s.n = signum_of.Quit THEN {s.n, s.n + 128}
            ELSE {s.n}
EventWord(e) == IF e = "stopped" THEN 19 * 256 + 127 ELSE 65535

WIFEXITED(w) == w % 128 = 0
WEXITSTATUS(w) == (w \div 256) % 256
WIFSIGNALED(w) == w % 128 \notin {0, 127}
WTERMSIG(w) == w % 128
WIFSTOPPED(w) == w % 256 = 127
WSTOPSIG(w) == (w \div 256) % 256

\* A decode without the WIFSIGNALED arm.
decodeExitOnly(w) ==
    IF WIFEXITED(w) THEN Status("Code", WEXITSTATUS(w)) ELSE Status("Code", 1)

decode(w) ==
    IF WIFEXITED(w) THEN Status("Code", WEXITSTATUS(w))
    ELSE IF WIFSIGNALED(w) THEN Status("Signaled", WTERMSIG(w))
    ELSE Status("Code", 1)

decode_job(w) ==
    IF WIFEXITED(w) THEN Status("Code", WEXITSTATUS(w))
    ELSE IF WIFSIGNALED(w) THEN Status("Signaled", WTERMSIG(w))
    ELSE IF WIFSTOPPED(w) THEN Status("Stopped", WSTOPSIG(w))
    ELSE Continued

-----------------------------------------------------------------------------
(* The last spawn or kill.  Every other step clears it.                    *)

NoCall == [op |-> "none", res |-> "Ok", stale |-> FALSE, own |-> {0},
           hit |-> {}]

\* `own`: the incarnations the call is meant for; `stale`: the handle's
\* status was already stashed when the call was made.
Called(op, res, stale, own, hit) ==
    [op |-> op, res |-> res, stale |-> stale, own |-> own, hit |-> hit]

-----------------------------------------------------------------------------
(* The kernel                                                              *)

Free == [state |-> "free", inc |-> 0, pgid |-> 0, job |-> 0, word |-> 0,
         event |-> "none", ours |-> FALSE, home |-> FALSE]

Used(p) == proc[p].state # "free"

\* Linux does not recycle a pid while a process group still carries it.
Allocatable(p) == ~Used(p) /\ \A q \in Pid : Used(q) => proc[q].pgid # p

\* A process just started: `job` is the incarnation that founded its group,
\* `ours` whether the program is its parent, `home` whether it is in the
\* program's session.
Started(inc, pgid, job, ours, home) ==
    [state |-> "running", inc |-> inc, pgid |-> pgid, job |-> job, word |-> 0,
     event |-> "none", ours |-> ours, home |-> home]

\* What a delivered signal does at once.  Term, Int, Hup and Quit may be
\* caught: a death they cause is a later Terminate.
Signalled(r, sig) ==
    IF sig = "Kill" /\ r.state \in {"running", "stopped"}
    THEN [r EXCEPT !.state = "dying", !.event = "none"]
    ELSE IF sig = "Stop" /\ r.state = "running"
    THEN [r EXCEPT !.state = "stopped", !.event = "stopped"]
    ELSE IF sig = "Cont" /\ r.state = "stopped"
    THEN [r EXCEPT !.state = "running", !.event = "continued"]
    ELSE r

Deliver(targets, sig) ==
    proc' = [p \in Pid |-> IF p \in targets THEN Signalled(proc[p], sig)
                                            ELSE proc[p]]

\* kill(-g): group 0 is the caller's own group.
Members(g) == LET grp == IF g = 0 THEN ParentGroup ELSE g
              IN  {p \in Pid : Used(p) /\ proc[p].pgid = grp}

\* The incarnations behind a set of pids; the program itself is number 0.
Incs(targets) == {proc[p].inc : p \in targets}
ReachesParent(g) == g \in {0, ParentGroup}

\* What waitpid(p) answers; flags "job" are WUNTRACED|WCONTINUED.  "none" is
\* the 0 of WNOHANG, and is where a blocking call keeps waiting.
waitpid(p, flags) ==
    IF ~Used(p) \/ ~proc[p].ours THEN [ret |-> "ECHILD", word |-> 0]
    ELSE IF proc[p].state = "zombie"
    THEN [ret |-> "reaped", word |-> proc[p].word]
    ELSE IF flags = "job" /\ proc[p].event # "none"
    THEN [ret |-> "event", word |-> EventWord(proc[p].event)]
    ELSE [ret |-> "none", word |-> 0]

\* What it does to the process table: a zombie is released, a stop or
\* continue notification is consumed.
AfterWait(p, ret) ==
    IF ret = "reaped" THEN [proc EXCEPT ![p] = Free]
    ELSE IF ret = "event" THEN [proc EXCEPT ![p].event = "none"]
    ELSE proc

Terminate(p, s) ==
    /\ proc[p].state \in {"running", "dying"}
    /\ proc[p].ours
    /\ \E w \in Words(s) :
          proc' = [proc EXCEPT ![p] = [proc[p] EXCEPT !.state = "zombie",
                                         !.word = w, !.event = "none"]]
    /\ fate' = [fate EXCEPT ![proc[p].inc] = s]
    /\ call' = NoCall
    /\ UNCHANGED <<child, born>>

\* The same for somebody else's child, whose status nobody here can ask for.
ForeignTerminate(p) ==
    /\ proc[p].state \in {"running", "dying"}
    /\ ~proc[p].ours
    /\ proc' = [proc EXCEPT ![p] = [proc[p] EXCEPT !.state = "zombie",
                                                  !.event = "none"]]
    /\ call' = NoCall
    /\ UNCHANGED <<child, fate, born>>

\* A process (a child or any other) forks: the new one stays in its group.
Fork(p, q) ==
    /\ proc[p].state = "running"
    /\ Allocatable(q)
    /\ born < MaxBorn
    /\ born' = born + 1
    /\ proc' = [proc EXCEPT ![q] =
            Started(born + 1, proc[p].pgid, proc[p].job, FALSE, proc[p].home)]
    /\ call' = NoCall
    /\ UNCHANGED <<child, fate>>

\* A process of somebody else appears, leading a group of its own.
Stranger(q) ==
    /\ Allocatable(q)
    /\ born < MaxBorn
    /\ born' = born + 1
    /\ proc' = [proc EXCEPT ![q] = Started(born + 1, q, born + 1, FALSE, FALSE)]
    /\ call' = NoCall
    /\ UNCHANGED <<child, fate>>

\* The zombie of somebody else's child is reaped by its own parent.
ForeignReap(p) ==
    /\ proc[p].state = "zombie"
    /\ ~proc[p].ours
    /\ proc' = [proc EXCEPT ![p] = Free]
    /\ call' = NoCall
    /\ UNCHANGED <<child, fate, born>>

-----------------------------------------------------------------------------
(* LinuxSpawner::spawn                                                     *)

NoGroup == -1    \* LinuxChild.group = None

Inherit == [kind |-> "Inherit", pgid |-> 0]
NewGroup == [kind |-> "NewGroup", pgid |-> 0]
JoinGroup(g) == [kind |-> "JoinGroup", pgid |-> g]
GroupSpecs == {Inherit, NewGroup} \union {JoinGroup(g) : g \in JoinTargets}

NoChild == [phase |-> "none", pid |-> 0, inc |-> 0, job |-> 0,
            group |-> NoGroup, reaped |-> NoStatus, told |-> NoStatus]

\* The refusals that come before anything is resolved or created.
SpawnRefused(spec, detached) ==
    /\ detached
    /\ spec.kind # "Inherit"
    /\ call' = Called("spawn", IF spec.kind = "JoinGroup" THEN "InvalidInput"
                                                        ELSE "Unsupported",
                      FALSE, {}, {})
    /\ UNCHANGED <<proc, child, fate, born>>

\* resolve finds nothing executable, or a step of sys::spawn::spawn fails.
SpawnFails(spec, detached, err) ==
    /\ ~(detached /\ spec.kind # "Inherit")
    /\ call' = Called("spawn", err, FALSE, {}, {})
    /\ UNCHANGED <<proc, child, fate, born>>

\* setpgid into group g is refused unless g is a live group of the session.
Joinable(g) == \E p \in Pid : Used(p) /\ proc[p].pgid = g /\ proc[p].home

\* The group kill_tree will target.
GroupOf(spec, detached, pid) ==
    IF spec.kind = "JoinGroup" THEN spec.pgid
    ELSE IF spec.kind = "NewGroup" \/ detached THEN pid
    ELSE NoGroup

\* The group the child really is in: pgroup 0 means "lead a new one", and
\* setsid makes the child the leader of its own.
PgidOf(spec, detached, pid) ==
    IF spec.kind = "JoinGroup" /\ spec.pgid # 0 THEN spec.pgid
    ELSE IF spec.kind = "Inherit" /\ ~detached THEN ParentGroup
    ELSE pid

\* The founder of group g, given that `inc` is about to be started as `pid`.
JobOf(g, pid, inc) ==
    IF g = pid THEN inc
    ELSE IF g = ParentGroup THEN 0
    ELSE proc[CHOOSE p \in Pid : Used(p) /\ proc[p].pgid = g].job

Spawn(h, spec, detached, pid) ==
    /\ child[h].phase = "none"
    /\ ~(detached /\ spec.kind # "Inherit")
    /\ spec.kind = "JoinGroup" => spec.pgid \in {0, ParentGroup}
                                  \/ Joinable(spec.pgid)
    /\ Allocatable(pid)
    /\ born < MaxBorn
    /\ born' = born + 1
    /\ LET pgid == PgidOf(spec, detached, pid)
           job  == JobOf(pgid, pid, born + 1)
       IN  /\ proc' = [proc EXCEPT ![pid] =
                         Started(born + 1, pgid, job, TRUE, ~detached)]
           /\ child' = [child EXCEPT ![h] =
                [phase |-> "owned", pid |-> pid, inc |-> born + 1, job |-> job,
                 group |-> GroupOf(spec, detached, pid),
                 reaped |-> NoStatus, told |-> NoStatus]]
    /\ call' = Called("spawn", "Ok", FALSE, {}, {})
    /\ UNCHANGED fate

-----------------------------------------------------------------------------
(* The Child trait                                                         *)

\* try_wait without the stash: the status is returned and forgotten.
try_waitNoStash(h) ==
    LET c == child[h]
        w == waitpid(c.pid, "exit")
    IN  /\ c.phase = "owned"
        /\ w.ret # "none"
        /\ proc' = AfterWait(c.pid, w.ret)
        /\ child' = [child EXCEPT ![h].told =
                        IF w.ret = "reaped" THEN decode(w.word) ELSE @]
        /\ call' = NoCall
        /\ UNCHANGED <<fate, born>>

\* A poll that finds nothing returns None and changes nothing; it is left
\* out, as the step it would be is a stuttering step.
try_wait(h) ==
    LET c == child[h]
        w == waitpid(c.pid, "exit")
    IN  /\ c.phase = "owned"
        /\ c.reaped = NoStatus => w.ret # "none"
        /\ IF c.reaped # NoStatus
           THEN /\ child' = [child EXCEPT ![h].told = c.reaped]
                /\ call' = NoCall
                /\ UNCHANGED proc
           ELSE IF w.ret = "ECHILD"
           THEN /\ call' = Called("wait", "ECHILD", FALSE, {}, {})
                /\ UNCHANGED <<proc, child>>
           ELSE /\ proc' = AfterWait(c.pid, w.ret)
                /\ child' = [child EXCEPT ![h].reaped = decode(w.word),
                                          ![h].told = decode(w.word)]
                /\ call' = NoCall
        /\ UNCHANGED <<fate, born>>

\* wait that ignores the stash and always asks the kernel.
waitIgnoresStash(h) ==
    /\ child[h].phase = "owned"
    /\ child' = [child EXCEPT ![h].phase = "waiting"]
    /\ call' = NoCall
    /\ UNCHANGED <<proc, fate, born>>

\* wait consumes the handle: a stashed status is returned at once,
\* otherwise the thread blocks in waitpid.
wait(h) ==
    LET c == child[h]
    IN  /\ c.phase = "owned"
        /\ child' = IF c.reaped # NoStatus
                    THEN [child EXCEPT ![h].told = c.reaped, ![h].phase = "waited"]
                    ELSE [child EXCEPT ![h].phase = "waiting"]
        /\ call' = NoCall
    /\ UNCHANGED <<proc, fate, born>>

\* A wait that does not recognise a death by signal.
waitReturnsExitedOnly(h) ==
    LET c == child[h]
        w == waitpid(c.pid, "exit")
    IN  /\ c.phase = "waiting"
        /\ w.ret = "reaped"
        /\ WIFEXITED(w.word)
        /\ proc' = AfterWait(c.pid, w.ret)
        /\ child' = [child EXCEPT ![h].told = decode(w.word),
                                  ![h].phase = "waited"]
        /\ call' = NoCall
        /\ UNCHANGED <<fate, born>>

waitReturns(h) ==
    LET c == child[h]
        w == waitpid(c.pid, "exit")
    IN  /\ c.phase = "waiting"
        /\ w.ret # "none"
        /\ proc' = AfterWait(c.pid, w.ret)
        /\ IF w.ret = "ECHILD"
           THEN /\ child' = [child EXCEPT ![h].told = NoStatus,
                                          ![h].phase = "waited"]
                /\ call' = Called("wait", "ECHILD", FALSE, {}, {})
           ELSE /\ child' = [child EXCEPT ![h].told = decode(w.word),
                                          ![h].phase = "waited"]
                /\ call' = NoCall
        /\ UNCHANGED <<fate, born>>

\* A blocking wait_job borrows the handle until it returns.
wait_job(h) ==
    /\ child[h].phase = "owned"
    /\ child' = IF child[h].reaped # NoStatus
                THEN [child EXCEPT ![h].told = child[h].reaped]
                ELSE [child EXCEPT ![h].phase = "jobwait"]
    /\ call' = NoCall
    /\ UNCHANGED <<proc, fate, born>>

IsJobEvent(s) == s.kind \in {"Stopped", "Continued"}

\* A job wait that never stashes: the reaped status is only reported.
JobWaitReturnsNoStash(h) ==
    LET c == child[h]
        w == waitpid(c.pid, "job")
    IN  /\ w.ret # "none"
        /\ c.reaped = NoStatus
        /\ proc' = AfterWait(c.pid, w.ret)
        /\ child' = [child EXCEPT ![h].phase = "owned"]
        /\ call' = NoCall
        /\ UNCHANGED <<fate, born>>

\* What wait_job and try_wait_job do with waitpid's answer: a terminal
\* status is stashed, a stop or a continue is only reported.
JobWaitReturns(h) ==
    LET c == child[h]
        w == waitpid(c.pid, "job")
        s == decode_job(w.word)
    IN  /\ w.ret # "none"
        /\ c.reaped = NoStatus
        /\ proc' = AfterWait(c.pid, w.ret)
        /\ IF w.ret = "ECHILD"
           THEN /\ child' = [child EXCEPT ![h].phase = "owned"]
                /\ call' = Called("wait", "ECHILD", FALSE, {}, {})
           ELSE /\ child' = [child EXCEPT ![h].phase = "owned",
                        ![h].reaped = IF IsJobEvent(s) THEN @ ELSE s,
                        ![h].told = IF IsJobEvent(s) THEN @ ELSE s]
                /\ call' = NoCall
        /\ UNCHANGED <<fate, born>>

wait_jobReturns(h) == child[h].phase = "jobwait" /\ JobWaitReturns(h)

\* With a stashed status, try_wait_job does what try_wait does.
try_wait_job(h) == child[h].phase = "owned" /\ JobWaitReturns(h)

kill_single(h, sig) ==
    LET c == child[h]
        targets == {p \in Pid : p = c.pid /\ Used(p)}
    IN  /\ c.phase = "owned"
        /\ Deliver(targets, sig)
        /\ call' = Called("kill_single", IF targets = {} THEN "ESRCH" ELSE "Ok",
                          c.reaped # NoStatus, {c.inc}, Incs(targets))
        /\ UNCHANGED <<child, fate, born>>

\* For kill_tree, `own` and `hit` are groups, named by their founders.
OwnGroup(c) == IF c.group = NoGroup THEN {} ELSE {c.job}

\* kill_tree that falls back to the program's own group.
kill_treeNoRefusal(h, sig) ==
    LET c == child[h]
        g == IF c.group = NoGroup THEN 0 ELSE c.group
    IN  /\ c.phase = "owned"
        /\ Deliver(Members(g), sig)
        /\ call' = Called("kill_tree", "Ok", c.reaped # NoStatus,
                     OwnGroup(c), {proc[p].job : p \in Members(g)} \union
                              (IF ReachesParent(g) THEN {0} ELSE {}))
        /\ UNCHANGED <<child, fate, born>>

kill_tree(h, sig) ==
    LET c == child[h]
        targets == Members(c.group)
    IN  /\ c.phase = "owned"
        /\ IF c.group = NoGroup
           THEN /\ call' = Called("kill_tree", "Unsupported",
                                  c.reaped # NoStatus, OwnGroup(c), {})
                /\ UNCHANGED proc
           ELSE /\ Deliver(targets, sig)
                /\ call' = Called("kill_tree",
                        IF targets = {} /\ ~ReachesParent(c.group)
                        THEN "ESRCH" ELSE "Ok",
                        c.reaped # NoStatus, OwnGroup(c),
                        {proc[p].job : p \in targets} \union
                        (IF ReachesParent(c.group) THEN {0} ELSE {}))
        /\ UNCHANGED <<child, fate, born>>

\* LinuxChild has no Drop of its own: nothing is killed and nothing reaped.
DropChild(h) ==
    /\ child[h].phase = "owned"
    /\ child' = [child EXCEPT ![h].phase = "dropped"]
    /\ call' = NoCall
    /\ UNCHANGED <<proc, fate, born>>

\* A liveness probe that takes a zombie for dead.
is_aliveNoZombie(p) == proc[p].state \in {"running", "stopped", "dying"}

\* The two probes; a missing /proc entry is "not a zombie".
is_alive(p) == Used(p)
is_zombie(p) == proc[p].state = "zombie"

-----------------------------------------------------------------------------
Init ==
    /\ proc = [p \in Pid |-> Free]
    /\ child = [h \in Handle |-> NoChild]
    /\ fate = [i \in 1..MaxBorn |-> NoStatus]
    /\ born = 0
    /\ call = NoCall

Kernel ==
    \/ \E p \in Pid, s \in Terminal : Terminate(p, s)
    \/ \E p, q \in Pid : Fork(p, q)
    \/ \E q \in Pid : Stranger(q)
    \/ \E p \in Pid : ForeignTerminate(p) \/ ForeignReap(p)

Program ==
    \/ \E spec \in GroupSpecs, d \in BOOLEAN :
          \/ SpawnRefused(spec, d)
          \/ \E err \in {"NotFound", "Errno"} : SpawnFails(spec, d, err)
          \/ \E h \in Handle, pid \in Pid : Spawn(h, spec, d, pid)
    \/ \E h \in Handle :
          \/ try_wait(h) \/ wait(h) \/ waitReturns(h)
          \/ wait_job(h) \/ wait_jobReturns(h) \/ try_wait_job(h)
          \/ DropChild(h)
          \/ \E sig \in SignalsSent : kill_single(h, sig) \/ kill_tree(h, sig)

Next == Kernel \/ Program

\* The kernel finishes a process it has killed, and a thread blocked in
\* waitpid is woken once its child is a zombie.  Nothing makes a child end
\* of its own accord.
Fairness ==
    /\ \A p \in Pid :
          WF_vars(proc[p].state = "dying" /\ \E s \in Terminal : Terminate(p, s))
    /\ \A h \in Handle : WF_vars(waitReturns(h)) /\ WF_vars(wait_jobReturns(h))

Spec == Init /\ [][Next]_vars
FairSpec == Spec /\ Fairness

-----------------------------------------------------------------------------
(* Properties                                                              *)

ProcRecord ==
    [state : {"free", "running", "stopped", "dying", "zombie"},
     inc : 0..MaxBorn, pgid : Nat, job : Nat, word : Nat,
     event : {"none", "stopped", "continued"}, ours : BOOLEAN, home : BOOLEAN]

ChildRecord ==
    [phase : {"none", "owned", "waiting", "jobwait", "waited", "dropped"},
     pid : Pid \union {0}, inc : 0..MaxBorn, job : Nat,
     group : Nat \union {NoGroup},
     reaped : Terminal \union {NoStatus}, told : Terminal \union {NoStatus}]

\* Every variable has its type; in particular the stash and everything
\* try_wait and wait ever report is a decoded Code or Signaled, never a raw
\* status word, a stop or a continue.
TypeOK ==
    /\ proc \in [Pid -> ProcRecord]
    /\ child \in [Handle -> ChildRecord]
    /\ fate \in [1..MaxBorn -> Terminal \union {NoStatus}]
    /\ born \in 0..MaxBorn
    /\ call.op \in {"none", "spawn", "wait", "kill_single", "kill_tree"}

\* The handle is still in the program's hands and holds no status.
Unreaped(h) == /\ child[h].phase \in {"owned", "waiting", "jobwait"}
               /\ child[h].reaped = NoStatus

\* Until its status is stashed, a handle's pid names the very process that
\* was spawned: no recycled pid, and waitpid can never answer ECHILD.  This
\* is what makes the "not yet waited on" SAFETY comments of sys/spawn.rs true.
UnreapedIsTheChild ==
    \A h \in Handle : Unreaped(h) =>
        /\ child[h].pid \in Pid
        /\ proc[child[h].pid].inc = child[h].inc
        /\ proc[child[h].pid].ours
        /\ Used(child[h].pid)

\* Polling never loses or alters the exit status: what the handle stashed
\* and what the caller was told is how that process really ended.
StatusIsTrue ==
    \A h \in Handle : LET c == child[h] IN
        /\ c.reaped # NoStatus => c.inc \in 1..MaxBorn /\ c.reaped = fate[c.inc]
        /\ c.told # NoStatus => c.inc \in 1..MaxBorn /\ c.told = fate[c.inc]

\* kill_single on a handle without a stashed status reaches its own child
\* and nothing else, whatever pids were recycled meanwhile.
KillSingleHitsTheChild ==
    call.op = "kill_single" /\ ~call.stale => call.hit = call.own

\* kill_tree on a handle without a stashed status reaches the group the
\* child was placed in and no other, and never the program itself unless
\* that group was joined by name.
KillTreeStaysInTheGroup ==
    call.op = "kill_tree" /\ ~call.stale => call.hit \subseteq call.own

\* The probes agree with the truth for a child nobody has reaped: alive
\* until its status is collected, a zombie exactly when it has terminated.
ProbesAreTruthful ==
    \A h \in Handle : Unreaped(h) =>
        /\ is_alive(child[h].pid)
        /\ is_zombie(child[h].pid) <=> fate[child[h].inc] # NoStatus

\* A consuming wait on a child that was killed returns: the zombie is
\* reaped and nobody blocks for ever on a dead child.
KilledChildIsReaped ==
    \A h \in Handle :
        (child[h].phase = "waiting" /\ proc[child[h].pid].state = "dying")
            ~> child[h].phase = "waited"

\* The handle implements the contract of the Child trait: the caller is told
\* how the process ended, never anything else, and a wait that consumes the
\* handle always tells.
Contract == INSTANCE ChildContract WITH
    phase <- [h \in Handle |->
                IF child[h].phase \in {"waiting", "jobwait", "owned"}
                THEN "live" ELSE child[h].phase],
    outcome <- [h \in Handle |->
                IF child[h].phase = "none" THEN NoStatus ELSE fate[child[h].inc]],
    told <- [h \in Handle |-> child[h].told]

ImplementsContract == Contract!Spec

\* kill_single as documented: the signal goes to the child process only,
\* with no exception for a handle whose status is already stashed.
KillSingleNeverHitsOthers ==
    call.op = "kill_single" => call.hit \subseteq call.own
=============================================================================
