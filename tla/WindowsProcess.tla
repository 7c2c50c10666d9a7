---------------------------- MODULE WindowsProcess ----------------------------
(***************************************************************************)
(* The Windows process backend (platform-windows/src/process.rs and        *)
(* sys/proc.rs): several threads of one process spawn children, grouped    *)
(* children go through suspended - assign - resume with a kill-on-close    *)
(* job object, and the handles are waited for, killed, disowned, dropped   *)
(* or lost with the process.  External: the kernel's processes, jobs, pids *)
(* and inheritable handles.                                                *)
(*                                                                         *)
(* Steps that change nothing (a signal other than Kill, wait_job,          *)
(* kill_tree without a job, is_zombie: all Unsupported) are left out.      *)
(***************************************************************************)
EXTENDS Integers, FiniteSets

CONSTANTS
    Handle,     \* one spawn call, and the WindowsChild it may return
    Pid,        \* process ids; recycled when no handle keeps the object
    Cmds,       \* the Commands that are tried
    Codes,      \* the exit codes processes choose
    MaxBorn,    \* bound: processes created in all
    TrackW,     \* the arm of make_pipe: ends are marked up, not down; not the default
    Adopter,    \* the one WindowsGroupHandle, and its job
    NoStatus    \* Option::None

\* The fields of a Command that matter here; stdio is that of one of its
\* slots, the other slots are Inherit.
Cmd == [group : {"Inherit", "NewGroup", "JoinGroup"}, detached : BOOLEAN,
        stdio : {"Inherit", "NullOrFile", "Pipe"}]

ASSUME MaxBornNat == MaxBorn \in Nat
ASSUME CmdsAreCommands == Cmds \subseteq Cmd
ASSUME AdopterIsNoHandle == Adopter \notin Handle
ASSUME ArmIsChosen == TrackW \in BOOLEAN

STILL_ACTIVE == 259     \* what GetExitCodeProcess says of a running process
KillCode == 1           \* the code terminate_job and terminate_process pass

\* An exit code is never taken for None.
ASSUME CodesAreStatuses == NoStatus \notin Codes \cup {STILL_ACTIVE, KillCode}

Job == Handle \cup {Adopter}
Born == 1..MaxBorn
\* What spawn opens: handles for the child alone, which close with the call
\* (a pipe's child end, NUL, duplicates), and the parent's end of a pipe.
End == {"child", "parent"}

VARIABLES
    proc,       \* by number of birth: a process
    born,       \* how many processes there have been
    pc,         \* by handle: the step of spawn, or what became of the child
    cmd,        \* by handle: the Command
    process,    \* by handle, and the adopter's: the process it refers to (0: none)
    reaped,     \* by handle: the stashed status, which is the one last reported
    job,        \* by job: "none", "open", "armed" (kill-on-close) or "closed"
    disowned,   \* handles whose job handle was taken by the caller
    ends,       \* handles spawn opened that are open in this process: <<h, kind>>
    inheritable,\* those of them that are inheritable
    taken,      \* handles whose parent end the caller has taken
    up          \* this process runs; the model ends with it

spawnVars == <<pc, cmd>>
pipeVars == <<ends, inheritable, taken>>
handleVars == <<process, reaped, disowned>>
vars == <<proc, born, pc, cmd, process, reaped, job, disowned, ends,
          inheritable, taken, up>>

Alive(p) == proc[p].st \in {"suspended", "running", "dying"}
Grouped(h) == cmd[h].group = "NewGroup"
Running == {p \in 1..born : proc[p].st = "running"}

\* Handles of this process that keep a process object in existence.
Opened(h) == up /\ pc[h] \in {"job", "limit", "assign", "resume", "return", "live"}
Object(p) ==
    \/ Alive(p)
    \/ \E h \in Handle : Opened(h) /\ process[h] = p
    \/ up /\ process[Adopter] = p
Named(k) == {p \in 1..born : proc[p].pid = k /\ Object(p)}

Init ==
    /\ proc = [p \in Born |-> [st |-> "unborn"]]
    /\ born = 0
    /\ pc = [h \in Handle |-> "idle"]
    /\ cmd \in [Handle -> Cmds]
    /\ process = [h \in Job |-> 0]
    /\ reaped = [h \in Handle |-> NoStatus]
    /\ job = [j \in Job |-> "none"]
    /\ disowned = {}
    /\ ends = {} /\ inheritable = {} /\ taken = {}
    /\ up = TRUE

-----------------------------------------------------------------------------
(* The kernel *)

NewProcess(h, k, st, jobs, holds) ==
    /\ born < MaxBorn
    /\ Named(k) = {}
    /\ born' = born + 1
    /\ proc' = [proc EXCEPT ![born + 1] =
                   [st |-> st, pid |-> k, code |-> STILL_ACTIVE, of |-> h,
                    jobs |-> jobs, holds |-> holds]]

\* Termination is only begun by the call: the processes die a moment later.
Terminated(pr, P) ==
    [p \in Born |-> IF p \in P /\ pr[p].st \in {"suspended", "running"}
                    THEN [pr[p] EXCEPT !.st = "dying"] ELSE pr[p]]
Members(j) == {p \in 1..born : j \in proc[p].jobs}
\* What the last close of the handles of the jobs J does to their members.
Closing(J) == UNION {Members(j) : j \in {i \in J : job[i] = "armed"}}
Closed(J) == [j \in Job |-> IF j \in J /\ job[j] # "none" THEN "closed" ELSE job[j]]

Exit(p, c) ==
    /\ up /\ p \in Running
    /\ proc' = [proc EXCEPT ![p].st = "exited", ![p].code = c, ![p].holds = {}]
    /\ UNCHANGED <<born, spawnVars, handleVars, job, pipeVars, up>>

Die(p) ==
    /\ up /\ p \in 1..born /\ proc[p].st = "dying"
    /\ proc' = [proc EXCEPT ![p].st = "exited", ![p].code = KillCode, ![p].holds = {}]
    /\ UNCHANGED <<born, spawnVars, handleVars, job, pipeVars, up>>

\* A descendant is in the jobs of its parent and inherits its handles.
Fork(p, k) ==
    /\ up /\ p \in Running
    /\ NewProcess(proc[p].of, k, "running", proc[p].jobs, proc[p].holds)
    /\ UNCHANGED <<spawnVars, handleVars, job, pipeVars, up>>

-----------------------------------------------------------------------------
(* spawn *)

Step(h, from, to) == up /\ pc[h] = from /\ pc' = [pc EXCEPT ![h] = to]

\* A pid cannot be joined, and a job would take a detached child with it.
RefusedNever(c) == c.group = "JoinGroup"
Refused(c) == c.group = "JoinGroup" \/ (c.detached /\ c.group = "NewGroup")

After(stdio) == CASE stdio = "Inherit" -> "create" [] stdio = "Pipe" -> "pipe"
                  [] OTHER -> "slot"
use_handles(h) == cmd[h].stdio # "Inherit"

\* Refusals come first; then resolve and the command line, which may fail.
Begin(h) ==
    /\ \/ Refused(cmd[h]) /\ Step(h, "idle", "failed")
       \/ ~Refused(cmd[h]) /\ Step(h, "idle", After(cmd[h].stdio))
    /\ UNCHANGED <<proc, born, cmd, handleVars, job, pipeVars, up>>

NotResolved(h) ==
    /\ Step(h, "idle", "failed")
    /\ UNCHANGED <<proc, born, cmd, handleVars, job, pipeVars, up>>

make_pipe(h) ==
    /\ Step(h, "pipe", "flag")
    /\ ends' = ends \cup {h} \X End
    /\ inheritable' = IF TrackW THEN inheritable ELSE inheritable \cup {h} \X End
    /\ UNCHANGED <<proc, born, cmd, handleVars, job, taken, up>>

\* Track W marks the child's end inheritable; the other arm had both ends
\* inheritable and clears the parent's.
set_inheritable(h) ==
    /\ Step(h, "flag", "std")
    /\ inheritable' = IF TrackW THEN inheritable \cup {<<h, "child">>}
                                ELSE inheritable \ {<<h, "parent">>}
    /\ UNCHANGED <<proc, born, cmd, handleVars, job, ends, taken, up>>

OpenSlot(h) ==
    /\ ends' = ends \cup {<<h, "child">>}
    /\ inheritable' = inheritable \cup {<<h, "child">>}
    /\ UNCHANGED <<proc, born, cmd, handleVars, job, taken, up>>

inheritable_nul(h) ==
    Step(h, "slot", "std") /\ OpenSlot(h)

\* A file of another backend is refused: SlotFails.
inheritable_dup_of_file(h) ==
    Step(h, "slot", "std") /\ OpenSlot(h)

\* The Inherit slots of a redirected spawn.
inheritable_dup_of_std(h) ==
    Step(h, "std", "create") /\ OpenSlot(h)

Without(h) == {e \in ends : e[1] # h}

\* A slot handle or the process cannot be made: what was opened is dropped.
SlotFails(h) ==
    /\ pc[h] \in {"pipe", "flag", "slot", "std", "create"}
    /\ Step(h, pc[h], "failed")
    /\ ends' = Without(h)
    /\ inheritable' = inheritable \cap Without(h)
    /\ UNCHANGED <<proc, born, cmd, handleVars, job, taken, up>>

\* With any slot redirected the child inherits every inheritable handle of
\* the process, not only its own three.
CreateProcessRunning(h, k) ==
    /\ Step(h, "create", IF Grouped(h) THEN "job" ELSE "return")
    /\ NewProcess(h, k, "running", {}, IF use_handles(h) THEN inheritable ELSE {})
    /\ process' = [process EXCEPT ![h] = born + 1]
    /\ UNCHANGED <<cmd, reaped, disowned, job, pipeVars, up>>

CreateProcess(h, k) ==
    /\ Step(h, "create", IF Grouped(h) THEN "job" ELSE "return")
    /\ NewProcess(h, k, IF Grouped(h) THEN "suspended" ELSE "running", {},
                  IF use_handles(h) THEN inheritable ELSE {})
    /\ process' = [process EXCEPT ![h] = born + 1]
    /\ UNCHANGED <<cmd, reaped, disowned, job, pipeVars, up>>

CreateJob(h) ==
    /\ Step(h, "job", "limit")
    /\ job' = [job EXCEPT ![h] = "open"]
    /\ UNCHANGED <<proc, born, cmd, handleVars, pipeVars, up>>

set_kill_on_close(h) ==
    /\ Step(h, "limit", "assign")
    /\ job' = [job EXCEPT ![h] = "armed"]
    /\ UNCHANGED <<proc, born, cmd, handleVars, pipeVars, up>>

assign_to_job(h) ==
    /\ Step(h, "assign", "resume")
    /\ proc' = [proc EXCEPT ![process[h]].jobs = @ \cup {h}]
    /\ UNCHANGED <<born, cmd, handleVars, job, pipeVars, up>>

resume_thread(h) ==
    /\ Step(h, "resume", "return")
    /\ proc' = [proc EXCEPT ![process[h]].st = "running"]
    /\ UNCHANGED <<born, cmd, handleVars, job, pipeVars, up>>

\* The closure returns Err: its job is dropped, then the child terminated,
\* and the handles of the call go with the stack.
SequenceFailsQuietly(h) ==
    /\ pc[h] \in {"job", "limit", "assign", "resume"}
    /\ Step(h, pc[h], "failed")
    /\ proc' = Terminated(proc, Closing({h}))
    /\ job' = Closed({h})
    /\ ends' = Without(h)
    /\ inheritable' = inheritable \cap Without(h)
    /\ UNCHANGED <<born, cmd, handleVars, taken, up>>

SequenceFails(h) ==
    /\ pc[h] \in {"job", "limit", "assign", "resume"}
    /\ Step(h, pc[h], "failed")
    /\ proc' = Terminated(Terminated(proc, Closing({h})), {process[h]})
    /\ job' = Closed({h})
    /\ ends' = Without(h)
    /\ inheritable' = inheritable \cap Without(h)
    /\ UNCHANGED <<born, cmd, handleVars, taken, up>>

Return(h) ==
    /\ Step(h, "return", "live")
    /\ ends' = ends \ {<<h, "child">>}
    /\ inheritable' = inheritable \ {<<h, "child">>}
    /\ UNCHANGED <<proc, born, cmd, handleVars, job, taken, up>>

-----------------------------------------------------------------------------
(* WindowsChild *)

Live(h) == up /\ pc[h] = "live"
HasJob(h) == Grouped(h) /\ h \notin disowned

\* The Box goes out of scope: process, job if still there, pipe if still there.
Dropped(h) ==
    /\ LET J == IF HasJob(h) THEN {h} ELSE {} IN
       /\ proc' = Terminated(proc, Closing(J))
       /\ job' = Closed(J)
    /\ ends' = IF h \in taken THEN ends ELSE Without(h)
    /\ inheritable' = inheritable \cap ends'

Status(h) ==
    IF reaped[h] # NoStatus THEN reaped[h]
    ELSE IF proc[process[h]].st = "exited" THEN proc[process[h]].code ELSE NoStatus

wait(h) ==
    /\ Step(h, "live", "waited")
    /\ Status(h) # NoStatus
    /\ reaped' = [reaped EXCEPT ![h] = Status(h)]
    /\ Dropped(h)
    /\ UNCHANGED <<born, cmd, process, disowned, taken, up>>

drop(h) ==
    /\ Step(h, "live", "dropped")
    /\ Dropped(h)
    /\ UNCHANGED <<born, cmd, handleVars, taken, up>>

\* The wait object is asked, never the exit code: 259 is a code like any other.
try_waitByCode(h) ==
    /\ Live(h)
    /\ proc[process[h]].code # STILL_ACTIVE \/ proc[process[h]].st = "dying"
    /\ reaped' = [reaped EXCEPT ![h] = IF @ = NoStatus THEN proc[process[h]].code ELSE @]
    /\ UNCHANGED <<proc, born, spawnVars, process, disowned, job, pipeVars, up>>

try_wait(h) ==
    /\ Live(h)
    /\ Status(h) # NoStatus
    /\ reaped' = [reaped EXCEPT ![h] = Status(h)]
    /\ UNCHANGED <<proc, born, spawnVars, process, disowned, job, pipeVars, up>>

kill_tree(h) ==
    /\ Live(h) /\ HasJob(h)
    /\ proc' = Terminated(proc, Members(h))
    /\ UNCHANGED <<born, spawnVars, handleVars, job, pipeVars, up>>

kill_single(h) ==
    /\ Live(h)
    /\ proc' = Terminated(proc, {process[h]})
    /\ UNCHANGED <<born, spawnVars, handleVars, job, pipeVars, up>>

take_stdout(h) ==
    /\ Live(h) /\ <<h, "parent">> \in ends /\ h \notin taken
    /\ taken' = taken \cup {h}
    /\ UNCHANGED <<proc, born, spawnVars, handleVars, job, ends, inheritable, up>>

CloseTaken(h) ==
    /\ up /\ h \in taken
    /\ ends' = Without(h)
    /\ taken' = taken \ {h}
    /\ UNCHANGED <<proc, born, spawnVars, handleVars, job, inheritable, up>>

disown(h) ==
    /\ Live(h) /\ HasJob(h)
    /\ disowned' = disowned \cup {h}
    /\ UNCHANGED <<proc, born, spawnVars, process, reaped, job, pipeVars, up>>

\* The caller of disown drops the handle it was given.
CloseDisowned(h) ==
    /\ up /\ h \in disowned /\ job[h] = "armed"
    /\ proc' = Terminated(proc, Closing({h}))
    /\ job' = Closed({h})
    /\ UNCHANGED <<born, spawnVars, handleVars, pipeVars, up>>

-----------------------------------------------------------------------------
(* WindowsGroupHandle *)

\* The open handle keeps the process object between OpenProcess and the
\* assignment; a failure at any step leaves the process as it was.
adopt(k) ==
    /\ up /\ process[Adopter] = 0
    /\ \E p \in Named(k) :
           /\ proc[p].st = "running"
           /\ process' = [process EXCEPT ![Adopter] = p]
           /\ job' = [job EXCEPT ![Adopter] = "armed"]
           /\ proc' = [proc EXCEPT ![p].jobs = @ \cup {Adopter}]
    /\ UNCHANGED <<born, spawnVars, reaped, disowned, pipeVars, up>>

GroupKillTree ==
    /\ up /\ job[Adopter] = "armed"
    /\ proc' = Terminated(proc, Members(Adopter))
    /\ UNCHANGED <<born, spawnVars, handleVars, job, pipeVars, up>>

GroupKillSingle ==
    /\ up /\ job[Adopter] = "armed"
    /\ proc' = Terminated(proc, {process[Adopter]})
    /\ UNCHANGED <<born, spawnVars, handleVars, job, pipeVars, up>>

GroupDrop ==
    /\ up /\ job[Adopter] = "armed"
    /\ proc' = Terminated(proc, Closing({Adopter}))
    /\ job' = Closed({Adopter})
    /\ process' = [process EXCEPT ![Adopter] = 0]
    /\ UNCHANGED <<born, spawnVars, reaped, disowned, pipeVars, up>>

\* This process ends, in any way: the system closes all its handles.
Crash ==
    /\ up
    /\ up' = FALSE
    /\ proc' = Terminated(proc, Closing(Job))
    /\ job' = Closed(Job)
    /\ ends' = {} /\ inheritable' = {}
    /\ UNCHANGED <<born, spawnVars, handleVars, taken>>

-----------------------------------------------------------------------------
SpawnStep(h) ==
    \/ Begin(h) \/ NotResolved(h)
    \/ make_pipe(h) \/ set_inheritable(h) \/ inheritable_nul(h)
    \/ inheritable_dup_of_file(h) \/ inheritable_dup_of_std(h) \/ SlotFails(h)
    \/ \E k \in Pid : CreateProcess(h, k)
    \/ CreateJob(h) \/ set_kill_on_close(h) \/ assign_to_job(h) \/ resume_thread(h)
    \/ SequenceFails(h) \/ Return(h)

ChildStep(h) ==
    \/ wait(h) \/ try_wait(h) \/ drop(h) \/ kill_tree(h) \/ kill_single(h)
    \/ take_stdout(h) \/ CloseTaken(h) \/ disown(h) \/ CloseDisowned(h)

GroupStep ==
    \/ \E k \in Pid : adopt(k)
    \/ GroupKillTree \/ GroupKillSingle \/ GroupDrop

KernelStep ==
    \/ \E p \in Born : Die(p) \/ \E c \in Codes : Exit(p, c)
    \/ \E p \in Born, k \in Pid : Fork(p, k)

Next ==
    \/ \E h \in Handle : SpawnStep(h) \/ ChildStep(h)
    \/ GroupStep \/ KernelStep \/ Crash

Spec == Init /\ [][Next]_vars

-----------------------------------------------------------------------------
(* Liveness probe of a pid whose object this process may open. *)
is_alive(k) == \E p \in Named(k) : Alive(p) \/ proc[p].code = STILL_ACTIVE

Process ==
    [st : {"suspended", "running", "dying", "exited"}, pid : Pid,
     code : Codes \cup {STILL_ACTIVE, KillCode}, of : Handle, jobs : SUBSET Job,
     holds : SUBSET (Handle \X End)]

\* The state is of the right shape: processes are born in order, and a
\* handle past CreateProcessW refers to a process born for it.
TypeOK ==
    /\ born \in 0..MaxBorn
    /\ \A p \in Born : IF p <= born THEN proc[p] \in Process ELSE proc[p].st = "unborn"
    /\ cmd \in [Handle -> Cmd]
    /\ \A h \in Handle : Opened(h) => process[h] \in 1..born /\ proc[process[h]].of = h
    /\ job \in [Job -> {"none", "open", "armed", "closed"}]
    /\ inheritable \subseteq ends /\ ends \subseteq Handle \X End

\* Whatever a NewGroup child or one of its descendants executes, it executes
\* inside the job, so that kill_tree and kill-on-close miss nobody (the
\* suspended - assign - resume sequence of sys::proc::spawn).
GroupedFromTheStart ==
    \A p \in Running : LET h == proc[p].of IN
        Grouped(h) => h \in proc[p].jobs

\* A spawn that failed leaves no process, no pipe end and no job behind
\* (the clean-up of sys::proc::spawn), whichever of its steps failed.
FailedSpawnLeavesNothing ==
    \A h \in Handle : up /\ pc[h] = "failed" =>
        /\ \A p \in 1..born : proc[p].of = h => proc[p].st \in {"dying", "exited"}
        /\ \A e \in ends : e[1] # h
        /\ job[h] \in {"none", "closed"}

\* When a grouped child was waited for or dropped and its job was not
\* disowned, nothing of its tree goes on (kill-on-close, WindowsChild).
GoneMeansGone ==
    \A h \in Handle : pc[h] \in {"waited", "dropped"} /\ HasJob(h) =>
        \A p \in Running : proc[p].of # h

\* The two ways to ask agree: a child whose stashed status is not 259 is
\* not alive for is_alive while the handle pins its pid, and a child that
\* is not alive has a status for try_wait.
ProbesAgree ==
    \A h \in Handle : Live(h) =>
        LET alive == is_alive(proc[process[h]].pid) IN
        /\ reaped[h] \notin {NoStatus, STILL_ACTIVE} => ~alive
        /\ ~alive => Status(h) # NoStatus

\* The parent's end of a pipe is not in the child it leads to, nor in what that
\* child starts: its reader would wait for an end of file that cannot come.  In
\* the default arm of make_pipe both ends are inheritable at first, so that a
\* child another thread creates meanwhile takes the parent's end along; with
\* Track W no process does.
ParentEndStaysHome ==
    \A p \in 1..born : \A h \in Handle :
        <<h, "parent">> \in proc[p].holds => ~TrackW /\ proc[p].of # h

\* "The parent end must never leak into any child" (make_pipe), in either arm.
ParentEndNeverLeaks ==
    \A p \in 1..born : \A h \in Handle : <<h, "parent">> \notin proc[p].holds

\* What sys::proc::spawn opens and starts is whole or gone: the type invariant,
\* nothing left of a spawn that failed, and the parent's end of a pipe not in
\* its own child, nor in any other unless an overlapping spawn of the default
\* arm took it.
SpawnIsClean == TypeOK /\ FailedSpawnLeavesNothing /\ ParentEndStaysHome

\* A group is complete from its first instruction to its last (sys::proc::spawn,
\* Drop for WindowsChild), and is_alive and try_wait tell the same of it.
GroupsHold == GroupedFromTheStart /\ GoneMeansGone /\ ProbesAgree

\* A detached child survives the end of this process, however sudden, unless
\* it was adopted (Command::detach, refused together with NewGroup).
DetachedOutlives ==
    [][up' # up => \A p \in Running : LET h == proc[p].of IN
           cmd[h].detached /\ Adopter \notin proc[p].jobs
               => proc'[p].st = "running"]_vars

\* The handle keeps the promises of the Child trait about statuses.
PhaseOf(h) ==
    CASE pc[h] \in {"return", "live"} -> "live"
      [] pc[h] \in {"waited", "dropped"} -> pc[h]
      [] OTHER -> "none"
OutcomeOf(h) ==
    IF PhaseOf(h) # "none" /\ proc[process[h]].st = "exited"
    THEN proc[process[h]].code ELSE NoStatus
Contract == INSTANCE ChildContract WITH
    Terminal <- Codes \cup {KillCode},
    told <- reaped,
    phase <- [h \in Handle |-> PhaseOf(h)],
    outcome <- [h \in Handle |-> OutcomeOf(h)]

\* Statuses are reported as ChildContract says: each child's own, always the
\* same, and handed over once by wait.
ImplementsContract == Contract!Spec
=============================================================================
