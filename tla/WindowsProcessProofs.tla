------------------------ MODULE WindowsProcessProofs ------------------------
(***************************************************************************)
(* Theorems about WindowsProcess, for any set of spawns, pids, Commands    *)
(* and exit codes, and for processes in any number.                        *)
(***************************************************************************)
EXTENDS WindowsProcess, TLAPS

-----------------------------------------------------------------------------
(* The inductive invariant                                                 *)

\* Where a spawn is: before CreateProcessW, between it and ResumeThread, and
\* with a child that was handed out.
Before == {"idle", "pipe", "flag", "slot", "std", "create"}
Sequence == {"job", "limit", "assign", "resume"}
Handed == {"live", "waited", "dropped"}
Made == Sequence \cup {"return"} \cup Handed

\* What TypeOK leaves open.
Shape ==
    /\ TypeOK
    /\ proc = [p \in Born |-> proc[p]]
    /\ pc \in [Handle -> Before \cup Made \cup {"failed"}]
    /\ process \in [Job -> 0..born]
    /\ reaped \in [Handle -> Codes \cup {KillCode, NoStatus}]
    /\ disowned \subseteq Handle /\ taken \subseteq Handle
    /\ up \in BOOLEAN

\* The pipe ends of a spawn: none before they are made or after a failure,
\* the parent's inheritable only while it is being marked, the child's not
\* once spawn has returned, and only then can the parent's be taken.
Pipes ==
    /\ \A h \in Handle :
          /\ pc[h] \in {"idle", "pipe", "slot", "failed"} => \A e \in ends : e[1] # h
          /\ up /\ pc[h] = "flag" => <<h, "child">> \in ends
          /\ pc[h] # "flag" => <<h, "parent">> \notin inheritable
          /\ pc[h] \in Handed => <<h, "child">> \notin inheritable
          /\ h \in taken => pc[h] \in Handed
    /\ TrackW => \A e \in inheritable : e[2] = "child"

\* Whose a process is: a spawn that has not got to CreateProcessW has none, one
\* that has refers to its own.  Its jobs are its spawn's, if that one is
\* grouped, and the adopter's.
Ownership ==
    /\ \A h \in Handle :
          /\ pc[h] \in Before => \A p \in 1..born : proc[p].of # h
          /\ pc[h] \in Made => process[h] \in 1..born /\ proc[process[h]].of = h
          /\ pc[h] \in Sequence => Grouped(h)
    /\ \A p \in 1..born :
          /\ proc[p].jobs \subseteq {proc[p].of, Adopter}
          /\ proc[p].of \in proc[p].jobs => Grouped(proc[p].of)

\* The adopted process is in the adopter's job.
Adopted == process[Adopter] # 0 => Adopter \in proc[process[Adopter]].jobs

\* A Command that is refused starts nothing.
NoneIsRefused ==
    /\ \A h \in Handle : pc[h] \notin {"idle", "failed"} => ~Refused(cmd[h])
    /\ \A p \in 1..born : ~Refused(cmd[proc[p].of])

\* Until ResumeThread the child is suspended, the only process of its spawn,
\* and in its job as soon as it is assigned to it.
Suspended ==
    \A h \in Handle : up /\ pc[h] \in Sequence =>
        /\ \A p \in 1..born : proc[p].of = h => p = process[h]
        /\ proc[process[h]].st = "suspended"
        /\ proc[process[h]].jobs = IF pc[h] = "resume" THEN {h} ELSE {}

\* A group's job is armed before it has a member, and stays so while the child
\* has it.  Only a child that was handed out is disowned.
JobsAreArmed ==
    \A h \in Handle :
        /\ pc[h] \in Before => job[h] = "none"
        /\ up /\ pc[h] \in {"assign", "resume", "return", "live"} /\ HasJob(h) => job[h] = "armed"
        /\ up /\ pc[h] = "failed" => job[h] \in {"none", "closed"}
        /\ h \in disowned => pc[h] \in Handed

\* A stashed status is that of the child, which has exited.
StashIsTrue ==
    \A h \in Handle :
        /\ reaped[h] # NoStatus =>
              /\ pc[h] \in Handed
              /\ proc[process[h]].st = "exited" /\ proc[process[h]].code = reaped[h]
        /\ pc[h] = "waited" => reaped[h] # NoStatus

\* A process that runs has not exited, and one that has exited did so with a
\* code of its own or of its killer.
CodesAreOwn ==
    \A p \in 1..born : proc[p].st = "exited" => proc[p].code \in Codes \cup {KillCode}

\* While somebody keeps a process object, nobody else has its pid.
PidsAreUnique ==
    \A p, q \in 1..born : Object(p) /\ Object(q) /\ proc[p].pid = proc[q].pid => p = q

\* Nothing of a spawn that failed runs.
NothingRuns ==
    \A h \in Handle : up /\ pc[h] = "failed" =>
        \A p \in 1..born : proc[p].of = h => proc[p].st \in {"dying", "exited"}

IInv ==
    /\ Shape
    /\ Pipes
    /\ ParentEndStaysHome
    /\ Ownership
    /\ Adopted
    /\ NoneIsRefused
    /\ Suspended
    /\ JobsAreArmed
    /\ StashIsTrue
    /\ CodesAreOwn
    /\ PidsAreUnique
    /\ GroupedFromTheStart
    /\ GoneMeansGone
    /\ NothingRuns

-----------------------------------------------------------------------------
(* Steps of a spawn that only open and close its pipe ends                 *)

LEMMA PipeStepInd ==
    ASSUME IInv, NEW h \in Handle, up,
           UNCHANGED <<proc, born, cmd, process, reaped, disowned, job, up>>,
           taken' \subseteq taken \cup (IF pc[h] \in Handed THEN {h} ELSE {}),
           \/ /\ pc[h] \in Before
              /\ \E to \in Before \cup {"failed"} :
                    /\ pc' = [pc EXCEPT ![h] = to]
                    /\ to \notin {"idle", "failed"} => ~Refused(cmd[h])
           \/ pc[h] = "return" /\ pc' = [pc EXCEPT ![h] = "live"]
           \/ pc[h] \in Handed /\ pc' = pc,
           inheritable' \subseteq ends', ends' \subseteq Handle \X End,
           Pipes'
    PROVE  IInv'
<1> USE DEF Before, Sequence, Handed, Made
<1>1. Shape'
  BY DEF IInv, Shape, TypeOK, Opened
<1>2. ParentEndStaysHome'
  BY DEF IInv, ParentEndStaysHome
<1>3. Ownership'
  <2>1. Ownership /\ pc \in [Handle -> Before \cup Made \cup {"failed"}]
    BY DEF IInv, Shape
  <2> QED
    BY <2>1 DEF Ownership, Grouped
<1>30. Adopted'
  BY DEF IInv, Adopted
<1>31. NoneIsRefused'
  BY DEF IInv, Shape, NoneIsRefused
<1>4. Suspended'
  BY DEF IInv, Shape, Suspended
<1>5. JobsAreArmed'
  BY DEF IInv, Shape, JobsAreArmed, HasJob, Grouped
<1>6. StashIsTrue'
  BY DEF IInv, Shape, StashIsTrue
<1>7. CodesAreOwn'
  BY DEF IInv, CodesAreOwn
<1>8. PidsAreUnique'
  BY DEF IInv, Shape, PidsAreUnique, Object, Opened, Alive
<1>9. GroupedFromTheStart'
  BY DEF IInv, GroupedFromTheStart, Running, Grouped
<1>10. GoneMeansGone'
  BY DEF IInv, Shape, GoneMeansGone, Running, HasJob, Grouped
<1>11. NothingRuns'
  <2> SUFFICES ASSUME NEW g \in Handle, pc'[g] = "failed", NEW p \in 1..born, proc[p].of = g
               PROVE  proc[p].st \in {"dying", "exited"}
    BY DEF NothingRuns
  <2>1. pc[g] \in Before \/ pc[g] = "failed"
    BY DEF IInv, Shape
  <2>2. pc[g] \notin Before
    BY DEF IInv, Ownership
  <2> QED
    BY <2>1, <2>2 DEF IInv, NothingRuns
<1> QED
  BY <1>1, <1>2, <1>3, <1>30, <1>31, <1>4, <1>5, <1>6, <1>7, <1>8, <1>9, <1>10, <1>11 DEF IInv

LEMMA PipeActionsInd ==
    ASSUME IInv, NEW h \in Handle,
           \/ Begin(h) \/ NotResolved(h) \/ make_pipe(h) \/ set_inheritable(h)
           \/ inheritable_nul(h) \/ inheritable_dup_of_file(h) \/ inheritable_dup_of_std(h)
           \/ SlotFails(h) \/ Return(h) \/ take_stdout(h) \/ CloseTaken(h)
    PROVE  IInv'
<1> USE DEF Before, Sequence, Handed, Made, Step, handleVars, spawnVars, pipeVars, End
<1>0. /\ pc \in [Handle -> Before \cup Made \cup {"failed"}]
      /\ ends \subseteq Handle \X End /\ inheritable \subseteq ends
      /\ taken \subseteq Handle
  BY DEF IInv, Shape, TypeOK
<1>1. CASE Begin(h)
  <2>1. After(cmd[h].stdio) \in {"create", "pipe", "slot"}
    BY DEF After
  <2>2. Pipes'
    BY <1>0, <1>1, <2>1 DEF Begin, IInv, Pipes
  <2> QED
    BY <1>0, <1>1, <2>1, <2>2, PipeStepInd DEF Begin
<1>2. CASE NotResolved(h)
  <2>1. Pipes'
    BY <1>0, <1>2 DEF NotResolved, IInv, Pipes
  <2> QED
    BY <1>0, <1>2, <2>1, PipeStepInd DEF NotResolved
<1>3. CASE make_pipe(h)
  <2>1. Pipes'
    BY <1>0, <1>3 DEF make_pipe, IInv, Pipes
  <2> QED
    BY <1>0, <1>3, <2>1, PipeStepInd DEF make_pipe, IInv, NoneIsRefused
<1>4. CASE set_inheritable(h)
  <2>1. Pipes'
    BY <1>0, <1>4 DEF set_inheritable, IInv, Pipes
  <2>2. <<h, "child">> \in ends
    BY <1>0, <1>4 DEF set_inheritable, IInv, Pipes
  <2>3. inheritable' \subseteq ends'
    BY <1>0, <1>4, <2>2 DEF set_inheritable
  <2> QED
    BY <1>0, <1>4, <2>1, <2>3, PipeStepInd DEF set_inheritable, IInv, NoneIsRefused
<1>5. CASE inheritable_nul(h) \/ inheritable_dup_of_file(h) \/ inheritable_dup_of_std(h)
  <2> USE DEF inheritable_nul, inheritable_dup_of_file, inheritable_dup_of_std, OpenSlot
  <2>1. Pipes'
    BY <1>0, <1>5 DEF IInv, Pipes
  <2> QED
    BY <1>0, <1>5, <2>1, PipeStepInd DEF IInv, NoneIsRefused
<1>6. CASE SlotFails(h)
  <2>1. Pipes'
    BY <1>0, <1>6 DEF SlotFails, Without, IInv, Pipes
  <2> QED
    BY <1>0, <1>6, <2>1, PipeStepInd DEF SlotFails, Without
<1>7. CASE Return(h)
  <2>1. Pipes'
    BY <1>0, <1>7 DEF Return, IInv, Pipes
  <2> QED
    BY <1>0, <1>7, <2>1, PipeStepInd DEF Return
<1>8. CASE take_stdout(h)
  <2>1. Pipes'
    BY <1>0, <1>8 DEF take_stdout, Live, IInv, Pipes
  <2> QED
    BY <1>0, <1>8, <2>1, PipeStepInd DEF take_stdout, Live
<1>9. CASE CloseTaken(h)
  <2>1. Pipes'
    BY <1>0, <1>9 DEF CloseTaken, Without, IInv, Pipes
  <2>2. \A e \in Handle \X End : e[1] = h => e \in {<<h, "child">>, <<h, "parent">>}
    OBVIOUS
  <2>3. pc[h] \in Handed /\ <<h, "child">> \notin inheritable /\ <<h, "parent">> \notin inheritable
    BY <1>0, <1>9 DEF CloseTaken, IInv, Pipes
  <2>4. inheritable' \subseteq ends'
    BY <1>0, <1>9, <2>2, <2>3 DEF CloseTaken, Without
  <2> QED
    BY <1>0, <1>9, <2>1, <2>3, <2>4, PipeStepInd DEF CloseTaken, Without
<1> QED
  BY <1>1, <1>2, <1>3, <1>4, <1>5, <1>6, <1>7, <1>8, <1>9

-----------------------------------------------------------------------------
(* New processes                                                           *)

\* The table with one more process, the last of those that were born.
Added(g, k, st, jobs, holds) ==
    /\ born \in 0..MaxBorn /\ born' = born + 1 /\ born' \in 1..MaxBorn
    /\ proc' = [p \in Born |-> proc'[p]]
    /\ \A p \in 1..born : p \in Born /\ proc'[p] = proc[p]
    /\ \A p \in Born : p > born' => proc'[p].st = "unborn"
    /\ proc'[born'] = [st |-> st, pid |-> k, code |-> STILL_ACTIVE, of |-> g,
                       jobs |-> jobs, holds |-> holds]
    /\ proc'[born'] \in Process
    /\ \A p \in 1..born' : p \in 1..born \/ p = born'
    /\ \A p \in 1..born : proc[p].pid = k => ~Object(p)

\* What CreateProcessW and a child's own spawn do to the table.
LEMMA NewProcessFacts ==
    ASSUME Shape, NEW g \in Handle, NEW k \in Pid, NEW st \in {"suspended", "running"},
           NEW jobs \in SUBSET Job, NEW holds \in SUBSET (Handle \X End),
           NewProcess(g, k, st, jobs, holds)
    PROVE  Added(g, k, st, jobs, holds)
<1> USE MaxBornNat DEF Shape, TypeOK, NewProcess, Born
<1>1. born \in 0..MaxBorn /\ born' = born + 1 /\ born' \in 1..MaxBorn
  OBVIOUS
<1>2. proc' = [p \in Born |-> proc'[p]]
  BY <1>1
<1>3. \A p \in 1..born : p \in Born /\ proc'[p] = proc[p]
  BY <1>1
<1>4. \A p \in Born : p > born' => proc'[p].st = "unborn"
  BY <1>1
<1>5. proc'[born'] = [st |-> st, pid |-> k, code |-> STILL_ACTIVE, of |-> g,
                      jobs |-> jobs, holds |-> holds]
  BY <1>1
<1>6. proc'[born'] \in Process
  BY <1>5 DEF Process
<1>7. \A p \in 1..born' : p \in 1..born \/ p = born'
  BY <1>1
<1>8. \A p \in 1..born : proc[p].pid = k => ~Object(p)
  BY DEF Named
<1> QED
  BY <1>1, <1>2, <1>3, <1>4, <1>5, <1>6, <1>7, <1>8 DEF Added

\* Every process of the table, and every handle's, is of the right shape.
LEMMA ProcessFacts ==
    ASSUME Shape
    PROVE  /\ born \in 0..MaxBorn
           /\ \A p \in 1..born : p \in Born /\ proc[p] \in Process
           /\ \A p \in 1..born : proc[p].of \in Handle
  BY MaxBornNat DEF Shape, TypeOK, Born, Process

LEMMA CreateProcessInd ==
    ASSUME IInv, NEW h \in Handle, NEW k \in Pid, CreateProcess(h, k)
    PROVE  IInv'
<1> USE DEF Before, Sequence, Handed, Made
<1> DEFINE st == IF Grouped(h) THEN "suspended" ELSE "running"
           holds == IF use_handles(h) THEN inheritable ELSE {}
<1>1. /\ pc \in [Handle -> Before \cup Made \cup {"failed"}]
      /\ inheritable \subseteq ends /\ ends \subseteq Handle \X End
      /\ process \in [Job -> 0..born]
  BY DEF IInv, Shape, TypeOK
<1>2. /\ up /\ pc[h] = "create"
      /\ pc' = [pc EXCEPT ![h] = IF Grouped(h) THEN "job" ELSE "return"]
      /\ process' = [process EXCEPT ![h] = born + 1]
      /\ UNCHANGED <<cmd, reaped, disowned, job, ends, inheritable, taken, up>>
      /\ NewProcess(h, k, st, {}, holds)
  BY DEF CreateProcess, Step, pipeVars
<1>3. st \in {"suspended", "running"} /\ holds \in SUBSET (Handle \X End) /\ holds \subseteq inheritable
  BY <1>1
<1>4. /\ born \in 0..MaxBorn /\ born' = born + 1 /\ born' \in 1..MaxBorn
      /\ proc' = [p \in Born |-> proc'[p]]
      /\ \A p \in 1..born : p \in Born /\ proc'[p] = proc[p]
      /\ \A p \in Born : p > born' => proc'[p].st = "unborn"
      /\ proc'[born'] = [st |-> st, pid |-> k, code |-> STILL_ACTIVE, of |-> h,
                         jobs |-> {}, holds |-> holds]
      /\ proc'[born'] \in Process
      /\ \A p \in 1..born' : p \in 1..born \/ p = born'
      /\ \A p \in 1..born : proc[p].pid = k => ~Object(p)
  <2>1. Shape /\ {} \in SUBSET Job
    BY DEF IInv
  <2> HIDE DEF st, holds
  <2>2. Added(h, k, st, {}, holds)
    BY <1>2, <1>3, <2>1, NewProcessFacts
  <2> QED
    BY <2>2 DEF Added
<1>5. \A p \in 1..born : proc[p] \in Process /\ proc[p].of \in Handle
  BY ProcessFacts DEF IInv
<1> HIDE DEF st, holds
<1>6. Shape'
  <2>1. process' \in [Job -> 0..born']
    BY <1>1, <1>2, <1>4 DEF Job
  <2>2. \A g \in Handle : Opened(g)' => process'[g] \in 1..born' /\ proc'[process'[g]].of = g
    <3> SUFFICES ASSUME NEW g \in Handle, Opened(g)'
                 PROVE  process'[g] \in 1..born' /\ proc'[process'[g]].of = g
      OBVIOUS
    <3>1. CASE g = h
      BY <1>1, <1>2, <1>4, <3>1 DEF Job
    <3>2. CASE g # h
      <4>1. process'[g] = process[g] /\ Opened(g)
        BY <1>1, <1>2, <3>2 DEF Job, Opened
      <4>2. process[g] \in 1..born /\ proc[process[g]].of = g
        BY <4>1 DEF IInv, Shape, TypeOK
      <4> QED
        BY <1>4, <4>1, <4>2
    <3> QED
      BY <3>1, <3>2
  <2>3. \A p \in Born : IF p <= born' THEN proc'[p] \in Process ELSE proc'[p].st = "unborn"
    BY <1>4, <1>5, MaxBornNat DEF Born
  <2> QED
    BY <1>1, <1>2, <1>4, <2>1, <2>2, <2>3 DEF IInv, Shape, TypeOK
<1>7. Pipes'
  BY <1>1, <1>2 DEF IInv, Pipes
<1>8. ParentEndStaysHome'
  <2>1. TrackW => \A g \in Handle : <<g, "parent">> \notin inheritable
    BY DEF IInv, Pipes
  <2>2. <<h, "parent">> \notin inheritable
    BY <1>2 DEF IInv, Pipes
  <2>3. proc'[born'].holds = holds /\ proc'[born'].of = h
    BY <1>4
  <2>4. \A g \in Handle : <<g, "parent">> \in holds => ~TrackW /\ h # g
    BY <1>3, <2>1, <2>2, ArmIsChosen
  <2>5. \A p \in 1..born : \A g \in Handle :
           <<g, "parent">> \in proc[p].holds => ~TrackW /\ proc[p].of # g
    BY DEF IInv, ParentEndStaysHome
  <2> QED
    BY <1>4, <2>3, <2>4, <2>5 DEF ParentEndStaysHome
<1>9. Ownership'
  BY <1>1, <1>2, <1>4, <1>5 DEF IInv, Ownership, Grouped, Job
<1>91. Adopted'
  <2>1. process'[Adopter] = process[Adopter]
    BY <1>1, <1>2, AdopterIsNoHandle DEF Job
  <2>2. process[Adopter] # 0 => process[Adopter] \in 1..born
    BY <1>1, <1>4 DEF Job
  <2> QED
    BY <1>4, <2>1, <2>2 DEF IInv, Adopted
<1>10. NoneIsRefused'
  BY <1>1, <1>2, <1>4 DEF IInv, NoneIsRefused
<1>11. Suspended'
  <2> SUFFICES ASSUME NEW g \in Handle, up', pc'[g] \in Sequence
               PROVE  /\ \A p \in 1..born' : proc'[p].of = g => p = process'[g]
                      /\ proc'[process'[g]].st = "suspended"
                      /\ proc'[process'[g]].jobs = IF pc'[g] = "resume" THEN {g} ELSE {}
    BY DEF Suspended
  <2>1. CASE g = h
    <3>1. Grouped(h) /\ process'[g] = born' /\ pc'[g] = "job"
      BY <1>1, <1>2, <1>4, <2>1 DEF Job
    <3>2. \A p \in 1..born : proc[p].of # h
      BY <1>2 DEF IInv, Ownership
    <3> QED
      BY <1>4, <2>1, <3>1, <3>2 DEF st
  <2>2. CASE g # h
    <3>1. process'[g] = process[g] /\ pc'[g] = pc[g]
      BY <1>1, <1>2, <2>2 DEF Job
    <3>2. process[g] \in 1..born
      BY <3>1 DEF IInv, Ownership
    <3>3. /\ \A p \in 1..born : proc[p].of = g => p = process[g]
          /\ proc[process[g]].st = "suspended"
          /\ proc[process[g]].jobs = IF pc[g] = "resume" THEN {g} ELSE {}
      BY <1>2, <3>1 DEF IInv, Suspended
    <3> QED
      BY <1>2, <1>4, <2>2, <3>1, <3>2, <3>3
  <2> QED
    BY <2>1, <2>2
<1>12. JobsAreArmed'
  BY <1>1, <1>2 DEF IInv, JobsAreArmed, HasJob, Grouped
<1>13. StashIsTrue'
  BY <1>1, <1>2, <1>4 DEF IInv, StashIsTrue, Ownership, Job
<1>14. CodesAreOwn'
  BY <1>3, <1>4 DEF IInv, CodesAreOwn
<1>15. PidsAreUnique'
  <2>1. \A p \in 1..born : Object(p)' => Object(p)
    BY <1>1, <1>2, <1>4 DEF Object, Opened, Alive, Job
  <2> QED
    BY <1>4, <2>1 DEF IInv, PidsAreUnique
<1>16. GroupedFromTheStart'
  BY <1>2, <1>4 DEF IInv, GroupedFromTheStart, Running, Grouped, st
<1>17. GoneMeansGone'
  BY <1>1, <1>2, <1>4 DEF IInv, GoneMeansGone, Running, HasJob, Grouped
<1>18. NothingRuns'
  BY <1>1, <1>2, <1>4 DEF IInv, NothingRuns
<1> QED
  BY <1>6, <1>7, <1>8, <1>9, <1>91, <1>10, <1>11, <1>12, <1>13, <1>14, <1>15, <1>16, <1>17, <1>18 DEF IInv

LEMMA ForkInd ==
    ASSUME IInv, NEW q \in Born, NEW k \in Pid, Fork(q, k)
    PROVE  IInv'
<1> USE DEF Before, Sequence, Handed, Made
<1> DEFINE h == proc[q].of
           jobs == proc[q].jobs
           holds == proc[q].holds
<1>1. q \in 1..born /\ proc[q].st = "running" /\ proc[q] \in Process
  BY ProcessFacts DEF IInv, Fork, Running
<1>2. /\ h \in Handle /\ jobs \in SUBSET Job /\ holds \in SUBSET (Handle \X End)
      /\ process \in [Job -> 0..born]
  BY <1>1 DEF Process, IInv, Shape
<1>3. /\ up /\ UNCHANGED <<pc, cmd, process, reaped, disowned, job, ends, inheritable, taken, up>>
      /\ NewProcess(h, k, "running", jobs, holds)
  BY DEF Fork, pipeVars, spawnVars, handleVars
<1> HIDE DEF h, jobs, holds
<1>4. /\ born \in 0..MaxBorn /\ born' = born + 1 /\ born' \in 1..MaxBorn
      /\ proc' = [p \in Born |-> proc'[p]]
      /\ \A p \in 1..born : p \in Born /\ proc'[p] = proc[p]
      /\ \A p \in Born : p > born' => proc'[p].st = "unborn"
      /\ proc'[born'] = [st |-> "running", pid |-> k, code |-> STILL_ACTIVE, of |-> h,
                         jobs |-> jobs, holds |-> holds]
      /\ proc'[born'] \in Process
      /\ \A p \in 1..born' : p \in 1..born \/ p = born'
      /\ \A p \in 1..born : proc[p].pid = k => ~Object(p)
  <2>1. Shape
    BY DEF IInv
  <2>2. Added(h, k, "running", jobs, holds)
    BY <1>2, <1>3, <2>1, NewProcessFacts
  <2> QED
    BY <2>2 DEF Added
<1>5. \A p \in 1..born : proc[p] \in Process /\ proc[p].of \in Handle
  BY ProcessFacts DEF IInv
\* The parent runs, so its spawn is neither before its process nor in the
\* middle of its sequence, and has not failed.
<1>6. pc[h] \notin Before \cup Sequence \cup {"failed"}
  BY <1>1, <1>2, <1>3 DEF IInv, Ownership, Suspended, NothingRuns, h
<1>7. Shape'
  <2>1. process' \in [Job -> 0..born']
    BY <1>2, <1>3, <1>4
  <2>2. \A g \in Handle : Opened(g)' => process'[g] \in 1..born' /\ proc'[process'[g]].of = g
    <3>1. \A g \in Handle : Opened(g) => process[g] \in 1..born /\ proc[process[g]].of = g
      BY DEF IInv, Shape, TypeOK
    <3> QED
      BY <1>3, <1>4, <3>1 DEF Opened
  <2>3. \A p \in Born : IF p <= born' THEN proc'[p] \in Process ELSE proc'[p].st = "unborn"
    BY <1>4, <1>5, MaxBornNat DEF Born
  <2> QED
    BY <1>3, <1>4, <2>1, <2>2, <2>3 DEF IInv, Shape, TypeOK
<1>8. Pipes'
  BY <1>3 DEF IInv, Pipes
<1>9. ParentEndStaysHome'
  <2>1. proc'[born'].holds = proc[q].holds /\ proc'[born'].of = proc[q].of
    BY <1>4 DEF holds, h
  <2> QED
    BY <1>1, <1>4, <2>1 DEF IInv, ParentEndStaysHome
<1>10. Ownership'
  BY <1>1, <1>2, <1>3, <1>4, <1>6 DEF IInv, Ownership, Grouped, h, jobs
<1>101. Adopted'
  <2>1. process[Adopter] # 0 => process[Adopter] \in 1..born
    BY <1>2, <1>4 DEF Job
  <2> QED
    BY <1>3, <1>4, <2>1 DEF IInv, Adopted
<1>11. NoneIsRefused'
  BY <1>1, <1>3, <1>4 DEF IInv, NoneIsRefused, h
<1>12. Suspended'
  <2>1. \A g \in Handle : pc[g] \in Sequence => process[g] \in 1..born /\ g # h
    BY <1>6 DEF IInv, Ownership
  <2> SUFFICES ASSUME NEW g \in Handle, pc[g] \in Sequence
               PROVE  /\ \A p \in 1..born' : proc'[p].of = g => p = process[g]
                      /\ proc'[process[g]].st = "suspended"
                      /\ proc'[process[g]].jobs = IF pc[g] = "resume" THEN {g} ELSE {}
    BY <1>3 DEF Suspended
  <2>2. process[g] \in 1..born /\ g # h
    BY <2>1
  <2>3. /\ \A p \in 1..born : proc[p].of = g => p = process[g]
        /\ proc[process[g]].st = "suspended"
        /\ proc[process[g]].jobs = IF pc[g] = "resume" THEN {g} ELSE {}
    BY <1>3 DEF IInv, Suspended
  <2> QED
    BY <1>3, <1>4, <2>2, <2>3
<1>13. JobsAreArmed'
  BY <1>3 DEF IInv, JobsAreArmed, HasJob, Grouped
<1>14. StashIsTrue'
  BY <1>3, <1>4 DEF IInv, StashIsTrue, Ownership
<1>15. CodesAreOwn'
  BY <1>4 DEF IInv, CodesAreOwn
<1>16. PidsAreUnique'
  <2>1. \A p \in 1..born : Object(p)' => Object(p)
    BY <1>3, <1>4 DEF Object, Opened, Alive
  <2> QED
    BY <1>4, <2>1 DEF IInv, PidsAreUnique
<1>17. GroupedFromTheStart'
  BY <1>1, <1>3, <1>4 DEF IInv, GroupedFromTheStart, Running, Grouped, h, jobs
<1>18. GoneMeansGone'
  BY <1>1, <1>3, <1>4 DEF IInv, GoneMeansGone, Running, HasJob, Grouped, h
<1>19. NothingRuns'
  BY <1>3, <1>4, <1>6 DEF IInv, NothingRuns
<1> QED
  BY <1>7, <1>8, <1>9, <1>10, <1>101, <1>11, <1>12, <1>13, <1>14, <1>15, <1>16, <1>17, <1>18, <1>19 DEF IInv

-----------------------------------------------------------------------------
(* Processes that end                                                      *)

\* What a step may do to the processes short of starting one.
Decay ==
    /\ born' = born
    /\ proc' = [p \in Born |-> proc'[p]]
    /\ \A p \in Born : p > born => proc'[p].st = "unborn"
    /\ \A p \in 1..born :
          /\ proc'[p] \in Process
          /\ proc'[p].pid = proc[p].pid /\ proc'[p].of = proc[p].of
          /\ proc'[p].jobs = proc[p].jobs /\ proc'[p].holds \subseteq proc[p].holds
          /\ \/ proc'[p].st = proc[p].st /\ proc'[p].code = proc[p].code
             \/ /\ proc[p].st \in {"suspended", "running"} /\ proc'[p].st = "dying"
                /\ proc'[p].code = proc[p].code
             \/ /\ proc[p].st \in {"running", "dying"} /\ proc'[p].st = "exited"
                /\ proc'[p].code \in Codes \cup {KillCode}

\* TerminateProcess and TerminateJobObject.
LEMMA TerminatedFacts ==
    ASSUME Shape, NEW P, born' = born, proc' = Terminated(proc, P)
    PROVE  /\ Decay
           /\ \A p \in 1..born :
                 proc'[p].st = IF p \in P /\ proc[p].st \in {"suspended", "running"}
                               THEN "dying" ELSE proc[p].st
<1>1. /\ born \in 0..MaxBorn
      /\ \A p \in 1..born : p \in Born /\ proc[p] \in Process
      /\ \A p \in Born : p > born => proc[p].st = "unborn"
  BY MaxBornNat DEF Shape, TypeOK, Born
<1>2. proc' = [p \in Born |-> proc'[p]]
  BY DEF Terminated
<1>3. \A p \in Born : p > born => proc'[p].st = "unborn"
  BY <1>1 DEF Terminated
<1>4. ASSUME NEW p \in 1..born
      PROVE  /\ proc'[p] \in Process
             /\ proc'[p].pid = proc[p].pid /\ proc'[p].of = proc[p].of
             /\ proc'[p].jobs = proc[p].jobs /\ proc'[p].holds = proc[p].holds
             /\ proc'[p].code = proc[p].code
             /\ proc'[p].st = IF p \in P /\ proc[p].st \in {"suspended", "running"}
                              THEN "dying" ELSE proc[p].st
  BY <1>1, <1>4 DEF Terminated, Process
<1> QED
  BY <1>2, <1>3, <1>4 DEF Decay

\* What follows for the invariant from the processes alone.
LEMMA DecayKeeps ==
    ASSUME IInv, Decay, cmd' = cmd
    PROVE  /\ ParentEndStaysHome'
           /\ CodesAreOwn'
           /\ GroupedFromTheStart'
           /\ \A p \in Running' : p \in Running
           /\ \A p \in 1..born : Alive(p)' => Alive(p)
           /\ \A p \in 1..born : proc[p].st = "exited" =>
                 proc'[p].st = "exited" /\ proc'[p].code = proc[p].code
<1>1. \A p \in Running' : p \in Running
  BY DEF Decay, Running
<1>2. ParentEndStaysHome'
  BY DEF IInv, Decay, ParentEndStaysHome
<1>3. CodesAreOwn'
  BY DEF IInv, Decay, CodesAreOwn
<1>4. GroupedFromTheStart'
  BY <1>1 DEF IInv, Decay, GroupedFromTheStart, Running, Grouped
<1>5. \A p \in 1..born : Alive(p)' => Alive(p)
  BY DEF Decay, Alive
<1>6. \A p \in 1..born : proc[p].st = "exited" =>
          proc'[p].st = "exited" /\ proc'[p].code = proc[p].code
  BY DEF Decay
<1> QED
  BY <1>1, <1>2, <1>3, <1>4, <1>5, <1>6

\* Processes die or exit, none of them one that a spawn has yet to resume; a
\* disowned job, or the adopter's, may be closed.
LEMMA DecayInd ==
    ASSUME IInv, up, Decay,
           UNCHANGED <<pc, cmd, reaped, disowned, ends, inheritable, taken, up>>,
           \A h \in Handle : pc[h] \in Sequence => proc'[process[h]].st = proc[process[h]].st,
           process' \in [Job -> 0..born],
           \A h \in Handle : process'[h] = process[h],
           process'[Adopter] \in {process[Adopter], 0},
           job' \in [Job -> {"none", "open", "armed", "closed"}],
           \A h \in Handle : job'[h] = job[h] \/ h \in disowned
    PROVE  IInv'
<1> USE DEF Before, Sequence, Handed, Made
<1>0. /\ \A p \in Running' : p \in Running
      /\ \A p \in 1..born : Alive(p)' => Alive(p)
      /\ \A p \in 1..born : proc[p].st = "exited" =>
            proc'[p].st = "exited" /\ proc'[p].code = proc[p].code
      /\ ParentEndStaysHome'
      /\ CodesAreOwn' /\ GroupedFromTheStart'
  BY DecayKeeps
<1>1. /\ born' = born /\ proc' = [p \in Born |-> proc'[p]]
      /\ \A p \in Born : p > born => proc'[p].st = "unborn"
      /\ \A p \in 1..born : /\ proc'[p] \in Process /\ proc'[p].pid = proc[p].pid
                            /\ proc'[p].of = proc[p].of /\ proc'[p].jobs = proc[p].jobs
  BY DEF Decay
<1>2. Shape'
  <2>0. born \in 0..MaxBorn
    BY ProcessFacts DEF IInv
  <2>1. \A p \in Born : IF p <= born THEN proc'[p] \in Process ELSE proc'[p].st = "unborn"
    BY <1>1, <2>0, MaxBornNat DEF Born
  <2>2. \A h \in Handle : Opened(h)' => process'[h] \in 1..born /\ proc'[process'[h]].of = h
    <3>1. \A h \in Handle : Opened(h) => process[h] \in 1..born /\ proc[process[h]].of = h
      BY DEF IInv, Shape, TypeOK
    <3>2. \A h \in Handle : Opened(h)' <=> Opened(h)
      BY DEF Opened
    <3> QED
      BY <1>1, <3>1, <3>2
  <2> QED
    BY <1>1, <2>1, <2>2 DEF IInv, Shape, TypeOK
<1>3. Pipes'
  BY DEF IInv, Pipes
<1>4. Ownership'
  BY <1>1 DEF IInv, Ownership, Grouped
<1>41. Adopted'
  <2>1. born \in 0..MaxBorn /\ process \in [Job -> 0..born]
    BY ProcessFacts DEF IInv, Shape
  <2>2. process[Adopter] # 0 => process[Adopter] \in 1..born
    BY <2>1, MaxBornNat DEF Job
  <2> QED
    BY <1>1, <2>2 DEF IInv, Adopted
<1>5. NoneIsRefused'
  BY <1>1 DEF IInv, NoneIsRefused
<1>6. Suspended'
  <2> SUFFICES ASSUME NEW g \in Handle, pc[g] \in Sequence
               PROVE  /\ \A p \in 1..born : proc'[p].of = g => p = process[g]
                      /\ proc'[process[g]].st = "suspended"
                      /\ proc'[process[g]].jobs = IF pc[g] = "resume" THEN {g} ELSE {}
    <3>1. pc' = pc /\ up' = up /\ born' = born /\ \A g \in Handle : process'[g] = process[g]
      BY <1>1
    <3> HIDE DEF Sequence
    <3> QED
      BY <3>1 DEF Suspended
  <2>1. process[g] \in 1..born
    BY DEF IInv, Ownership
  <2>2. /\ \A p \in 1..born : proc[p].of = g => p = process[g]
        /\ proc[process[g]].st = "suspended"
        /\ proc[process[g]].jobs = IF pc[g] = "resume" THEN {g} ELSE {}
    BY DEF IInv, Suspended
  <2>3. proc'[process[g]].st = proc[process[g]].st
    OBVIOUS
  <2> QED
    BY <1>1, <2>1, <2>2, <2>3
<1>7. JobsAreArmed'
  BY DEF IInv, JobsAreArmed, HasJob, Grouped
<1>8. StashIsTrue'
  BY <1>0 DEF IInv, StashIsTrue, Ownership
<1>9. PidsAreUnique'
  <2>1. \A p \in 1..born : Object(p)' => Object(p)
    BY <1>0 DEF Object, Opened
  <2> QED
    BY <1>1, <2>1 DEF IInv, PidsAreUnique
<1>10. GoneMeansGone'
  BY <1>0, <1>1 DEF IInv, GoneMeansGone, Running, HasJob, Grouped
<1>11. NothingRuns'
  BY <1>0, <1>1 DEF IInv, NothingRuns, Decay
<1> QED
  BY <1>0, <1>2, <1>3, <1>4, <1>41, <1>5, <1>6, <1>7, <1>8, <1>9, <1>10, <1>11 DEF IInv

\* A process that a spawn has yet to resume: whose it is and what it is in.
LEMMA SequenceFacts ==
    ASSUME IInv, up, NEW h \in Handle, pc[h] \in Sequence
    PROVE  /\ process[h] \in 1..born /\ proc[process[h]].of = h
           /\ proc[process[h]].st = "suspended"
           /\ proc[process[h]].jobs \subseteq {h}
<1>1. process[h] \in 1..born /\ proc[process[h]].of = h
  BY DEF IInv, Ownership, Made
<1>2. proc[process[h]].st = "suspended" /\ proc[process[h]].jobs \subseteq {h}
  BY DEF IInv, Suspended
<1> QED
  BY <1>1, <1>2

\* What is not in the set is not terminated.
LEMMA TerminateInd ==
    ASSUME IInv, up, NEW P, born' = born, proc' = Terminated(proc, P),
           UNCHANGED <<pc, cmd, reaped, disowned, ends, inheritable, taken, up>>,
           \A h \in Handle : pc[h] \in Sequence => process[h] \notin P,
           process' \in [Job -> 0..born],
           \A h \in Handle : process'[h] = process[h],
           process'[Adopter] \in {process[Adopter], 0},
           job' \in [Job -> {"none", "open", "armed", "closed"}],
           \A h \in Handle : job'[h] = job[h] \/ h \in disowned
    PROVE  IInv'
<1>1. /\ Decay
      /\ \A p \in 1..born : p \notin P => proc'[p].st = proc[p].st
  BY TerminatedFacts DEF IInv
<1>2. \A h \in Handle : pc[h] \in Sequence => proc'[process[h]].st = proc[process[h]].st
  BY <1>1, SequenceFacts
<1> QED
  BY <1>1, <1>2, DecayInd

LEMMA KillsInd ==
    ASSUME IInv,
           \/ \E h \in Handle : kill_tree(h) \/ kill_single(h) \/ CloseDisowned(h)
           \/ GroupKillTree \/ GroupKillSingle \/ GroupDrop
    PROVE  IInv'
<1> USE DEF handleVars, spawnVars, pipeVars
<1>0. /\ process \in [Job -> 0..born] /\ process[Adopter] \in 0..born
      /\ job \in [Job -> {"none", "open", "armed", "closed"}]
      /\ \A h \in Handle : pc[h] \in Handed => pc[h] \notin Sequence
      /\ \A h \in Handle : h \in disowned => pc[h] \in Handed
      /\ Handle \subseteq Job /\ Adopter \in Job
  BY DEF IInv, Shape, TypeOK, Job, JobsAreArmed, Handed, Sequence
<1>1. ASSUME NEW g \in Job, g \notin Handle \/ pc[g] \in Handed, up
      PROVE  \A h \in Handle : pc[h] \in Sequence => process[h] \notin Members(g)
  <2> SUFFICES ASSUME NEW h \in Handle, pc[h] \in Sequence, process[h] \in Members(g)
               PROVE  FALSE
    OBVIOUS
  <2>1. g \in proc[process[h]].jobs
    BY DEF Members
  <2>2. g = h
    BY <1>1, <2>1, SequenceFacts
  <2> QED
    BY <1>0, <1>1, <2>2
<1>2. ASSUME NEW h \in Handle, kill_tree(h)
      PROVE  IInv'
  <2>1. up /\ h \in Job /\ pc[h] \in Handed
    BY <1>0, <1>2 DEF kill_tree, Live, Handed
  <2>2. \A g \in Handle : pc[g] \in Sequence => process[g] \notin Members(h)
    BY <1>1, <2>1
  <2> QED
    BY <1>0, <1>2, <2>1, <2>2, TerminateInd DEF kill_tree
<1>3. ASSUME NEW h \in Handle, kill_single(h)
      PROVE  IInv'
  <2>1. up /\ pc[h] \in Handed /\ pc[h] = "live"
    BY <1>0, <1>3 DEF kill_single, Live, Handed
  <2>2. proc[process[h]].of = h
    BY <2>1 DEF IInv, Ownership, Made
  <2>3. \A g \in Handle : pc[g] \in Sequence => process[g] \notin {process[h]}
    BY <1>0, <2>1, <2>2, SequenceFacts
  <2> QED
    BY <1>0, <1>3, <2>1, <2>3, TerminateInd DEF kill_single
<1>4. ASSUME NEW h \in Handle, CloseDisowned(h)
      PROVE  IInv'
  <2>1. up /\ h \in Job /\ pc[h] \in Handed /\ h \in disowned
    BY <1>0, <1>4 DEF CloseDisowned
  <2>2. \A g \in Handle : pc[g] \in Sequence => process[g] \notin Closing({h})
    BY <1>1, <2>1 DEF Closing
  <2>3. /\ job' \in [Job -> {"none", "open", "armed", "closed"}]
        /\ \A g \in Handle : job'[g] = job[g] \/ g \in disowned
    BY <1>0, <1>4, <2>1 DEF CloseDisowned, Closed
  <2> QED
    BY <1>0, <1>4, <2>1, <2>2, <2>3, TerminateInd DEF CloseDisowned
<1>5. CASE GroupKillTree
  <2>1. \A g \in Handle : pc[g] \in Sequence => process[g] \notin Members(Adopter)
    BY <1>0, <1>1, <1>5, AdopterIsNoHandle DEF GroupKillTree
  <2> QED
    BY <1>0, <1>5, <2>1, TerminateInd DEF GroupKillTree
<1>6. CASE GroupKillSingle
  <2>1. \A g \in Handle : pc[g] \in Sequence => process[g] \notin {process[Adopter]}
    <3> SUFFICES ASSUME NEW g \in Handle, pc[g] \in Sequence, process[g] = process[Adopter]
                 PROVE  FALSE
      OBVIOUS
    <3>1. process[g] \in 1..born /\ proc[process[g]].jobs \subseteq {g}
      BY <1>6, SequenceFacts DEF GroupKillSingle
    <3>2. process[Adopter] # 0
      BY <1>0, <3>1
    <3>3. Adopter \in proc[process[Adopter]].jobs
      BY <3>2 DEF IInv, Adopted
    <3> QED
      BY <3>1, <3>3, AdopterIsNoHandle
  <2> QED
    BY <1>0, <1>6, <2>1, TerminateInd DEF GroupKillSingle
<1>7. CASE GroupDrop
  <2>1. \A g \in Handle : pc[g] \in Sequence => process[g] \notin Closing({Adopter})
    BY <1>0, <1>1, <1>7, AdopterIsNoHandle DEF GroupDrop, Closing
  <2>2. /\ job' \in [Job -> {"none", "open", "armed", "closed"}]
        /\ \A g \in Handle : job'[g] = job[g]
    BY <1>0, <1>7, AdopterIsNoHandle DEF GroupDrop, Closed
  <2>3. /\ process' \in [Job -> 0..born] /\ process'[Adopter] = 0
        /\ \A g \in Handle : process'[g] = process[g]
    <3>1. 0 \in 0..born
      BY ProcessFacts, MaxBornNat DEF IInv
    <3> QED
      BY <1>0, <1>7, <3>1, AdopterIsNoHandle DEF GroupDrop
  <2> QED
    BY <1>7, <2>1, <2>2, <2>3, TerminateInd DEF GroupDrop
<1> QED
  BY <1>2, <1>3, <1>4, <1>5, <1>6, <1>7

LEMMA EndsInd ==
    ASSUME IInv, NEW q \in Born, Die(q) \/ \E c \in Codes : Exit(q, c)
    PROVE  IInv'
<1> USE DEF handleVars, spawnVars, pipeVars
<1>1. PICK c \in Codes \cup {KillCode} :
        proc' = [proc EXCEPT ![q].st = "exited", ![q].code = c, ![q].holds = {}]
  BY DEF Die, Exit
<1>2. /\ up /\ q \in 1..born /\ proc[q].st \in {"running", "dying"}
      /\ UNCHANGED <<born, pc, cmd, process, reaped, disowned, job, ends, inheritable, taken, up>>
  BY DEF Die, Exit, Running
<1>3. /\ born \in 0..MaxBorn
      /\ \A p \in 1..born : p \in Born /\ proc[p] \in Process
      /\ \A p \in Born : p > born => proc[p].st = "unborn"
      /\ proc = [p \in Born |-> proc[p]]
  BY MaxBornNat DEF IInv, Shape, TypeOK, Born
<1>4. proc' = [p \in Born |-> proc'[p]] /\ \A p \in Born : p # q => proc'[p] = proc[p]
  BY <1>1, <1>3
<1>5. proc'[q] = [proc[q] EXCEPT !.st = "exited", !.code = c, !.holds = {}]
  BY <1>1, <1>3
<1>6. Decay
  <2>1. proc'[q] \in Process /\ proc'[q].st = "exited" /\ proc'[q].code = c
        /\ proc'[q].pid = proc[q].pid /\ proc'[q].of = proc[q].of
        /\ proc'[q].jobs = proc[q].jobs /\ proc'[q].holds = {}
    BY <1>2, <1>3, <1>5 DEF Process
  <2>2. \A p \in Born : p > born => proc'[p].st = "unborn"
    BY <1>2, <1>3, <1>4
  <2> QED
    BY <1>2, <1>3, <1>4, <2>1, <2>2 DEF Decay
<1>7. \A h \in Handle : pc[h] \in Sequence => proc'[process[h]].st = proc[process[h]].st
  BY <1>2, <1>3, <1>4, SequenceFacts
<1>8. /\ process \in [Job -> 0..born]
      /\ job \in [Job -> {"none", "open", "armed", "closed"}]
  BY DEF IInv, Shape, TypeOK
<1> QED
  BY <1>2, <1>6, <1>7, <1>8, DecayInd

-----------------------------------------------------------------------------
(* Job, assign, resume                                                     *)

LEMMA JobStepsInd ==
    ASSUME IInv, NEW h \in Handle, CreateJob(h) \/ set_kill_on_close(h)
    PROVE  IInv'
<1> USE DEF Before, Sequence, Handed, Made
<1>1. PICK to \in {"limit", "assign"}, j \in {"open", "armed"} :
        /\ up /\ pc[h] \in {"job", "limit"} /\ pc' = [pc EXCEPT ![h] = to]
        /\ job' = [job EXCEPT ![h] = j]
        /\ to = "assign" => j = "armed"
        /\ UNCHANGED <<proc, born, cmd, process, reaped, disowned, ends, inheritable, taken, up>>
  BY DEF CreateJob, set_kill_on_close, Step, handleVars, pipeVars
<1>2. /\ pc \in [Handle -> Before \cup Made \cup {"failed"}]
      /\ job \in [Job -> {"none", "open", "armed", "closed"}] /\ h \in Job
  BY DEF IInv, Shape, TypeOK, Job
<1>3. Shape'
  BY <1>1, <1>2 DEF IInv, Shape, TypeOK, Opened
<1>4. Pipes'
  BY <1>1, <1>2 DEF IInv, Pipes
<1>5. ParentEndStaysHome'
  BY <1>1 DEF IInv, ParentEndStaysHome
<1>6. Ownership'
  <2>1. Ownership
    BY DEF IInv
  <2> QED
    BY <1>1, <1>2, <2>1 DEF Ownership, Grouped
<1>7. Adopted' /\ CodesAreOwn'
  BY <1>1 DEF IInv, Adopted, CodesAreOwn
<1>8. NoneIsRefused'
  BY <1>1, <1>2 DEF IInv, NoneIsRefused
<1>9. Suspended'
  <2>1. Suspended
    BY DEF IInv
  <2> QED
    BY <1>1, <1>2, <2>1 DEF Suspended
<1>10. JobsAreArmed'
  <2>1. JobsAreArmed
    BY DEF IInv
  <2> QED
    BY <1>1, <1>2, <2>1 DEF JobsAreArmed, HasJob, Grouped, Job
<1>11. StashIsTrue'
  BY <1>1, <1>2 DEF IInv, StashIsTrue
<1>12. PidsAreUnique'
  BY <1>1, <1>2 DEF IInv, PidsAreUnique, Object, Opened, Alive
<1>13. GroupedFromTheStart' /\ GoneMeansGone'
  BY <1>1, <1>2 DEF IInv, GroupedFromTheStart, GoneMeansGone, Running, HasJob, Grouped
<1>14. NothingRuns'
  BY <1>1, <1>2 DEF IInv, NothingRuns
<1> QED
  BY <1>3, <1>4, <1>5, <1>6, <1>7, <1>8, <1>9, <1>10, <1>11, <1>12, <1>13, <1>14 DEF IInv

\* AssignProcessToJobObject and ResumeThread change the one suspended process
\* of the spawn.
LEMMA AssignResumeInd ==
    ASSUME IInv, NEW h \in Handle, assign_to_job(h) \/ resume_thread(h)
    PROVE  IInv'
<1> USE DEF Before, Sequence, Handed, Made
<1> DEFINE q == process[h]
<1>1. PICK to \in {"resume", "return"} :
        /\ up /\ pc[h] = (IF to = "resume" THEN "assign" ELSE "resume")
        /\ pc' = [pc EXCEPT ![h] = to]
        /\ proc' = IF to = "resume" THEN [proc EXCEPT ![q].jobs = @ \cup {h}]
                                    ELSE [proc EXCEPT ![q].st = "running"]
        /\ UNCHANGED <<born, cmd, process, reaped, disowned, job, ends, inheritable, taken, up>>
  BY DEF assign_to_job, resume_thread, Step, handleVars, pipeVars
<1>2. /\ pc \in [Handle -> Before \cup Made \cup {"failed"}] /\ h \in Job
      /\ q \in 1..born /\ proc[q].of = h /\ proc[q].st = "suspended" /\ Grouped(h)
      /\ proc[q].jobs = IF to = "resume" THEN {} ELSE {h}
      /\ \A p \in 1..born : proc[p].of = h => p = q
  BY <1>1 DEF IInv, Shape, Ownership, Suspended, Job
<1>3. /\ born \in 0..MaxBorn /\ proc = [p \in Born |-> proc[p]]
      /\ \A p \in 1..born : p \in Born /\ proc[p] \in Process
      /\ \A p \in Born : p > born => proc[p].st = "unborn"
  BY MaxBornNat DEF IInv, Shape, TypeOK, Born
<1> HIDE DEF q
<1>4. /\ proc' = [p \in Born |-> proc'[p]] /\ \A p \in Born : p # q => proc'[p] = proc[p]
      /\ proc'[q] \in Process
      /\ proc'[q].pid = proc[q].pid /\ proc'[q].of = h /\ proc'[q].holds = proc[q].holds
      /\ proc'[q].jobs = {h} /\ proc'[q].code = proc[q].code
      /\ proc'[q].st = IF to = "resume" THEN "suspended" ELSE "running"
  BY <1>1, <1>2, <1>3 DEF Process
<1>5. \A p \in 1..born : p # q => p \in Born /\ proc'[p] = proc[p]
  BY <1>3, <1>4
<1>6. Shape'
  <2>1. \A p \in Born : IF p <= born THEN proc'[p] \in Process ELSE proc'[p].st = "unborn"
    <3> SUFFICES ASSUME NEW p \in Born
                 PROVE  IF p <= born THEN proc'[p] \in Process ELSE proc'[p].st = "unborn"
      OBVIOUS
    <3>1. IF p <= born THEN p \in 1..born ELSE p > born /\ p # q
      BY <1>2, <1>3, MaxBornNat DEF Born
    <3> QED
      BY <1>3, <1>4, <3>1
  <2>2. \A g \in Handle : Opened(g)' => process'[g] \in 1..born /\ proc'[process'[g]].of = g
    <3>1. \A g \in Handle : Opened(g) => process[g] \in 1..born /\ proc[process[g]].of = g
      BY DEF IInv, Shape, TypeOK
    <3>2. \A g \in Handle : Opened(g)' => Opened(g)
      BY <1>1, <1>2 DEF Opened
    <3> QED
      BY <1>1, <1>2, <1>4, <1>5, <3>1, <3>2
  <2> QED
    BY <1>1, <1>2, <1>4, <2>1, <2>2 DEF IInv, Shape, TypeOK
<1>7. Pipes'
  BY <1>1, <1>2 DEF IInv, Pipes
<1>8. ParentEndStaysHome'
  BY <1>1, <1>2, <1>4, <1>5 DEF IInv, ParentEndStaysHome
<1>9. Ownership'
  <2>1. Ownership
    BY DEF IInv
  <2>2. \A p \in 1..born : proc'[p].of = proc[p].of
    BY <1>2, <1>4, <1>5
  <2>3. \A p \in 1..born : /\ proc'[p].jobs \subseteq {proc'[p].of, Adopter}
                           /\ proc'[p].of \in proc'[p].jobs => Grouped(proc'[p].of)
    BY <1>2, <1>4, <1>5, <2>1 DEF Ownership
  <2>4. \A g \in Handle : pc'[g] \in Made => pc[g] \in Made
    BY <1>1, <1>2
  <2>5. \A g \in Handle : pc'[g] \in Before \cup Sequence => pc[g] = pc'[g] \/ g = h
    BY <1>1, <1>2
  <2> QED
    BY <1>1, <1>2, <2>1, <2>2, <2>3, <2>4, <2>5 DEF Ownership, Grouped
<1>10. Adopted'
  <2>1. process[Adopter] # 0 => process[Adopter] \in 1..born
    BY <1>3, MaxBornNat DEF IInv, Shape, Job
  <2>2. \A p \in 1..born : proc[p].jobs \subseteq proc'[p].jobs
    BY <1>2, <1>4, <1>5
  <2> QED
    BY <1>1, <2>1, <2>2 DEF IInv, Adopted
<1>11. NoneIsRefused'
  <2>1. NoneIsRefused /\ \A p \in 1..born : proc'[p].of = proc[p].of
    BY <1>2, <1>4, <1>5 DEF IInv
  <2> QED
    BY <1>1, <1>2, <2>1 DEF NoneIsRefused
<1>12. Suspended'
  <2> SUFFICES ASSUME NEW g \in Handle, pc'[g] \in Sequence
               PROVE  /\ \A p \in 1..born : proc'[p].of = g => p = process[g]
                      /\ proc'[process[g]].st = "suspended"
                      /\ proc'[process[g]].jobs = IF pc'[g] = "resume" THEN {g} ELSE {}
    BY <1>1 DEF Suspended
  <2>1. CASE g = h
    <3>1. to = "resume" /\ process[g] = q
      BY <1>1, <1>2, <2>1 DEF q
    <3> QED
      BY <1>1, <1>2, <1>4, <1>5, <2>1, <3>1
  <2>2. CASE g # h
    <3>1. pc'[g] = pc[g] /\ pc[g] \in Sequence
      BY <1>1, <1>2, <2>2
    <3>2. process[g] \in 1..born /\ proc[process[g]].of = g
      BY <1>1, <3>1, SequenceFacts
    <3>3. /\ \A p \in 1..born : proc[p].of = g => p = process[g]
          /\ proc[process[g]].st = "suspended"
          /\ proc[process[g]].jobs = IF pc[g] = "resume" THEN {g} ELSE {}
      BY <1>1, <3>1 DEF IInv, Suspended
    <3> QED
      BY <1>2, <1>4, <1>5, <2>2, <3>1, <3>2, <3>3
  <2> QED
    BY <2>1, <2>2
<1>13. JobsAreArmed'
  <2>1. JobsAreArmed
    BY DEF IInv
  <2> QED
    BY <1>1, <1>2, <2>1 DEF JobsAreArmed, HasJob, Grouped
<1>14. StashIsTrue'
  <2> SUFFICES ASSUME NEW g \in Handle
               PROVE  /\ reaped[g] # NoStatus =>
                            /\ pc'[g] \in Handed
                            /\ proc'[process[g]].st = "exited" /\ proc'[process[g]].code = reaped[g]
                      /\ pc'[g] = "waited" => reaped[g] # NoStatus
    BY <1>1 DEF StashIsTrue
  <2>1. /\ reaped[g] # NoStatus => pc[g] \in Handed /\ proc[process[g]].st = "exited"
                                   /\ proc[process[g]].code = reaped[g]
        /\ pc[g] = "waited" => reaped[g] # NoStatus
    BY DEF IInv, StashIsTrue
  <2>2. pc[g] \in Handed => process[g] \in 1..born
    BY DEF IInv, Ownership
  <2> QED
    BY <1>1, <1>2, <1>5, <2>1, <2>2
<1>15. CodesAreOwn'
  BY <1>1, <1>2, <1>4, <1>5 DEF IInv, CodesAreOwn
<1>16. PidsAreUnique'
  <2>1. \A p \in 1..born : Object(p)' => Object(p)
    <3>1. \A p \in 1..born : Alive(p)' => Alive(p)
      BY <1>2, <1>4, <1>5 DEF Alive
    <3>2. \A g \in Handle : Opened(g)' => Opened(g)
      BY <1>1, <1>2 DEF Opened
    <3> QED
      BY <1>1, <3>1, <3>2 DEF Object
  <2>2. \A p \in 1..born : proc'[p].pid = proc[p].pid
    BY <1>2, <1>4, <1>5
  <2> QED
    BY <1>1, <2>1, <2>2 DEF IInv, PidsAreUnique
<1>17. GroupedFromTheStart'
  <2>1. \A p \in Running' : p \in 1..born /\ (p \in Running \/ p = q)
    BY <1>1, <1>4, <1>5 DEF Running
  <2>2. \A p \in 1..born : proc'[p].of = proc[p].of /\ proc[p].jobs \subseteq proc'[p].jobs
    BY <1>2, <1>4, <1>5
  <2>3. GroupedFromTheStart /\ h \in proc'[q].jobs /\ proc'[q].of = h
    BY <1>4 DEF IInv
  <2> QED
    BY <1>1, <2>1, <2>2, <2>3 DEF GroupedFromTheStart, Grouped
<1>18. GoneMeansGone'
  <2>1. \A g \in Handle : pc'[g] \in {"waited", "dropped"} => pc[g] \in {"waited", "dropped"} /\ g # h
    BY <1>1, <1>2
  <2>2. \A p \in Running' : p \in Running \/ p = q
    BY <1>1, <1>4, <1>5 DEF Running
  <2>3. \A p \in Running' : proc'[p].of = proc[p].of
    BY <1>1, <1>2, <1>4, <1>5 DEF Running
  <2> QED
    BY <1>1, <1>2, <2>1, <2>2, <2>3 DEF IInv, GoneMeansGone, HasJob, Grouped
<1>19. NothingRuns'
  <2>1. \A g \in Handle : pc'[g] = "failed" => pc[g] = "failed" /\ g # h
    BY <1>1, <1>2
  <2> QED
    BY <1>1, <1>2, <1>4, <1>5, <2>1 DEF IInv, NothingRuns
<1> QED
  BY <1>6, <1>7, <1>8, <1>9, <1>10, <1>11, <1>12, <1>13, <1>14, <1>15, <1>16, <1>17, <1>18, <1>19 DEF IInv

-----------------------------------------------------------------------------
(* A spawn that fails, a child that is waited for or dropped               *)

LEMMA LeaveInd ==
    ASSUME IInv, up, NEW h \in Handle, NEW P, NEW to \in {"failed", "waited", "dropped"},
           IF to = "failed" THEN pc[h] \in Sequence ELSE pc[h] = "live",
           pc' = [pc EXCEPT ![h] = to],
           proc' = Terminated(proc, P),
           UNCHANGED <<born, cmd, process, disowned, taken, up>>,
           job' \in [Job -> {"none", "open", "armed", "closed"}],
           \A g \in Handle : g # h => job'[g] = job[g],
           \A g \in Handle : g # h /\ pc[g] \in Sequence => process[g] \notin P,
           ends' \subseteq ends, inheritable' \subseteq inheritable \cap ends',
           \A g \in Handle : g # h /\ <<g, "child">> \in ends => <<g, "child">> \in ends',
           to = "failed" => /\ process[h] \in P /\ job'[h] \in {"none", "closed"}
                            /\ \A e \in ends' : e[1] # h,
           to # "failed" /\ HasJob(h) => \A p \in Running : proc[p].of = h => p \in P,
           reaped' \in [Handle -> Codes \cup {KillCode, NoStatus}],
           \A g \in Handle : g # h => reaped'[g] = reaped[g],
           to # "waited" => reaped' = reaped,
           to = "waited" => /\ reaped'[h] # NoStatus /\ proc[process[h]].st = "exited"
                            /\ reaped'[h] = proc[process[h]].code
    PROVE  IInv'
<1> USE DEF Before, Sequence, Handed, Made
<1>1. /\ Decay
      /\ \A p \in 1..born :
            proc'[p].st = IF p \in P /\ proc[p].st \in {"suspended", "running"}
                          THEN "dying" ELSE proc[p].st
  BY TerminatedFacts DEF IInv
<1>2. /\ \A p \in Running' : p \in Running
      /\ \A p \in 1..born : Alive(p)' => Alive(p)
      /\ \A p \in 1..born : proc[p].st = "exited" =>
            proc'[p].st = "exited" /\ proc'[p].code = proc[p].code
      /\ ParentEndStaysHome'
      /\ CodesAreOwn' /\ GroupedFromTheStart'
  BY <1>1, DecayKeeps
<1>3. /\ born' = born /\ proc' = [p \in Born |-> proc'[p]]
      /\ \A p \in Born : p > born => proc'[p].st = "unborn"
      /\ \A p \in 1..born : /\ proc'[p] \in Process /\ proc'[p].pid = proc[p].pid
                            /\ proc'[p].of = proc[p].of /\ proc'[p].jobs = proc[p].jobs
  BY <1>1 DEF Decay
<1>4. /\ pc \in [Handle -> Before \cup Made \cup {"failed"}]
      /\ pc'[h] = to /\ pc[h] \in Made
      /\ \A g \in Handle : g # h => pc'[g] = pc[g]
      /\ pc' \in [Handle -> Before \cup Made \cup {"failed"}]
  BY DEF IInv, Shape
<1>5. Shape'
  <2>1. \A p \in Born : IF p <= born THEN proc'[p] \in Process ELSE proc'[p].st = "unborn"
    <3>1. born \in 0..MaxBorn
      BY ProcessFacts DEF IInv
    <3> QED
      BY <1>3, <3>1, MaxBornNat DEF Born
  <2>2. \A g \in Handle : Opened(g)' => process'[g] \in 1..born /\ proc'[process'[g]].of = g
    <3>1. \A g \in Handle : Opened(g) => process[g] \in 1..born /\ proc[process[g]].of = g
      BY DEF IInv, Shape, TypeOK
    <3>2. \A g \in Handle : Opened(g)' => Opened(g)
      BY <1>4 DEF Opened
    <3> QED
      BY <1>3, <3>1, <3>2
  <2>3. inheritable' \subseteq ends' /\ ends' \subseteq Handle \X End
    BY DEF IInv, Shape, TypeOK
  <2> QED
    BY <1>3, <1>4, <2>1, <2>2, <2>3 DEF IInv, Shape, TypeOK
<1>6. Pipes'
  <2> SUFFICES ASSUME NEW g \in Handle
               PROVE  /\ pc'[g] \in {"idle", "pipe", "slot", "failed"} => \A e \in ends' : e[1] # g
                      /\ pc'[g] = "flag" => <<g, "child">> \in ends'
                      /\ pc'[g] # "flag" => <<g, "parent">> \notin inheritable'
                      /\ pc'[g] \in Handed => <<g, "child">> \notin inheritable'
                      /\ g \in taken => pc'[g] \in Handed
    BY DEF IInv, Pipes
  <2>1. /\ pc[g] \in {"idle", "pipe", "slot", "failed"} => \A e \in ends : e[1] # g
        /\ pc[g] = "flag" => <<g, "child">> \in ends
        /\ pc[g] # "flag" => <<g, "parent">> \notin inheritable
        /\ pc[g] \in Handed => <<g, "child">> \notin inheritable
        /\ g \in taken => pc[g] \in Handed
    BY DEF IInv, Pipes
  <2>2. CASE g = h
    BY <1>4, <2>1, <2>2
  <2>3. CASE g # h
    BY <1>4, <2>1, <2>3
  <2> QED
    BY <2>2, <2>3
<1>7. Ownership'
  <2>1. Ownership
    BY DEF IInv
  <2> QED
    BY <1>3, <1>4, <2>1 DEF Ownership, Grouped
<1>8. Adopted'
  <2>1. process[Adopter] # 0 => process[Adopter] \in 1..born
    BY ProcessFacts, MaxBornNat DEF IInv, Shape, Job
  <2> QED
    BY <1>3, <2>1 DEF IInv, Adopted
<1>9. NoneIsRefused'
  <2>1. NoneIsRefused
    BY DEF IInv
  <2> QED
    BY <1>3, <1>4, <2>1 DEF NoneIsRefused
<1>10. Suspended'
  <2> SUFFICES ASSUME NEW g \in Handle, pc'[g] \in Sequence
               PROVE  /\ \A p \in 1..born : proc'[p].of = g => p = process[g]
                      /\ proc'[process[g]].st = "suspended"
                      /\ proc'[process[g]].jobs = IF pc'[g] = "resume" THEN {g} ELSE {}
    BY <1>3 DEF Suspended
  <2>1. g # h /\ pc[g] = pc'[g] /\ pc[g] \in Sequence
    BY <1>4
  <2>2. /\ \A p \in 1..born : proc[p].of = g => p = process[g]
        /\ proc[process[g]].st = "suspended"
        /\ proc[process[g]].jobs = IF pc[g] = "resume" THEN {g} ELSE {}
    BY <2>1 DEF IInv, Suspended
  <2>3. process[g] \in 1..born /\ process[g] \notin P
    BY <2>1, SequenceFacts
  <2> QED
    BY <1>1, <1>3, <2>1, <2>2, <2>3
<1>11. JobsAreArmed'
  <2>1. JobsAreArmed
    BY DEF IInv
  <2> QED
    BY <1>4, <2>1 DEF JobsAreArmed, HasJob, Grouped
<1>12. StashIsTrue'
  <2> SUFFICES ASSUME NEW g \in Handle
               PROVE  /\ reaped'[g] # NoStatus =>
                            /\ pc'[g] \in Handed /\ proc'[process[g]].st = "exited"
                            /\ proc'[process[g]].code = reaped'[g]
                      /\ pc'[g] = "waited" => reaped'[g] # NoStatus
    BY DEF StashIsTrue
  <2>1. /\ reaped[g] # NoStatus => pc[g] \in Handed /\ proc[process[g]].st = "exited"
                                   /\ proc[process[g]].code = reaped[g]
        /\ pc[g] = "waited" => reaped[g] # NoStatus
    BY DEF IInv, StashIsTrue
  <2>2. pc[g] \in Made => process[g] \in 1..born
    BY DEF IInv, Ownership
  <2>3. CASE g = h
    BY <1>2, <1>4, <2>1, <2>2, <2>3
  <2>4. CASE g # h
    BY <1>2, <1>4, <2>1, <2>2, <2>4
  <2> QED
    BY <2>3, <2>4
<1>13. PidsAreUnique'
  <2>1. \A g \in Handle : Opened(g)' => Opened(g)
    BY <1>4 DEF Opened
  <2>2. \A p \in 1..born : Object(p)' => Object(p)
    BY <1>2, <2>1 DEF Object
  <2> QED
    BY <1>3, <2>2 DEF IInv, PidsAreUnique
<1>14. GoneMeansGone'
  <2> SUFFICES ASSUME NEW g \in Handle, pc'[g] \in {"waited", "dropped"}, HasJob(g)',
                      NEW p \in Running', proc'[p].of = g
               PROVE  FALSE
    BY DEF GoneMeansGone
  <2>1. p \in Running /\ p \in 1..born /\ proc'[p].of = proc[p].of
    BY <1>2, <1>3 DEF Running
  <2>2. HasJob(g)
    BY DEF HasJob, Grouped
  <2>3. CASE g = h
    <3>1. p \in P /\ proc[p].st = "running" /\ proc'[p].st = "running"
      BY <1>4, <2>1, <2>2, <2>3 DEF Running
    <3> QED
      BY <1>1, <2>1, <3>1
  <2>4. CASE g # h
    BY <1>4, <2>1, <2>2, <2>4 DEF IInv, GoneMeansGone
  <2> QED
    BY <2>3, <2>4
<1>15. NothingRuns'
  <2> SUFFICES ASSUME NEW g \in Handle, pc'[g] = "failed", NEW p \in 1..born, proc'[p].of = g
               PROVE  proc'[p].st \in {"dying", "exited"}
    BY <1>3 DEF NothingRuns
  <2>1. CASE g = h
    <3>1. to = "failed" /\ pc[h] \in Sequence
      BY <1>4, <2>1
    <3>11. /\ \A r \in 1..born : proc[r].of = h => r = process[h]
           /\ proc[process[h]].st = "suspended"
      BY <3>1 DEF IInv, Suspended
    <3>2. p = process[h] /\ proc[p].st = "suspended"
      BY <1>3, <2>1, <3>11
    <3> QED
      BY <1>1, <3>1, <3>2
  <2>2. CASE g # h
    <3>1. proc[p].st \in {"dying", "exited"}
      BY <1>3, <1>4, <2>2 DEF IInv, NothingRuns
    <3> QED
      BY <1>1, <3>1
  <2> QED
    BY <2>1, <2>2
<1> QED
  BY <1>2, <1>5, <1>6, <1>7, <1>8, <1>9, <1>10, <1>11, <1>12, <1>13, <1>14, <1>15 DEF IInv

\* Nobody else's suspended process is in a job of the spawn h.
LEMMA MembersOfOne ==
    ASSUME IInv, up, NEW h \in Handle, NEW g \in Handle, g # h, pc[g] \in Sequence
    PROVE  process[g] \notin Members(h) /\ process[g] \notin Closing({h})
<1>1. proc[process[g]].jobs \subseteq {g}
  BY SequenceFacts
<1> QED
  BY <1>1 DEF Members, Closing

LEMMA SequenceFailsInd ==
    ASSUME IInv, NEW h \in Handle, SequenceFails(h)
    PROVE  IInv'
<1> DEFINE P == Closing({h}) \cup {process[h]}
<1>1. /\ up /\ pc[h] \in Sequence /\ pc' = [pc EXCEPT ![h] = "failed"]
      /\ proc' = Terminated(Terminated(proc, Closing({h})), {process[h]})
      /\ job' = Closed({h}) /\ ends' = Without(h) /\ inheritable' = inheritable \cap Without(h)
      /\ UNCHANGED <<born, cmd, process, reaped, disowned, taken, up>>
  BY DEF SequenceFails, Step, Sequence, handleVars
<1>2. proc' = Terminated(proc, P)
  <2>1. \A p \in Born : Terminated(Terminated(proc, Closing({h})), {process[h]})[p] = Terminated(proc, P)[p]
    BY DEF Terminated
  <2>2. /\ Terminated(proc, P) = [p \in Born |-> Terminated(proc, P)[p]]
        /\ proc' = [p \in Born |-> proc'[p]]
    BY <1>1 DEF Terminated
  <2> QED
    BY <1>1, <2>1, <2>2
<1>3. /\ job \in [Job -> {"none", "open", "armed", "closed"}] /\ h \in Job
      /\ reaped \in [Handle -> Codes \cup {KillCode, NoStatus}]
      /\ inheritable \subseteq ends
  BY DEF IInv, Shape, TypeOK, Job
<1>4. /\ job' \in [Job -> {"none", "open", "armed", "closed"}]
      /\ job'[h] \in {"none", "closed"}
      /\ \A g \in Handle : g # h => job'[g] = job[g]
  BY <1>1, <1>3 DEF Closed, Job
<1>5. \A g \in Handle : g # h /\ pc[g] \in Sequence => process[g] \notin P
  <2> SUFFICES ASSUME NEW g \in Handle, g # h, pc[g] \in Sequence
               PROVE  process[g] \notin P
    OBVIOUS
  <2>1. proc[process[g]].of = g /\ proc[process[h]].of = h
    BY <1>1, SequenceFacts
  <2> QED
    BY <1>1, <2>1, MembersOfOne
<1>6. /\ ends' \subseteq ends /\ inheritable' \subseteq inheritable \cap ends'
      /\ \A g \in Handle : g # h /\ <<g, "child">> \in ends => <<g, "child">> \in ends'
      /\ \A e \in ends' : e[1] # h
  BY <1>1, <1>3 DEF Without
<1>7. process[h] \in P
  OBVIOUS
<1> HIDE DEF P
<1> QED
  BY <1>1, <1>2, <1>3, <1>4, <1>5, <1>6, <1>7, LeaveInd

LEMMA DroppedInd ==
    ASSUME IInv, NEW h \in Handle, wait(h) \/ drop(h)
    PROVE  IInv'
<1> DEFINE J == IF HasJob(h) THEN {h} ELSE {}
           P == Closing(J)
           to == IF wait(h) THEN "waited" ELSE "dropped"
<1>1. /\ up /\ pc[h] = "live"
      /\ UNCHANGED <<born, cmd, process, disowned, taken, up>>
      /\ to \in {"waited", "dropped"} /\ pc' = [pc EXCEPT ![h] = to]
      /\ proc' = Terminated(proc, P) /\ job' = Closed(J)
      /\ ends' = (IF h \in taken THEN ends ELSE Without(h))
      /\ inheritable' = inheritable \cap ends'
  BY DEF wait, drop, Step, Dropped, handleVars
<1>2. /\ job \in [Job -> {"none", "open", "armed", "closed"}] /\ h \in Job
      /\ reaped \in [Handle -> Codes \cup {KillCode, NoStatus}]
      /\ process[h] \in 1..born /\ proc[process[h]].of = h
  BY <1>1 DEF IInv, Shape, TypeOK, Job, Ownership, Made, Handed
<1>3. /\ job' \in [Job -> {"none", "open", "armed", "closed"}]
      /\ \A g \in Handle : g # h => job'[g] = job[g]
  BY <1>1, <1>2 DEF Closed, Job
<1>4. \A g \in Handle : g # h /\ pc[g] \in Sequence => process[g] \notin P
  BY <1>1, MembersOfOne DEF Closing
<1>5. /\ ends' \subseteq ends /\ inheritable' \subseteq inheritable \cap ends'
      /\ \A g \in Handle : g # h /\ <<g, "child">> \in ends => <<g, "child">> \in ends'
  BY <1>1 DEF Without
\* A grouped child still has its job, it is armed, and what runs of the group
\* is in it.
<1>6. HasJob(h) => \A p \in Running : proc[p].of = h => p \in P
  <2> SUFFICES ASSUME HasJob(h), NEW p \in Running, proc[p].of = h
               PROVE  p \in P
    OBVIOUS
  <2>1. job[h] = "armed"
    BY <1>1 DEF IInv, JobsAreArmed
  <2>2. h \in proc[p].jobs /\ p \in 1..born
    BY DEF IInv, GroupedFromTheStart, HasJob, Running
  <2> QED
    BY <2>1, <2>2 DEF Closing, Members
<1>7. /\ reaped' \in [Handle -> Codes \cup {KillCode, NoStatus}]
      /\ \A g \in Handle : g # h => reaped'[g] = reaped[g]
      /\ to # "waited" => reaped' = reaped
      /\ to = "waited" => /\ reaped'[h] # NoStatus /\ proc[process[h]].st = "exited"
                          /\ reaped'[h] = proc[process[h]].code
  <2>1. CASE wait(h)
    <3>1. /\ reaped' = [reaped EXCEPT ![h] = Status(h)] /\ Status(h) # NoStatus
      BY <2>1 DEF wait
    <3>2. /\ proc[process[h]].st = "exited" /\ Status(h) = proc[process[h]].code
      BY <1>2, <3>1 DEF IInv, StashIsTrue, Status
    <3>3. Status(h) \in Codes \cup {KillCode}
      BY <1>2, <3>2 DEF IInv, CodesAreOwn
    <3> QED
      BY <1>2, <2>1, <3>1, <3>2, <3>3
  <2>2. CASE ~wait(h)
    BY <1>2, <2>2 DEF drop, handleVars
  <2> QED
    BY <2>1, <2>2
<1> HIDE DEF P, to
<1>8. to # "failed" /\ to \in {"failed", "waited", "dropped"}
  BY <1>1
<1> QED
  BY <1>1, <1>2, <1>3, <1>4, <1>5, <1>6, <1>7, <1>8, LeaveInd

-----------------------------------------------------------------------------
(* The other operations, and the end of this process                       *)

\* try_wait stashes the status, disown gives the job away.
LEMMA StashInd ==
    ASSUME IInv, NEW h \in Handle, try_wait(h) \/ disown(h)
    PROVE  IInv'
<1> USE DEF Before, Sequence, Handed, Made
<1>1. /\ up /\ pc[h] = "live"
      /\ UNCHANGED <<proc, born, pc, cmd, process, job, ends, inheritable, taken, up>>
      /\ \/ reaped' = [reaped EXCEPT ![h] = Status(h)] /\ Status(h) # NoStatus /\ disowned' = disowned
         \/ reaped' = reaped /\ disowned' = disowned \cup {h}
  BY DEF try_wait, disown, Live, spawnVars, pipeVars
<1>2. /\ process[h] \in 1..born /\ reaped \in [Handle -> Codes \cup {KillCode, NoStatus}]
  BY <1>1 DEF IInv, Shape, Ownership
<1>3. Status(h) # NoStatus =>
        /\ proc[process[h]].st = "exited" /\ Status(h) = proc[process[h]].code
        /\ Status(h) \in Codes \cup {KillCode}
  BY <1>2 DEF IInv, StashIsTrue, Status, CodesAreOwn
<1>4. Shape'
  <2>1. reaped' \in [Handle -> Codes \cup {KillCode, NoStatus}]
    BY <1>1, <1>2, <1>3
  <2> QED
    BY <1>1, <2>1 DEF IInv, Shape, TypeOK, Opened
<1>5. JobsAreArmed'
  BY <1>1 DEF IInv, JobsAreArmed, HasJob, Grouped
<1>6. StashIsTrue'
  BY <1>1, <1>2, <1>3 DEF IInv, StashIsTrue
<1>7. GoneMeansGone'
  BY <1>1 DEF IInv, GoneMeansGone, HasJob, Grouped, Running
<1>8. Pipes' /\ Ownership'
  BY <1>1 DEF IInv, Pipes, Ownership, Grouped
<1>9. Adopted' /\ NoneIsRefused' /\ Suspended' /\ CodesAreOwn' /\ NothingRuns'
  BY <1>1 DEF IInv, Adopted, NoneIsRefused, Suspended, CodesAreOwn, NothingRuns
<1>10. PidsAreUnique'
  BY <1>1 DEF IInv, PidsAreUnique, Object, Opened, Alive
<1>11. GroupedFromTheStart' /\ (ParentEndStaysHome')
  BY <1>1 DEF IInv, GroupedFromTheStart, ParentEndStaysHome, Running, Grouped
<1> QED
  BY <1>4, <1>5, <1>6, <1>7, <1>8, <1>9, <1>10, <1>11 DEF IInv

LEMMA AdoptInd ==
    ASSUME IInv, NEW k \in Pid, adopt(k)
    PROVE  IInv'
<1> USE DEF Before, Sequence, Handed, Made
<1>1. PICK q \in Named(k) :
        /\ proc[q].st = "running"
        /\ process' = [process EXCEPT ![Adopter] = q]
        /\ job' = [job EXCEPT ![Adopter] = "armed"]
        /\ proc' = [proc EXCEPT ![q].jobs = @ \cup {Adopter}]
  BY DEF adopt
<1>2. up /\ UNCHANGED <<born, pc, cmd, reaped, disowned, ends, inheritable, taken, up>>
  BY DEF adopt, spawnVars, pipeVars
<1>3. /\ q \in 1..born /\ born \in 0..MaxBorn /\ proc = [p \in Born |-> proc[p]]
      /\ \A p \in 1..born : p \in Born /\ proc[p] \in Process
      /\ \A p \in Born : p > born => proc[p].st = "unborn"
  BY MaxBornNat DEF Named, IInv, Shape, TypeOK, Born
<1>4. /\ process \in [Job -> 0..born] /\ job \in [Job -> {"none", "open", "armed", "closed"}]
      /\ Adopter \in Job /\ Handle \subseteq Job
  BY DEF IInv, Shape, TypeOK, Job
<1>5. /\ process' \in [Job -> 0..born] /\ job' \in [Job -> {"none", "open", "armed", "closed"}]
      /\ \A h \in Handle : process'[h] = process[h] /\ job'[h] = job[h]
      /\ process'[Adopter] = q
  BY <1>1, <1>3, <1>4, AdopterIsNoHandle
<1>6. /\ proc' = [p \in Born |-> proc'[p]] /\ \A p \in Born : p # q => proc'[p] = proc[p]
      /\ proc'[q] = [proc[q] EXCEPT !.jobs = @ \cup {Adopter}]
  BY <1>1, <1>3
<1>7. /\ proc'[q] \in Process
      /\ proc'[q].jobs = proc[q].jobs \cup {Adopter}
      /\ proc'[q].st = proc[q].st /\ proc'[q].code = proc[q].code /\ proc'[q].of = proc[q].of
      /\ proc'[q].pid = proc[q].pid /\ proc'[q].holds = proc[q].holds
  <2>1. proc[q] \in Process /\ proc[q].jobs \cup {Adopter} \in SUBSET Job
    BY <1>3, <1>4 DEF Process
  <2> QED
    BY <1>6, <2>1 DEF Process
<1>8. \A p \in 1..born :
        /\ proc'[p] \in Process
        /\ proc'[p].st = proc[p].st /\ proc'[p].code = proc[p].code /\ proc'[p].of = proc[p].of
        /\ proc'[p].pid = proc[p].pid /\ proc'[p].holds = proc[p].holds
  BY <1>3, <1>6, <1>7
<1>81. \A p \in 1..born :
        proc'[p].jobs = IF p = q THEN proc[p].jobs \cup {Adopter} ELSE proc[p].jobs
  BY <1>3, <1>6, <1>7
<1>9. Shape'
  <2>1. \A p \in Born : IF p <= born THEN proc'[p] \in Process ELSE proc'[p].st = "unborn"
    <3> SUFFICES ASSUME NEW p \in Born
                 PROVE  IF p <= born THEN proc'[p] \in Process ELSE proc'[p].st = "unborn"
      OBVIOUS
    <3>1. IF p <= born THEN p \in 1..born ELSE p > born /\ p # q
      BY <1>3, MaxBornNat DEF Born
    <3> QED
      BY <1>3, <1>6, <1>8, <3>1
  <2>2. \A g \in Handle : Opened(g)' => process'[g] \in 1..born /\ proc'[process'[g]].of = g
    <3>1. \A g \in Handle : Opened(g) => process[g] \in 1..born /\ proc[process[g]].of = g
      BY DEF IInv, Shape, TypeOK
    <3>2. \A g \in Handle : Opened(g)' => Opened(g)
      BY <1>2 DEF Opened
    <3>3. \A p \in 1..born : proc'[p].of = proc[p].of
      BY <1>8
    <3> QED
      BY <1>5, <3>1, <3>2, <3>3
  <2> QED
    BY <1>2, <1>5, <1>6, <2>1, <2>2 DEF IInv, Shape, TypeOK
<1>10. Pipes'
  BY <1>2 DEF IInv, Pipes
<1>11. ParentEndStaysHome'
  BY <1>2, <1>8 DEF IInv, ParentEndStaysHome
<1>12. Ownership'
  <2>1. Ownership
    BY DEF IInv
  <2>2. \A p \in 1..born : proc[p].of \in Handle
    BY ProcessFacts DEF IInv
  <2> QED
    <3>1. \A p \in 1..born : proc'[p].of = proc[p].of
      BY <1>8
    <3>2. \A h \in Handle :
            /\ pc[h] \in Before => \A p \in 1..born : proc'[p].of # h
            /\ pc[h] \in Made => process'[h] \in 1..born /\ proc'[process'[h]].of = h
            /\ pc[h] \in Sequence => Grouped(h)
      BY <1>5, <2>1, <3>1 DEF Ownership
    <3>3. \A p \in 1..born :
            /\ proc[p].jobs \subseteq {proc[p].of, Adopter}
            /\ proc[p].of \in proc[p].jobs => Grouped(proc[p].of)
      BY <2>1 DEF Ownership
    <3>4. \A p \in 1..born :
            /\ proc'[p].jobs \subseteq {proc'[p].of, Adopter}
            /\ proc'[p].of \in proc'[p].jobs => Grouped(proc'[p].of)
      BY <1>81, <2>2, <3>1, <3>3, AdopterIsNoHandle
    <3> QED
      BY <1>2, <3>2, <3>4 DEF Ownership, Grouped
<1>13. Adopted'
  BY <1>3, <1>5, <1>81 DEF Adopted
<1>14. NoneIsRefused'
  BY <1>2, <1>8 DEF IInv, NoneIsRefused
<1>15. Suspended'
  <2> SUFFICES ASSUME NEW g \in Handle, pc[g] \in Sequence
               PROVE  /\ \A p \in 1..born : proc'[p].of = g => p = process[g]
                      /\ proc'[process[g]].st = "suspended"
                      /\ proc'[process[g]].jobs = IF pc[g] = "resume" THEN {g} ELSE {}
    BY <1>2, <1>5 DEF Suspended
  <2>1. process[g] \in 1..born /\ proc[process[g]].st = "suspended"
    BY <1>2, SequenceFacts
  <2>2. /\ \A p \in 1..born : proc[p].of = g => p = process[g]
        /\ proc[process[g]].jobs = IF pc[g] = "resume" THEN {g} ELSE {}
    BY <1>2 DEF IInv, Suspended
  <2>3. process[g] # q
    BY <1>1, <2>1
  <2> QED
    BY <1>8, <1>81, <2>1, <2>2, <2>3
<1>16. JobsAreArmed'
  BY <1>2, <1>5 DEF IInv, JobsAreArmed, HasJob, Grouped
<1>17. StashIsTrue'
  <2>1. \A g \in Handle : pc[g] \in Handed => process[g] \in 1..born
    BY DEF IInv, Ownership
  <2> QED
    <3>1. \A p \in 1..born : proc'[p].st = proc[p].st /\ proc'[p].code = proc[p].code
      BY <1>8
    <3>2. StashIsTrue
      BY DEF IInv
    <3> QED
      BY <1>2, <1>5, <2>1, <3>1, <3>2 DEF StashIsTrue
<1>18. CodesAreOwn' /\ NothingRuns'
  BY <1>2, <1>8 DEF IInv, CodesAreOwn, NothingRuns
<1>19. PidsAreUnique'
  <2>1. \A p \in 1..born : Object(p)' => Object(p)
    <3>1. \A p \in 1..born : Alive(p)' => Alive(p)
      BY <1>8 DEF Alive
    <3>2. Alive(q)
      BY <1>1 DEF Alive
    <3> QED
      BY <1>2, <1>5, <3>1, <3>2 DEF Object, Opened
  <2> QED
    BY <1>2, <1>8, <2>1 DEF IInv, PidsAreUnique
<1>20. GroupedFromTheStart' /\ GoneMeansGone'
  <2>1. /\ Running' = Running
        /\ \A p \in Running : proc'[p].of = proc[p].of /\ proc[p].jobs \subseteq proc'[p].jobs
    BY <1>2, <1>8, <1>81 DEF Running
  <2>2. GroupedFromTheStart /\ GoneMeansGone
    BY DEF IInv
  <2> QED
    BY <1>2, <2>1, <2>2 DEF GroupedFromTheStart, GoneMeansGone, Grouped, HasJob
<1> QED
  BY <1>9, <1>10, <1>11, <1>12, <1>13, <1>14, <1>15, <1>16, <1>17, <1>18, <1>19, <1>20 DEF IInv

LEMMA CrashInd ==
    ASSUME IInv, Crash
    PROVE  IInv'
<1> USE DEF Before, Sequence, Handed, Made
<1>1. /\ ~up' /\ up' \in BOOLEAN /\ proc' = Terminated(proc, Closing(Job)) /\ job' = Closed(Job)
      /\ ends' = {} /\ inheritable' = {}
      /\ UNCHANGED <<born, pc, cmd, process, reaped, disowned, taken>>
  BY DEF Crash, spawnVars, handleVars
<1>2. Decay
  BY <1>1, TerminatedFacts DEF IInv
<1>3. /\ \A p \in Running' : p \in Running
      /\ \A p \in 1..born : Alive(p)' => Alive(p)
      /\ \A p \in 1..born : proc[p].st = "exited" =>
            proc'[p].st = "exited" /\ proc'[p].code = proc[p].code
      /\ ParentEndStaysHome'
      /\ CodesAreOwn' /\ GroupedFromTheStart'
  BY <1>1, <1>2, DecayKeeps
<1>4. /\ born' = born /\ proc' = [p \in Born |-> proc'[p]]
      /\ \A p \in Born : p > born => proc'[p].st = "unborn"
      /\ \A p \in 1..born : /\ proc'[p] \in Process /\ proc'[p].pid = proc[p].pid
                            /\ proc'[p].of = proc[p].of /\ proc'[p].jobs = proc[p].jobs
  BY <1>2 DEF Decay
<1>5. Shape'
  <2>1. \A p \in Born : IF p <= born THEN proc'[p] \in Process ELSE proc'[p].st = "unborn"
    <3>1. born \in 0..MaxBorn
      BY ProcessFacts DEF IInv
    <3> QED
      BY <1>4, <3>1, MaxBornNat DEF Born
  <2>2. \A g \in Handle : ~Opened(g)'
    BY <1>1 DEF Opened
  <2>3. job' \in [Job -> {"none", "open", "armed", "closed"}]
    BY <1>1 DEF IInv, Shape, TypeOK, Closed
  <2> QED
    BY <1>1, <1>4, <2>1, <2>2, <2>3 DEF IInv, Shape, TypeOK
<1>6. Pipes'
  BY <1>1 DEF IInv, Pipes
<1>7. Ownership'
  BY <1>1, <1>4 DEF IInv, Ownership, Grouped
<1>8. Adopted'
  <2>1. process[Adopter] # 0 => process[Adopter] \in 1..born
    BY ProcessFacts, MaxBornNat DEF IInv, Shape, Job
  <2> QED
    BY <1>1, <1>4, <2>1 DEF IInv, Adopted
<1>9. NoneIsRefused'
  BY <1>1, <1>4 DEF IInv, NoneIsRefused
<1>10. Suspended' /\ NothingRuns'
  BY <1>1 DEF Suspended, NothingRuns
<1>11. JobsAreArmed'
  BY <1>1 DEF IInv, JobsAreArmed, HasJob, Closed, Job
<1>12. StashIsTrue'
  BY <1>1, <1>3 DEF IInv, StashIsTrue, Ownership
<1>13. PidsAreUnique'
  <2>1. \A p \in 1..born : Object(p)' => Object(p)
    BY <1>1, <1>3 DEF Object, Opened
  <2> QED
    BY <1>4, <2>1 DEF IInv, PidsAreUnique
<1>14. GoneMeansGone'
  BY <1>1, <1>3, <1>4 DEF IInv, GoneMeansGone, Running, HasJob, Grouped
<1> QED
  BY <1>3, <1>5, <1>6, <1>7, <1>8, <1>9, <1>10, <1>11, <1>12, <1>13, <1>14 DEF IInv

-----------------------------------------------------------------------------
(* The invariant                                                           *)

LEMMA InitInd ==
    ASSUME Init
    PROVE  IInv
<1> USE DEF Init, Before, Sequence, Handed, Made
<1>1. born = 0 /\ 1..born = {} /\ born \in 0..MaxBorn /\ Running = {}
  BY MaxBornNat DEF Running
<1>2. Shape
  <2>1. \A p \in Born : ~(p <= born) /\ proc[p].st = "unborn"
    BY <1>1, MaxBornNat DEF Born
  <2>2. \A h \in Handle : ~Opened(h)
    BY DEF Opened
  <2>3. cmd \in [Handle -> Cmd]
    BY CmdsAreCommands
  <2> QED
    BY <1>1, <2>1, <2>2, <2>3 DEF Shape, TypeOK
<1>3. Pipes /\ Ownership /\ NoneIsRefused /\ Suspended /\ JobsAreArmed
  BY <1>1 DEF Pipes, Ownership, NoneIsRefused, Suspended, JobsAreArmed, Job
<1>4. StashIsTrue /\ CodesAreOwn /\ PidsAreUnique /\ NothingRuns /\ Adopted
  BY <1>1 DEF StashIsTrue, CodesAreOwn, PidsAreUnique, NothingRuns, Adopted, Job
<1>5. GroupedFromTheStart /\ GoneMeansGone /\ ParentEndStaysHome
  BY <1>1 DEF GroupedFromTheStart, GoneMeansGone, ParentEndStaysHome
<1> QED
  BY <1>2, <1>3, <1>4, <1>5 DEF IInv

LEMMA StutterInd ==
    ASSUME IInv, UNCHANGED vars
    PROVE  IInv'
<1> USE DEF vars
<1>1. Shape' /\ Pipes' /\ Ownership'
  BY DEF IInv, Shape, TypeOK, Opened, Pipes, Ownership, Grouped
<1>2. NoneIsRefused' /\ Suspended' /\ JobsAreArmed' /\ StashIsTrue' /\ CodesAreOwn'
  BY DEF IInv, NoneIsRefused, Suspended, JobsAreArmed, HasJob, Grouped, StashIsTrue, CodesAreOwn
<1>3. PidsAreUnique'
  BY DEF IInv, PidsAreUnique, Object, Opened, Alive
<1>4. GroupedFromTheStart' /\ GoneMeansGone' /\ NothingRuns' /\ Adopted' /\ (ParentEndStaysHome')
  BY DEF IInv, GroupedFromTheStart, GoneMeansGone, NothingRuns, Adopted, ParentEndStaysHome,
         Running, HasJob, Grouped
<1> QED
  BY <1>1, <1>2, <1>3, <1>4 DEF IInv

LEMMA NextInd ==
    ASSUME IInv, [Next]_vars
    PROVE  IInv'
<1>1. ASSUME NEW h \in Handle, SpawnStep(h)
      PROVE  IInv'
  BY <1>1, PipeActionsInd, CreateProcessInd, JobStepsInd, AssignResumeInd, SequenceFailsInd
     DEF SpawnStep
<1>2. ASSUME NEW h \in Handle, ChildStep(h)
      PROVE  IInv'
  BY <1>2, DroppedInd, StashInd, KillsInd, PipeActionsInd DEF ChildStep
<1>3. CASE GroupStep
  BY <1>3, AdoptInd, KillsInd DEF GroupStep
<1>4. CASE KernelStep
  BY <1>4, EndsInd, ForkInd DEF KernelStep
<1>5. CASE Crash
  BY <1>5, CrashInd
<1>6. CASE UNCHANGED vars
  BY <1>6, StutterInd
<1> QED
  BY <1>1, <1>2, <1>3, <1>4, <1>5, <1>6 DEF Next

\* The invariant holds in every reachable state: of the steps of spawn, of
\* what its caller does with the child, and of what the system does meanwhile.
THEOREM Invariance == Spec => []IInv
  BY InitInd, NextInd, PTL DEF Spec

-----------------------------------------------------------------------------
(* What the invariant says                                                 *)

\* A live child's pid is its own while the handle is open, so that is_alive
\* asks about this process and no other.
LEMMA LiveObject ==
    ASSUME IInv, NEW h \in Handle, Live(h)
    PROVE  LET p == process[h] IN p \in 1..born /\ Named(proc[p].pid) = {p}
<1> DEFINE p == process[h]
<1>1. p \in 1..born
  BY DEF IInv, Ownership, Live, Made, Handed
<1>2. Object(p)
  BY DEF Object, Opened, Live
<1>3. \A q \in 1..born : Object(q) /\ proc[q].pid = proc[p].pid => q = p
  BY <1>1, <1>2 DEF IInv, PidsAreUnique
<1> QED
  BY <1>1, <1>2, <1>3 DEF Named

LEMMA IInvProbesAgree ==
    ASSUME IInv
    PROVE  ProbesAgree
<1> SUFFICES ASSUME NEW h \in Handle, Live(h)
             PROVE  /\ reaped[h] \notin {NoStatus, STILL_ACTIVE} => ~is_alive(proc[process[h]].pid)
                    /\ ~is_alive(proc[process[h]].pid) => Status(h) # NoStatus
  BY DEF ProbesAgree
<1> DEFINE p == process[h]
<1>1. p \in 1..born /\ Named(proc[p].pid) = {p}
  BY LiveObject
<1>2. is_alive(proc[p].pid) <=> Alive(p) \/ proc[p].code = STILL_ACTIVE
  BY <1>1 DEF is_alive
<1>3. reaped[h] # NoStatus => proc[p].st = "exited" /\ proc[p].code = reaped[h]
  BY DEF IInv, StashIsTrue
<1>4. reaped[h] \notin {NoStatus, STILL_ACTIVE} => ~Alive(p) /\ proc[p].code # STILL_ACTIVE
  BY <1>3 DEF Alive
<1>5. proc[p].st \in {"suspended", "running", "dying", "exited"}
      /\ proc[p].code \in Codes \cup {STILL_ACTIVE, KillCode}
  BY <1>1, ProcessFacts DEF IInv, Process
<1>6. ~Alive(p) => proc[p].st = "exited"
  BY <1>5 DEF Alive
<1>7. ~Alive(p) => Status(h) # NoStatus
  BY <1>3, <1>5, <1>6, CodesAreStatuses DEF Status
<1> QED
  BY <1>2, <1>4, <1>7

LEMMA IInvFailedSpawn ==
    ASSUME IInv
    PROVE  FailedSpawnLeavesNothing
  BY DEF IInv, FailedSpawnLeavesNothing, NothingRuns, Pipes, JobsAreArmed

\* TypeOK, for any number of spawns: processes are born in order, and a handle
\* past CreateProcessW refers to a process that was born for it.
THEOREM TypeCorrect == Spec => []TypeOK
<1>1. IInv => TypeOK
  BY DEF IInv, Shape
<1> QED
  BY <1>1, Invariance, PTL

\* GroupsHold, for any number of spawns and processes: nothing of a NewGroup
\* child runs outside its job, nothing of it is left when the child is waited
\* for or dropped, and is_alive and try_wait never contradict each other.
THEOREM GroupsAlwaysHold == Spec => []GroupsHold
<1>1. IInv => GroupsHold
  BY IInvProbesAgree DEF IInv, GroupsHold
<1> QED
  BY <1>1, Invariance, PTL

\* SpawnIsClean, in either arm of make_pipe: a spawn that failed leaves no
\* process, no pipe end and no job, and the parent's end of a pipe is never in
\* the child it leads to nor in what that child starts, however many spawns
\* interleave.  It may be in the child of an overlapping spawn of the default
\* arm, where both ends are inheritable until set_inheritable.
THEOREM SpawnsAreClean == Spec => []SpawnIsClean
<1>1. IInv => SpawnIsClean
  BY IInvFailedSpawn DEF IInv, Shape, SpawnIsClean
<1> QED
  BY <1>1, Invariance, PTL

\* ParentEndNeverLeaks holds where make_pipe marks the child's end up (Track
\* W): the parent's end gets into no process at all.  The default arm breaks it.
THEOREM TrackWNeverLeaks ==
    ASSUME TrackW
    PROVE  Spec => []ParentEndNeverLeaks
<1>1. IInv => ParentEndNeverLeaks
  BY DEF IInv, ParentEndStaysHome, ParentEndNeverLeaks
<1> QED
  BY <1>1, Invariance, PTL

\* DetachedOutlives: when this process ends, a detached child that was not
\* adopted goes on.  A detached Command is refused together with NewGroup, so
\* the child is in no job that closes with this process.
THEOREM DetachedAlwaysOutlives == Spec => DetachedOutlives
<1> DEFINE Outlives ==
      up' # up => \A p \in Running : LET h == proc[p].of IN
          cmd[h].detached /\ Adopter \notin proc[p].jobs => proc'[p].st = "running"
<1>1. ASSUME IInv, [Next]_vars
      PROVE  Outlives
  <2>1. CASE Crash
    <3> SUFFICES ASSUME NEW p \in Running, cmd[proc[p].of].detached, Adopter \notin proc[p].jobs
                 PROVE  proc'[p].st = "running"
      OBVIOUS
    <3>1. p \in 1..born /\ proc[p].st = "running" /\ proc[p].of \in Handle
      BY <1>1, ProcessFacts DEF Running, IInv
    <3>2. ~Grouped(proc[p].of)
      BY <1>1, <3>1 DEF IInv, NoneIsRefused, Refused, Grouped
    <3>3. proc[p].jobs = {}
      BY <1>1, <3>1, <3>2 DEF IInv, Ownership
    <3>4. p \notin Closing(Job)
      BY <3>3 DEF Closing, Members
    <3>5. born' = born /\ proc' = Terminated(proc, Closing(Job))
      BY <2>1 DEF Crash
    <3> QED
      BY <1>1, <3>1, <3>4, <3>5, TerminatedFacts DEF IInv
  <2>2. CASE ~Crash
    <3> USE DEF handleVars, spawnVars, pipeVars
    <3>1. ASSUME NEW h \in Handle, SpawnStep(h)
          PROVE  up' = up
      BY <3>1 DEF SpawnStep, Begin, NotResolved, make_pipe, set_inheritable, inheritable_nul,
         inheritable_dup_of_file, inheritable_dup_of_std, OpenSlot, SlotFails, CreateProcess,
         CreateJob, set_kill_on_close, assign_to_job, resume_thread, SequenceFails, Return
    <3>2. ASSUME NEW h \in Handle, ChildStep(h)
          PROVE  up' = up
      BY <3>2 DEF ChildStep, wait, drop, try_wait, kill_tree, kill_single, take_stdout,
         CloseTaken, disown, CloseDisowned
    <3>3. GroupStep => up' = up
      BY DEF GroupStep, adopt, GroupKillTree, GroupKillSingle, GroupDrop
    <3>4. KernelStep => up' = up
      BY DEF KernelStep, Die, Exit, Fork
    <3> QED
      BY <1>1, <2>2, <3>1, <3>2, <3>3, <3>4 DEF Next, vars
  <2> QED
    BY <2>1, <2>2
<1>2. IInv /\ [Next]_vars => [Outlives]_vars
  BY <1>1
<1> QED
  BY <1>2, Invariance, PTL DEF Spec, DetachedOutlives

-----------------------------------------------------------------------------
(* The refinement of ChildContract                                         *)

LEMMA PhaseFacts ==
    ASSUME NEW h \in Handle
    PROVE  /\ PhaseOf(h) = IF pc[h] \in {"return", "live"} THEN "live"
                           ELSE IF pc[h] \in {"waited", "dropped"} THEN pc[h] ELSE "none"
           /\ PhaseOf(h)' = IF pc'[h] \in {"return", "live"} THEN "live"
                            ELSE IF pc'[h] \in {"waited", "dropped"} THEN pc'[h] ELSE "none"
  BY DEF PhaseOf

\* A handle with a phase refers to its own process.
LEMMA PhaseProcess ==
    ASSUME IInv, NEW h \in Handle, PhaseOf(h) # "none"
    PROVE  process[h] \in 1..born /\ proc[process[h]].of = h
<1>1. pc[h] \in Made
  BY PhaseFacts DEF Made, Handed
<1> QED
  BY <1>1 DEF IInv, Ownership

\* What leaves the phase of a handle and the end of its process alone is a
\* stuttering step for it.
LEMMA OutcomeKept ==
    ASSUME IInv, NEW h \in Handle, PhaseOf(h)' = PhaseOf(h), process'[h] = process[h],
           \A p \in 1..born : proc[p].of = h =>
               /\ proc'[p].st = "exited" <=> proc[p].st = "exited"
               /\ proc[p].st = "exited" => proc'[p].code = proc[p].code
    PROVE  OutcomeOf(h)' = OutcomeOf(h)
<1>1. CASE PhaseOf(h) = "none"
  BY <1>1 DEF OutcomeOf
<1>2. CASE PhaseOf(h) # "none"
  <2>1. process[h] \in 1..born /\ proc[process[h]].of = h
    BY <1>2, PhaseProcess
  <2> QED
    BY <1>2, <2>1 DEF OutcomeOf
<1> QED
  BY <1>1, <1>2

\* The processes that are there neither exit nor change the code they have
\* exited with.
NobodyExits ==
    \A p \in 1..born :
        /\ proc'[p].st = "exited" <=> proc[p].st = "exited"
        /\ proc[p].st = "exited" => proc'[p].code = proc[p].code

LEMMA Stutters ==
    ASSUME IInv, NobodyExits, reaped' = reaped,
           \A h \in Handle : PhaseOf(h)' = PhaseOf(h) /\
                             (PhaseOf(h) # "none" => process'[h] = process[h])
    PROVE  UNCHANGED Contract!vars
<1>1. ASSUME NEW h \in Handle
      PROVE  OutcomeOf(h)' = OutcomeOf(h)
  <2>1. CASE PhaseOf(h) = "none"
    BY <2>1 DEF OutcomeOf
  <2>2. CASE PhaseOf(h) # "none"
    BY <2>2, OutcomeKept DEF NobodyExits
  <2> QED
    BY <2>1, <2>2
<1> QED
  BY <1>1 DEF Contract!vars

\* The handle h is spawned, dropped or waited for; the others stay as they are.
LEMMA OthersKept ==
    ASSUME IInv, NobodyExits, NEW h \in Handle,
           \A g \in Handle : g # h => pc'[g] = pc[g] /\ process'[g] = process[g]
    PROVE  \A g \in Handle : g # h => PhaseOf(g)' = PhaseOf(g) /\ OutcomeOf(g)' = OutcomeOf(g)
<1> SUFFICES ASSUME NEW g \in Handle, g # h
             PROVE  PhaseOf(g)' = PhaseOf(g) /\ OutcomeOf(g)' = OutcomeOf(g)
  OBVIOUS
<1>1. PhaseOf(g)' = PhaseOf(g)
  BY PhaseFacts
<1> QED
  BY <1>1, OutcomeKept DEF NobodyExits

\* CreateProcessW of a child that is not grouped, ResumeThread of one that is.
LEMMA SpawnRefines ==
    ASSUME IInv, NobodyExits, NEW h \in Handle, PhaseOf(h) = "none", PhaseOf(h)' = "live",
           \A g \in Handle : g # h => pc'[g] = pc[g] /\ process'[g] = process[g],
           proc'[process'[h]].st # "exited", reaped' = reaped
    PROVE  Contract!Spawn(h)
<1>1. OutcomeOf(h) = NoStatus /\ OutcomeOf(h)' = NoStatus
  BY DEF OutcomeOf
<1>2. \A g \in Handle : g # h => PhaseOf(g)' = PhaseOf(g) /\ OutcomeOf(g)' = OutcomeOf(g)
  BY OthersKept
<1>3. [g \in Handle |-> PhaseOf(g)'] = [[g \in Handle |-> PhaseOf(g)] EXCEPT ![h] = "live"]
  BY <1>2
<1>4. [g \in Handle |-> OutcomeOf(g)'] = [g \in Handle |-> OutcomeOf(g)]
  BY <1>1, <1>2
<1> QED
  BY <1>3, <1>4 DEF Contract!Spawn

LEMMA PipeRefines ==
    ASSUME IInv, NEW h \in Handle,
           \/ Begin(h) \/ NotResolved(h) \/ make_pipe(h) \/ set_inheritable(h)
           \/ inheritable_nul(h) \/ inheritable_dup_of_file(h) \/ inheritable_dup_of_std(h)
           \/ SlotFails(h) \/ Return(h) \/ take_stdout(h) \/ CloseTaken(h)
           \/ CreateJob(h) \/ set_kill_on_close(h)
    PROVE  UNCHANGED Contract!vars
<1> USE DEF Before, Sequence, Handed, Made
<1>1. /\ UNCHANGED <<proc, born, process, reaped>>
      /\ \/ pc' = pc
         \/ \E to \in Before \cup Sequence \cup {"failed"} :
               pc[h] \in Before \cup Sequence /\ pc' = [pc EXCEPT ![h] = to]
         \/ pc[h] = "return" /\ pc' = [pc EXCEPT ![h] = "live"]
  BY DEF Begin, NotResolved, make_pipe, set_inheritable, inheritable_nul,
         inheritable_dup_of_file, inheritable_dup_of_std, OpenSlot, SlotFails, Return,
         take_stdout, CloseTaken, CreateJob, set_kill_on_close, Step, After,
         handleVars, spawnVars, pipeVars
<1>2. pc \in [Handle -> Before \cup Made \cup {"failed"}]
  BY DEF IInv, Shape
<1>3. ASSUME NEW g \in Handle
      PROVE  PhaseOf(g)' = PhaseOf(g)
  BY <1>1, <1>2, PhaseFacts
<1> QED
  BY <1>1, <1>3, Stutters DEF NobodyExits

LEMMA CreateRefines ==
    ASSUME IInv, NEW h \in Handle, NEW k \in Pid, CreateProcess(h, k)
    PROVE  Contract!Spawn(h) \/ UNCHANGED Contract!vars
<1> DEFINE x == [st |-> IF Grouped(h) THEN "suspended" ELSE "running", pid |-> k,
                 code |-> STILL_ACTIVE, of |-> h, jobs |-> {},
                 holds |-> IF use_handles(h) THEN inheritable ELSE {}]
<1>1. /\ pc[h] = "create" /\ pc' = [pc EXCEPT ![h] = IF Grouped(h) THEN "job" ELSE "return"]
      /\ process' = [process EXCEPT ![h] = born + 1] /\ reaped' = reaped
      /\ born < MaxBorn
      /\ proc' = [proc EXCEPT ![born + 1] = x]
  BY DEF CreateProcess, NewProcess, Step
<1>11. x.st = IF Grouped(h) THEN "suspended" ELSE "running"
  OBVIOUS
<1> HIDE DEF x
<1>2. /\ pc \in [Handle -> Before \cup Made \cup {"failed"}] /\ proc = [p \in Born |-> proc[p]]
      /\ process \in [Job -> 0..born] /\ born \in 0..MaxBorn /\ Handle \subseteq Job
  BY DEF IInv, Shape, TypeOK, Job
<1>3. /\ born + 1 \in Born /\ \A p \in 1..born : p \in Born /\ p # born + 1
  BY <1>1, <1>2, MaxBornNat DEF Born
<1>4. NobodyExits
  BY <1>1, <1>2, <1>3 DEF NobodyExits
<1>5. \A g \in Handle : g # h => pc'[g] = pc[g] /\ process'[g] = process[g]
  BY <1>1, <1>2
<1>6. PhaseOf(h) = "none" /\ PhaseOf(h)' = IF Grouped(h) THEN "none" ELSE "live"
  BY <1>1, <1>2, PhaseFacts
<1>7. CASE Grouped(h)
  <2>1. \A g \in Handle : PhaseOf(g)' = PhaseOf(g)
    BY <1>5, <1>6, <1>7, PhaseFacts
  <2> QED
    BY <1>1, <1>4, <1>5, <1>6, <2>1, Stutters
<1>8. CASE ~Grouped(h)
  <2>1. process'[h] = born + 1 /\ proc'[born + 1].st = "running"
    BY <1>1, <1>11, <1>2, <1>3, <1>8
  <2> QED
    BY <1>1, <1>4, <1>5, <1>6, <1>8, <2>1, SpawnRefines
<1> QED
  BY <1>7, <1>8

LEMMA AssignResumeRefines ==
    ASSUME IInv, NEW h \in Handle, assign_to_job(h) \/ resume_thread(h)
    PROVE  Contract!Spawn(h) \/ UNCHANGED Contract!vars
<1> DEFINE q == process[h]
<1>1. /\ up /\ pc[h] \in Sequence /\ UNCHANGED <<born, process, reaped>>
      /\ pc \in [Handle -> Before \cup Made \cup {"failed"}]
  BY DEF assign_to_job, resume_thread, Step, Sequence, handleVars, IInv, Shape
<1>2. q \in 1..born /\ proc[q].st = "suspended"
  BY <1>1, SequenceFacts
<1>3. proc = [p \in Born |-> proc[p]] /\ \A p \in 1..born : p \in Born /\ proc[p] \in Process
  BY ProcessFacts DEF IInv, Shape
<1>4. CASE assign_to_job(h)
  <2>1. /\ pc[h] = "assign" /\ pc' = [pc EXCEPT ![h] = "resume"]
        /\ proc' = [proc EXCEPT ![q].jobs = @ \cup {h}]
    BY <1>4 DEF assign_to_job, Step
  <2>2. proc'[q].st = "suspended" /\ \A p \in 1..born : p # q => proc'[p] = proc[p]
    BY <1>2, <1>3, <2>1 DEF Process
  <2>3. NobodyExits
    BY <1>2, <2>2 DEF NobodyExits
  <2>4. \A g \in Handle : PhaseOf(g)' = PhaseOf(g)
    BY <1>1, <2>1, PhaseFacts
  <2> QED
    BY <1>1, <2>3, <2>4, Stutters
<1>5. CASE resume_thread(h)
  <2>1. /\ pc[h] = "resume" /\ pc' = [pc EXCEPT ![h] = "return"]
        /\ proc' = [proc EXCEPT ![q].st = "running"]
    BY <1>5 DEF resume_thread, Step
  <2>2. proc'[q].st = "running" /\ \A p \in 1..born : p # q => proc'[p] = proc[p]
    BY <1>2, <1>3, <2>1 DEF Process
  <2>3. NobodyExits
    BY <1>2, <2>2 DEF NobodyExits
  <2>4. PhaseOf(h) = "none" /\ PhaseOf(h)' = "live"
    BY <1>1, <2>1, PhaseFacts
  <2>5. \A g \in Handle : g # h => pc'[g] = pc[g]
    BY <1>1, <2>1
  <2> QED
    BY <1>1, <2>2, <2>3, <2>4, <2>5, SpawnRefines
<1> QED
  BY <1>4, <1>5

\* Terminating processes ends none of them yet.
LEMMA NobodyExitsYet ==
    ASSUME IInv, NEW P, born' = born, proc' = Terminated(proc, P)
    PROVE  NobodyExits
<1>1. /\ Decay
      /\ \A p \in 1..born :
            proc'[p].st = IF p \in P /\ proc[p].st \in {"suspended", "running"}
                          THEN "dying" ELSE proc[p].st
  BY TerminatedFacts DEF IInv
<1>2. \A p \in 1..born : proc[p].st = "exited" => proc'[p].code = proc[p].code
  BY <1>1 DEF Decay
<1> QED
  BY <1>1, <1>2 DEF NobodyExits

LEMMA KillsRefine ==
    ASSUME IInv,
           \/ \E h \in Handle : \/ kill_tree(h) \/ kill_single(h) \/ CloseDisowned(h)
                                \/ SequenceFails(h) \/ disown(h)
           \/ GroupKillTree \/ GroupKillSingle \/ GroupDrop \/ Crash
           \/ \E k \in Pid : adopt(k) \/ \E p \in Born : Fork(p, k)
    PROVE  UNCHANGED Contract!vars
<1> USE DEF handleVars, spawnVars, pipeVars
<1>0. /\ pc \in [Handle -> Before \cup Made \cup {"failed"}] /\ process \in [Job -> 0..born]
      /\ Handle \subseteq Job /\ Adopter \notin Handle /\ proc = [p \in Born |-> proc[p]]
      /\ born \in 0..MaxBorn /\ \A p \in 1..born : p \in Born /\ proc[p] \in Process
  BY ProcessFacts, AdopterIsNoHandle DEF IInv, Shape, Job
<1>1. ASSUME NEW P, proc' = Terminated(proc, P), born' = born, pc' = pc, reaped' = reaped,
             \A h \in Handle : process'[h] = process[h]
      PROVE  UNCHANGED Contract!vars
  <2>1. NobodyExits
    BY <1>1, NobodyExitsYet
  <2>2. \A h \in Handle : PhaseOf(h)' = PhaseOf(h)
    BY <1>1, PhaseFacts
  <2> QED
    BY <1>1, <2>1, <2>2, Stutters
<1>2. ASSUME NEW h \in Handle, kill_tree(h) \/ kill_single(h) \/ CloseDisowned(h)
      PROVE  UNCHANGED Contract!vars
  BY <1>1, <1>2 DEF kill_tree, kill_single, CloseDisowned
<1>3. CASE GroupKillTree \/ GroupKillSingle
  BY <1>1, <1>3 DEF GroupKillTree, GroupKillSingle
<1>4. CASE GroupDrop
  <2>1. \A h \in Handle : process'[h] = process[h]
    BY <1>0, <1>4 DEF GroupDrop
  <2> QED
    BY <1>1, <1>4, <2>1 DEF GroupDrop
<1>5. CASE Crash
  BY <1>1, <1>5 DEF Crash
<1>6. ASSUME NEW h \in Handle, SequenceFails(h)
      PROVE  UNCHANGED Contract!vars
  <2>1. /\ pc[h] \in Sequence /\ pc' = [pc EXCEPT ![h] = "failed"] /\ born' = born
        /\ UNCHANGED <<process, reaped>>
        /\ proc' = Terminated(Terminated(proc, Closing({h})), {process[h]})
    BY <1>6 DEF SequenceFails, Step, Sequence
  <2>2. NobodyExits
    BY <1>0, <2>1 DEF NobodyExits, Terminated, Process
  <2>3. \A g \in Handle : PhaseOf(g)' = PhaseOf(g)
    BY <1>0, <2>1, PhaseFacts DEF Sequence
  <2> QED
    BY <2>1, <2>2, <2>3, Stutters
<1>7. ASSUME NEW h \in Handle, disown(h)
      PROVE  UNCHANGED Contract!vars
  <2>1. UNCHANGED <<proc, pc, process, reaped>>
    BY <1>7 DEF disown
  <2>2. NobodyExits /\ \A g \in Handle : PhaseOf(g)' = PhaseOf(g)
    BY <2>1, PhaseFacts DEF NobodyExits
  <2> QED
    BY <2>1, <2>2, Stutters
<1>8. ASSUME NEW k \in Pid, adopt(k)
      PROVE  UNCHANGED Contract!vars
  <2>1. PICK q \in 1..born : /\ process' = [process EXCEPT ![Adopter] = q]
                             /\ proc' = [proc EXCEPT ![q].jobs = @ \cup {Adopter}]
                             /\ UNCHANGED <<pc, reaped>>
    BY <1>8 DEF adopt, Named
  <2>2. NobodyExits
    BY <1>0, <2>1 DEF NobodyExits, Process
  <2>3. \A g \in Handle : PhaseOf(g)' = PhaseOf(g) /\ process'[g] = process[g]
    BY <1>0, <2>1, PhaseFacts
  <2> QED
    BY <2>1, <2>2, <2>3, Stutters
<1>9. ASSUME NEW k \in Pid, NEW p \in Born, Fork(p, k)
      PROVE  UNCHANGED Contract!vars
  <2>1. /\ UNCHANGED <<pc, process, reaped>>
        /\ \E x : proc' = [proc EXCEPT ![born + 1] = x]
    BY <1>9 DEF Fork, NewProcess
  <2>2. \A r \in 1..born : r # born + 1
    BY <1>0, MaxBornNat
  <2>3. NobodyExits
    BY <1>0, <2>1, <2>2 DEF NobodyExits
  <2>4. \A g \in Handle : PhaseOf(g)' = PhaseOf(g)
    BY <2>1, PhaseFacts
  <2> QED
    BY <2>1, <2>3, <2>4, Stutters
<1> QED
  BY <1>2, <1>3, <1>4, <1>5, <1>6, <1>7, <1>8, <1>9

\* try_wait and wait report what the process exited with.
LEMMA StatusIsOutcome ==
    ASSUME IInv, NEW h \in Handle, pc[h] = "live", Status(h) # NoStatus
    PROVE  PhaseOf(h) = "live" /\ OutcomeOf(h) = Status(h)
<1>1. PhaseOf(h) = "live"
  BY PhaseFacts
<1>2. proc[process[h]].st = "exited" /\ Status(h) = proc[process[h]].code
  BY DEF IInv, StashIsTrue, Status
<1> QED
  BY <1>1, <1>2 DEF OutcomeOf

LEMMA ChildRefines ==
    ASSUME IInv, NEW h \in Handle, wait(h) \/ try_wait(h) \/ drop(h)
    PROVE  Contract!Collect(h) \/ Contract!Poll(h) \/ Contract!Discard(h)
<1>0. /\ pc \in [Handle -> Before \cup Made \cup {"failed"}] /\ pc[h] = "live"
      /\ process' = process /\ born' = born
      /\ reaped \in [Handle -> Codes \cup {KillCode, NoStatus}]
  BY DEF wait, try_wait, drop, Step, Live, handleVars, IInv, Shape
<1>1. NobodyExits
  <2>1. CASE try_wait(h)
    BY <2>1 DEF try_wait, NobodyExits
  <2>2. CASE wait(h) \/ drop(h)
    BY <1>0, <2>2, NobodyExitsYet DEF wait, drop, Dropped
  <2> QED
    BY <2>1, <2>2
<1>2. PhaseOf(h) = "live"
  BY <1>0, PhaseFacts
<1>3. ASSUME NEW to \in {"live", "waited", "dropped"}, pc' = [pc EXCEPT ![h] = to]
      PROVE  /\ [g \in Handle |-> PhaseOf(g)'] = [[g \in Handle |-> PhaseOf(g)] EXCEPT ![h] = to]
             /\ [g \in Handle |-> OutcomeOf(g)'] = [g \in Handle |-> OutcomeOf(g)]
  <2>1. \A g \in Handle : g # h => PhaseOf(g)' = PhaseOf(g) /\ OutcomeOf(g)' = OutcomeOf(g)
    BY <1>0, <1>1, <1>3, OthersKept
  <2>2. PhaseOf(h)' = to
    BY <1>0, <1>3, PhaseFacts
  <2>3. process[h] \in 1..born
    BY <1>2, PhaseProcess
  <2>4. OutcomeOf(h)' = OutcomeOf(h)
    BY <1>0, <1>1, <1>2, <2>2, <2>3 DEF OutcomeOf, NobodyExits
  <2> QED
    BY <2>1, <2>2, <2>4
<1>4. CASE wait(h)
  <2>1. /\ pc' = [pc EXCEPT ![h] = "waited"] /\ Status(h) # NoStatus
        /\ reaped' = [reaped EXCEPT ![h] = Status(h)]
    BY <1>4 DEF wait, Step
  <2>2. OutcomeOf(h) = Status(h)
    BY <1>0, <2>1, StatusIsOutcome
  <2> QED
    BY <1>2, <1>3, <2>1, <2>2 DEF Contract!Collect
<1>5. CASE try_wait(h)
  <2>1. /\ pc' = [pc EXCEPT ![h] = "live"] /\ pc' = pc /\ Status(h) # NoStatus
        /\ reaped' = [reaped EXCEPT ![h] = Status(h)]
    BY <1>0, <1>5 DEF try_wait, spawnVars
  <2>2. OutcomeOf(h) = Status(h)
    BY <1>0, <2>1, StatusIsOutcome
  <2>3. [[g \in Handle |-> PhaseOf(g)] EXCEPT ![h] = "live"] = [g \in Handle |-> PhaseOf(g)]
    BY <1>2
  <2> QED
    BY <1>2, <1>3, <2>1, <2>2, <2>3 DEF Contract!Poll
<1>6. CASE drop(h)
  <2>1. pc' = [pc EXCEPT ![h] = "dropped"] /\ reaped' = reaped
    BY <1>6 DEF drop, Step, handleVars
  <2> QED
    BY <1>2, <1>3, <2>1 DEF Contract!Discard
<1> QED
  BY <1>4, <1>5, <1>6

\* The first process of a spawn ends: its descendants are not the child.
LEMMA EndsRefine ==
    ASSUME IInv, NEW q \in Born, Die(q) \/ \E c \in Codes : Exit(q, c)
    PROVE  \/ \E h \in Handle, s \in Codes \cup {KillCode} : Contract!Finish(h, s)
           \/ UNCHANGED Contract!vars
<1> USE DEF handleVars, spawnVars, pipeVars
<1>1. PICK c \in Codes \cup {KillCode} :
        proc' = [proc EXCEPT ![q].st = "exited", ![q].code = c, ![q].holds = {}]
  BY DEF Die, Exit
<1>2. /\ q \in 1..born /\ proc[q].st \in {"running", "dying"}
      /\ UNCHANGED <<born, pc, process, reaped>>
  BY DEF Die, Exit, Running
<1>3. /\ proc = [p \in Born |-> proc[p]]
      /\ \A p \in 1..born : p \in Born /\ proc[p] \in Process
  BY ProcessFacts DEF IInv, Shape
<1>4. /\ proc'[q].st = "exited" /\ proc'[q].code = c
      /\ \A p \in Born : p # q => proc'[p] = proc[p]
  BY <1>1, <1>2, <1>3 DEF Process
<1>5. \A g \in Handle : PhaseOf(g)' = PhaseOf(g)
  BY <1>2, PhaseFacts
<1>6. \A g \in Handle : PhaseOf(g) # "none" => process[g] \in 1..born /\ proc[process[g]].of = g
  BY PhaseProcess
<1>7. \A g \in Handle : PhaseOf(g) = "none" \/ process[g] # q => OutcomeOf(g)' = OutcomeOf(g)
  BY <1>2, <1>3, <1>4, <1>5, <1>6 DEF OutcomeOf
<1>8. CASE \A g \in Handle : PhaseOf(g) = "none" \/ process[g] # q
  BY <1>2, <1>5, <1>7, <1>8 DEF Contract!vars
<1>9. CASE \E g \in Handle : PhaseOf(g) # "none" /\ process[g] = q
  <2>1. PICK h \in Handle : PhaseOf(h) # "none" /\ process[h] = q
    BY <1>9
  <2>2. \A g \in Handle : g # h => OutcomeOf(g)' = OutcomeOf(g)
    BY <1>6, <1>7, <2>1
  <2>3. OutcomeOf(h) = NoStatus /\ OutcomeOf(h)' = c
    BY <1>2, <1>4, <1>5, <2>1 DEF OutcomeOf
  <2>4. PhaseOf(h) \in {"live", "dropped"}
    <3>1. pc[h] # "waited"
      BY <1>2, <2>1 DEF IInv, StashIsTrue
    <3> QED
      BY <2>1, <3>1, PhaseFacts
  <2>5. [g \in Handle |-> OutcomeOf(g)'] = [[g \in Handle |-> OutcomeOf(g)] EXCEPT ![h] = c]
    BY <2>2, <2>3
  <2>6. Contract!Finish(h, c)
    BY <1>2, <1>5, <2>3, <2>4, <2>5 DEF Contract!Finish
  <2> QED
    BY <2>6
<1> QED
  BY <1>8, <1>9

\* The Windows child keeps the promises of the Child trait: each status is the
\* child's own, it never changes, and wait hands it over once.  Of all the
\* steps of spawn only the one that lets the child run is the contract's Spawn.
THEOREM KeepsTheContract == Spec => ImplementsContract
<1>1. Init => Contract!Init
  <2> SUFFICES ASSUME Init PROVE Contract!Init
    OBVIOUS
  <2>1. \A h \in Handle : PhaseOf(h) = "none"
    BY PhaseFacts DEF Init
  <2>2. \A h \in Handle : OutcomeOf(h) = NoStatus
    BY <2>1 DEF OutcomeOf
  <2> QED
    BY <2>1, <2>2 DEF Init, Contract!Init
<1>2. IInv /\ [Next]_vars => [Contract!Next]_(Contract!vars)
  <2> SUFFICES ASSUME IInv, [Next]_vars PROVE [Contract!Next]_(Contract!vars)
    OBVIOUS
  <2>1. ASSUME NEW h \in Handle, SpawnStep(h)
        PROVE  [Contract!Next]_(Contract!vars)
    BY <2>1, PipeRefines, CreateRefines, AssignResumeRefines, KillsRefine
       DEF SpawnStep, Contract!Next
  <2>2. ASSUME NEW h \in Handle, ChildStep(h)
        PROVE  [Contract!Next]_(Contract!vars)
    BY <2>2, ChildRefines, KillsRefine, PipeRefines DEF ChildStep, Contract!Next
  <2>3. CASE GroupStep \/ Crash
    BY <2>3, KillsRefine DEF GroupStep
  <2>4. CASE KernelStep
    BY <2>4, EndsRefine, KillsRefine DEF KernelStep, Contract!Next
  <2>5. CASE UNCHANGED vars
    <3>1. \A h \in Handle : PhaseOf(h)' = PhaseOf(h)
      BY <2>5, PhaseFacts DEF vars
    <3>2. NobodyExits /\ reaped' = reaped /\ process' = process
      BY <2>5 DEF vars, NobodyExits
    <3> QED
      BY <3>1, <3>2, Stutters
  <2> QED
    BY <2>1, <2>2, <2>3, <2>4, <2>5 DEF Next
<1> QED
  BY <1>1, <1>2, Invariance, PTL DEF Spec, ImplementsContract, Contract!Spec
=============================================================================
