------------------------- MODULE LinuxProcessProofs -------------------------
(***************************************************************************)
(* Theorems about LinuxProcess, for any set of pids, handles, exit codes   *)
(* and signals.                                                            *)
(***************************************************************************)
EXTENDS LinuxProcess, TLAPS

-----------------------------------------------------------------------------
(* The inductive invariant                                                 *)

\* Incarnation numbers are handed out once: no two processes of the table
\* and no two handles share one.
Incarnations ==
    /\ \A p \in Pid : Used(p) => proc[p].inc \in 1..born
    /\ \A p, q \in Pid : Used(p) /\ Used(q) /\ proc[p].inc = proc[q].inc => p = q
    /\ \A h \in Handle : child[h].phase # "none" => child[h].inc \in 1..born
    /\ \A h \in Handle : child[h].phase = "none" => child[h] = NoChild
    /\ \A h, k \in Handle :
          /\ child[h].phase # "none"
          /\ child[k].phase # "none"
          /\ child[h].inc = child[k].inc
          => h = k
    /\ \A i \in 1..MaxBorn : i > born => fate[i] = NoStatus

\* A child of the program has a fate exactly when it is a zombie, and the
\* zombie's status word encodes it.
FateIsInTheTable ==
    \A p \in Pid : Used(p) /\ proc[p].ours =>
        IF proc[p].state = "zombie"
        THEN /\ fate[proc[p].inc] \in Terminal
             /\ proc[p].word \in Words(fate[proc[p].inc])
        ELSE fate[proc[p].inc] = NoStatus

\* A thread blocks in a wait only when there is no stashed status.
BlockedHasNoStash ==
    \A h \in Handle : child[h].phase \in {"waiting", "jobwait"}
                          => child[h].reaped = NoStatus

IndInv ==
    /\ TypeOK
    /\ Incarnations
    /\ BlockedHasNoStash
    /\ UnreapedIsTheChild
    /\ FateIsInTheTable
    /\ StatusIsTrue

\* One process group, one founder; the program's own group is number 0's.
GroupsHaveOneFounder ==
    /\ \A p, q \in Pid : Used(p) /\ Used(q) /\ proc[p].pgid = proc[q].pgid
                            => proc[p].job = proc[q].job
    /\ \A p \in Pid : Used(p) /\ proc[p].pgid = ParentGroup => proc[p].job = 0

\* The group a handle would kill is the group its child is in.
HandlesKnowTheirGroup ==
    \A h \in Handle : Unreaped(h) /\ child[h].group # NoGroup =>
        /\ child[h].group # 0
        /\ proc[child[h].pid].pgid = child[h].group
        /\ proc[child[h].pid].job = child[h].job

GroupInv == GroupsHaveOneFounder /\ HandlesKnowTheirGroup

-----------------------------------------------------------------------------
(* Status words                                                            *)

\* The status word the kernel makes of a termination decodes to it, by both
\* decoders: the raw word never leaks and no arm is taken for another.
LEMMA DecodeIsFaithful ==
    ASSUME NEW s \in Terminal, NEW w \in Words(s)
    PROVE  decode(w) = s /\ decode_job(w) = s /\ ~IsJobEvent(s)
<1>1. CASE \E n \in ExitCodes : s = Status("Code", n)
  <2>1. PICK n \in ExitCodes : s = Status("Code", n)
    BY <1>1
  <2>2. n \in 0..255
    BY CodeAssumption
  <2>3. w = n * 256
    BY <2>1 DEF Words, Status
  <2>4. w % 128 = 0 /\ (w \div 256) % 256 = n
    BY <2>2, <2>3
  <2> QED
    BY <2>1, <2>4 DEF decode, decode_job, WIFEXITED, WEXITSTATUS, Status,
                      IsJobEvent
<1>2. CASE \E n \in Deaths : s = Status("Signaled", n)
  <2>1. PICK n \in Deaths : s = Status("Signaled", n)
    BY <1>2
  <2>2. n \in 1..64
    BY CodeAssumption
  <2>3. w = n \/ w = n + 128
    BY <2>1 DEF Words, Status, signum_of
  <2>4. w % 128 = n
    BY <2>2, <2>3
  <2> QED
    BY <2>1, <2>2, <2>4 DEF decode, decode_job, WIFEXITED, WIFSIGNALED,
                            WTERMSIG, Status, IsJobEvent
<1> QED
  BY <1>1, <1>2 DEF Terminal

\* A stop or continue notification decodes to what it is.
LEMMA EventsAreJobEvents ==
    ASSUME NEW e \in {"stopped", "continued"}
    PROVE  IsJobEvent(decode_job(EventWord(e)))
  BY DEF EventWord, decode_job, WIFEXITED, WIFSIGNALED, WIFSTOPPED, WSTOPSIG,
         Status, Continued, IsJobEvent

\* No termination is taken for "no status yet".
LEMMA TerminalIsNotNone == NoStatus \notin Terminal
  BY DEF NoStatus, Terminal, Status

-----------------------------------------------------------------------------
(* The invariant is inductive                                              *)

\* Before the first spawn there is nothing to relate.
LEMMA InitInd == Init => IndInv
<1> SUFFICES ASSUME Init PROVE IndInv
  OBVIOUS
<1> USE PidAssumption, BoundAssumption DEF Init
<1>1. TypeOK
  BY DEF TypeOK, ProcRecord, ChildRecord, Free, NoChild, NoGroup, NoCall
<1>2. Incarnations
  BY DEF Incarnations, Used, Free, NoChild
<1>3. UnreapedIsTheChild /\ StatusIsTrue /\ BlockedHasNoStash
  BY DEF UnreapedIsTheChild, Unreaped, StatusIsTrue, BlockedHasNoStash, NoChild
<1>4. FateIsInTheTable
  BY DEF FateIsInTheTable, Used, Free
<1> QED
  BY <1>1, <1>2, <1>3, <1>4 DEF IndInv

\* A child ends: its incarnation had no fate before, so no stash is affected.
LEMMA TerminateInd ==
    ASSUME IndInv, NEW p \in Pid, NEW s \in Terminal, Terminate(p, s)
    PROVE  IndInv'
<1> USE BoundAssumption DEF IndInv
<1>1. PICK w \in Words(s) :
         proc' = [proc EXCEPT ![p] = [proc[p] EXCEPT !.state = "zombie",
                                        !.word = w, !.event = "none"]]
  BY DEF Terminate
<1>2. /\ proc[p].state \in {"running", "dying"} /\ proc[p].ours
      /\ fate' = [fate EXCEPT ![proc[p].inc] = s]
      /\ call' = NoCall
      /\ UNCHANGED <<child, born>>
  BY DEF Terminate
<1>3. Used(p) /\ proc[p].inc \in 1..MaxBorn /\ fate[proc[p].inc] = NoStatus
  BY <1>2 DEF TypeOK, Used, Incarnations, FateIsInTheTable
<1>4. w \in Nat
  BY CodeAssumption DEF Words, Terminal, Status, signum_of
<1>5. \A q \in Pid : Used(q)' <=> Used(q)
  BY <1>1, <1>2 DEF TypeOK, ProcRecord, Used
<1>6. \A q \in Pid : /\ proc'[q].inc = proc[q].inc
                     /\ proc'[q].ours = proc[q].ours
                     /\ q # p => proc'[q] = proc[q]
  BY <1>1 DEF TypeOK, ProcRecord
<1>7. TypeOK'
  <2>1. [proc[p] EXCEPT !.state = "zombie", !.word = w, !.event = "none"]
            \in ProcRecord
    <3>1. proc[p] \in ProcRecord
      BY DEF TypeOK
    <3> QED
      BY <1>4, <3>1 DEF ProcRecord
  <2>2. proc' \in [Pid -> ProcRecord]
    BY <1>1, <2>1 DEF TypeOK
  <2>3. fate' \in [1..MaxBorn -> Terminal \union {NoStatus}]
    BY <1>2, <1>3 DEF TypeOK
  <2> QED
    BY <1>2, <2>2, <2>3 DEF TypeOK, NoCall
<1>8. Incarnations'
  BY <1>2, <1>3, <1>5, <1>6 DEF TypeOK, Incarnations
<1>9. UnreapedIsTheChild'
  BY <1>2, <1>5, <1>6 DEF UnreapedIsTheChild, Unreaped
<1>10. FateIsInTheTable'
  <2> SUFFICES ASSUME NEW q \in Pid, Used(q)', proc'[q].ours
               PROVE  IF proc'[q].state = "zombie"
                      THEN /\ fate'[proc'[q].inc] \in Terminal
                           /\ proc'[q].word \in Words(fate'[proc'[q].inc])
                      ELSE fate'[proc'[q].inc] = NoStatus
    BY DEF FateIsInTheTable
  <2>1. CASE q = p
    BY <2>1, <1>1, <1>2, <1>3 DEF TypeOK, ProcRecord
  <2>2. CASE q # p
    <3>1. proc[q].inc # proc[p].inc /\ proc[q].inc \in 1..MaxBorn
      BY <2>2, <1>3, <1>5 DEF TypeOK, Incarnations
    <3> QED
      BY <2>2, <3>1, <1>2, <1>5, <1>6 DEF TypeOK, FateIsInTheTable
  <2> QED
    BY <2>1, <2>2
<1>11. StatusIsTrue'
  BY <1>2, <1>3, TerminalIsNotNone DEF TypeOK, ChildRecord, StatusIsTrue
<1>12. BlockedHasNoStash'
  BY <1>2 DEF BlockedHasNoStash
<1> QED
  BY <1>7, <1>8, <1>9, <1>10, <1>11, <1>12

\* A process of somebody else appears or forks off: its pid was unused.
LEMMA StartForeignInd ==
    ASSUME IndInv, NEW q \in Pid, ~Used(q), born < MaxBorn,
           NEW g \in Nat, NEW j \in Nat, NEW home \in BOOLEAN,
           born' = born + 1,
           proc' = [proc EXCEPT ![q] = Started(born + 1, g, j, FALSE, home)],
           call' = NoCall, UNCHANGED <<child, fate>>
    PROVE  IndInv'
<1> USE DEF Started
<1>1. born \in Nat /\ born' \in 1..MaxBorn
  BY BoundAssumption DEF IndInv, TypeOK
<1>2. TypeOK'
  BY <1>1 DEF IndInv, TypeOK, ProcRecord, NoCall
<1>3. \A p \in Pid : p # q => proc'[p] = proc[p]
  BY DEF IndInv, TypeOK
<1>4. proc'[q].inc = born + 1 /\ ~proc'[q].ours
  BY DEF IndInv, TypeOK
<1>5. Incarnations'
  <2> USE DEF Used
  <2>1. \A p \in Pid : Used(p) => proc[p].inc \in 1..born
    BY DEF IndInv, Incarnations
  <2>2. \A p \in Pid : Used(p)' => proc'[p].inc \in 1..born'
    BY <1>1, <1>3, <1>4, <2>1
  <2>3. \A p \in Pid : p # q /\ Used(p)' => proc'[p].inc # born + 1
    BY <1>1, <1>3, <2>1
  <2>4. \A p, r \in Pid :
           Used(p)' /\ Used(r)' /\ proc'[p].inc = proc'[r].inc => p = r
    BY <1>3, <1>4, <2>3 DEF IndInv, Incarnations
  <2>5. \A h \in Handle : child[h].phase # "none" => child[h].inc \in 1..born'
    BY <1>1 DEF IndInv, Incarnations
  <2>6. \A i \in 1..MaxBorn : i > born' => fate[i] = NoStatus
    BY <1>1, BoundAssumption DEF IndInv, Incarnations
  <2> QED
    BY <2>2, <2>4, <2>5, <2>6 DEF IndInv, Incarnations
<1>6. UnreapedIsTheChild'
  BY <1>3 DEF IndInv, UnreapedIsTheChild, Unreaped, Used
<1>7. FateIsInTheTable'
  BY <1>3, <1>4 DEF IndInv, FateIsInTheTable, Used
<1>8. StatusIsTrue' /\ BlockedHasNoStash'
  BY DEF IndInv, StatusIsTrue, BlockedHasNoStash
<1> QED
  BY <1>2, <1>5, <1>6, <1>7, <1>8 DEF IndInv

\* Somebody else's child ends or is reaped: no handle is on it.
LEMMA ForeignInd ==
    ASSUME IndInv, NEW p \in Pid, ForeignTerminate(p) \/ ForeignReap(p)
    PROVE  IndInv'
<1> USE BoundAssumption DEF IndInv
<1>1. /\ Used(p) /\ ~proc[p].ours /\ call' = NoCall
      /\ UNCHANGED <<child, fate, born>>
  BY DEF ForeignTerminate, ForeignReap, Used
<1>2. \A q \in Pid : q # p => proc'[q] = proc[q] /\ (Used(q)' <=> Used(q))
  BY DEF TypeOK, Used, ForeignTerminate, ForeignReap
<1>3. ASSUME ForeignTerminate(p)
      PROVE  TypeOK' /\ Incarnations' /\ FateIsInTheTable'
  <2>1. proc' = [proc EXCEPT ![p] = [proc[p] EXCEPT !.state = "zombie",
                                                   !.event = "none"]]
    BY <1>3 DEF ForeignTerminate
  <2>2. /\ proc'[p].ours = proc[p].ours /\ proc'[p].inc = proc[p].inc
        /\ proc'[p].state = "zombie"
    BY <2>1 DEF TypeOK, ProcRecord
  <2> DEFINE r == [proc[p] EXCEPT !.state = "zombie", !.event = "none"]
  <2>6. proc \in [Pid -> ProcRecord] /\ proc' = [proc EXCEPT ![p] = r]
    BY <2>1 DEF TypeOK
  <2>7. r \in ProcRecord
    BY <2>6 DEF ProcRecord
  <2> HIDE DEF r
  <2>8. proc' \in [Pid -> ProcRecord]
    BY <2>6, <2>7
  <2>3. TypeOK'
    BY <1>1, <2>8 DEF TypeOK, NoCall
  <2>4. Incarnations'
    BY <1>1, <1>2, <2>2 DEF Incarnations
  <2>5. FateIsInTheTable'
    BY <1>1, <1>2, <2>2 DEF FateIsInTheTable
  <2> QED
    BY <2>3, <2>4, <2>5
<1>4. ASSUME ForeignReap(p)
      PROVE  TypeOK' /\ Incarnations' /\ FateIsInTheTable'
  <2>1. proc' = [proc EXCEPT ![p] = Free]
    BY <1>4 DEF ForeignReap
  <2>2. ~Used(p)'
    BY <2>1 DEF TypeOK, Used, Free
  <2>3. TypeOK'
    BY <2>1, <1>1 DEF TypeOK, ProcRecord, NoCall, Free
  <2>4. Incarnations'
    BY <1>1, <1>2, <2>2 DEF Incarnations
  <2>5. FateIsInTheTable'
    BY <1>1, <1>2, <2>2 DEF FateIsInTheTable
  <2> QED
    BY <2>3, <2>4, <2>5
<1>5. UnreapedIsTheChild'
  BY <1>1, <1>2 DEF UnreapedIsTheChild, Unreaped, Used
<1>6. StatusIsTrue' /\ BlockedHasNoStash'
  BY <1>1 DEF StatusIsTrue, BlockedHasNoStash
<1> QED
  BY <1>3, <1>4, <1>5, <1>6

\* The fields of a process that the invariant reads.
SameProcess(p) ==
    /\ proc'[p].inc = proc[p].inc
    /\ proc'[p].ours = proc[p].ours
    /\ proc'[p].word = proc[p].word
    /\ proc'[p].state = "free" <=> proc[p].state = "free"
    /\ proc'[p].state = "zombie" <=> proc[p].state = "zombie"

\* What a call that reaps nothing may do to a handle.
SameHandle(h) ==
    /\ child[h].phase \in {"owned", "jobwait"}
    /\ child'[h].phase # "none"
    /\ child'[h].pid = child[h].pid
    /\ child'[h].inc = child[h].inc
    /\ child'[h].reaped = child[h].reaped
    /\ child'[h].told \in {child[h].told, child[h].reaped}
    /\ child'[h].phase \in {"waiting", "jobwait"} => child[h].reaped = NoStatus

\* A step that starts, ends and reaps nothing.
LEMMA NothingReapedInd ==
    ASSUME IndInv, TypeOK',
           \A p \in Pid : SameProcess(p),
           \A h \in Handle : child'[h] = child[h] \/ SameHandle(h),
           UNCHANGED <<fate, born>>
    PROVE  IndInv'
<1> USE DEF SameProcess, SameHandle
<1>1. Incarnations'
  BY DEF IndInv, Incarnations, Used
<1>2. UnreapedIsTheChild'
  BY DEF IndInv, UnreapedIsTheChild, Unreaped, Used
<1>3. FateIsInTheTable'
  BY DEF IndInv, FateIsInTheTable, Used
<1>4. StatusIsTrue'
  BY DEF IndInv, StatusIsTrue
<1>5. BlockedHasNoStash'
  BY DEF IndInv, BlockedHasNoStash
<1> QED
  BY <1>1, <1>2, <1>3, <1>4, <1>5 DEF IndInv

\* A child's zombie is reaped and its status lands in the handle: no other
\* handle without a status can have had the same pid.
LEMMA ReapInd ==
    ASSUME IndInv, NEW h \in Handle, Unreaped(h),
           proc[child[h].pid].state = "zombie",
           proc' = [proc EXCEPT ![child[h].pid] = Free],
           NEW c \in ChildRecord,
           child' = [child EXCEPT ![h] = c],
           c.phase \in {"owned", "waited"}, c.pid = child[h].pid, c.inc = child[h].inc,
           c.told = fate[child[h].inc],
           \/ c.reaped = fate[child[h].inc]
           \/ c.reaped = NoStatus /\ c.phase = "waited",
           UNCHANGED <<fate, born>>, call' = NoCall
    PROVE  IndInv'
<1> DEFINE p == child[h].pid
<1>1. /\ p \in Pid /\ proc[p].inc = child[h].inc /\ proc[p].ours
      /\ Used(p) /\ child[h].phase # "none"
  BY DEF IndInv, UnreapedIsTheChild, Unreaped
<1>2. fate[child[h].inc] \in Terminal /\ child[h].inc \in 1..MaxBorn
  BY <1>1, BoundAssumption DEF IndInv, FateIsInTheTable, Incarnations, TypeOK,
                               Used
<1>3. \A q \in Pid : q # p => proc'[q] = proc[q]
  BY DEF IndInv, TypeOK
<1>4. proc'[p].state = "free"
  BY <1>1 DEF IndInv, TypeOK, Free
<1>5. \A k \in Handle : k # h => child'[k] = child[k]
  BY DEF IndInv, TypeOK
<1>6. child'[h] = c
  BY DEF IndInv, TypeOK
<1>7. TypeOK'
  <2>1. Free \in ProcRecord
    BY BoundAssumption DEF ProcRecord, Free
  <2>2. proc' \in [Pid -> ProcRecord]
    BY <2>1 DEF IndInv, TypeOK
  <2>3. child' \in [Handle -> ChildRecord]
    BY DEF IndInv, TypeOK
  <2> QED
    BY <2>2, <2>3 DEF IndInv, TypeOK, NoCall
<1>8. Incarnations'
  BY <1>1, <1>3, <1>4, <1>5, <1>6 DEF IndInv, Incarnations, Used
<1>9. UnreapedIsTheChild'
  <2> SUFFICES ASSUME NEW k \in Handle, Unreaped(k)'
               PROVE  /\ child'[k].pid \in Pid
                      /\ proc'[child'[k].pid].inc = child'[k].inc
                      /\ proc'[child'[k].pid].ours
                      /\ Used(child[k].pid)'
    BY DEF UnreapedIsTheChild
  <2>1. k # h
    BY <1>2, <1>6, TerminalIsNotNone DEF Unreaped
  <2>2. Unreaped(k) /\ child[k].phase # "none"
    BY <2>1, <1>5 DEF Unreaped
  <2>3. child[k].pid # p
    BY <1>1, <2>1, <2>2 DEF IndInv, UnreapedIsTheChild, Incarnations
  <2> QED
    BY <2>1, <2>2, <2>3, <1>3, <1>5 DEF IndInv, UnreapedIsTheChild, Used
<1>10. FateIsInTheTable'
  BY <1>3, <1>4 DEF IndInv, FateIsInTheTable, Used
<1>11. StatusIsTrue'
  BY <1>2, <1>5, <1>6 DEF IndInv, StatusIsTrue
<1>12. BlockedHasNoStash'
  BY <1>5, <1>6 DEF IndInv, BlockedHasNoStash
<1> QED
  BY <1>7, <1>8, <1>9, <1>10, <1>11, <1>12 DEF IndInv

\* A new child: its pid was unused, so no handle without a status has it.
LEMMA SpawnInd ==
    ASSUME IndInv, NEW h \in Handle, NEW q \in Pid, ~Used(q), born < MaxBorn,
           child[h].phase = "none",
           NEW g \in Nat, NEW j \in Nat, NEW home \in BOOLEAN,
           NEW grp \in Nat \union {NoGroup},
           born' = born + 1,
           proc' = [proc EXCEPT ![q] = Started(born + 1, g, j, TRUE, home)],
           child' = [child EXCEPT ![h] =
                [phase |-> "owned", pid |-> q, inc |-> born + 1, job |-> j,
                 group |-> grp, reaped |-> NoStatus, told |-> NoStatus]],
           call'.op = "spawn", UNCHANGED fate
    PROVE  IndInv'
<1> USE DEF Started
<1>1. born \in Nat /\ born' \in 1..MaxBorn
  BY BoundAssumption DEF IndInv, TypeOK
<1>2. TypeOK'
  BY <1>1, BoundAssumption DEF IndInv, TypeOK, ProcRecord, ChildRecord
<1>3. \A p \in Pid : p # q => proc'[p] = proc[p]
  BY DEF IndInv, TypeOK
<1>4. proc'[q].inc = born + 1 /\ proc'[q].ours /\ proc'[q].state = "running"
  BY DEF IndInv, TypeOK
<1>5. \A k \in Handle : k # h => child'[k] = child[k]
  BY DEF IndInv, TypeOK
<1>6. /\ child'[h].phase = "owned" /\ child'[h].pid = q
      /\ child'[h].inc = born + 1
      /\ child'[h].reaped = NoStatus /\ child'[h].told = NoStatus
  BY DEF IndInv, TypeOK
<1>7. Incarnations'
  <2> USE DEF Used
  <2>1. /\ \A p \in Pid : Used(p) => proc[p].inc \in 1..born
        /\ \A k \in Handle : child[k].phase # "none" => child[k].inc \in 1..born
    BY DEF IndInv, Incarnations
  <2>2. \A p \in Pid : Used(p)' => proc'[p].inc \in 1..born'
    BY <1>1, <1>3, <1>4, <2>1
  <2>3. \A p \in Pid : p # q /\ Used(p)' => proc'[p].inc # born + 1
    BY <1>1, <1>3, <2>1
  <2>4. \A p, r \in Pid :
           Used(p)' /\ Used(r)' /\ proc'[p].inc = proc'[r].inc => p = r
    BY <1>3, <1>4, <2>3 DEF IndInv, Incarnations
  <2>5. \A k \in Handle : child'[k].phase # "none" => child'[k].inc \in 1..born'
    BY <1>1, <1>5, <1>6, <2>1
  <2>6. \A k \in Handle : k # h /\ child'[k].phase # "none"
                            => child'[k].inc # born + 1
    BY <1>1, <1>5, <2>1
  <2>7. \A k, l \in Handle :
           /\ child'[k].phase # "none" /\ child'[l].phase # "none"
           /\ child'[k].inc = child'[l].inc
           => k = l
    BY <1>5, <1>6, <2>6 DEF IndInv, Incarnations
  <2>8. \A k \in Handle : child'[k].phase = "none" => child'[k] = NoChild
    BY <1>5, <1>6 DEF IndInv, Incarnations
  <2>9. \A i \in 1..MaxBorn : i > born' => fate[i] = NoStatus
    BY <1>1, BoundAssumption DEF IndInv, Incarnations
  <2> QED
    BY <2>2, <2>4, <2>5, <2>7, <2>8, <2>9 DEF Incarnations
<1>8. UnreapedIsTheChild'
  BY <1>3, <1>4, <1>5, <1>6 DEF IndInv, UnreapedIsTheChild, Unreaped, Used
<1>9. fate[born + 1] = NoStatus
  BY <1>1, BoundAssumption DEF IndInv, Incarnations
<1>10. FateIsInTheTable'
  BY <1>3, <1>4, <1>9 DEF IndInv, FateIsInTheTable, Used
<1>11. StatusIsTrue' /\ BlockedHasNoStash'
  BY <1>5, <1>6 DEF IndInv, StatusIsTrue, BlockedHasNoStash
<1> QED
  BY <1>2, <1>7, <1>8, <1>10, <1>11 DEF IndInv

-----------------------------------------------------------------------------
(* Every action preserves the invariant                                    *)

\* What waitpid can answer about a child whose status nobody has yet: never
\* ECHILD, and a reaped word is the encoding of the child's own fate.
LEMMA WaitpidAnswers ==
    ASSUME IndInv, NEW h \in Handle, Unreaped(h),
           NEW flags \in {"exit", "job"}
    PROVE  LET w == waitpid(child[h].pid, flags) IN
           /\ w.ret \in {"none", "reaped", "event"}
           /\ w.ret = "reaped" =>
                /\ proc[child[h].pid].state = "zombie"
                /\ fate[child[h].inc] \in Terminal
                /\ decode(w.word) = fate[child[h].inc]
                /\ decode_job(w.word) = fate[child[h].inc]
                /\ ~IsJobEvent(decode_job(w.word))
           /\ w.ret = "event" =>
                /\ flags = "job"
                /\ proc[child[h].pid].state # "zombie"
                /\ IsJobEvent(decode_job(w.word))
<1> DEFINE p == child[h].pid
<1>1. /\ p \in Pid /\ proc[p].inc = child[h].inc /\ proc[p].ours
      /\ proc[p].state # "free"
  BY DEF IndInv, UnreapedIsTheChild, Used
<1>2. CASE proc[p].state = "zombie"
  <2>1. /\ fate[child[h].inc] \in Terminal
        /\ proc[p].word \in Words(fate[child[h].inc])
    BY <1>1, <1>2 DEF IndInv, FateIsInTheTable, Used
  <2>2. /\ decode(proc[p].word) = fate[child[h].inc]
        /\ decode_job(proc[p].word) = fate[child[h].inc]
        /\ ~IsJobEvent(fate[child[h].inc])
    BY <2>1, DecodeIsFaithful
  <2>3. waitpid(p, flags) = [ret |-> "reaped", word |-> proc[p].word]
    BY <1>1, <1>2 DEF waitpid, Used
  <2> QED
    BY <1>2, <2>1, <2>2, <2>3
<1>3. CASE proc[p].state # "zombie" /\ flags = "job" /\ proc[p].event # "none"
  <2>1. proc[p].event \in {"stopped", "continued"}
    BY <1>1, <1>3 DEF IndInv, TypeOK, ProcRecord
  <2>2. waitpid(p, flags) = [ret |-> "event", word |-> EventWord(proc[p].event)]
    BY <1>1, <1>3 DEF waitpid, Used
  <2> QED
    BY <1>3, <2>1, <2>2, EventsAreJobEvents
<1>4. CASE proc[p].state # "zombie" /\ ~(flags = "job" /\ proc[p].event # "none")
  <2>1. waitpid(p, flags) = [ret |-> "none", word |-> 0]
    BY <1>1, <1>4 DEF waitpid, Used
  <2> QED
    BY <2>1
<1> QED
  BY <1>2, <1>3, <1>4

\* Reaping through try_wait, wait, wait_job or try_wait_job.
LEMMA WaitsInd ==
    ASSUME IndInv, NEW h \in Handle,
           try_wait(h) \/ waitReturns(h) \/ wait_jobReturns(h) \/ try_wait_job(h)
    PROVE  IndInv'
<1> DEFINE c == child[h]
<1>0. c \in ChildRecord
  BY DEF IndInv, TypeOK
<1>1. ASSUME try_wait(h), c.reaped # NoStatus PROVE IndInv'
  <2>1. /\ child' = [child EXCEPT ![h].told = c.reaped]
        /\ call' = NoCall /\ UNCHANGED <<proc, fate, born>>
        /\ c.phase = "owned"
    BY <1>1 DEF try_wait
  <2> DEFINE r == [c EXCEPT !.told = c.reaped]
  <2>4. child \in [Handle -> ChildRecord] /\ child' = [child EXCEPT ![h] = r]
    BY <2>1 DEF IndInv, TypeOK
  <2>5. r \in ChildRecord
    BY <1>0 DEF ChildRecord
  <2> HIDE DEF r
  <2>6. child' \in [Handle -> ChildRecord]
    BY <2>4, <2>5
  <2>2. TypeOK'
    BY <2>1, <2>6 DEF IndInv, TypeOK, NoCall
  <2>3. \A k \in Handle : child'[k] = child[k] \/ SameHandle(k)
    BY <2>1 DEF IndInv, TypeOK, ChildRecord, SameHandle
  <2> QED
    BY <2>1, <2>2, <2>3, NothingReapedInd DEF SameProcess
<1>2. ASSUME try_wait(h), c.reaped = NoStatus PROVE IndInv'
  <2> DEFINE w == waitpid(c.pid, "exit")
  <2>1. Unreaped(h)
    BY <1>2 DEF try_wait, Unreaped
  <2>2. w.ret = "reaped"
    <3>1. w.ret \in {"none", "reaped"}
      BY <2>1, WaitpidAnswers
    <3> QED
      BY <1>2, <3>1 DEF try_wait
  <2>3. /\ proc' = [proc EXCEPT ![c.pid] = Free]
        /\ child' = [child EXCEPT ![h].reaped = decode(w.word),
                                  ![h].told = decode(w.word)]
        /\ call' = NoCall /\ UNCHANGED <<fate, born>>
    BY <1>2, <2>2 DEF try_wait, AfterWait
  <2>4. /\ proc[c.pid].state = "zombie" /\ fate[c.inc] \in Terminal
        /\ decode(w.word) = fate[c.inc]
    BY <2>1, <2>2, WaitpidAnswers
  <2> DEFINE d == [c EXCEPT !.reaped = fate[c.inc], !.told = fate[c.inc]]
  <2>5. d \in ChildRecord /\ child' = [child EXCEPT ![h] = d]
    BY <1>0, <2>3, <2>4 DEF ChildRecord, IndInv, TypeOK
  <2>6. /\ d.phase = "owned" /\ d.pid = c.pid /\ d.inc = c.inc
        /\ d.told = fate[c.inc] /\ d.reaped = fate[c.inc]
    BY <1>0, <1>2 DEF ChildRecord, try_wait
  <2> HIDE DEF d, w
  <2> QED
    BY <2>1, <2>3, <2>4, <2>5, <2>6, ReapInd
<1>3. ASSUME waitReturns(h) PROVE IndInv'
  <2> DEFINE w == waitpid(c.pid, "exit")
  <2>1. Unreaped(h)
    BY <1>3 DEF waitReturns, Unreaped, IndInv, BlockedHasNoStash
  <2>2. w.ret = "reaped"
    <3>1. w.ret \in {"none", "reaped"}
      BY <2>1, WaitpidAnswers
    <3> QED
      BY <1>3, <3>1 DEF waitReturns
  <2>3. /\ proc' = [proc EXCEPT ![c.pid] = Free]
        /\ child' = [child EXCEPT ![h].told = decode(w.word),
                                  ![h].phase = "waited"]
        /\ call' = NoCall /\ UNCHANGED <<fate, born>>
    BY <1>3, <2>2 DEF waitReturns, AfterWait
  <2>4. /\ proc[c.pid].state = "zombie" /\ fate[c.inc] \in Terminal
        /\ decode(w.word) = fate[c.inc]
    BY <2>1, <2>2, WaitpidAnswers
  <2> DEFINE d == [c EXCEPT !.told = fate[c.inc], !.phase = "waited"]
  <2>5. d \in ChildRecord /\ child' = [child EXCEPT ![h] = d]
    BY <1>0, <2>3, <2>4 DEF ChildRecord, IndInv, TypeOK
  <2>6. /\ d.phase = "waited" /\ d.pid = c.pid /\ d.inc = c.inc
        /\ d.told = fate[c.inc] /\ d.reaped = NoStatus
    BY <1>0, <2>1 DEF ChildRecord, Unreaped
  <2> HIDE DEF d, w
  <2> QED
    BY <2>1, <2>3, <2>4, <2>5, <2>6, ReapInd
<1>4. ASSUME wait_jobReturns(h) \/ try_wait_job(h) PROVE IndInv'
  <2> DEFINE w == waitpid(c.pid, "job")
             s == decode_job(w.word)
  <2>1. JobWaitReturns(h) /\ Unreaped(h)
    BY <1>4 DEF wait_jobReturns, try_wait_job, JobWaitReturns, Unreaped
  <2>2. w.ret \in {"reaped", "event"}
    <3>1. w.ret \in {"none", "reaped", "event"}
      BY <2>1, WaitpidAnswers
    <3> QED
      BY <2>1, <3>1 DEF JobWaitReturns
  <2>3. /\ proc' = AfterWait(c.pid, w.ret)
        /\ child' = [child EXCEPT ![h].phase = "owned",
                        ![h].reaped = IF IsJobEvent(s) THEN @ ELSE s,
                        ![h].told = IF IsJobEvent(s) THEN @ ELSE s]
        /\ call' = NoCall /\ UNCHANGED <<fate, born>>
    BY <2>1, <2>2 DEF JobWaitReturns
  <2>4. CASE w.ret = "reaped"
    <3>1. /\ proc[c.pid].state = "zombie" /\ fate[c.inc] \in Terminal
          /\ s = fate[c.inc] /\ ~IsJobEvent(s)
      BY <2>1, <2>4, WaitpidAnswers
    <3>2. proc' = [proc EXCEPT ![c.pid] = Free]
      BY <2>3, <2>4 DEF AfterWait
    <3> DEFINE d == [c EXCEPT !.phase = "owned", !.reaped = fate[c.inc],
                              !.told = fate[c.inc]]
    <3> HIDE DEF w
    <3>3. d \in ChildRecord /\ child' = [child EXCEPT ![h] = d]
      BY <1>0, <2>3, <3>1 DEF ChildRecord, IndInv, TypeOK
    <3>4. /\ d.phase = "owned" /\ d.pid = c.pid /\ d.inc = c.inc
          /\ d.told = fate[c.inc] /\ d.reaped = fate[c.inc]
      BY <1>0 DEF ChildRecord
    <3> HIDE DEF d
    <3> QED
      BY <2>1, <2>3, <3>1, <3>2, <3>3, <3>4, ReapInd
  <2>5. CASE w.ret = "event"
    <3>1. IsJobEvent(s) /\ proc[c.pid].state # "zombie"
      BY <2>1, <2>5, WaitpidAnswers
    <3>2. proc' = [proc EXCEPT ![c.pid].event = "none"]
      BY <2>3, <2>5 DEF AfterWait
    <3> HIDE DEF w
    <3>3. child' = [child EXCEPT ![h].phase = "owned"]
      BY <1>0, <2>3, <3>1 DEF ChildRecord, IndInv, TypeOK
    <3>4. TypeOK'
      <4>1. proc' \in [Pid -> ProcRecord]
        <5> DEFINE r == [proc[c.pid] EXCEPT !.event = "none"]
        <5>1. proc \in [Pid -> ProcRecord] /\ proc' = [proc EXCEPT ![c.pid] = r]
          BY <3>2 DEF IndInv, TypeOK
        <5>2. c.pid \in Pid => r \in ProcRecord
          BY <5>1 DEF ProcRecord
        <5> HIDE DEF r
        <5> QED
          BY <5>1, <5>2
      <4>2. child' \in [Handle -> ChildRecord]
        <5> DEFINE r == [c EXCEPT !.phase = "owned"]
        <5>1. /\ child \in [Handle -> ChildRecord]
              /\ child' = [child EXCEPT ![h] = r]
          BY <3>3 DEF IndInv, TypeOK
        <5>2. r \in ChildRecord
          BY <1>0 DEF ChildRecord
        <5> HIDE DEF r
        <5> QED
          BY <5>1, <5>2
      <4> QED
        BY <2>3, <4>1, <4>2 DEF IndInv, TypeOK, NoCall
    <3>5. \A p \in Pid : SameProcess(p)
      BY <3>2 DEF IndInv, TypeOK, ProcRecord, SameProcess
    <3>6. \A k \in Handle : child'[k] = child[k] \/ SameHandle(k)
      BY <1>4, <3>3 DEF IndInv, TypeOK, ChildRecord, SameHandle,
                        wait_jobReturns, try_wait_job
    <3> QED
      BY <2>3, <3>4, <3>5, <3>6, NothingReapedInd
  <2> QED
    BY <2>2, <2>4, <2>5
<1> QED
  BY <1>1, <1>2, <1>3, <1>4

\* Signals end nothing by themselves: a killed process is still unreaped.
LEMMA DeliverKeepsProcesses ==
    ASSUME IndInv, NEW targets, NEW sig, Deliver(targets, sig)
    PROVE  /\ proc' \in [Pid -> ProcRecord]
           /\ \A p \in Pid : SameProcess(p)
<1> DEFINE sent(p) == IF p \in targets THEN Signalled(proc[p], sig) ELSE proc[p]
<1>1. proc' = [p \in Pid |-> sent(p)]
  BY DEF Deliver
<1>2. ASSUME NEW p \in Pid
      PROVE  /\ sent(p) \in ProcRecord
             /\ sent(p).inc = proc[p].inc
             /\ sent(p).ours = proc[p].ours
             /\ sent(p).word = proc[p].word
             /\ sent(p).state = "free" <=> proc[p].state = "free"
             /\ sent(p).state = "zombie" <=> proc[p].state = "zombie"
  <2>1. proc[p] \in ProcRecord
    BY DEF IndInv, TypeOK
  <2> QED
    BY <2>1 DEF ProcRecord, Signalled
<1> HIDE DEF sent
<1> QED
  BY <1>1, <1>2 DEF SameProcess

\* Where a child is placed when spawn succeeds.
LEMMA SpawnPlacement ==
    ASSUME IndInv, NEW h \in Handle, NEW spec \in GroupSpecs,
           NEW d \in BOOLEAN, NEW pid \in Pid, Spawn(h, spec, d, pid)
    PROVE  /\ PgidOf(spec, d, pid) \in Nat
           /\ JobOf(PgidOf(spec, d, pid), pid, born + 1) \in Nat
           /\ GroupOf(spec, d, pid) \in Nat \union {NoGroup}
<1> DEFINE g == PgidOf(spec, d, pid)
<1>1. spec.pgid \in Nat
  BY GroupAssumption DEF GroupSpecs, Inherit, NewGroup, JoinGroup
<1>2. g \in Nat /\ GroupOf(spec, d, pid) \in Nat \union {NoGroup}
  BY <1>1, PidAssumption, GroupAssumption DEF PgidOf, GroupOf
<1>3. g = pid \/ g = ParentGroup \/ \E p \in Pid : Used(p) /\ proc[p].pgid = g
  BY DEF Spawn, PgidOf, Joinable
<1>4. JobOf(g, pid, born + 1) \in Nat
  <2> HIDE DEF g
  <2>1. CASE g = pid \/ g = ParentGroup
    BY <2>1, BoundAssumption DEF JobOf, IndInv, TypeOK
  <2>2. CASE g # pid /\ g # ParentGroup
    <3> DEFINE m == CHOOSE p \in Pid : Used(p) /\ proc[p].pgid = g
    <3>1. m \in Pid
      BY <2>2, <1>3
    <3>2. proc[m].job \in Nat
      BY <3>1 DEF IndInv, TypeOK, ProcRecord
    <3> QED
      BY <2>2, <3>2 DEF JobOf
  <2> QED
    BY <2>1, <2>2
<1> QED
  BY <1>2, <1>4

\* Every step of the kernel or of the program preserves the invariant.
LEMMA NextInd == IndInv /\ [Next]_vars => IndInv'
<1> SUFFICES ASSUME IndInv, [Next]_vars PROVE IndInv'
  OBVIOUS
<1>1. CASE UNCHANGED vars
  <2>1. TypeOK'
    BY <1>1 DEF IndInv, TypeOK, vars
  <2> QED
    BY <1>1, <2>1, NothingReapedInd DEF vars, SameProcess
<1>2. ASSUME NEW p \in Pid, NEW s \in Terminal, Terminate(p, s) PROVE IndInv'
  BY <1>2, TerminateInd
<1>3. ASSUME NEW p \in Pid, NEW q \in Pid, Fork(p, q) PROVE IndInv'
  <2>1. proc[p].pgid \in Nat /\ proc[p].job \in Nat /\ proc[p].home \in BOOLEAN
    BY DEF IndInv, TypeOK, ProcRecord
  <2> QED
    BY <1>3, <2>1, StartForeignInd DEF Fork, Allocatable, Started
<1>4. ASSUME NEW q \in Pid, Stranger(q) PROVE IndInv'
  <2>1. q \in Nat /\ born + 1 \in Nat
    BY PidAssumption, BoundAssumption DEF IndInv, TypeOK
  <2> QED
    BY <1>4, <2>1, StartForeignInd DEF Stranger, Allocatable, Started
<1>5. ASSUME NEW p \in Pid, ForeignTerminate(p) \/ ForeignReap(p) PROVE IndInv'
  BY <1>5, ForeignInd
<1>6. ASSUME NEW spec, NEW d \in BOOLEAN,
             SpawnRefused(spec, d) \/ \E err : SpawnFails(spec, d, err)
      PROVE  IndInv'
  <2>1. UNCHANGED <<proc, child, fate, born>> /\ call'.op = "spawn"
    BY <1>6 DEF SpawnRefused, SpawnFails, Called
  <2>2. TypeOK'
    BY <2>1 DEF IndInv, TypeOK
  <2> QED
    BY <2>1, <2>2, NothingReapedInd DEF SameProcess
<1>7. ASSUME NEW h \in Handle, NEW spec \in GroupSpecs, NEW d \in BOOLEAN,
             NEW pid \in Pid, Spawn(h, spec, d, pid)
      PROVE  IndInv'
  <2> DEFINE g == PgidOf(spec, d, pid)
             j == JobOf(g, pid, born + 1)
             grp == GroupOf(spec, d, pid)
  <2>1. g \in Nat /\ j \in Nat /\ grp \in Nat \union {NoGroup}
    BY <1>7, SpawnPlacement
  <2>2. /\ child[h].phase = "none" /\ ~Used(pid) /\ born < MaxBorn
        /\ born' = born + 1 /\ UNCHANGED fate
        /\ call'.op = "spawn"
    BY <1>7 DEF Spawn, Allocatable, Called
  <2>3. /\ proc' = [proc EXCEPT ![pid] = Started(born + 1, g, j, TRUE, ~d)]
        /\ child' = [child EXCEPT ![h] =
                [phase |-> "owned", pid |-> pid, inc |-> born + 1, job |-> j,
                 group |-> grp, reaped |-> NoStatus, told |-> NoStatus]]
    BY <1>7 DEF Spawn
  <2>4. (~d) \in BOOLEAN
    OBVIOUS
  <2> HIDE DEF g, j, grp
  <2> QED
    BY <2>1, <2>2, <2>3, <2>4, SpawnInd
<1>8. ASSUME NEW h \in Handle, try_wait(h) \/ waitReturns(h)
                              \/ wait_jobReturns(h) \/ try_wait_job(h)
      PROVE  IndInv'
  BY <1>8, WaitsInd
<1>9. ASSUME NEW h \in Handle, wait(h) \/ wait_job(h) \/ DropChild(h)
      PROVE  IndInv'
  <2>1. /\ call' = NoCall /\ UNCHANGED <<proc, fate, born>>
        /\ child[h].phase = "owned"
    BY <1>9 DEF wait, wait_job, DropChild
  <2>2. child[h] \in ChildRecord
    BY DEF IndInv, TypeOK
  <2>3. child' \in [Handle -> ChildRecord]
    <3>1. CASE wait(h)
      BY <3>1, <2>2 DEF wait, IndInv, TypeOK, ChildRecord
    <3>2. CASE wait_job(h)
      BY <3>2, <2>2 DEF wait_job, IndInv, TypeOK, ChildRecord
    <3>3. CASE DropChild(h)
      BY <3>3, <2>2 DEF DropChild, IndInv, TypeOK, ChildRecord
    <3> QED
      BY <1>9, <3>1, <3>2, <3>3
  <2>4. TypeOK'
    BY <2>1, <2>3 DEF IndInv, TypeOK, NoCall
  <2>5. \A k \in Handle : child'[k] = child[k] \/ SameHandle(k)
    <3>1. CASE wait(h)
      BY <3>1, <2>2 DEF wait, IndInv, TypeOK, ChildRecord, SameHandle
    <3>2. CASE wait_job(h)
      BY <3>2, <2>2 DEF wait_job, IndInv, TypeOK, ChildRecord, SameHandle
    <3>3. CASE DropChild(h)
      BY <3>3, <2>2 DEF DropChild, IndInv, TypeOK, ChildRecord, SameHandle
    <3> QED
      BY <1>9, <3>1, <3>2, <3>3
  <2> QED
    BY <2>1, <2>4, <2>5, NothingReapedInd DEF SameProcess
<1>10. ASSUME NEW h \in Handle, NEW sig \in SignalsSent,
              kill_single(h, sig) \/ kill_tree(h, sig)
       PROVE  IndInv'
  <2>1. UNCHANGED <<child, fate, born>> /\ call'.op \in {"kill_single", "kill_tree"}
    BY <1>10 DEF kill_single, kill_tree, Called
  <2>2. (\E targets : Deliver(targets, sig)) \/ UNCHANGED proc
    BY <1>10 DEF kill_single, kill_tree
  <2>3. proc' \in [Pid -> ProcRecord] /\ \A p \in Pid : SameProcess(p)
    BY <2>2, DeliverKeepsProcesses DEF IndInv, TypeOK, SameProcess
  <2>4. TypeOK'
    BY <2>1, <2>3 DEF IndInv, TypeOK
  <2> QED
    BY <2>1, <2>3, <2>4, NothingReapedInd
<1> QED
  BY <1>1, <1>2, <1>3, <1>4, <1>5, <1>6, <1>7, <1>8, <1>9, <1>10
     DEF Next, Kernel, Program

-----------------------------------------------------------------------------
(* Exit statuses                                                           *)

\* The invariant holds in every state of every behaviour.
LEMMA AlwaysIndInv == Spec => []IndInv
  BY InitInd, NextInd, PTL DEF Spec

\* TypeOK, for any number of pids and children: no wait ever stashes or
\* reports anything but a decoded terminal status.
THEOREM TypeCorrect == Spec => []TypeOK
<1>1. IndInv => TypeOK
  BY DEF IndInv
<1> QED
  BY <1>1, AlwaysIndInv, PTL

\* While a LinuxChild holds no status its pid is not recycled, whatever
\* mixture of wait, try_wait, wait_job and try_wait_job is called.
THEOREM PidIsNotRecycled == Spec => []UnreapedIsTheChild
<1>1. IndInv => UnreapedIsTheChild
  BY DEF IndInv
<1> QED
  BY <1>1, AlwaysIndInv, PTL

\* The stash and every reported status are the child's true exit status.
THEOREM StatusesAreTrue == Spec => []StatusIsTrue
<1>1. IndInv => StatusIsTrue
  BY DEF IndInv
<1> QED
  BY <1>1, AlwaysIndInv, PTL

\* is_alive and is_zombie tell the truth about a child nobody has reaped.
THEOREM ProbesTellTheTruth == Spec => []ProbesAreTruthful
<1>1. IndInv => ProbesAreTruthful
  <2> SUFFICES ASSUME IndInv, NEW h \in Handle, Unreaped(h)
               PROVE  /\ is_alive(child[h].pid)
                      /\ is_zombie(child[h].pid) <=> fate[child[h].inc] # NoStatus
    BY DEF ProbesAreTruthful
  <2>1. /\ child[h].pid \in Pid /\ Used(child[h].pid)
        /\ proc[child[h].pid].ours
        /\ proc[child[h].pid].inc = child[h].inc
    BY DEF IndInv, UnreapedIsTheChild
  <2>2. IF proc[child[h].pid].state = "zombie"
        THEN fate[child[h].inc] \in Terminal
        ELSE fate[child[h].inc] = NoStatus
    BY <2>1 DEF IndInv, FateIsInTheTable
  <2> QED
    BY <2>1, <2>2, TerminalIsNotNone DEF is_alive, is_zombie
<1> QED
  BY <1>1, AlwaysIndInv, PTL

-----------------------------------------------------------------------------
(* Signals                                                                 *)

\* The last call is recorded as a kill only by the step that makes it.
LEMMA OnlyKills ==
    ASSUME Next, call'.op \in {"kill_single", "kill_tree"}
    PROVE  \E h \in Handle, sig \in SignalsSent :
              kill_single(h, sig) \/ kill_tree(h, sig)
<1>1. ASSUME Kernel PROVE FALSE
  <2>1. ASSUME NEW p, NEW s, Terminate(p, s) PROVE call' = NoCall
    BY <2>1 DEF Terminate
  <2>2. ASSUME NEW p, NEW q, Fork(p, q) PROVE call' = NoCall
    BY <2>2 DEF Fork
  <2>3. ASSUME NEW q, Stranger(q) PROVE call' = NoCall
    BY <2>3 DEF Stranger
  <2>4. ASSUME NEW p, ForeignTerminate(p) \/ ForeignReap(p) PROVE call' = NoCall
    BY <2>4 DEF ForeignTerminate, ForeignReap
  <2>5. call' = NoCall
    BY <1>1, <2>1, <2>2, <2>3, <2>4 DEF Kernel
  <2> QED
    BY <2>5 DEF NoCall
<1>2. ASSUME NEW spec, NEW d, SpawnRefused(spec, d) PROVE FALSE
  BY <1>2 DEF SpawnRefused, Called
<1>3. ASSUME NEW spec, NEW d, NEW err, SpawnFails(spec, d, err) PROVE FALSE
  BY <1>3 DEF SpawnFails, Called
<1>4. ASSUME NEW spec, NEW d, NEW h, NEW pid, Spawn(h, spec, d, pid)
      PROVE  FALSE
  BY <1>4 DEF Spawn, Called
<1>5. ASSUME NEW h, try_wait(h) \/ wait(h) \/ waitReturns(h) \/ wait_job(h)
                    \/ wait_jobReturns(h) \/ try_wait_job(h) \/ DropChild(h)
      PROVE  FALSE
  BY <1>5 DEF try_wait, wait, waitReturns, wait_job, wait_jobReturns,
              try_wait_job, JobWaitReturns, DropChild, NoCall, Called
<1> QED
  BY <1>1, <1>2, <1>3, <1>4, <1>5 DEF Next, Program

\* A signal sent to a child whose status is not stashed reaches that child,
\* and nobody else, even if it is dead and its pid was in use before.
THEOREM KillSingleIsPrecise == Spec => []KillSingleHitsTheChild
<1>1. Init => KillSingleHitsTheChild
  BY DEF Init, NoCall, KillSingleHitsTheChild
<1>2. ASSUME IndInv, KillSingleHitsTheChild, [Next]_vars
      PROVE  KillSingleHitsTheChild'
  <2>1. CASE UNCHANGED vars
    BY <1>2, <2>1 DEF KillSingleHitsTheChild, vars
  <2>2. CASE Next
    <3> SUFFICES ASSUME call'.op = "kill_single", ~call'.stale
                 PROVE  call'.hit = call'.own
      BY DEF KillSingleHitsTheChild
    <3>1. PICK h \in Handle, sig \in SignalsSent : kill_single(h, sig)
      BY <2>2, OnlyKills DEF kill_tree, Called
    <3> DEFINE targets == {p \in Pid : p = child[h].pid /\ Used(p)}
    <3>2. /\ child[h].phase = "owned"
          /\ call'.stale <=> child[h].reaped # NoStatus
          /\ call'.own = {child[h].inc} /\ call'.hit = Incs(targets)
      BY <3>1 DEF kill_single, Called
    <3>3. /\ child[h].pid \in Pid /\ Used(child[h].pid)
          /\ proc[child[h].pid].inc = child[h].inc
      BY <1>2, <3>2 DEF IndInv, UnreapedIsTheChild, Unreaped
    <3>4. targets = {child[h].pid}
      BY <3>3
    <3> QED
      BY <3>2, <3>3, <3>4 DEF Incs
  <2> QED
    BY <1>2, <2>1, <2>2
<1> QED
  BY <1>1, <1>2, AlwaysIndInv, PTL DEF Spec

\* Steps after which the table holds no process it did not hold before, and
\* no handle without a status that was not one before.
LEMMA SameGroupsInd ==
    ASSUME GroupInv, UnreapedIsTheChild',
           \A p \in Pid : Used(p)' => /\ Used(p)
                                      /\ proc'[p].pgid = proc[p].pgid
                                      /\ proc'[p].job = proc[p].job,
           \A h \in Handle : Unreaped(h)' => /\ Unreaped(h)
                                             /\ child'[h].pid = child[h].pid
                                             /\ child'[h].group = child[h].group
                                             /\ child'[h].job = child[h].job
    PROVE  GroupInv'
<1>1. GroupsHaveOneFounder'
  BY DEF GroupInv, GroupsHaveOneFounder
<1>2. HandlesKnowTheirGroup'
  BY DEF GroupInv, HandlesKnowTheirGroup, UnreapedIsTheChild
<1> QED
  BY <1>1, <1>2 DEF GroupInv

\* A new process either joins a group that exists or founds one whose id no
\* living process carries.
LEMMA StartedGroupsInd ==
    ASSUME GroupInv, IndInv, IndInv', NEW q \in Pid, ~Used(q),
           NEW g \in Nat, NEW j \in Nat,
           proc'[q].pgid = g, proc'[q].job = j,
           \A p \in Pid : p # q => proc'[p] = proc[p],
           g = ParentGroup => j = 0,
           \A p \in Pid : Used(p) /\ proc[p].pgid = g => proc[p].job = j,
           \A h \in Handle : \/ child'[h] = child[h]
                             \/ /\ child'[h].pid = q
                                /\ child'[h].group \in {g, NoGroup}
                                /\ child'[h].job = j
                                /\ child'[h].group # 0
    PROVE  GroupInv'
<1>1. GroupsHaveOneFounder'
  BY DEF GroupInv, GroupsHaveOneFounder, Used
<1>2. HandlesKnowTheirGroup'
  <2> SUFFICES ASSUME NEW h \in Handle, Unreaped(h)', child'[h].group # NoGroup
               PROVE  /\ child'[h].group # 0
                      /\ proc'[child'[h].pid].pgid = child'[h].group
                      /\ proc'[child'[h].pid].job = child'[h].job
    BY DEF HandlesKnowTheirGroup
  <2>1. CASE child'[h] = child[h]
    <3>1. Unreaped(h)
      BY <2>1 DEF Unreaped
    <3>2. child[h].pid \in Pid /\ Used(child[h].pid)
      BY <3>1 DEF IndInv, UnreapedIsTheChild
    <3>3. proc'[child[h].pid] = proc[child[h].pid]
      BY <3>2
    <3> QED
      BY <2>1, <3>1, <3>3 DEF GroupInv, HandlesKnowTheirGroup
  <2>2. CASE child'[h] # child[h]
    BY <2>2
  <2> QED
    BY <2>1, <2>2
<1> QED
  BY <1>1, <1>2 DEF GroupInv

\* Processes keep their group for life, and a handle's group is the group
\* spawn put the child in; true of every pgid but 0, which setpgid and kill
\* read differently.
LEMMA GroupStep ==
    ASSUME 0 \notin JoinTargets, IndInv, IndInv', GroupInv, [Next]_vars
    PROVE  GroupInv'
<1> USE DEF IndInv
<1>0. UnreapedIsTheChild'
  OBVIOUS
<1>1. CASE UNCHANGED vars
  BY <1>0, <1>1, SameGroupsInd DEF vars, Used, Unreaped
<1>2. ASSUME NEW p \in Pid, NEW s \in Terminal, Terminate(p, s)
      PROVE  GroupInv'
  <2>1. PICK w \in Words(s) :
           proc' = [proc EXCEPT ![p] = [proc[p] EXCEPT !.state = "zombie",
                                          !.word = w, !.event = "none"]]
    BY <1>2 DEF Terminate
  <2>2. Used(p) /\ UNCHANGED child
    BY <1>2 DEF Terminate, Used
  <2>3. \A q \in Pid : Used(q)' => /\ Used(q)
                                   /\ proc'[q].pgid = proc[q].pgid
                                   /\ proc'[q].job = proc[q].job
    BY <2>1, <2>2 DEF TypeOK, ProcRecord, Used
  <2> QED
    BY <1>0, <2>2, <2>3, SameGroupsInd DEF Unreaped
<1>3. ASSUME NEW p \in Pid, ForeignTerminate(p) \/ ForeignReap(p)
      PROVE  GroupInv'
  <2>1. UNCHANGED child
    BY <1>3 DEF ForeignTerminate, ForeignReap
  <2>2. \A q \in Pid : Used(q)' => /\ Used(q)
                                   /\ proc'[q].pgid = proc[q].pgid
                                   /\ proc'[q].job = proc[q].job
    <3>1. CASE ForeignTerminate(p)
      <4>1. proc' = [proc EXCEPT ![p] = [proc[p] EXCEPT !.state = "zombie",
                                                       !.event = "none"]]
            /\ proc[p].state # "free"
        BY <3>1 DEF ForeignTerminate
      <4> QED
        BY <4>1 DEF TypeOK, ProcRecord, Used
    <3>2. CASE ForeignReap(p)
      <4>1. proc' = [proc EXCEPT ![p] = Free]
        BY <3>2 DEF ForeignReap
      <4> QED
        BY <4>1 DEF TypeOK, Used, Free
    <3> QED
      BY <1>3, <3>1, <3>2
  <2> QED
    BY <1>0, <2>1, <2>2, SameGroupsInd DEF Unreaped
<1>4. ASSUME NEW p \in Pid, NEW q \in Pid, Fork(p, q) PROVE GroupInv'
  <2>1. Used(p) /\ ~Used(q) /\ child' = child
    BY <1>4 DEF Fork, Allocatable, Used
  <2>2. proc[p].pgid \in Nat /\ proc[p].job \in Nat
    BY DEF TypeOK, ProcRecord
  <2>3. /\ proc'[q].pgid = proc[p].pgid /\ proc'[q].job = proc[p].job
        /\ \A r \in Pid : r # q => proc'[r] = proc[r]
    BY <1>4 DEF Fork, TypeOK, Started
  <2>4. /\ proc[p].pgid = ParentGroup => proc[p].job = 0
        /\ \A r \in Pid : Used(r) /\ proc[r].pgid = proc[p].pgid
                             => proc[r].job = proc[p].job
    BY <2>1 DEF GroupInv, GroupsHaveOneFounder
  <2> QED
    BY <2>1, <2>2, <2>3, <2>4, StartedGroupsInd
<1>5. ASSUME NEW q \in Pid, Stranger(q) PROVE GroupInv'
  <2>1. /\ Allocatable(q) /\ UNCHANGED child
        /\ proc' = [proc EXCEPT ![q] = Started(born + 1, q, born + 1, FALSE, FALSE)]
    BY <1>5 DEF Stranger, Started
  <2>2. q \in Nat /\ born + 1 \in Nat /\ q # ParentGroup
    BY PidAssumption, GroupAssumption, BoundAssumption DEF TypeOK
  <2>3. /\ proc'[q].pgid = q /\ proc'[q].job = born + 1
        /\ \A r \in Pid : r # q => proc'[r] = proc[r]
    <3>1. proc \in [Pid -> ProcRecord]
      BY DEF TypeOK
    <3> QED
      BY <2>1, <3>1 DEF Started
  <2>4. ~Used(q) /\ \A r \in Pid : Used(r) => proc[r].pgid # q
    BY <2>1 DEF Allocatable
  <2>5. UNCHANGED child
    BY <2>1
  <2> QED
    BY <2>2, <2>3, <2>4, <2>5, StartedGroupsInd
<1>6. ASSUME NEW spec \in GroupSpecs, NEW d \in BOOLEAN,
             SpawnRefused(spec, d) \/ \E err : SpawnFails(spec, d, err)
      PROVE  GroupInv'
  <2>1. UNCHANGED <<proc, child>>
    BY <1>6 DEF SpawnRefused, SpawnFails
  <2> QED
    BY <1>0, <2>1, SameGroupsInd DEF Unreaped, Used
<1>7. ASSUME NEW h \in Handle, NEW spec \in GroupSpecs, NEW d \in BOOLEAN,
             NEW pid \in Pid, Spawn(h, spec, d, pid)
      PROVE  GroupInv'
  <2> DEFINE g == PgidOf(spec, d, pid)
             j == JobOf(g, pid, born + 1)
             grp == GroupOf(spec, d, pid)
  <2>1. g \in Nat /\ j \in Nat
    BY <1>7, SpawnPlacement
  <2>2. grp \in {g, NoGroup} /\ grp # 0
    BY PidAssumption DEF GroupSpecs, Inherit, NewGroup, JoinGroup, GroupOf,
                         PgidOf, NoGroup
  <2>3. Allocatable(pid)
    BY <1>7 DEF Spawn
  <2>4. /\ proc' = [proc EXCEPT ![pid] = Started(born + 1, g, j, TRUE, ~d)]
        /\ child' = [child EXCEPT ![h] =
                [phase |-> "owned", pid |-> pid, inc |-> born + 1, job |-> j,
                 group |-> grp, reaped |-> NoStatus, told |-> NoStatus]]
    BY <1>7 DEF Spawn
  <2>5. g = ParentGroup => j = 0
    BY GroupAssumption DEF JobOf
  <2>6. \A p \in Pid : Used(p) /\ proc[p].pgid = g => proc[p].job = j
    <3> SUFFICES ASSUME NEW p \in Pid, Used(p), proc[p].pgid = g
                 PROVE  proc[p].job = j
      OBVIOUS
    <3> HIDE DEF g
    <3>1. g # pid
      BY <2>3 DEF Allocatable
    <3>2. CASE g = ParentGroup
      BY <2>5, <3>2 DEF GroupInv, GroupsHaveOneFounder
    <3>3. CASE g # ParentGroup
      <4> DEFINE m == CHOOSE r \in Pid : Used(r) /\ proc[r].pgid = g
      <4>1. m \in Pid /\ Used(m) /\ proc[m].pgid = g
        OBVIOUS
      <4>2. j = proc[m].job
        BY <3>1, <3>3 DEF JobOf
      <4> QED
        BY <4>1, <4>2 DEF GroupInv, GroupsHaveOneFounder
    <3> QED
      BY <3>2, <3>3
  <2> HIDE DEF g, j, grp
  <2>7. /\ proc'[pid].pgid = g /\ proc'[pid].job = j
        /\ \A r \in Pid : r # pid => proc'[r] = proc[r]
    BY <2>4 DEF TypeOK, Started
  <2>8. \A k \in Handle : \/ child'[k] = child[k]
                          \/ /\ child'[k].pid = pid
                             /\ child'[k].group \in {g, NoGroup}
                             /\ child'[k].job = j
                             /\ child'[k].group # 0
    BY <2>2, <2>4 DEF TypeOK
  <2> QED
    BY <2>1, <2>3, <2>5, <2>6, <2>7, <2>8, StartedGroupsInd DEF Allocatable
<1>8. ASSUME NEW h \in Handle, \/ try_wait(h) \/ wait(h) \/ waitReturns(h)
                               \/ wait_job(h) \/ wait_jobReturns(h)
                               \/ try_wait_job(h) \/ DropChild(h)
      PROVE  GroupInv'
  <2>1. \/ UNCHANGED proc
        \/ \E ret : proc' = AfterWait(child[h].pid, ret)
    BY <1>8 DEF try_wait, wait, waitReturns, wait_job, wait_jobReturns,
                try_wait_job, JobWaitReturns, DropChild
  <2>2. \A q \in Pid : Used(q)' => /\ Used(q)
                                   /\ proc'[q].pgid = proc[q].pgid
                                   /\ proc'[q].job = proc[q].job
    <3>1. \/ UNCHANGED proc
          \/ proc' = [proc EXCEPT ![child[h].pid] = Free]
          \/ proc' = [proc EXCEPT ![child[h].pid].event = "none"]
      BY <2>1 DEF AfterWait
    <3>2. CASE UNCHANGED proc
      BY <3>2 DEF Used
    <3>3. CASE proc' = [proc EXCEPT ![child[h].pid] = Free]
      BY <3>3 DEF TypeOK, Used, Free
    <3>4. CASE proc' = [proc EXCEPT ![child[h].pid].event = "none"]
      BY <3>4 DEF TypeOK, ProcRecord, Used
    <3> QED
      BY <3>1, <3>2, <3>3, <3>4
  <2>3. child[h].phase \in {"owned", "waiting", "jobwait"}
    BY <1>8 DEF try_wait, wait, waitReturns, wait_job, wait_jobReturns,
                try_wait_job, DropChild
  <2> DEFINE Kept ==
        /\ \A k \in Handle : /\ child'[k].pid = child[k].pid
                             /\ child'[k].group = child[k].group
                             /\ child'[k].job = child[k].job
                             /\ k # h => child'[k] = child[k]
        /\ child[h].reaped # NoStatus => child'[h].reaped # NoStatus
  <2>4. Kept
    <3> USE DEF TypeOK, ChildRecord
    <3>1. CASE try_wait(h)
      <4> DEFINE s == decode(waitpid(child[h].pid, "exit").word)
      <4>1. \/ child' = [child EXCEPT ![h].told = child[h].reaped]
            \/ child' = child
            \/ /\ child[h].reaped = NoStatus
               /\ child' = [child EXCEPT ![h].reaped = s, ![h].told = s]
        BY <3>1 DEF try_wait
      <4> HIDE DEF s
      <4>2. CASE child' = [child EXCEPT ![h].told = child[h].reaped]
        BY <4>2
      <4>3. CASE child' = child
        BY <4>3
      <4>4. CASE /\ child[h].reaped = NoStatus
                 /\ child' = [child EXCEPT ![h].reaped = s, ![h].told = s]
        BY <4>4
      <4> QED
        BY <4>1, <4>2, <4>3, <4>4
    <3>2. CASE wait(h)
      BY <3>2 DEF wait
    <3>3. CASE waitReturns(h)
      <4> DEFINE s == decode(waitpid(child[h].pid, "exit").word)
      <4>1. \/ child' = [child EXCEPT ![h].told = NoStatus, ![h].phase = "waited"]
            \/ child' = [child EXCEPT ![h].told = s, ![h].phase = "waited"]
        BY <3>3 DEF waitReturns
      <4> HIDE DEF s
      <4> QED
        BY <4>1
    <3>4. CASE wait_job(h)
      BY <3>4 DEF wait_job
    <3>5. CASE wait_jobReturns(h) \/ try_wait_job(h)
      <4> DEFINE s == decode_job(waitpid(child[h].pid, "job").word)
      <4>1. JobWaitReturns(h)
        BY <3>5 DEF wait_jobReturns, try_wait_job
      <4>2. child[h].reaped = NoStatus
        BY <4>1 DEF JobWaitReturns
      <4>3. \/ child' = [child EXCEPT ![h].phase = "owned"]
            \/ child' = [child EXCEPT ![h].phase = "owned",
                            ![h].reaped = IF IsJobEvent(s) THEN @ ELSE s,
                            ![h].told = IF IsJobEvent(s) THEN @ ELSE s]
        BY <4>1 DEF JobWaitReturns
      <4> HIDE DEF s
      <4> QED
        BY <4>2, <4>3
    <3>6. CASE DropChild(h)
      BY <3>6 DEF DropChild
    <3> QED
      BY <1>8, <3>1, <3>2, <3>3, <3>4, <3>5, <3>6
  <2> QED
    BY <1>0, <2>2, <2>3, <2>4, SameGroupsInd DEF Unreaped
<1>9. ASSUME NEW h \in Handle, NEW sig \in SignalsSent,
             kill_single(h, sig) \/ kill_tree(h, sig)
      PROVE  GroupInv'
  <2>1. UNCHANGED child
    BY <1>9 DEF kill_single, kill_tree
  <2>2. (\E targets : Deliver(targets, sig)) \/ UNCHANGED proc
    BY <1>9 DEF kill_single, kill_tree
  <2>3. \A q \in Pid : Used(q)' => /\ Used(q)
                                   /\ proc'[q].pgid = proc[q].pgid
                                   /\ proc'[q].job = proc[q].job
    <3>1. CASE UNCHANGED proc
      BY <3>1 DEF Used
    <3>2. CASE \E targets : Deliver(targets, sig)
      <4>1. PICK targets : Deliver(targets, sig)
        BY <3>2
      <4> DEFINE sent(p) == IF p \in targets THEN Signalled(proc[p], sig)
                                            ELSE proc[p]
      <4>2. proc' = [p \in Pid |-> sent(p)]
        BY <4>1 DEF Deliver
      <4>3. ASSUME NEW p \in Pid
            PROVE  /\ sent(p).pgid = proc[p].pgid
                   /\ sent(p).job = proc[p].job
                   /\ sent(p).state = "free" <=> proc[p].state = "free"
        BY DEF Signalled, TypeOK, ProcRecord
      <4> HIDE DEF sent
      <4> QED
        BY <4>2, <4>3 DEF Used
    <3> QED
      BY <2>2, <3>1, <3>2
  <2> QED
    BY <1>0, <2>1, <2>3, SameGroupsInd DEF Unreaped
<1> QED
  BY <1>1, <1>2, <1>3, <1>4, <1>5, <1>6, <1>7, <1>8, <1>9
     DEF Next, Kernel, Program

\* kill_tree through a handle without a stashed status stays inside the group
\* the child was placed in, for every way of spawning but JoinGroup(0).
THEOREM KillTreeIsPrecise ==
    ASSUME 0 \notin JoinTargets
    PROVE  Spec => []KillTreeStaysInTheGroup
<1>1. Init => GroupInv /\ KillTreeStaysInTheGroup
  BY DEF Init, GroupInv, GroupsHaveOneFounder, HandlesKnowTheirGroup, Used,
         Free, Unreaped, NoChild, NoCall, KillTreeStaysInTheGroup
<1>2. ASSUME IndInv, IndInv', GroupInv, [Next]_vars PROVE GroupInv'
  BY <1>2, GroupStep
<1>3. ASSUME IndInv, GroupInv, KillTreeStaysInTheGroup, [Next]_vars
      PROVE  KillTreeStaysInTheGroup'
  <2>1. CASE UNCHANGED vars
    BY <1>3, <2>1 DEF KillTreeStaysInTheGroup, vars
  <2>2. CASE Next
    <3> SUFFICES ASSUME call'.op = "kill_tree", ~call'.stale
                 PROVE  call'.hit \subseteq call'.own
      BY DEF KillTreeStaysInTheGroup
    <3>1. PICK h \in Handle, sig \in SignalsSent : kill_tree(h, sig)
      <4>1. ASSUME NEW h, NEW sig, kill_single(h, sig) PROVE FALSE
        BY <4>1 DEF kill_single, Called
      <4> QED
        BY <2>2, <4>1, OnlyKills
    <3> DEFINE c == child[h]
    <3>2. c.phase = "owned" /\ (c.reaped # NoStatus => call'.stale)
      <4>1. \E res, own, hit :
               call' = Called("kill_tree", res, c.reaped # NoStatus, own, hit)
        BY <3>1, Zenon DEF kill_tree
      <4>2. ASSUME c.reaped # NoStatus PROVE call'.stale
        <5>1. PICK res, own, hit :
                call' = [op |-> "kill_tree", res |-> res,
                         stale |-> c.reaped # NoStatus, own |-> own, hit |-> hit]
          BY <4>1 DEF Called
        <5>2. call'.stale = (c.reaped # NoStatus)
          BY <5>1, Zenon
        <5> QED
          BY <4>2, <5>2, Zenon
      <4>3. c.phase = "owned"
        BY <3>1, Zenon DEF kill_tree
      <4> QED
        BY <4>2, <4>3
    <3>3. Unreaped(h)
      BY <3>2 DEF Unreaped
    <3>4. CASE c.group = NoGroup
      BY <3>1, <3>4 DEF kill_tree, Called
    <3>5. CASE c.group # NoGroup
      <4>1. /\ call'.own = {c.job}
            /\ call'.hit = {proc[p].job : p \in Members(c.group)} \union
                           (IF ReachesParent(c.group) THEN {0} ELSE {})
        BY <3>1, <3>5 DEF kill_tree, Called, OwnGroup
      <4>2. /\ c.group # 0 /\ c.pid \in Pid /\ Used(c.pid)
            /\ proc[c.pid].pgid = c.group /\ proc[c.pid].job = c.job
        BY <1>3, <3>3, <3>5 DEF IndInv, UnreapedIsTheChild, GroupInv,
                                HandlesKnowTheirGroup
      <4>3. \A p \in Members(c.group) : proc[p].job = c.job
        BY <1>3, <4>2 DEF Members, GroupInv, GroupsHaveOneFounder
      <4>4. ReachesParent(c.group) => c.job = 0
        BY <1>3, <4>2 DEF ReachesParent, GroupInv, GroupsHaveOneFounder
      <4> QED
        BY <4>1, <4>3, <4>4
    <3> QED
      BY <3>4, <3>5
  <2> QED
    BY <1>3, <2>1, <2>2
<1> QED
  BY <1>1, <1>2, <1>3, AlwaysIndInv, PTL DEF Spec

-----------------------------------------------------------------------------
(* The refinement of ChildContract                                         *)

\* A wait that consumed the handle has told its status.
WaitedWasTold == \A h \in Handle : child[h].phase = "waited" => child[h].told # NoStatus

InHand == {"owned", "waiting", "jobwait"}

\* What an operation of the Child trait does to its handle: nothing a caller
\* sees, report how the process ended, report it and end, or end.
LEMMA HandleSteps ==
    ASSUME IndInv, NEW h \in Handle,
           \/ try_wait(h) \/ wait(h) \/ waitReturns(h) \/ wait_job(h)
           \/ wait_jobReturns(h) \/ try_wait_job(h) \/ DropChild(h)
    PROVE  /\ fate' = fate
           /\ \A k \in Handle : k # h => child'[k] = child[k]
           /\ child[h].phase \in InHand /\ child'[h].inc = child[h].inc
           /\ \/ child'[h].told = child[h].told /\ child'[h].phase \in InHand \cup {"dropped"}
              \/ /\ child'[h].told = fate[child[h].inc] /\ fate[child[h].inc] # NoStatus
                 /\ child'[h].phase \in {"owned", "waited"}
<1> DEFINE c == child[h]
<1> USE DEF InHand
<1>0. c \in ChildRecord /\ child \in [Handle -> ChildRecord]
  BY DEF IndInv, TypeOK
<1>1. c.reaped # NoStatus => c.reaped = fate[c.inc]
  BY DEF IndInv, StatusIsTrue
<1>2. CASE wait(h) \/ wait_job(h) \/ DropChild(h)
  BY <1>0, <1>1, <1>2 DEF wait, wait_job, DropChild, ChildRecord
<1>3. CASE try_wait(h) /\ c.reaped # NoStatus
  BY <1>0, <1>1, <1>3 DEF try_wait, ChildRecord
<1>4. ASSUME try_wait(h), c.reaped = NoStatus
      PROVE  /\ fate[c.inc] \in Terminal /\ fate' = fate /\ c.phase = "owned"
             /\ child' = [child EXCEPT ![h].reaped = fate[c.inc], ![h].told = fate[c.inc]]
  <2>1. Unreaped(h)
    BY <1>4 DEF try_wait, Unreaped
  <2>2. waitpid(c.pid, "exit").ret = "reaped"
    <3>1. waitpid(c.pid, "exit").ret \in {"none", "reaped"}
      BY <2>1, WaitpidAnswers
    <3> QED
      BY <1>4, <3>1 DEF try_wait
  <2>3. fate[c.inc] \in Terminal /\ decode(waitpid(c.pid, "exit").word) = fate[c.inc]
    BY <2>1, <2>2, WaitpidAnswers
  <2> QED
    BY <1>4, <2>2, <2>3 DEF try_wait
<1>5. ASSUME waitReturns(h)
      PROVE  /\ fate[c.inc] \in Terminal /\ fate' = fate /\ c.phase = "waiting"
             /\ child' = [child EXCEPT ![h].told = fate[c.inc], ![h].phase = "waited"]
  <2>1. Unreaped(h)
    BY <1>5 DEF waitReturns, Unreaped, IndInv, BlockedHasNoStash
  <2>2. waitpid(c.pid, "exit").ret = "reaped"
    <3>1. waitpid(c.pid, "exit").ret \in {"none", "reaped"}
      BY <2>1, WaitpidAnswers
    <3> QED
      BY <1>5, <3>1 DEF waitReturns
  <2>3. fate[c.inc] \in Terminal /\ decode(waitpid(c.pid, "exit").word) = fate[c.inc]
    BY <2>1, <2>2, WaitpidAnswers
  <2> QED
    BY <1>5, <2>2, <2>3 DEF waitReturns
<1>6. ASSUME wait_jobReturns(h) \/ try_wait_job(h)
      PROVE  /\ fate' = fate /\ c.phase \in {"owned", "jobwait"}
             /\ \/ child' = [child EXCEPT ![h].phase = "owned"]
                \/ /\ fate[c.inc] \in Terminal
                   /\ child' = [child EXCEPT ![h].phase = "owned", ![h].reaped = fate[c.inc],
                                             ![h].told = fate[c.inc]]
  <2> DEFINE w == waitpid(c.pid, "job")
             s == decode_job(w.word)
  <2>1. JobWaitReturns(h) /\ Unreaped(h) /\ c.phase \in {"owned", "jobwait"}
    BY <1>6 DEF wait_jobReturns, try_wait_job, JobWaitReturns, Unreaped
  <2>2. w.ret \in {"reaped", "event"}
    <3>1. w.ret \in {"none", "reaped", "event"}
      BY <2>1, WaitpidAnswers
    <3> QED
      BY <2>1, <3>1 DEF JobWaitReturns
  <2>3. /\ w.ret = "reaped" => s = fate[c.inc] /\ ~IsJobEvent(s) /\ fate[c.inc] \in Terminal
        /\ w.ret = "event" => IsJobEvent(s)
    BY <2>1, WaitpidAnswers
  <2>4. /\ child' = [child EXCEPT ![h].phase = "owned",
                        ![h].reaped = IF IsJobEvent(s) THEN @ ELSE s,
                        ![h].told = IF IsJobEvent(s) THEN @ ELSE s]
        /\ fate' = fate
    BY <2>1, <2>2 DEF JobWaitReturns
  <2> HIDE DEF w, s
  <2>5. CASE w.ret = "reaped"
    BY <2>1, <2>3, <2>4, <2>5
  <2>6. CASE w.ret = "event"
    <3>1. IsJobEvent(s)
      BY <2>3, <2>6
    <3>2. child' = [child EXCEPT ![h].phase = "owned"]
      BY <1>0, <2>4, <3>1 DEF ChildRecord
    <3> QED
      BY <2>1, <2>4, <3>2
  <2> QED
    BY <2>2, <2>5, <2>6
<1>7. \A i : fate[i] \in Terminal => fate[i] # NoStatus
  BY TerminalIsNotNone
<1>8. CASE try_wait(h) /\ c.reaped = NoStatus
  BY <1>0, <1>4, <1>7, <1>8 DEF ChildRecord
<1>9. CASE waitReturns(h)
  BY <1>0, <1>5, <1>7, <1>9 DEF ChildRecord
<1>10. CASE wait_jobReturns(h) \/ try_wait_job(h)
  BY <1>0, <1>6, <1>7, <1>10 DEF ChildRecord
<1> QED
  BY <1>2, <1>3, <1>8, <1>9, <1>10

\* Of the other steps, only a spawn and the end of a child concern a handle.
LEMMA OtherSteps ==
    ASSUME [Next]_vars
    PROVE  \/ \E p \in Pid, s \in Terminal : Terminate(p, s)
           \/ \E spec \in GroupSpecs, d \in BOOLEAN, h \in Handle, pid \in Pid :
                 Spawn(h, spec, d, pid)
           \/ \E h \in Handle :
                 \/ try_wait(h) \/ wait(h) \/ waitReturns(h) \/ wait_job(h)
                 \/ wait_jobReturns(h) \/ try_wait_job(h) \/ DropChild(h)
           \/ UNCHANGED <<child, fate>>
<1>1. ASSUME Kernel
      PROVE  (\E p \in Pid, s \in Terminal : Terminate(p, s)) \/ UNCHANGED <<child, fate>>
  BY <1>1 DEF Kernel, Fork, Stranger, ForeignTerminate, ForeignReap
<1>2. ASSUME NEW spec \in GroupSpecs, NEW d \in BOOLEAN,
             SpawnRefused(spec, d) \/ \E err \in {"NotFound", "Errno"} : SpawnFails(spec, d, err)
      PROVE  UNCHANGED <<child, fate>>
  BY <1>2 DEF SpawnRefused, SpawnFails
<1>3. ASSUME NEW h \in Handle, NEW sig \in SignalsSent, kill_single(h, sig) \/ kill_tree(h, sig)
      PROVE  UNCHANGED <<child, fate>>
  BY <1>3 DEF kill_single, kill_tree
<1>4. CASE UNCHANGED vars
  BY <1>4 DEF vars
<1> QED
  BY <1>1, <1>2, <1>3, <1>4 DEF Next, Program

\* Only a spawn touches a handle that has none, and it starts untold.
LEMMA SpawnStep ==
    ASSUME IndInv, NEW h \in Handle, NEW spec \in GroupSpecs, NEW d \in BOOLEAN,
           NEW pid \in Pid, Spawn(h, spec, d, pid)
    PROVE  /\ fate' = fate /\ child[h].phase = "none" /\ child[h].told = NoStatus
           /\ \A k \in Handle : k # h => child'[k] = child[k]
           /\ child'[h].phase = "owned" /\ child'[h].told = NoStatus
           /\ fate[child'[h].inc] = NoStatus
<1>1. child \in [Handle -> ChildRecord] /\ born \in 0..MaxBorn /\ born < MaxBorn
  BY DEF IndInv, TypeOK, Spawn
<1>2. fate[born + 1] = NoStatus
  BY <1>1, BoundAssumption DEF IndInv, Incarnations
<1>3. child[h].told = NoStatus
  BY DEF Spawn, IndInv, Incarnations, NoChild
<1> QED
  BY <1>1, <1>2, <1>3 DEF Spawn

LEMMA WaitedWasToldInd ==
    ASSUME IndInv, WaitedWasTold, [Next]_vars
    PROVE  WaitedWasTold'
<1>1. ASSUME NEW p \in Pid, NEW s \in Terminal, Terminate(p, s)
      PROVE  WaitedWasTold'
  BY <1>1 DEF Terminate, WaitedWasTold
<1>2. ASSUME NEW h \in Handle, NEW spec \in GroupSpecs, NEW d \in BOOLEAN, NEW pid \in Pid,
             Spawn(h, spec, d, pid)
      PROVE  WaitedWasTold'
  BY <1>2, SpawnStep DEF WaitedWasTold
<1>3. ASSUME NEW h \in Handle,
             \/ try_wait(h) \/ wait(h) \/ waitReturns(h) \/ wait_job(h)
             \/ wait_jobReturns(h) \/ try_wait_job(h) \/ DropChild(h)
      PROVE  WaitedWasTold'
  BY <1>3, HandleSteps DEF WaitedWasTold, InHand
<1>4. CASE UNCHANGED <<child, fate>>
  BY <1>4 DEF WaitedWasTold
<1> QED
  BY <1>1, <1>2, <1>3, <1>4, OtherSteps

\* What the contract sees of the handle h.
PhaseSeen(h) == IF child[h].phase \in {"waiting", "jobwait", "owned"}
                THEN "live" ELSE child[h].phase
OutcomeSeen(h) == IF child[h].phase = "none" THEN NoStatus ELSE fate[child[h].inc]
Phases == [h \in Handle |-> PhaseSeen(h)]
Outcomes == [h \in Handle |-> OutcomeSeen(h)]
Tolds == [h \in Handle |-> child[h].told]

LEMMA ContractIs ==
    /\ Contract!vars = <<Phases, Outcomes, Tolds>>
    /\ UNCHANGED <<Phases, Outcomes, Tolds>> => UNCHANGED Contract!vars
    /\ \A h \in Handle :
          /\ Phases[h] = "none" /\ Phases' = [Phases EXCEPT ![h] = "live"]
             /\ UNCHANGED <<Outcomes, Tolds>> => Contract!Spawn(h)
          /\ Phases[h] = "live" /\ Phases' = [Phases EXCEPT ![h] = "dropped"]
             /\ UNCHANGED <<Outcomes, Tolds>> => Contract!Discard(h)
          /\ Phases[h] = "live" /\ Outcomes[h] # NoStatus
             /\ Tolds' = [Tolds EXCEPT ![h] = Outcomes[h]]
             /\ UNCHANGED <<Phases, Outcomes>> => Contract!Poll(h)
          /\ Phases[h] = "live" /\ Outcomes[h] # NoStatus
             /\ Tolds' = [Tolds EXCEPT ![h] = Outcomes[h]]
             /\ Phases' = [Phases EXCEPT ![h] = "waited"]
             /\ UNCHANGED Outcomes => Contract!Collect(h)
          /\ \A s \in Terminal :
                Phases[h] \in {"live", "dropped"} /\ Outcomes[h] = NoStatus
                /\ Outcomes' = [Outcomes EXCEPT ![h] = s]
                /\ UNCHANGED <<Phases, Tolds>> => Contract!Finish(h, s)
<1> USE DEF Phases, Outcomes, Tolds, PhaseSeen, OutcomeSeen
<1>1. Contract!vars = <<Phases, Outcomes, Tolds>>
  BY DEF Contract!vars
<1>2. UNCHANGED <<Phases, Outcomes, Tolds>> => UNCHANGED Contract!vars
  BY DEF Contract!vars
<1>3. ASSUME NEW h \in Handle
      PROVE  /\ Phases[h] = "none" /\ Phases' = [Phases EXCEPT ![h] = "live"]
                /\ UNCHANGED <<Outcomes, Tolds>> => Contract!Spawn(h)
             /\ Phases[h] = "live" /\ Phases' = [Phases EXCEPT ![h] = "dropped"]
                /\ UNCHANGED <<Outcomes, Tolds>> => Contract!Discard(h)
  BY DEF Contract!Spawn, Contract!Discard
<1>4. ASSUME NEW h \in Handle
      PROVE  /\ Phases[h] = "live" /\ Outcomes[h] # NoStatus
                /\ Tolds' = [Tolds EXCEPT ![h] = Outcomes[h]]
                /\ UNCHANGED <<Phases, Outcomes>> => Contract!Poll(h)
             /\ Phases[h] = "live" /\ Outcomes[h] # NoStatus
                /\ Tolds' = [Tolds EXCEPT ![h] = Outcomes[h]]
                /\ Phases' = [Phases EXCEPT ![h] = "waited"]
                /\ UNCHANGED Outcomes => Contract!Collect(h)
  BY DEF Contract!Poll, Contract!Collect
<1>5. ASSUME NEW h \in Handle, NEW s \in Terminal
      PROVE  Phases[h] \in {"live", "dropped"} /\ Outcomes[h] = NoStatus
             /\ Outcomes' = [Outcomes EXCEPT ![h] = s]
             /\ UNCHANGED <<Phases, Tolds>> => Contract!Finish(h, s)
  BY DEF Contract!Finish
<1> HIDE DEF Phases, Outcomes, Tolds
<1> QED
  BY <1>1, <1>2, <1>3, <1>4, <1>5

\* The end of a child is the contract's Finish for the one handle that has it,
\* if it was neither reaped nor waited for.
LEMMA TerminateRefines ==
    ASSUME IndInv, WaitedWasTold, NEW p \in Pid, NEW s \in Terminal, Terminate(p, s)
    PROVE  (\E h \in Handle : Contract!Finish(h, s)) \/ UNCHANGED Contract!vars
<1> DEFINE i == proc[p].inc
<1>1. /\ Used(p) /\ proc[p].ours /\ proc[p].state # "zombie"
      /\ child' = child /\ fate' = [fate EXCEPT ![i] = s]
  BY DEF Terminate, Used
<1>2. fate \in [1..MaxBorn -> Terminal \union {NoStatus}] /\ born \in 0..MaxBorn
  BY DEF IndInv, TypeOK
<1>3. i \in 1..MaxBorn /\ fate[i] = NoStatus
  BY <1>1, <1>2, BoundAssumption DEF IndInv, Incarnations, FateIsInTheTable
<1>4. \A h \in Handle : child[h].phase # "none" => child[h].inc \in 1..MaxBorn
  BY <1>2, BoundAssumption DEF IndInv, Incarnations
<1> HIDE DEF i
<1>5. fate'[i] = s /\ \A j \in 1..MaxBorn : j # i => fate'[j] = fate[j]
  BY <1>1, <1>2, <1>3
<1>6. Phases' = Phases /\ Tolds' = Tolds
  BY <1>1 DEF Phases, Tolds, PhaseSeen
<1>7. \A h \in Handle : child[h].phase = "none" \/ child[h].inc # i =>
          OutcomeSeen(h)' = OutcomeSeen(h)
  BY <1>1, <1>4, <1>5 DEF OutcomeSeen
<1>8. CASE \A h \in Handle : child[h].phase = "none" \/ child[h].inc # i
  <2>1. Outcomes' = Outcomes
    BY <1>7, <1>8 DEF Outcomes
  <2> QED
    BY <1>6, <2>1, ContractIs
<1>9. CASE \E h \in Handle : child[h].phase # "none" /\ child[h].inc = i
  <2>1. PICK h \in Handle : child[h].phase # "none" /\ child[h].inc = i
    BY <1>9
  <2>2. \A k \in Handle : k # h => OutcomeSeen(k)' = OutcomeSeen(k)
    BY <1>7, <2>1 DEF IndInv, Incarnations
  <2>3. OutcomeSeen(h) = NoStatus /\ OutcomeSeen(h)' = s
    BY <1>1, <1>3, <1>5, <2>1 DEF OutcomeSeen
  <2>4. child[h].told = NoStatus
    BY <1>3, <2>1 DEF IndInv, StatusIsTrue
  <2>5. child[h].phase \in {"owned", "waiting", "jobwait", "dropped"}
    <3>1. child[h].phase \in {"none", "owned", "waiting", "jobwait", "waited", "dropped"}
      BY DEF IndInv, TypeOK, ChildRecord
    <3> QED
      BY <2>1, <2>4, <3>1 DEF WaitedWasTold
  <2>6. Outcomes' = [Outcomes EXCEPT ![h] = s]
    BY <2>2, <2>3 DEF Outcomes
  <2>7. Phases[h] \in {"live", "dropped"} /\ Outcomes[h] = NoStatus
    BY <2>3, <2>5 DEF Phases, PhaseSeen, Outcomes
  <2>8. Contract!Finish(h, s)
    BY <1>6, <2>6, <2>7, ContractIs
  <2> QED
    BY <2>8
<1> QED
  BY <1>8, <1>9

LEMMA SpawnRefines ==
    ASSUME IndInv, NEW h \in Handle, NEW spec \in GroupSpecs, NEW d \in BOOLEAN,
           NEW pid \in Pid, Spawn(h, spec, d, pid)
    PROVE  Contract!Spawn(h)
<1>1. /\ fate' = fate /\ child[h].phase = "none" /\ child[h].told = NoStatus
      /\ \A k \in Handle : k # h => child'[k] = child[k]
      /\ child'[h].phase = "owned" /\ child'[h].told = NoStatus
      /\ fate[child'[h].inc] = NoStatus
  BY SpawnStep
<1>2. Phases[h] = "none" /\ Phases' = [Phases EXCEPT ![h] = "live"]
  BY <1>1 DEF Phases, PhaseSeen
<1>3. Outcomes' = Outcomes
  BY <1>1 DEF Outcomes, OutcomeSeen
<1>4. Tolds' = Tolds
  BY <1>1 DEF Tolds
<1> QED
  BY <1>2, <1>3, <1>4, ContractIs

LEMMA HandleRefines ==
    ASSUME IndInv, NEW h \in Handle,
           \/ try_wait(h) \/ wait(h) \/ waitReturns(h) \/ wait_job(h)
           \/ wait_jobReturns(h) \/ try_wait_job(h) \/ DropChild(h)
    PROVE  \/ Contract!Poll(h) \/ Contract!Collect(h) \/ Contract!Discard(h)
           \/ UNCHANGED Contract!vars
<1>1. /\ fate' = fate
      /\ \A k \in Handle : k # h => child'[k] = child[k]
      /\ child[h].phase \in InHand /\ child'[h].inc = child[h].inc
      /\ \/ child'[h].told = child[h].told /\ child'[h].phase \in InHand \cup {"dropped"}
         \/ /\ child'[h].told = fate[child[h].inc] /\ fate[child[h].inc] # NoStatus
            /\ child'[h].phase \in {"owned", "waited"}
  BY HandleSteps
<1>2. Outcomes' = Outcomes /\ Outcomes[h] = fate[child[h].inc] /\ Phases[h] = "live"
  BY <1>1 DEF Outcomes, OutcomeSeen, Phases, PhaseSeen, InHand
<1>3. Phases' = [Phases EXCEPT ![h] = PhaseSeen(h)']
  BY <1>1 DEF Phases, PhaseSeen
<1>4. Tolds' = [Tolds EXCEPT ![h] = child'[h].told]
  BY <1>1 DEF Tolds
<1>5. [Phases EXCEPT ![h] = "live"] = Phases
  BY <1>2 DEF Phases
<1>6. CASE child'[h].told = child[h].told
  <2>1. Tolds' = Tolds
    BY <1>4, <1>6 DEF Tolds
  <2>2. CASE child'[h].phase \in InHand
    BY <1>2, <1>3, <1>5, <2>1, <2>2, ContractIs DEF PhaseSeen, InHand
  <2>3. CASE child'[h].phase = "dropped"
    BY <1>2, <1>3, <2>1, <2>3, ContractIs DEF PhaseSeen
  <2>4. CASE child'[h].phase = "waited"
    <3>1. fate[child[h].inc] # NoStatus /\ child'[h].told = fate[child[h].inc]
      BY <1>1, <2>4 DEF InHand
    <3> QED
      BY <1>2, <1>3, <1>4, <2>4, <3>1, ContractIs DEF PhaseSeen
  <2> QED
    BY <1>1, <2>2, <2>3, <2>4 DEF InHand
<1>7. CASE child'[h].told # child[h].told
  <2>1. /\ child'[h].told = fate[child[h].inc] /\ fate[child[h].inc] # NoStatus
        /\ child'[h].phase \in {"owned", "waited"}
    BY <1>1, <1>7
  <2>2. CASE child'[h].phase = "owned"
    BY <1>2, <1>3, <1>4, <1>5, <2>1, <2>2, ContractIs DEF PhaseSeen
  <2>3. CASE child'[h].phase = "waited"
    BY <1>2, <1>3, <1>4, <2>1, <2>3, ContractIs DEF PhaseSeen
  <2> QED
    BY <2>1, <2>2, <2>3
<1> QED
  BY <1>6, <1>7

\* The Linux child keeps the promises of the Child trait, for any number of
\* handles and pids: whatever is reported is how the process ended, polling
\* reports it as often as it is asked, and wait hands it over and ends.
THEOREM KeepsTheContract == Spec => ImplementsContract
<1>1. Init => WaitedWasTold
  BY DEF Init, WaitedWasTold, NoChild
<1>2. IndInv /\ WaitedWasTold /\ [Next]_vars => WaitedWasTold'
  BY WaitedWasToldInd
<1>3. Init => Contract!Init
  BY DEF Init, NoChild, Contract!Init
<1>4. IndInv /\ WaitedWasTold /\ [Next]_vars => [Contract!Next]_(Contract!vars)
  <2> SUFFICES ASSUME IndInv, WaitedWasTold, [Next]_vars
               PROVE  [Contract!Next]_(Contract!vars)
    OBVIOUS
  <2>1. ASSUME NEW p \in Pid, NEW s \in Terminal, Terminate(p, s)
        PROVE  [Contract!Next]_(Contract!vars)
    BY <2>1, TerminateRefines DEF Contract!Next
  <2>2. ASSUME NEW h \in Handle, NEW spec \in GroupSpecs, NEW d \in BOOLEAN, NEW pid \in Pid,
               Spawn(h, spec, d, pid)
        PROVE  [Contract!Next]_(Contract!vars)
    BY <2>2, SpawnRefines DEF Contract!Next
  <2>3. ASSUME NEW h \in Handle,
               \/ try_wait(h) \/ wait(h) \/ waitReturns(h) \/ wait_job(h)
               \/ wait_jobReturns(h) \/ try_wait_job(h) \/ DropChild(h)
        PROVE  [Contract!Next]_(Contract!vars)
    BY <2>3, HandleRefines DEF Contract!Next
  <2>4. CASE UNCHANGED <<child, fate>>
    <3>1. UNCHANGED <<Phases, Outcomes, Tolds>>
      BY <2>4 DEF Phases, Outcomes, Tolds, PhaseSeen, OutcomeSeen
    <3> QED
      BY <3>1, ContractIs
  <2> QED
    BY <2>1, <2>2, <2>3, <2>4, OtherSteps
<1> QED
  BY <1>1, <1>2, <1>3, <1>4, AlwaysIndInv, PTL DEF Spec, ImplementsContract, Contract!Spec
=============================================================================
